------------------------------ MODULE Agent_proofs ------------------------------
(* Theorems about the two ends of the agent's tunnel.  AgentHub: type       *)
(* correctness, the ownership of tunnel pipes and channels, the removal of  *)
(* session entries, and the status a cluster without runtime is left with   *)
(* when its last agent has gone.  AgentClient: type correctness, one        *)
(* session at a time, and what a handler leaves behind.                     *)
EXTENDS AgentHub, AgentClient, TLAPS

USE ClusterOfAssumption, NoneAssumption, RuntimeAssumption

-------------------------------------------------------------------------------
(* AgentHub                                                                 *)

(* Every variable keeps its type: in particular a handler or a dial never  *)
(* reaches a program point the code does not have.                         *)
THEOREM TypeCorrect == Spec => []TypeOK
<1>1. Init => TypeOK
  <2> SUFFICES ASSUME Init PROVE TypeOK
    OBVIOUS
  <2> USE DEF Init, HandlerState, Status, DialState, ChanState
  <2>1. registry \in [Clusters -> Status] /\ db \in [Clusters -> Status]
    OBVIOUS
  <2>2. /\ health \in [Runtimes -> {"none", "ready", "degraded", "ended"}]
        /\ publish \in [Runtimes -> {"none", "registry", "store"}]
    OBVIOUS
  <2>3. /\ runtime \in [Clusters -> Runtimes \cup {None}]
        /\ \A k \in Clusters : runtime[k] # None => ClusterOfRuntime(runtime[k]) = k
    BY DEF Runtimes, ClusterOfRuntime
  <2> QED BY <2>1, <2>2, <2>3 DEF TypeOK
<1>2. TypeOK /\ [Next]_vars => TypeOK'
  <2> SUFFICES ASSUME TypeOK, [Next]_vars PROVE TypeOK'
    OBVIOUS
  <2> USE DEF TypeOK, HandlerState, Registering, Leaving, Finished, Status,
              DialState, ChanState, sessionVars, statusVars, runtimeVars, column, tunnelVars
  <2>1. ASSUME NEW c \in Conns, ServeSignaling(c) PROVE TypeOK'
    BY <2>1 DEF ServeSignaling, Goto, Shut
  <2>2. ASSUME NEW c \in Conns, LosePeer(c) PROVE TypeOK'
    BY <2>2 DEF LosePeer
  <2>3. ASSUME NEW c \in Conns, Handler(c) PROVE TypeOK'
    <3>1. CASE RegisterLookup(c) BY <3>1 DEF RegisterLookup, Goto
    <3>2. CASE RegisterEvict(c)
      BY <3>2 DEF RegisterEvict, Goto, Shut
    <3>3. CASE RegisterInstall(c) BY <3>3 DEF RegisterInstall, Goto
    <3>4. CASE SendRegistered(c)
      BY <3>4 DEF SendRegistered, AbandonRegister, Goto, Shut
    <3>5. CASE ConfirmToken(c)
      BY <3>5 DEF ConfirmToken, AbandonRegister, Goto, Shut
    <3>6. CASE OnConnectRegistry(c) BY <3>6 DEF OnConnectRegistry, Goto
    <3>7. CASE OnConnectStore(c) BY <3>7 DEF OnConnectStore, WriteStatus, Goto
    <3>8. CASE AttachDialer(c) BY <3>8 DEF AttachDialer, Goto
    <3>15. CASE AttachInstall(c)
      BY <3>15 DEF AttachInstall, AtSelect, Runtimes, ClusterOfRuntime, Goto
    <3>9. CASE AttachStore(c) BY <3>9 DEF AttachStore, WriteStatus, Runtimes, Goto
    <3>10. CASE RunEnds(c) BY <3>10 DEF RunEnds, Goto
    <3>11. CASE OnExit(c) BY <3>11 DEF OnExit, Deregister, Goto, Shut
    <3>12. CASE OnDisconnectRegistry(c) BY <3>12 DEF OnDisconnectRegistry, Goto
    <3>13. CASE OnDisconnectStore(c) BY <3>13 DEF OnDisconnectStore, WriteStatus, Goto
    <3>14. CASE CloseSession(c) BY <3>14 DEF CloseSession, Shut
    <3> QED
      BY <2>3, <3>1, <3>2, <3>3, <3>4, <3>5, <3>6, <3>7, <3>8, <3>9, <3>10,
         <3>11, <3>12, <3>13, <3>14, <3>15 DEF Handler
  <2>4. ASSUME NEW k \in Clusters, RevokeToken(k) PROVE TypeOK'
    BY <2>4 DEF RevokeToken
  <2>5. ASSUME NEW o \in Runtimes, Health(o) PROVE TypeOK'
    <3>0. ClusterOfRuntime(o) \in Clusters BY DEF Runtimes, ClusterOfRuntime
    <3>1. CASE HealthRecovered(o) BY <3>1 DEF HealthRecovered, HealthChange
    <3>2. CASE HealthFailing(o) BY <3>2 DEF HealthFailing, HealthChange
    <3>3. CASE HealthPublish(o) BY <3>0, <3>3 DEF HealthPublish, WriteStatus
    <3> QED BY <2>5, <3>1, <3>2, <3>3 DEF Health
  <2>6. CASE Close
    <3>1. closing' \in SUBSET Conns BY <2>6 DEF Close
    <3>2. sessions' \in [Clusters -> Conns \cup {None}] BY <2>6 DEF Close
    <3>3. shut' \in BOOLEAN BY <2>6 DEF Close
    <3> QED BY <2>6, <3>1, <3>2, <3>3 DEF Close
  <2>7. ASSUME NEW d \in Dials, Dial(d) PROVE TypeOK'
    BY <2>7 DEF Dial, TakePipe, SendDial, DialReceive, DialTimeout, DropPipe, WithoutPipe
  <2>8. ASSUME NEW d \in Dials, AgentDial(d) PROVE TypeOK'
    BY <2>8 DEF AgentDial
  <2>9. ASSUME NEW d \in Dials, Data(d) PROVE TypeOK'
    BY <2>9 DEF Data, ServeData, ServeUpgrade, ConsumerClose, ConsumePipe
  <2>10. ASSUME NEW d \in Dials, NEW k \in Clusters, DialStart(d, k) PROVE TypeOK'
    BY <2>10 DEF DialStart
  <2>11. CASE UNCHANGED vars BY <2>11 DEF vars
  <2> QED
    BY <2>1, <2>2, <2>3, <2>4, <2>5, <2>6, <2>7, <2>8, <2>9, <2>10, <2>11 DEF Next
<1> QED BY <1>1, <1>2, PTL DEF Spec

-----------------------------------------------------------------------------
(* Tunnel dials                                                             *)

(* What holds of one dial and of the channel opened for its connId: before *)
(* the dial frame is written nothing answers it, a pipe is still in the    *)
(* table only while no request has claimed it, and every stage remembers   *)
(* the session that was picked.                                            *)
DialInv(d) ==
  /\ dpc[d] \in {"idle", "picked", "piped"} => chan[d] = "none" /\ d \notin frames
  /\ d \in frames => chan[d] = "none"
  /\ d \in pipes => dpc[d] \in {"piped", "waiting", "dropping"}
                     /\ chan[d] \in {"none", "requested"}
  /\ dpc[d] = "ok" => chan[d] \in {"held", "closed"}
  /\ chan[d] = "held" => dpc[d] = "ok"
  /\ dpc[d] \notin {"idle", "failed"} \/ d \in frames \/ chan[d] # "none"
       => dsess[d] # None

TunnelInv == \A d \in Dials : DialInv(d)

(* The tunnel variables change only in the steps of one dial.              *)
LEMMA TunnelStep ==
  ASSUME [Next]_vars
  PROVE  \/ UNCHANGED tunnelVars
         \/ \E d \in Dials : \/ Dial(d) \/ AgentDial(d) \/ Data(d)
                            \/ \E k \in Clusters : DialStart(d, k)
<1>1. ASSUME NEW c \in Conns, ServeSignaling(c) \/ LosePeer(c) \/ Handler(c)
      PROVE UNCHANGED tunnelVars
  BY <1>1 DEF ServeSignaling, LosePeer, Handler, RegisterLookup, RegisterEvict,
     RegisterInstall, SendRegistered, ConfirmToken, AbandonRegister,
     OnConnectRegistry, OnConnectStore, AttachDialer, AttachInstall, AttachStore, RunEnds,
     OnExit, OnDisconnectRegistry, OnDisconnectStore, CloseSession
<1>2. ASSUME NEW k \in Clusters, RevokeToken(k) PROVE UNCHANGED tunnelVars
  BY <1>2 DEF RevokeToken
<1>5. ASSUME NEW o \in Runtimes, Health(o) PROVE UNCHANGED tunnelVars
  BY <1>5 DEF Health, HealthRecovered, HealthFailing, HealthChange, HealthPublish
<1>3. CASE Close BY <1>3 DEF Close
<1>4. CASE UNCHANGED vars BY <1>4 DEF vars
<1> QED BY <1>1, <1>2, <1>3, <1>4, <1>5 DEF Next

LEMMA TunnelInvStep == TypeOK /\ TunnelInv /\ [Next]_vars => TunnelInv'
<1> SUFFICES ASSUME TypeOK, TunnelInv, [Next]_vars, NEW e \in Dials
             PROVE DialInv(e)'
  BY DEF TunnelInv
<1>0. DialInv(e) BY DEF TunnelInv
<1>t. /\ pipes \in SUBSET Dials /\ dpc \in [Dials -> DialState]
      /\ dsess \in [Dials -> Conns \cup {None}]
      /\ frames \in SUBSET Dials /\ chan \in [Dials -> ChanState]
      /\ sessions \in [Clusters -> Conns \cup {None}]
  BY DEF TypeOK
<1> USE DEF DialInv
<1>1. CASE UNCHANGED tunnelVars BY <1>0, <1>1 DEF tunnelVars
<1>2. ASSUME NEW d \in Dials, Dial(d) PROVE DialInv(e)'
  <2>1. CASE TakePipe(d) BY <1>0, <1>t, <2>1 DEF TakePipe
  <2>2. CASE SendDial(d) BY <1>0, <1>t, <2>2 DEF SendDial
  <2>3. CASE DialReceive(d) BY <1>0, <1>t, <2>3 DEF DialReceive
  <2>4. CASE DialTimeout(d) BY <1>0, <1>t, <2>4 DEF DialTimeout
  <2>5. CASE DropPipe(d) BY <1>0, <1>t, <2>5 DEF DropPipe, WithoutPipe
  <2> QED BY <1>2, <2>1, <2>2, <2>3, <2>4, <2>5 DEF Dial
<1>3. ASSUME NEW d \in Dials, AgentDial(d) PROVE DialInv(e)'
  BY <1>0, <1>t, <1>3 DEF AgentDial
<1>4. ASSUME NEW d \in Dials, Data(d) PROVE DialInv(e)'
  <2>1. CASE ServeData(d) BY <1>0, <1>t, <2>1 DEF ServeData, ConsumePipe
  <2>2. CASE ServeUpgrade(d) BY <1>0, <1>t, <2>2 DEF ServeUpgrade
  <2>3. CASE ConsumerClose(d) BY <1>0, <1>t, <2>3 DEF ConsumerClose
  <2> QED BY <1>4, <2>1, <2>2, <2>3 DEF Data
<1>5. ASSUME NEW d \in Dials, NEW k \in Clusters, DialStart(d, k) PROVE DialInv(e)'
  BY <1>0, <1>t, <1>5 DEF DialStart
<1> QED BY <1>1, <1>2, <1>3, <1>4, <1>5, TunnelStep

LEMMA TunnelInvariant == Spec => []TunnelInv
<1>1. Init => TunnelInv
  BY DEF Init, TunnelInv, DialInv
<1> QED BY <1>1, TunnelInvStep, TypeCorrect, PTL DEF Spec

(* No interleaving of a dial, its time-out and the agent's data channel    *)
(* leaves an entry in Hub.pipes after DialContext has returned.            *)
THEOREM PipeAlwaysHasDialer == Spec => []PipeHasDialer
<1>1. TunnelInv /\ TypeOK => PipeHasDialer
  BY DEF TunnelInv, DialInv, PipeHasDialer, TypeOK
<1> QED BY <1>1, TunnelInvariant, TypeCorrect, PTL

(* A dial returns only the channel opened for its own connId, and nobody   *)
(* else can be given that channel.                                         *)
THEOREM ChannelAlwaysMatchesDial == Spec => []ChannelMatchesDial
<1>1. TunnelInv => ChannelMatchesDial
  BY DEF TunnelInv, DialInv, ChannelMatchesDial
<1> QED BY <1>1, TunnelInvariant, PTL

-----------------------------------------------------------------------------
(* A connId is a one-time voucher                                           *)

LEMMA PhaseOf ==
  ASSUME NEW d \in Dials
  PROVE  phase[d] = IF dpc[d] \in {"idle", "picked"} THEN "unused"
                    ELSE IF dpc[d] = "ok" THEN "redeemed"
                    ELSE IF d \in pipes THEN "open"
                    ELSE IF dpc[d] = "waiting" /\ chan[d] \in {"upgrading", "buffered"}
                    THEN "taken" ELSE "void"
BY DEF phase

LEMMA PhaseNext ==
  ASSUME NEW d \in Dials
  PROVE  phase'[d] = IF dpc'[d] \in {"idle", "picked"} THEN "unused"
                     ELSE IF dpc'[d] = "ok" THEN "redeemed"
                     ELSE IF d \in pipes' THEN "open"
                     ELSE IF dpc'[d] = "waiting" /\ chan'[d] \in {"upgrading", "buffered"}
                     THEN "taken" ELSE "void"
BY DEF phase

(* The step of one dial: its own connId moves on or becomes void.          *)
LEMMA OneMoves ==
  ASSUME NEW d \in Dials, \A e \in Dials : e # d => phase'[e] = phase[e],
         \/ phase'[d] = phase[d]
         \/ phase[d] = "unused" /\ phase'[d] = "open"
         \/ phase[d] = "open" /\ phase'[d] = "taken"
         \/ phase[d] = "taken" /\ phase'[d] = "redeemed"
         \/ phase[d] # "redeemed" /\ phase'[d] = "void"
  PROVE  [Promise!Next]_phase
<1>1. phase = [e \in Dials |-> phase[e]] /\ phase' = [e \in Dials |-> phase'[e]]
  BY DEF phase
<1> HIDE DEF phase
<1>2. ASSUME NEW from, NEW to, phase[d] = from, phase'[d] = to
      PROVE  Promise!Move(d, from, to)
  <2>1. phase' = [phase EXCEPT ![d] = to]
    BY <1>1, <1>2
  <2> QED BY <1>2, <2>1 DEF Promise!Move
<1>3. CASE phase'[d] = phase[d]
  BY <1>1, <1>3
<1>4. CASE phase[d] = "unused" /\ phase'[d] = "open"
  BY <1>2, <1>4 DEF Promise!Next, Promise!Offer
<1>5. CASE phase[d] = "open" /\ phase'[d] = "taken"
  BY <1>2, <1>5 DEF Promise!Next, Promise!Take
<1>6. CASE phase[d] = "taken" /\ phase'[d] = "redeemed"
  BY <1>2, <1>6 DEF Promise!Next, Promise!Redeem
<1>7. CASE phase[d] # "redeemed" /\ phase'[d] = "void"
  <2>1. phase' = [e \in Dials |-> IF e \in {d} THEN "void" ELSE phase[e]]
    BY <1>1, <1>7
  <2>2. Promise!Spoil({d})
    BY <1>7, <2>1 DEF Promise!Spoil
  <2> QED BY <2>2 DEF Promise!Next
<1> QED BY <1>3, <1>4, <1>5, <1>6, <1>7

LEMMA DialsMapped == TypeOK /\ TunnelInv /\ [Next]_vars => [Promise!Next]_phase
<1> SUFFICES ASSUME TypeOK, TunnelInv, [Next]_vars PROVE [Promise!Next]_phase
  OBVIOUS
<1> HIDE DEF phase
<1>t. /\ pipes \in SUBSET Dials /\ dpc \in [Dials -> DialState]
      /\ chan \in [Dials -> ChanState]
  BY DEF TypeOK
<1>1. CASE UNCHANGED tunnelVars
  BY <1>1 DEF tunnelVars, phase
<1>2. ASSUME NEW d \in Dials,
             Dial(d) \/ AgentDial(d) \/ Data(d) \/ \E k \in Clusters : DialStart(d, k)
      PROVE  [Promise!Next]_phase
  <2>1. \A e \in Dials : e # d =>
          /\ dpc'[e] = dpc[e] /\ chan'[e] = chan[e] /\ (e \in pipes' <=> e \in pipes)
    BY <1>2, <1>t DEF Dial, TakePipe, SendDial, DialReceive, DialTimeout, DropPipe,
       WithoutPipe, AgentDial, Data, ServeData, ServeUpgrade, ConsumerClose,
       ConsumePipe, DialStart
  <2>2. \A e \in Dials : e # d => phase'[e] = phase[e]
    BY <2>1, PhaseOf, PhaseNext
  <2>3. DialInv(d)
    BY DEF TunnelInv
  <2>4. CASE TakePipe(d)
    <3>1. \/ phase[d] = "unused" /\ phase'[d] = "open"
          \/ phase[d] # "redeemed" /\ phase'[d] = "void"
      BY <1>t, <2>3, <2>4, PhaseOf, PhaseNext DEF TakePipe, DialInv
    <3> QED BY <2>2, <3>1, OneMoves
  <2>5. CASE SendDial(d)
    <3>1. phase'[d] = phase[d] \/ (phase[d] # "redeemed" /\ phase'[d] = "void")
      BY <1>t, <2>3, <2>5, PhaseOf, PhaseNext DEF SendDial, DialInv
    <3> QED BY <2>2, <3>1, OneMoves
  <2>6. CASE DialReceive(d)
    <3>1. d \notin pipes
      BY <2>3, <2>6 DEF DialReceive, DialInv
    <3>2. phase[d] = "taken" /\ phase'[d] = "redeemed"
      BY <1>t, <2>6, <3>1, PhaseOf, PhaseNext DEF DialReceive
    <3> QED BY <2>2, <3>2, OneMoves
  <2>7. CASE DialTimeout(d) \/ DropPipe(d)
    <3>1. phase'[d] = phase[d] \/ (phase[d] # "redeemed" /\ phase'[d] = "void")
      BY <1>t, <2>7, PhaseOf, PhaseNext DEF DialTimeout, DropPipe, WithoutPipe
    <3> QED BY <2>2, <3>1, OneMoves
  <2>8. CASE AgentDial(d)
    <3>1. chan[d] = "none"
      BY <2>3, <2>8 DEF AgentDial, DialInv
    <3>2. phase'[d] = phase[d]
      BY <1>t, <2>8, <3>1, PhaseOf, PhaseNext DEF AgentDial
    <3> QED BY <2>2, <3>2, OneMoves
  <2>9. CASE ServeData(d)
    <3>1. \/ phase'[d] = phase[d]
          \/ phase[d] = "open" /\ phase'[d] = "taken"
          \/ phase[d] # "redeemed" /\ phase'[d] = "void"
      BY <1>t, <2>3, <2>9, PhaseOf, PhaseNext DEF ServeData, ConsumePipe, DialInv
    <3> QED BY <2>2, <3>1, OneMoves
  <2>10. CASE ServeUpgrade(d) \/ ConsumerClose(d)
    <3>1. phase'[d] = phase[d] \/ (phase[d] # "redeemed" /\ phase'[d] = "void")
      BY <1>t, <2>3, <2>10, PhaseOf, PhaseNext DEF ServeUpgrade, ConsumerClose, DialInv
    <3> QED BY <2>2, <3>1, OneMoves
  <2>11. ASSUME NEW k \in Clusters, DialStart(d, k) PROVE [Promise!Next]_phase
    <3>1. phase'[d] = phase[d] \/ (phase[d] # "redeemed" /\ phase'[d] = "void")
      BY <1>t, <2>3, <2>11, PhaseOf, PhaseNext DEF DialStart, DialInv
    <3> QED BY <2>2, <3>1, OneMoves
  <2> QED
    BY <1>2, <2>4, <2>5, <2>6, <2>7, <2>8, <2>9, <2>10, <2>11 DEF Dial, Data
<1> QED BY <1>1, <1>2, TunnelStep

(* The tunnel keeps the promise of Voucher for every connId: whatever the  *)
(* order of dials, time-outs, dial frames, data channels, replaced         *)
(* sessions and the shutdown, a connId is claimed at most once, only the   *)
(* dial that registered it is given the channel of that claim, and one     *)
(* that has been given up is never honoured.                               *)
THEOREM ConnIdsImplementVouchers == Spec => ConnIdsAreVouchers
<1>1. Init => Promise!Init
  <2> SUFFICES ASSUME Init PROVE Promise!Init
    OBVIOUS
  <2>1. \A d \in Dials : dpc[d] = "idle"
    BY DEF Init
  <2> QED BY <2>1 DEF Promise!Init, phase
<1> QED
  BY <1>1, DialsMapped, TunnelInvariant, TypeCorrect, PTL
     DEF Spec, ConnIdsAreVouchers, Promise!Spec

-----------------------------------------------------------------------------
(* Session entries                                                          *)

(* The only steps that empty an entry of Hub.sessions are the exit of the  *)
(* session it holds and Hub.Close: an old handler that ends late cannot    *)
(* unregister its successor.                                               *)
THEOREM OwnEntryRemoved == Spec => OnlyOwnEntryRemoved
<1> DEFINE Removal == \A k \in Clusters :
       sessions[k] # None /\ sessions'[k] = None
         => ws'[sessions[k]] = "closed" \/ sessions[k] \in closing'
<1>1. TypeOK /\ [Next]_vars => [Removal]_vars
  <2> SUFFICES ASSUME TypeOK, Next PROVE Removal
    OBVIOUS
  <2>t. /\ sessions \in [Clusters -> Conns \cup {None}]
        /\ ws \in [Conns -> {"up", "lost", "closed"}]
    BY DEF TypeOK
  <2>1. ASSUME NEW c \in Conns, ServeSignaling(c) \/ LosePeer(c) PROVE Removal
    BY <2>1 DEF ServeSignaling, LosePeer
  <2>2. ASSUME NEW c \in Conns, Handler(c) PROVE Removal
    <3>1. CASE RegisterLookup(c) BY <2>t, <3>1 DEF RegisterLookup
    <3>2. CASE RegisterInstall(c) BY <2>t, <3>2 DEF RegisterInstall
    <3>3. CASE OnExit(c) BY <2>t, <3>3 DEF OnExit, Deregister, Shut
    <3>4. CASE UNCHANGED sessions BY <3>4
    <3> QED
      BY <2>2, <3>1, <3>2, <3>3, <3>4 DEF Handler, RegisterEvict, SendRegistered,
         ConfirmToken, AbandonRegister, OnConnectRegistry, OnConnectStore,
         AttachDialer, AttachInstall, AttachStore, RunEnds, OnDisconnectRegistry,
         OnDisconnectStore, CloseSession
  <2>3. ASSUME NEW k \in Clusters, RevokeToken(k) PROVE Removal
    BY <2>3 DEF RevokeToken
  <2>7. ASSUME NEW o \in Runtimes, Health(o) PROVE Removal
    BY <2>7 DEF Health, HealthRecovered, HealthFailing, HealthChange, HealthPublish,
       sessionVars
  <2>4. CASE Close BY <2>4, <2>t DEF Close
  <2>5. ASSUME NEW d \in Dials, Dial(d) \/ AgentDial(d) \/ Data(d) PROVE Removal
    BY <2>5 DEF Dial, TakePipe, SendDial, DialReceive, DialTimeout, DropPipe,
       AgentDial, Data, ServeData, ServeUpgrade, ConsumerClose, sessionVars
  <2>6. ASSUME NEW d \in Dials, NEW k \in Clusters, DialStart(d, k) PROVE Removal
    BY <2>6 DEF DialStart, sessionVars
  <2> QED BY <2>1, <2>2, <2>3, <2>4, <2>5, <2>6, <2>7 DEF Next
<1> QED BY <1>1, TypeCorrect, PTL DEF Spec, OnlyOwnEntryRemoved

-----------------------------------------------------------------------------
(* The status a cluster without runtime is left with                        *)

Past(k, S) == \E c \in Conns : ClusterOf[c] = k /\ pc[c] \in S

(* The handlers after OnConnect's write to a table and before OnDisconnect's *)
StoreSpan    == {"attach", "join", "attached", "running", "exit", "left", "leftStore"}
RegistrySpan == {"connected", "attach", "join", "attached", "running", "exit", "left"}

(* While a cluster has no runtime it has no health loop either, and nobody *)
(* is attaching to one.                                                    *)
NoLoop(k) ==
  runtime[k] = None =>
    /\ \A o \in Runtimes : ClusterOfRuntime(o) = k => health[o] = "none"
    /\ ~Past(k, {"join", "attached"})

(* The registry says ready only while some handler is between its two Puts *)
(* there, and offline only if no handler has made the first one; so does   *)
(* the store, unless the last write of it failed.                          *)
StatusInv(k) ==
  runtime[k] = None =>
    /\ k \notin unsaved =>
         /\ db[k] = "ready" => Past(k, StoreSpan)
         /\ db[k] = "offline" => ~Past(k, StoreSpan \cup {"done"})
    /\ registry[k] = "ready" => Past(k, RegistrySpan)
    /\ registry[k] = "offline" => ~Past(k, RegistrySpan \cup {"leftStore", "done"})

LEMMA StatusInvStep ==
  ASSUME TypeOK, [Next]_vars, NEW k \in Clusters, NoLoop(k), StatusInv(k)
  PROVE  NoLoop(k)' /\ StatusInv(k)'
<1>t. /\ pc \in [Conns -> HandlerState] /\ unsaved \in SUBSET Clusters
      /\ registry \in [Clusters -> Status] /\ db \in [Clusters -> Status]
      /\ runtime \in [Clusters -> Runtimes \cup {None}]
      /\ health \in [Runtimes -> {"none", "ready", "degraded", "ended"}]
      /\ \A o \in Runtimes : publish[o] # "none" => health[o] \in {"ready", "degraded"}
  BY DEF TypeOK
<1>r. \A c \in Conns : c \in Runtimes /\ c # None /\ ClusterOfRuntime(c) = ClusterOf[c]
  BY DEF Runtimes, ClusterOfRuntime
<1> SUFFICES ASSUME runtime'[k] = None PROVE NoLoop(k)' /\ StatusInv(k)'
  BY DEF NoLoop, StatusInv
<1> USE <1>t, <1>r DEF NoLoop, StatusInv, Past, StoreSpan, RegistrySpan, runtimeVars, column
<1>q. CASE UNCHANGED <<pc, registry, column, runtime, health>> BY <1>q
<1>1. ASSUME NEW c \in Conns, ServeSignaling(c) PROVE NoLoop(k)' /\ StatusInv(k)'
  BY <1>1 DEF ServeSignaling, Goto, statusVars
<1>2. ASSUME NEW c \in Conns, Handler(c) PROVE NoLoop(k)' /\ StatusInv(k)'
  <2>1. CASE RegisterLookup(c) BY <2>1 DEF RegisterLookup, Goto, statusVars
  <2>2. CASE RegisterEvict(c) BY <2>2 DEF RegisterEvict, Goto, statusVars
  <2>3. CASE RegisterInstall(c) BY <2>3 DEF RegisterInstall, Goto, statusVars
  <2>4. CASE SendRegistered(c)
    BY <2>4 DEF SendRegistered, AbandonRegister, Goto, statusVars
  <2>5. CASE ConfirmToken(c)
    BY <2>5 DEF ConfirmToken, AbandonRegister, Goto, statusVars
  <2>6. CASE OnConnectRegistry(c) BY <2>6 DEF OnConnectRegistry, Goto
  <2>7. CASE OnConnectStore(c) BY <2>7 DEF OnConnectStore, WriteStatus, Goto
  <2>8. CASE AttachDialer(c) BY <2>8 DEF AttachDialer, Goto
  <2>15. CASE AttachInstall(c)
    <3>1. ClusterOf[c] # k
      BY <2>15 DEF AttachInstall
    <3> QED BY <2>15, <3>1 DEF AttachInstall, AtSelect, Goto
  <2>9. CASE AttachStore(c)
    <3>1. ClusterOf[c] # k
      BY <2>9 DEF AttachStore
    <3> QED BY <2>9, <3>1 DEF AttachStore, WriteStatus, Goto
  <2>10. CASE RunEnds(c) BY <2>10 DEF RunEnds, Goto, statusVars
  <2>11. CASE OnExit(c) BY <2>11 DEF OnExit, Goto, statusVars
  <2>12. CASE OnDisconnectRegistry(c) BY <2>12 DEF OnDisconnectRegistry, Goto
  <2>13. CASE OnDisconnectStore(c) BY <2>13 DEF OnDisconnectStore, WriteStatus, Goto
  <2>14. CASE CloseSession(c) BY <1>q, <2>14 DEF CloseSession, statusVars
  <2> QED
    BY <1>2, <2>1, <2>2, <2>3, <2>4, <2>5, <2>6, <2>7, <2>8, <2>9, <2>10,
       <2>11, <2>12, <2>13, <2>14, <2>15 DEF Handler
<1>3. ASSUME NEW o \in Runtimes, Health(o) PROVE NoLoop(k)' /\ StatusInv(k)'
  <2>1. runtime' = runtime /\ pc' = pc
    BY <1>3 DEF Health, HealthRecovered, HealthFailing, HealthChange, HealthPublish,
                sessionVars
  <2>2. health[o] # "none"
    BY <1>3 DEF Health, HealthRecovered, HealthFailing, HealthChange, HealthPublish
  <2>3. ClusterOfRuntime(o) # k
    BY <2>1, <2>2
  <2>4. CASE HealthRecovered(o) \/ HealthFailing(o)
    BY <2>1, <2>3, <2>4 DEF HealthRecovered, HealthFailing, HealthChange
  <2>5. CASE HealthPublish(o)
    BY <2>1, <2>3, <2>5 DEF HealthPublish, WriteStatus
  <2> QED BY <1>3, <2>4, <2>5 DEF Health
<1>4. ASSUME NEW c \in Conns, LosePeer(c) PROVE NoLoop(k)' /\ StatusInv(k)'
  BY <1>q, <1>4 DEF LosePeer, statusVars
<1>5. ASSUME NEW h \in Clusters, RevokeToken(h) PROVE NoLoop(k)' /\ StatusInv(k)'
  BY <1>q, <1>5 DEF RevokeToken, statusVars
<1>6. CASE Close BY <1>q, <1>6 DEF Close, statusVars
<1>7. ASSUME NEW d \in Dials, Dial(d) \/ AgentDial(d) \/ Data(d)
      PROVE NoLoop(k)' /\ StatusInv(k)'
  BY <1>q, <1>7 DEF Dial, TakePipe, SendDial, DialReceive, DialTimeout, DropPipe,
     AgentDial, Data, ServeData, ServeUpgrade, ConsumerClose, sessionVars, statusVars
<1>8. ASSUME NEW d \in Dials, NEW h \in Clusters, DialStart(d, h)
      PROVE NoLoop(k)' /\ StatusInv(k)'
  BY <1>q, <1>8 DEF DialStart, sessionVars, statusVars
<1>9. CASE UNCHANGED vars BY <1>q, <1>9 DEF vars, sessionVars, statusVars
<1> QED BY <1>1, <1>2, <1>3, <1>4, <1>5, <1>6, <1>7, <1>8, <1>9 DEF Next

(* However many agents of a cluster overlap, and in whatever order their   *)
(* OnConnect and OnDisconnect writes interleave or fail, the last handler  *)
(* to end leaves the registry at degraded and, unless the last write of    *)
(* the status column failed, the column too (cluster without runtime).     *)
THEOREM LastHandlerDegrades == Spec => []DegradedWhenGone
<1> DEFINE SInv == \A k \in Clusters : NoLoop(k) /\ StatusInv(k)
<1>1. Init => SInv
  BY DEF Init, NoLoop, StatusInv, Past, StoreSpan, RegistrySpan, Runtimes, ClusterOfRuntime
<1>2. TypeOK /\ SInv /\ [Next]_vars => SInv'
  BY StatusInvStep
<1>3. TypeOK /\ SInv => DegradedWhenGone
  <2> SUFFICES ASSUME TypeOK, SInv, NEW k \in Clusters, runtime[k] = None,
                      \A c \in Conns : ClusterOf[c] = k => pc[c] \in {"idle"} \cup Finished,
                      NEW c \in Conns, ClusterOf[c] = k, pc[c] = "done"
               PROVE  registry[k] = "degraded" /\ (k \in unsaved \/ db[k] = "degraded")
    BY DEF DegradedWhenGone
  <2>1. registry[k] \in Status /\ db[k] \in Status BY DEF TypeOK
  <2>2. ~Past(k, StoreSpan) /\ ~Past(k, RegistrySpan)
    BY DEF Past, StoreSpan, RegistrySpan, Finished
  <2>3. Past(k, StoreSpan \cup {"done"}) /\ Past(k, RegistrySpan \cup {"leftStore", "done"})
    BY DEF Past
  <2> QED BY <2>1, <2>2, <2>3 DEF StatusInv, Status
<1> QED BY <1>1, <1>2, <1>3, TypeCorrect, PTL DEF Spec

-------------------------------------------------------------------------------
(* AgentClient.  Sessions are numbered as they register, and a frame is     *)
(* handled for a session that has registered.  What a handler leaves behind *)
(* follows from what it holds at each of its places: HandlerHolds.          *)
HandlerHolds(h) ==
  /\ h.at # "idle" => h.sess \in 1..cur
  /\ h.at \in {"idle", "target"} => h.target = "none"
  /\ h.at \in {"idle", "target", "data"} =>
       h.tunnel = "none" /\ h.up = "none" /\ h.down = "none"
  /\ h.at \in {"copy", "join"} => h.up # "none" /\ h.down # "none"
  /\ h.at = "join" => h.tunnel = "closed" /\ h.target = "closed"
  /\ h.up = "ended" => h.tunnel = "closed"
  /\ h.down = "ended" => h.target = "closed"
  /\ h.at = "done" => h.target # "open" /\ h.tunnel # "open" /\ h.up # "runs" /\ h.down # "runs"

ClientInv ==
  /\ ClientTypeOK
  /\ OneSessionAtATime
  /\ \A s \in Sessions : s > cur => sess[s] = Fresh
  /\ \A d \in DialFrames : HandlerHolds(dial[d])

(* The agent starts without a session and without a handler.                *)
LEMMA ClientInitInv == ClientInit => ClientInv
<1> SUFFICES ASSUME ClientInit PROVE ClientInv
  OBVIOUS
<1>1. Fresh \in SessionRecord /\ NoDial \in DialRecord
  BY AgentClientAssumption DEF Fresh, SessionRecord, NoDial, DialRecord
<1>2. ClientTypeOK
  <2>1. backoff \in BackoffStart..BackoffMax /\ cur \in 0..MaxSessions
    BY AgentClientAssumption DEF ClientInit
  <2>2. sess \in [Sessions -> SessionRecord] /\ dial \in [DialFrames -> DialRecord]
    BY <1>1 DEF ClientInit
  <2> QED BY <2>1, <2>2 DEF ClientInit, ClientTypeOK
<1>3. OneSessionAtATime /\ \A s \in Sessions : s > cur => sess[s] = Fresh
  BY DEF ClientInit, OneSessionAtATime, Fresh
<1>4. HandlerHolds(NoDial)
  BY DEF HandlerHolds, NoDial
<1> QED BY <1>2, <1>3, <1>4 DEF ClientInit, ClientInv

(* Run and runOnce: a session registers only when the one before it has     *)
(* been closed.                                                             *)
LEMMA LoopKeeps ==
  ASSUME ClientInv, Loop
  PROVE  ClientInv'
<1> USE AgentClientAssumption
    DEF ClientInv, ClientTypeOK, OneSessionAtATime, HandlerHolds, Sessions, Serving
<1>1. CASE Attempt
  BY <1>1 DEF Attempt
<1>2. CASE DialSignaling
  BY <1>2 DEF DialSignaling
<1>3. CASE Register
  BY <1>3 DEF Register, Registered, SessionRecord
<1>4. CASE ReadFails
  <2> DEFINE closed == [sess[cur] EXCEPT !.ws = "closed"]
  <2>1. /\ run = "serve" /\ cur \in Sessions /\ run' = "lost"
        /\ sess' = [sess EXCEPT ![cur] = closed]
        /\ UNCHANGED <<backoff, cur, stopped, dial>>
    BY <1>4 DEF ReadFails
  <2>2. closed \in SessionRecord /\ closed.ws = "closed"
    BY <2>1 DEF SessionRecord
  <2>3. ClientTypeOK'
    BY <2>1, <2>2
  <2>4. OneSessionAtATime' /\ \A s \in Sessions : s > cur' => sess'[s] = Fresh
    BY <2>1, <2>2
  <2> QED BY <2>1, <2>3, <2>4
<1>5. CASE Retry
  BY <1>5 DEF Retry
<1>6. CASE Wait
  BY <1>6 DEF Wait, Least
<1> QED BY <1>1, <1>2, <1>3, <1>4, <1>5, <1>6 DEF Loop

(* The goroutines of a session, and its server: they close its socket and   *)
(* open none.                                                               *)
LEMMA SessionKeeps ==
  ASSUME ClientInv, NEW s \in Sessions,
         BeatFails(s) \/ BeatStops(s) \/ WatchEnds(s) \/ ServerGone(s)
  PROVE  ClientInv'
<1> USE DEF ClientInv, ClientTypeOK, OneSessionAtATime, HandlerHolds, Sessions, Serving, loopVars
<1>1. CASE BeatFails(s)
  BY <1>1 DEF BeatFails, SessionRecord, Fresh
<1>2. CASE BeatStops(s)
  BY <1>2 DEF BeatStops, SessionRecord, Fresh
<1>3. CASE WatchEnds(s)
  <2> DEFINE ended == [sess[s] EXCEPT !.watch = "ended", !.ws = "closed"]
  <2>1. sess' = [sess EXCEPT ![s] = ended] /\ UNCHANGED <<run, backoff, cur, stopped, dial>>
    BY <1>3 DEF WatchEnds
  <2>2. ~(s > cur)
    BY <1>3 DEF WatchEnds, Fresh
  <2>3. ended \in SessionRecord /\ ended.ws = "closed"
    BY DEF SessionRecord
  <2> QED BY <2>1, <2>2, <2>3
<1>4. CASE ServerGone(s)
  BY <1>4 DEF ServerGone, SessionRecord, Fresh
<1> QED BY <1>1, <1>2, <1>3, <1>4

(* A step of one handler keeps the invariant when its record does.          *)
LEMMA HandlerMoves ==
  ASSUME ClientInv, NEW d \in DialFrames, NEW h \in DialRecord, HandlerHolds(h),
         dial' = [dial EXCEPT ![d] = h], UNCHANGED <<loopVars, stopped, sess>>
  PROVE  ClientInv'
<1>1. ClientTypeOK'
  BY DEF ClientInv, ClientTypeOK, loopVars
<1>2. OneSessionAtATime' /\ \A s \in Sessions : s > cur' => sess'[s] = Fresh
  BY DEF ClientInv, OneSessionAtATime, Serving, loopVars
<1>3. (\A e \in DialFrames : HandlerHolds(dial[e]))'
  BY DEF ClientInv, ClientTypeOK, HandlerHolds, loopVars
<1> QED BY <1>1, <1>2, <1>3 DEF ClientInv

(* handleDial with its copies and both ends of the tunnel.                  *)
LEMMA DialKeeps ==
  ASSUME ClientInv, NEW d \in DialFrames,
         \/ DialFrame(d) \/ Handle(d) \/ UpEnds(d) \/ DownEnds(d)
         \/ UpWriteFails(d) \/ DownWriteFails(d) \/ TargetGone(d) \/ TunnelGone(d)
  PROVE  ClientInv'
<1>h. dial[d] \in DialRecord /\ HandlerHolds(dial[d])
  BY DEF ClientInv, ClientTypeOK
<1>1. CASE DialFrame(d)
  <2> DEFINE h == [dial[d] EXCEPT !.at = "target", !.sess = cur]
  <2>1. cur \in 1..cur /\ cur \in 0..MaxSessions
    BY <1>1, AgentClientAssumption DEF DialFrame, ClientInv, ClientTypeOK
  <2>2. h \in DialRecord /\ HandlerHolds(h)
    BY <1>h, <1>1, <2>1 DEF DialFrame, DialRecord, HandlerHolds
  <2>3. dial' = [dial EXCEPT ![d] = h] /\ UNCHANGED <<loopVars, stopped, sess>>
    BY <1>1 DEF DialFrame, ClientInv, ClientTypeOK
  <2> QED BY <2>2, <2>3, HandlerMoves
<1>2. CASE DialTarget(d)
  <2> DEFINE h == [dial[d] EXCEPT !.at = "data", !.target = "open"]
             i == [dial[d] EXCEPT !.at = "done"]
  <2>1. h \in DialRecord /\ HandlerHolds(h) /\ i \in DialRecord /\ HandlerHolds(i)
    BY <1>h, <1>2 DEF DialTarget, DialRecord, HandlerHolds
  <2>2. /\ dial' = [dial EXCEPT ![d] = h] \/ dial' = [dial EXCEPT ![d] = i]
        /\ UNCHANGED <<loopVars, stopped, sess>>
    BY <1>2 DEF DialTarget, ClientInv, ClientTypeOK
  <2> QED BY <2>1, <2>2, HandlerMoves
<1>3. CASE OpenData(d)
  <2> DEFINE h == [dial[d] EXCEPT !.at = "copy", !.tunnel = "open", !.up = "runs", !.down = "runs"]
             i == [dial[d] EXCEPT !.at = "done", !.target = "closed"]
  <2>1. h \in DialRecord /\ HandlerHolds(h) /\ i \in DialRecord /\ HandlerHolds(i)
    BY <1>h, <1>3 DEF OpenData, DialRecord, HandlerHolds
  <2>2. /\ dial' = [dial EXCEPT ![d] = h] \/ dial' = [dial EXCEPT ![d] = i]
        /\ UNCHANGED <<loopVars, stopped, sess>>
    BY <1>3 DEF OpenData, ClientInv, ClientTypeOK
  <2> QED BY <2>1, <2>2, HandlerMoves
<1>4. CASE Cancel(d)
  <2> DEFINE h == [dial[d] EXCEPT !.at = "join", !.tunnel = "closed", !.target = "closed"]
  <2>1. h \in DialRecord /\ HandlerHolds(h)
    BY <1>h, <1>4 DEF Cancel, DialRecord, HandlerHolds
  <2>2. dial' = [dial EXCEPT ![d] = h] /\ UNCHANGED <<loopVars, stopped, sess>>
    BY <1>4 DEF Cancel, ClientInv, ClientTypeOK
  <2> QED BY <2>1, <2>2, HandlerMoves
<1>5. CASE Finish(d)
  <2> DEFINE h == [dial[d] EXCEPT !.at = "done", !.target = "closed"]
  <2>1. h \in DialRecord /\ HandlerHolds(h)
    BY <1>h, <1>5 DEF Finish, DialRecord, HandlerHolds
  <2>2. dial' = [dial EXCEPT ![d] = h] /\ UNCHANGED <<loopVars, stopped, sess>>
    BY <1>5 DEF Finish, ClientInv, ClientTypeOK
  <2> QED BY <2>1, <2>2, HandlerMoves
<1>6. CASE UpEnds(d)
  <2> DEFINE h == [dial[d] EXCEPT !.up = "ended", !.tunnel = "closed"]
  <2>1. h \in DialRecord /\ HandlerHolds(h)
    BY <1>h, <1>6 DEF UpEnds, DialRecord, HandlerHolds
  <2>2. dial' = [dial EXCEPT ![d] = h] /\ UNCHANGED <<loopVars, stopped, sess>>
    BY <1>6 DEF UpEnds, ClientInv, ClientTypeOK
  <2> QED BY <2>1, <2>2, HandlerMoves
<1>7. CASE DownEnds(d)
  <2> DEFINE h == [dial[d] EXCEPT !.down = "ended", !.target = "closed"]
  <2>1. h \in DialRecord /\ HandlerHolds(h)
    BY <1>h, <1>7 DEF DownEnds, DialRecord, HandlerHolds
  <2>2. dial' = [dial EXCEPT ![d] = h] /\ UNCHANGED <<loopVars, stopped, sess>>
    BY <1>7 DEF DownEnds, ClientInv, ClientTypeOK
  <2> QED BY <2>1, <2>2, HandlerMoves
<1>8. CASE UpWriteFails(d)
  <2> DEFINE h == [dial[d] EXCEPT !.up = "ended", !.tunnel = "closed"]
  <2>1. h \in DialRecord /\ HandlerHolds(h)
    BY <1>h, <1>8 DEF UpWriteFails, DialRecord, HandlerHolds
  <2>2. dial' = [dial EXCEPT ![d] = h] /\ UNCHANGED <<loopVars, stopped, sess>>
    BY <1>8 DEF UpWriteFails, ClientInv, ClientTypeOK
  <2> QED BY <2>1, <2>2, HandlerMoves
<1>9. CASE DownWriteFails(d)
  <2> DEFINE h == [dial[d] EXCEPT !.down = "ended", !.target = "closed"]
  <2>1. h \in DialRecord /\ HandlerHolds(h)
    BY <1>h, <1>9 DEF DownWriteFails, DialRecord, HandlerHolds
  <2>2. dial' = [dial EXCEPT ![d] = h] /\ UNCHANGED <<loopVars, stopped, sess>>
    BY <1>9 DEF DownWriteFails, ClientInv, ClientTypeOK
  <2> QED BY <2>1, <2>2, HandlerMoves
<1>10. CASE TargetGone(d)
  <2> DEFINE h == [dial[d] EXCEPT !.targetEnd = "gone"]
  <2>1. h \in DialRecord /\ HandlerHolds(h)
    BY <1>h, <1>10 DEF TargetGone, DialRecord, HandlerHolds
  <2>2. dial' = [dial EXCEPT ![d] = h] /\ UNCHANGED <<loopVars, stopped, sess>>
    BY <1>10 DEF TargetGone, ClientInv, ClientTypeOK
  <2> QED BY <2>1, <2>2, HandlerMoves
<1>11. CASE TunnelGone(d)
  <2> DEFINE h == [dial[d] EXCEPT !.tunnelEnd = "gone"]
  <2>1. h \in DialRecord /\ HandlerHolds(h)
    BY <1>h, <1>11 DEF TunnelGone, DialRecord, HandlerHolds
  <2>2. dial' = [dial EXCEPT ![d] = h] /\ UNCHANGED <<loopVars, stopped, sess>>
    BY <1>11 DEF TunnelGone, ClientInv, ClientTypeOK
  <2> QED BY <2>1, <2>2, HandlerMoves
<1> QED BY <1>1, <1>2, <1>3, <1>4, <1>5, <1>6, <1>7, <1>8, <1>9, <1>10, <1>11 DEF Handle

(* Every step of the agent and of its environment keeps the invariant.      *)
LEMMA ClientStepInv == ClientInv /\ [ClientNext]_clientVars => ClientInv'
<1> SUFFICES ASSUME ClientInv, [ClientNext]_clientVars PROVE ClientInv'
  OBVIOUS
<1>1. CASE UNCHANGED clientVars
  BY <1>1 DEF clientVars, ClientInv, ClientTypeOK, OneSessionAtATime, HandlerHolds, Serving
<1>2. CASE Loop
  BY <1>2, LoopKeeps
<1>3. CASE Stop
  BY <1>3 DEF Stop, loopVars, ClientInv, ClientTypeOK, OneSessionAtATime, HandlerHolds, Serving
<1>4. CASE \E s \in Sessions : BeatFails(s) \/ BeatStops(s) \/ WatchEnds(s) \/ ServerGone(s)
  BY <1>4, SessionKeeps
<1>5. CASE \E d \in DialFrames :
             \/ DialFrame(d) \/ Handle(d) \/ UpEnds(d) \/ DownEnds(d)
             \/ UpWriteFails(d) \/ DownWriteFails(d) \/ TargetGone(d) \/ TunnelGone(d)
  BY <1>5, DialKeeps
<1> QED BY <1>1, <1>2, <1>3, <1>4, <1>5 DEF ClientNext

LEMMA ClientInvariant == ClientSpec => []ClientInv
  BY ClientInitInv, ClientStepInv, PTL DEF ClientSpec

(* Every variable of the agent keeps its type: the backoff of Run stays     *)
(* between its start and its maximum, whatever both are.                    *)
THEOREM ClientTypeCorrect == ClientSpec => []ClientTypeOK
<1>1. ClientInv => ClientTypeOK
  BY DEF ClientInv
<1> QED BY <1>1, ClientInvariant, PTL

(* For any number of dials, a handler of handleDial that has ended holds no *)
(* connection and no copy, in whatever order target, tunnel, session and    *)
(* signal end.                                                              *)
THEOREM HandlersLeaveNothing == ClientSpec => []HandlerLeavesNothing
<1>1. ClientInv => HandlerLeavesNothing
  BY DEF ClientInv, HandlerHolds, HandlerLeavesNothing
<1> QED BY <1>1, ClientInvariant, PTL

(* However many sessions register, the agent has at most one open signaling *)
(* socket, and serve is reading from it (runOnce closes it before Run       *)
(* tries again).                                                            *)
THEOREM OneSessionServed == ClientSpec => []OneSessionAtATime
<1>1. ClientInv => OneSessionAtATime
  BY DEF ClientInv
<1> QED BY <1>1, ClientInvariant, PTL
================================================================================
