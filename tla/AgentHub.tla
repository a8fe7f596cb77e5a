------------------------------- MODULE AgentHub -------------------------------
(***************************************************************************)
(* The reverse-connection hub of agent mode: backend/internal/agent/hub.go *)
(* and tunnel.go, together with the callbacks that backend/cmd/server/     *)
(* main.go installs (token check, OnConnect, OnDisconnect, the runtime     *)
(* re-registration of attachDialer and the health loop that publishes a    *)
(* cluster's status).                                                      *)
(*                                                                         *)
(* One element of Conns is one signaling WebSocket and the handler         *)
(* goroutine that serves it; one element of Dials is one DialContext call  *)
(* and, because newSecret never repeats, also its connId.  A session is    *)
(* identified with its Conn, and so is its sessionKey.  Every step is one  *)
(* critical section of Hub.mu, one frame written, one callback write, or   *)
(* one wake-up of a select.                                                *)
(*                                                                         *)
(* A runtime of a cluster is named by who registered it: the Conn whose    *)
(* attachDialer did, or the cluster itself for the one it came with.       *)
(***************************************************************************)
EXTENDS Naturals, FiniteSets

CONSTANTS Clusters,     \* cluster names
          Conns,        \* signaling connections, each used once
          Dials,        \* calls of TunnelDialer.DialContext, each used once
          ClusterOf,    \* the cluster that the token shown on a Conn is bound to
          None          \* no session, no runtime

ASSUME ClusterOfAssumption == ClusterOf \in [Conns -> Clusters]
ASSUME NoneAssumption == None \notin Conns \cup Clusters
ASSUME RuntimeAssumption == Conns \cap Clusters = {}

Runtimes == Conns \cup Clusters
ClusterOfRuntime(o) == IF o \in Conns THEN ClusterOf[o] ELSE o

VARIABLES
  sessions,  \* Hub.sessions: the session that serves each cluster
  pc,        \* where the handler goroutine of each Conn stands
  ws,        \* its socket: up, lost (peer gone, unnoticed) or closed by the server
  victim,    \* the old session that register saw and is about to close
  tokens,    \* clusters whose Enrollment Token is still accepted
  registry,  \* memRegistry status (what StatusUpdater and the callbacks Put)
  db,        \* the status column, which List and Status read
  unsaved,   \* history: clusters whose last write of that column failed
  runtime,   \* Manager.runtimes
  found,     \* the runtime that the Register of each attachDialer found
  health,    \* each runtime's own status as its health loop keeps it
  publish,   \* where each health loop still has to publish its status
  dialers,   \* clusters with an injected TunnelDialer
  closing,   \* sessions Hub.Close has taken out of the map and not yet closed
  shut,      \* Hub.Close has run
  pipes,     \* Hub.pipes: connIds waiting for a data channel
  dpc,       \* where each DialContext call stands
  dsess,     \* the session each DialContext call picked
  frames,    \* dial frames written and not yet read by the agent
  chan       \* the data channel opened for each connId

sessionVars == <<sessions, pc, ws, victim, tokens, closing, shut>>
column      == <<db, unsaved>>
runtimeVars == <<runtime, found, health, publish, dialers>>
statusVars  == <<registry, column, runtimeVars>>
tunnelVars  == <<pipes, dpc, dsess, frames, chan>>
vars == <<sessionVars, statusVars, tunnelVars>>

Status == {"offline", "ready", "degraded"}

Registering == {"validated", "evict", "install", "installed", "registered",
                "confirmed", "connected", "attach", "join", "attached"}
Leaving  == {"exit", "left", "leftStore"}
Finished == {"rejected", "done"}
HandlerState == {"idle", "running"} \cup Registering \cup Leaving \cup Finished

DialState == {"idle", "picked", "piped", "waiting", "dropping", "ok", "failed"}
ChanState == {"none", "requested", "upgrading", "buffered", "held", "closed"}

TypeOK ==
  /\ sessions \in [Clusters -> Conns \cup {None}]
  /\ pc \in [Conns -> HandlerState]
  /\ ws \in [Conns -> {"up", "lost", "closed"}]
  /\ victim \in [Conns -> Conns \cup {None}]
  /\ tokens \in SUBSET Clusters
  /\ registry \in [Clusters -> Status]
  /\ db \in [Clusters -> Status]
  /\ unsaved \in SUBSET Clusters
  /\ runtime \in [Clusters -> Runtimes \cup {None}]
  /\ \A k \in Clusters : runtime[k] # None => ClusterOfRuntime(runtime[k]) = k
  /\ found \in [Conns -> Runtimes \cup {None}]
  /\ \A c \in Conns : pc[c] = "join" => found[c] # None
  /\ health \in [Runtimes -> {"none", "ready", "degraded", "ended"}]
  /\ publish \in [Runtimes -> {"none", "registry", "store"}]
  /\ \A o \in Runtimes : publish[o] # "none" => health[o] \in {"ready", "degraded"}
  /\ dialers \in SUBSET Clusters
  /\ closing \in SUBSET Conns
  /\ shut \in BOOLEAN
  /\ pipes \in SUBSET Dials
  /\ dpc \in [Dials -> DialState]
  /\ dsess \in [Dials -> Conns \cup {None}]
  /\ frames \in SUBSET Dials
  /\ chan \in [Dials -> ChanState]

(* A cluster registered in agent mode: ClusterRegService.Register left it  *)
(* offline; the hook may have built a runtime, whose registration already  *)
(* published ready, or there is none (its kubeconfig could not be parsed). *)
Init ==
  /\ sessions = [k \in Clusters |-> None]
  /\ pc = [c \in Conns |-> "idle"]
  /\ ws = [c \in Conns |-> "up"]
  /\ victim = [c \in Conns |-> None]
  /\ tokens = Clusters
  /\ runtime \in {f \in [Clusters -> Clusters \cup {None}] :
                    \A k \in Clusters : f[k] \in {k, None}}
  /\ registry = [k \in Clusters |-> IF runtime[k] = k THEN "ready" ELSE "offline"]
  /\ db = registry
  /\ unsaved = {}
  /\ found = [c \in Conns |-> None]
  /\ health = [o \in Runtimes |->
                 IF o \in Clusters /\ runtime[o] = o THEN "ready" ELSE "none"]
  /\ publish = [o \in Runtimes |-> "none"]
  /\ dialers = {}
  /\ closing = {}
  /\ shut = FALSE
  /\ pipes = {}
  /\ dpc = [d \in Dials |-> "idle"]
  /\ dsess = [d \in Dials |-> None]
  /\ frames = {}
  /\ chan = [d \in Dials |-> "none"]

Goto(c, l) == pc' = [pc EXCEPT ![c] = l]
Shut(c) == ws' = [ws EXCEPT ![c] = "closed"]

-----------------------------------------------------------------------------
(* register: from the first frame to the session that serves the cluster   *)

(* The upgrade and the register frame: an accepted token (ValidateToken)   *)
(* builds the Session, anything else is answered by reject.                *)
ServeSignaling(c) ==
  /\ pc[c] = "idle" /\ ~shut
  /\ \/ /\ ClusterOf[c] \in tokens
        /\ Goto(c, "validated")
        /\ UNCHANGED ws
     \/ /\ ClusterOf[c] \notin tokens
        /\ Goto(c, "rejected")
        /\ Shut(c)
  /\ UNCHANGED <<sessions, victim, tokens, closing, shut, statusVars, tunnelVars>>

(* First critical section of register: with no old session the new one is  *)
(* installed at once, otherwise the lock is given up to close the old one. *)
RegisterLookup(c) ==
  LET k == ClusterOf[c] IN
  /\ pc[c] = "validated"
  /\ \/ /\ sessions[k] = None
        /\ sessions' = [sessions EXCEPT ![k] = c]
        /\ Goto(c, "installed")
        /\ UNCHANGED victim
     \/ /\ sessions[k] # None
        /\ victim' = [victim EXCEPT ![c] = sessions[k]]
        /\ Goto(c, "evict")
        /\ UNCHANGED sessions
  /\ UNCHANGED <<ws, tokens, closing, shut, statusVars, tunnelVars>>

(* old.close(), outside the lock. *)
RegisterEvict(c) ==
  /\ pc[c] = "evict"
  /\ Shut(victim[c])
  /\ Goto(c, "install")
  /\ UNCHANGED <<sessions, victim, tokens, closing, shut, statusVars, tunnelVars>>

(* The lock is taken again and the entry overwritten without another look. *)
RegisterInstall(c) ==
  /\ pc[c] = "install"
  /\ sessions' = [sessions EXCEPT ![ClusterOf[c]] = c]
  /\ victim' = [victim EXCEPT ![c] = None]
  /\ Goto(c, "installed")
  /\ UNCHANGED <<ws, tokens, closing, shut, statusVars, tunnelVars>>

(* sess.close() and the error return of register: handleSignaling rejects  *)
(* the socket and returns; run and onExit are never reached.               *)
AbandonRegister(c) ==
  /\ Shut(c)
  /\ Goto(c, "rejected")
  /\ UNCHANGED <<sessions, victim, tokens, closing, shut, statusVars, tunnelVars>>

(* A write on a socket the server closed fails; one whose peer is gone may *)
(* still be accepted by the kernel.                                        *)
SendRegistered(c) ==
  /\ pc[c] = "installed"
  /\ \/ /\ ws[c] # "closed"
        /\ Goto(c, "registered")
        /\ UNCHANGED <<sessions, ws, victim, tokens, closing, shut, statusVars, tunnelVars>>
     \/ /\ ws[c] # "up"
        /\ AbandonRegister(c)

ConfirmToken(c) ==
  /\ pc[c] = "registered"
  /\ \/ /\ ClusterOf[c] \in tokens
        /\ Goto(c, "confirmed")
        /\ UNCHANGED <<sessions, ws, victim, tokens, closing, shut, statusVars, tunnelVars>>
     \/ /\ ClusterOf[c] \notin tokens
        /\ AbandonRegister(c)

(* UpdateClusterStatus: a write of the status column that fails is logged  *)
(* by the callbacks of main.go, and nobody tries again.                    *)
WriteStatus(k, st) ==
  \/ db' = [db EXCEPT ![k] = st] /\ unsaved' = unsaved \ {k}
  \/ UNCHANGED db /\ unsaved' = unsaved \cup {k}

(* OnConnect: registry.Put, then the access mode and status columns.       *)
OnConnectRegistry(c) ==
  /\ pc[c] = "confirmed"
  /\ registry' = [registry EXCEPT ![ClusterOf[c]] = "ready"]
  /\ Goto(c, "connected")
  /\ UNCHANGED <<sessions, ws, victim, tokens, closing, shut, column, runtimeVars, tunnelVars>>

OnConnectStore(c) ==
  /\ pc[c] = "connected"
  /\ WriteStatus(ClusterOf[c], "ready")
  /\ Goto(c, "attach")
  /\ UNCHANGED <<sessions, ws, victim, tokens, closing, shut, registry, runtimeVars, tunnelVars>>

(* attachDialer: SetDialer, and for a cluster with a runtime a fresh       *)
(* Manager.Register, whose error (no clients can be built) is only logged. *)
(* Its first critical section finds the runtime to replace.                *)
AttachDialer(c) ==
  LET k == ClusterOf[c] IN
  /\ pc[c] = "attach"
  /\ dialers' = dialers \cup {k}
  /\ \/ /\ Goto(c, "running")
        /\ UNCHANGED found
     \/ /\ runtime[k] # None
        /\ found' = [found EXCEPT ![c] = runtime[k]]
        /\ Goto(c, "join")
  /\ UNCHANGED <<sessions, ws, victim, tokens, closing, shut, registry, column,
                 runtime, health, publish, tunnelVars>>

(* The loop waits at its select, where it sees the closed stopCh.          *)
AtSelect(o) == health[o] \in {"ready", "degraded"} /\ publish[o] = "none"

(* old.Stop() joins the loop of the runtime found, then the new one is     *)
(* installed without another look and notify puts it into the registry.    *)
(* The runtime of an attachment that overlapped is overwritten unstopped.  *)
AttachInstall(c) ==
  LET k == ClusterOf[c] IN
  /\ pc[c] = "join"
  /\ AtSelect(found[c]) \/ health[found[c]] = "ended"
  /\ health' = [health EXCEPT ![found[c]] = "ended"]
  /\ runtime' = [runtime EXCEPT ![k] = c]
  /\ registry' = [registry EXCEPT ![k] = "ready"]
  /\ Goto(c, "attached")
  /\ UNCHANGED <<sessions, ws, victim, tokens, closing, shut, column, found, publish,
                 dialers, tunnelVars>>

(* The second half of that publication; only then does runHealth start.    *)
AttachStore(c) ==
  /\ pc[c] = "attached"
  /\ WriteStatus(ClusterOf[c], "ready")
  /\ health' = [health EXCEPT ![c] = "ready"]
  /\ Goto(c, "running")
  /\ UNCHANGED <<sessions, ws, victim, tokens, closing, shut, registry, runtime, found,
                 publish, dialers, tunnelVars>>

-----------------------------------------------------------------------------
(* Session.run and onExit                                                   *)

(* The peer vanishes or stays silent past HeartbeatTimeout.                *)
LosePeer(c) ==
  /\ ws[c] = "up" /\ pc[c] # "idle"
  /\ ws' = [ws EXCEPT ![c] = "lost"]
  /\ UNCHANGED <<sessions, pc, victim, tokens, closing, shut, statusVars, tunnelVars>>

RunEndsOnClose(c) ==
  /\ pc[c] = "running" /\ ws[c] = "closed"
  /\ Goto(c, "exit")
  /\ UNCHANGED <<sessions, ws, victim, tokens, closing, shut, statusVars, tunnelVars>>

(* The read loop sees the error of a lost or closed socket.                *)
RunEnds(c) ==
  /\ pc[c] = "running" /\ ws[c] # "up"
  /\ Goto(c, "exit")
  /\ UNCHANGED <<sessions, ws, victim, tokens, closing, shut, statusVars, tunnelVars>>

DeregisterAnyone(c) == [sessions EXCEPT ![ClusterOf[c]] = None]

(* onExit removes the map entry only while it is still this session.       *)
Deregister(c) ==
  IF sessions[ClusterOf[c]] = c THEN [sessions EXCEPT ![ClusterOf[c]] = None] ELSE sessions

OnExitSilentWhenReplaced(c) ==
  /\ pc[c] = "exit"
  /\ Shut(c)
  /\ sessions' = Deregister(c)
  /\ Goto(c, IF sessions[ClusterOf[c]] = c THEN "left" ELSE "done")
  /\ UNCHANGED <<victim, tokens, closing, shut, statusVars, tunnelVars>>

OnExit(c) ==
  /\ pc[c] = "exit"
  /\ Shut(c)
  /\ sessions' = Deregister(c)
  /\ Goto(c, "left")
  /\ UNCHANGED <<victim, tokens, closing, shut, statusVars, tunnelVars>>

(* OnDisconnect: registry.Put, then the status column.                     *)
OnDisconnectRegistry(c) ==
  /\ pc[c] = "left"
  /\ registry' = [registry EXCEPT ![ClusterOf[c]] = "degraded"]
  /\ Goto(c, "leftStore")
  /\ UNCHANGED <<sessions, ws, victim, tokens, closing, shut, column, runtimeVars, tunnelVars>>

OnDisconnectStore(c) ==
  /\ pc[c] = "leftStore"
  /\ WriteStatus(ClusterOf[c], "degraded")
  /\ Goto(c, "done")
  /\ UNCHANGED <<sessions, ws, victim, tokens, closing, shut, registry, runtimeVars, tunnelVars>>

-----------------------------------------------------------------------------
(* Revocation or expiry of the token, and Hub.Close                         *)

RevokeToken(k) ==
  /\ k \in tokens
  /\ tokens' = tokens \ {k}
  /\ UNCHANGED <<sessions, pc, ws, victim, closing, shut, statusVars, tunnelVars>>

(* Hub.Close takes the whole map under the lock and closes each session    *)
(* afterwards; srv.Shutdown has stopped new handlers before.               *)
Close ==
  /\ ~shut
  /\ shut' = TRUE
  /\ closing' = {sessions[k] : k \in Clusters} \ {None}
  /\ sessions' = [k \in Clusters |-> None]
  /\ UNCHANGED <<pc, ws, victim, tokens, statusVars, tunnelVars>>

CloseSession(c) ==
  /\ c \in closing
  /\ closing' = closing \ {c}
  /\ Shut(c)
  /\ UNCHANGED <<sessions, pc, victim, tokens, shut, statusVars, tunnelVars>>

-----------------------------------------------------------------------------
(* The health loops of the runtimes (k8s/health.go), reduced to what they   *)
(* publish: a status that differs from the one published last.              *)

(* The clusters of agents are reached through their tunnel only.            *)
TunnelWorks(k) == k \in dialers /\ sessions[k] # None /\ ws[sessions[k]] = "up"

HealthChange(o, from, to) ==
  /\ health[o] = from /\ publish[o] = "none"
  /\ health' = [health EXCEPT ![o] = to]
  /\ publish' = [publish EXCEPT ![o] = "registry"]
  /\ UNCHANGED <<sessionVars, registry, column, runtime, found, dialers, tunnelVars>>

HealthRecovered(o) ==
  TunnelWorks(ClusterOfRuntime(o)) /\ HealthChange(o, "degraded", "ready")
HealthFailing(o) == HealthChange(o, "ready", "degraded")

(* notify: StatusUpdater puts the registry entry, then the status column.  *)
HealthPublish(o) ==
  LET k == ClusterOfRuntime(o) IN
  \/ /\ publish[o] = "registry"
     /\ registry' = [registry EXCEPT ![k] = health[o]]
     /\ publish' = [publish EXCEPT ![o] = "store"]
     /\ UNCHANGED <<sessionVars, column, runtime, found, health, dialers, tunnelVars>>
  \/ /\ publish[o] = "store"
     /\ WriteStatus(k, health[o])
     /\ publish' = [publish EXCEPT ![o] = "none"]
     /\ UNCHANGED <<sessionVars, registry, runtime, found, health, dialers, tunnelVars>>

-----------------------------------------------------------------------------
(* TunnelDialer.DialContext                                                 *)

(* SessionOf: the session that is current when the dial starts.            *)
DialStart(d, k) ==
  /\ dpc[d] = "idle" /\ k \in dialers
  /\ \/ /\ sessions[k] = None
        /\ dpc' = [dpc EXCEPT ![d] = "failed"]
        /\ UNCHANGED dsess
     \/ /\ sessions[k] # None
        /\ dsess' = [dsess EXCEPT ![d] = sessions[k]]
        /\ dpc' = [dpc EXCEPT ![d] = "picked"]
  /\ UNCHANGED <<sessionVars, statusVars, pipes, frames, chan>>

(* takePipe: under the lock the session picked must still be the one of    *)
(* the cluster; its first SessionOf only repeats that check.               *)
StillServes(s) == sessions[ClusterOf[s]] = s

TakePipe(d) ==
  /\ dpc[d] = "picked"
  /\ \/ /\ StillServes(dsess[d])
        /\ pipes' = pipes \cup {d}
        /\ dpc' = [dpc EXCEPT ![d] = "piped"]
     \/ /\ ~StillServes(dsess[d])
        /\ dpc' = [dpc EXCEPT ![d] = "failed"]
        /\ UNCHANGED pipes
  /\ UNCHANGED <<sessionVars, statusVars, dsess, frames, chan>>

(* sess.send(dial): written to the session that was picked.                *)
SendDial(d) ==
  /\ dpc[d] = "piped"
  /\ \/ /\ ws[dsess[d]] = "up"
        /\ frames' = frames \cup {d}
        /\ dpc' = [dpc EXCEPT ![d] = "waiting"]
     \/ /\ ws[dsess[d]] = "lost"
        /\ dpc' = [dpc EXCEPT ![d] = "waiting"]
        /\ UNCHANGED frames
     \/ /\ ws[dsess[d]] # "up"
        /\ dpc' = [dpc EXCEPT ![d] = "dropping"]
        /\ UNCHANGED frames
  /\ UNCHANGED <<sessionVars, statusVars, pipes, dsess, chan>>

(* case conn := <-p.ch; the deferred dropPipe finds its entry gone.        *)
DialReceive(d) ==
  /\ dpc[d] = "waiting" /\ chan[d] = "buffered"
  /\ chan' = [chan EXCEPT ![d] = "held"]
  /\ dpc' = [dpc EXCEPT ![d] = "ok"]
  /\ pipes' = pipes \ {d}
  /\ UNCHANGED <<sessionVars, statusVars, dsess, frames>>

(* case <-waitCtx.Done(): DialWait or the caller's deadline.  select may   *)
(* choose it although a connection is already in the buffer.               *)
DialTimeout(d) ==
  /\ dpc[d] = "waiting"
  /\ dpc' = [dpc EXCEPT ![d] = "dropping"]
  /\ UNCHANGED <<sessionVars, statusVars, pipes, dsess, frames, chan>>

DropNothing(d) == pipes
WithoutPipe(d) == pipes \ {d}

(* The deferred dropPipe of an unsuccessful dial.                          *)
DropPipe(d) ==
  /\ dpc[d] = "dropping"
  /\ pipes' = WithoutPipe(d)
  /\ dpc' = [dpc EXCEPT ![d] = "failed"]
  /\ UNCHANGED <<sessionVars, statusVars, dsess, frames, chan>>

-----------------------------------------------------------------------------
(* The agent's handleDial and the hub's ServeData                           *)

(* The agent reads the dial frame; it opens the data channel, or gives up  *)
(* because the apiserver does not answer.  A lost session drops the frame. *)
AgentDial(d) ==
  /\ d \in frames
  /\ frames' = frames \ {d}
  /\ \/ /\ ws[dsess[d]] = "up"
        /\ chan' = [chan EXCEPT ![d] = "requested"]
     \/ UNCHANGED chan
  /\ UNCHANGED <<sessionVars, statusVars, pipes, dpc, dsess>>

(* Under the lock: an entry with this connId and key is consumed, any      *)
(* other request is refused with 404.                                      *)
PeekPipe(d) == pipes
ConsumePipe(d) == pipes \ {d}

ServeData(d) ==
  /\ chan[d] = "requested"
  /\ chan' = [chan EXCEPT ![d] = IF d \in pipes THEN "upgrading" ELSE "closed"]
  /\ pipes' = ConsumePipe(d)
  /\ UNCHANGED <<sessionVars, statusVars, dpc, dsess, frames>>

(* The upgrade, outside the lock, and p.ch <- conn: the buffer of one is   *)
(* free because the pipe was consumed once.                                *)
ServeUpgrade(d) ==
  /\ chan[d] = "upgrading"
  /\ chan' = [chan EXCEPT ![d] = "buffered"] \/ chan' = [chan EXCEPT ![d] = "closed"]
  /\ UNCHANGED <<sessionVars, statusVars, pipes, dpc, dsess, frames>>

(* The consumer of the returned net.Conn closes it.  Nothing closes a      *)
(* buffered one: the request context of a hijacked connection ends only    *)
(* with the handler, and conn.closed only with a Close by its consumer.    *)
ConsumerClose(d) ==
  /\ chan[d] = "held"
  /\ chan' = [chan EXCEPT ![d] = "closed"]
  /\ UNCHANGED <<sessionVars, statusVars, pipes, dpc, dsess, frames>>

-----------------------------------------------------------------------------
Handler(c) ==
  \/ RegisterLookup(c) \/ RegisterEvict(c) \/ RegisterInstall(c)
  \/ SendRegistered(c) \/ ConfirmToken(c)
  \/ OnConnectRegistry(c) \/ OnConnectStore(c)
  \/ AttachDialer(c) \/ AttachInstall(c) \/ AttachStore(c)
  \/ RunEnds(c) \/ OnExit(c) \/ OnDisconnectRegistry(c) \/ OnDisconnectStore(c)
  \/ CloseSession(c)

Health(o) == HealthRecovered(o) \/ HealthFailing(o) \/ HealthPublish(o)

Dial(d) == TakePipe(d) \/ SendDial(d) \/ DialReceive(d) \/ DialTimeout(d) \/ DropPipe(d)

Data(d) == ServeData(d) \/ ServeUpgrade(d) \/ ConsumerClose(d)

Next ==
  \/ \E c \in Conns : ServeSignaling(c) \/ LosePeer(c) \/ Handler(c)
  \/ \E k \in Clusters : RevokeToken(k)
  \/ \E o \in Runtimes : Health(o)
  \/ Close
  \/ \E d \in Dials : Dial(d) \/ AgentDial(d) \/ Data(d)
  \/ \E d \in Dials, k \in Clusters : DialStart(d, k)

Spec == Init /\ [][Next]_vars

(* The goroutine of a handler that is not blocked runs; a closed stopCh is *)
(* chosen by select in the end, because right after timer.Reset it is the  *)
(* only ready case.  A health loop publishes what it found and finds a     *)
(* dead tunnel in the end; whether a probe fails otherwise, and what       *)
(* agents, dials, administrators and the network do, is free.              *)
DeadTunnelFound(o) == ~TunnelWorks(ClusterOfRuntime(o)) /\ HealthFailing(o)

Fairness ==
  /\ \A c \in Conns : WF_vars(Handler(c)) /\ SF_vars(AttachInstall(c))
  /\ \A o \in Runtimes : WF_vars(HealthPublish(o)) /\ WF_vars(DeadTunnelFound(o))

FairSpec == Spec /\ Fairness

-----------------------------------------------------------------------------
(* Properties                                                               *)

(* A connId stays in the pipe table only while the dial that registered it *)
(* is still inside DialContext: neither ServeData, nor the time-out racing *)
(* it, nor a failed signaling write leaves an entry behind (DialContext's  *)
(* deferred dropPipe).                                                     *)
PipeHasDialer == \A d \in pipes : dpc[d] \in {"piped", "waiting", "dropping"}

(* A dial that succeeds has taken the channel its own agent session opened *)
(* for its connId, exactly one consumer has each channel, and a channel    *)
(* under way no longer has a pipe a second request could claim.            *)
ChannelMatchesDial ==
  \A d \in Dials :
    /\ dpc[d] = "ok" => chan[d] \in {"held", "closed"}
    /\ chan[d] \in {"upgrading", "buffered", "held"} => d \notin pipes
    /\ chan[d] = "held" => dpc[d] = "ok"
    /\ chan[d] # "none" => dsess[d] # None

(* A connId is a one-time voucher: open while its pipe waits in the table, *)
(* taken by the one request that consumes the pipe, redeemed when the dial *)
(* that registered it receives that channel, and void once the dial has    *)
(* given up, however late the agent's data channel arrives.                *)
phase ==
  [d \in Dials |->
     IF dpc[d] \in {"idle", "picked"} THEN "unused"
     ELSE IF dpc[d] = "ok" THEN "redeemed"
     ELSE IF d \in pipes THEN "open"
     ELSE IF dpc[d] = "waiting" /\ chan[d] \in {"upgrading", "buffered"} THEN "taken"
     ELSE "void"]

Promise == INSTANCE Voucher WITH Vouchers <- Dials
ConnIdsAreVouchers == Promise!Spec

(* The end of a session never unregisters its successor: an entry that     *)
(* disappears from Hub.sessions is that of a session the hub has closed or *)
(* is closing (the cur == s test of onExit, and Hub.Close).                *)
OnlyOwnEntryRemoved ==
  [][\A k \in Clusters :
       sessions[k] # None /\ sessions'[k] = None
         => ws'[sessions[k]] = "closed" \/ sessions[k] \in closing']_vars

(* However the ends of successive sessions interleave with the             *)
(* registrations that replaced them, a cluster without runtime whose last  *)
(* agent handler has ended is reported degraded by registry and store      *)
(* alike (OnDisconnect comes after OnConnect in each handler), unless the  *)
(* last write of the store failed, which main.go only logs.                *)
DegradedWhenGone ==
  \A k \in Clusters :
    /\ runtime[k] = None
    /\ \A c \in Conns : ClusterOf[c] = k => pc[c] \in {"idle"} \cup Finished
    /\ \E c \in Conns : ClusterOf[c] = k /\ pc[c] = "done"
    => registry[k] = "degraded" /\ (k \in unsaved \/ db[k] = "degraded")

Quiet(k) == \A c \in Conns : ClusterOf[c] = k => pc[c] \in {"idle"} \cup Finished

(* With a runtime too, once every agent handler of a cluster has ended the *)
(* store eventually stops saying ready, or another agent comes, or the     *)
(* last write of the store has failed: no late publication of a health     *)
(* loop, nor one of a runtime that overlapping attachments left running,   *)
(* keeps a dead tunnel ready for ever.                                     *)
GoneNotReadyForever ==
  \A k \in Clusters :
    Quiet(k) /\ (\E c \in Conns : ClusterOf[c] = k /\ pc[c] = "done")
      ~> (db[k] # "ready" \/ k \in unsaved \/ ~Quiet(k))

(* A handler whose peer is gone or whose session was closed ends, even if  *)
(* it happens in the middle of the registration.                           *)
HandlerEnds == \A c \in Conns : ws[c] # "up" ~> pc[c] \in Finished

===============================================================================
