--------------------------- MODULE PodStreams_proofs ---------------------------
(***************************************************************************)
(* Proofs about the two ways in which the server streams from a pod: the   *)
(* log followers of the watch hub (PodLogs), then the terminal and log     *)
(* sockets (Streams).  They share no state: each has its own invariant.    *)
(***************************************************************************)
EXTENDS PodLogs, Streams, SequenceTheorems, TLAPS

-------------------------------------------------------------------------------
(***************************************************************************)
(* PodLogs.  Used is the missing half of the invariant: an entry, a        *)
(* pending stop or a cancelled context belongs to a follower that was      *)
(* started, so a subscription that starts now finds its follower neither   *)
(* stopped nor in another entry.                                           *)
(***************************************************************************)
Used ==
  /\ \A f \in Followers : at[f] # "new" => pod[f] \in Pods /\ owner[f] \in WatchConns
  /\ \A p \in Pods : active[p] # None => at[active[p]] # "new"
  /\ \A f \in due \cup cancelled : at[f] # "new"

IInv == TypeOK /\ Used /\ FollowerAccounted /\ ConnKeysMatch

(* The hub starts with no subscription, so every part of the invariant     *)
(* holds.                                                                  *)
LEMMA InitIInv == Init => IInv
  BY NoneAssumption DEF Init, IInv, TypeOK, Used, FollowerAccounted, ConnKeysMatch,
                        Subscribed, Running

(* Two keys never hold the same follower, because an entry holds a         *)
(* follower of its own key (subscribePodLogs makes one subState per key).  *)
LEMMA EntriesDiffer ==
  ASSUME TypeOK, NEW p \in Pods, NEW q \in Pods, active[p] # None, active[p] = active[q]
  PROVE  p = q
  BY DEF TypeOK

(* What Drop does, whatever handler calls it: Unsubscribe by the browser   *)
(* and Unsubscribe by a failed follower keep the two maps matched and hand *)
(* the dropped follower over to a stop.                                    *)
LEMMA DropKeeps ==
  ASSUME IInv, NEW c \in WatchConns, NEW p \in Pods, Drop(c, p),
         UNCHANGED <<open, pod, owner, cancelled, stopped>>,
         at' \in [Followers -> {"new", "opening", "reading", "failed", "ended"}],
         \A f \in Followers : at'[f] = at[f] \/ (at[f] = "failed" /\ at'[f] = "ended")
  PROVE  IInv'
<1> USE NoneAssumption DEF IInv, Drop, Subscribed
<1>1. TypeOK'
  <2>1. due' \subseteq Followers /\ active' \in [Pods -> Followers \cup {None}]
    BY DEF TypeOK
  <2>2. connKeys' \in [WatchConns -> SUBSET Pods]
    BY DEF TypeOK
  <2>3. ASSUME NEW q \in Pods, active'[q] # None
        PROVE  /\ pod'[active'[q]] = q
               /\ owner'[active'[q]] # None
               /\ active'[q] \notin due' \cup cancelled'
    BY <2>3, EntriesDiffer DEF TypeOK
  <2> QED BY <2>1, <2>2, <2>3 DEF TypeOK
<1>2. Used'
  BY DEF Used, TypeOK
<1>3. FollowerAccounted'
  BY DEF FollowerAccounted, Running, TypeOK
<1>4. ConnKeysMatch'
  BY DEF ConnKeysMatch, TypeOK
<1> QED BY <1>1, <1>2, <1>3, <1>4

(* subscribePodLogs keeps the invariant: the key was free and the follower *)
(* is new.                                                                 *)
LEMMA SubscribeKeeps ==
  ASSUME IInv, NEW c \in WatchConns, NEW p \in Pods, NEW f \in Followers, Subscribe(c, p, f)
  PROVE  IInv'
<1> USE NoneAssumption DEF IInv, Subscribe, Subscribed
<1>1. TypeOK'
  <2>1. /\ active' \in [Pods -> Followers \cup {None}]
        /\ connKeys' \in [WatchConns -> SUBSET Pods]
        /\ pod' \in [Followers -> Pods \cup {None}]
        /\ owner' \in [Followers -> WatchConns \cup {None}]
        /\ at' \in [Followers -> {"new", "opening", "reading", "failed", "ended"}]
    BY DEF TypeOK
  <2>2. ASSUME NEW q \in Pods, active'[q] # None
        PROVE  /\ pod'[active'[q]] = q
               /\ owner'[active'[q]] # None
               /\ active'[q] \notin due' \cup cancelled'
    BY <2>2 DEF TypeOK, Used
  <2> QED BY <2>1, <2>2 DEF TypeOK
<1>2. Used'
  BY DEF Used, TypeOK
<1>3. FollowerAccounted'
  BY DEF FollowerAccounted, Running, TypeOK, Used
<1>4. ConnKeysMatch'
  BY DEF ConnKeysMatch, TypeOK, Used
<1> QED BY <1>1, <1>2, <1>3, <1>4

(* RemoveConn keeps the invariant: while the hub runs, the keys of the     *)
(* connection are those of its entries, and all of them are stopped.       *)
LEMMA RemoveConnKeeps ==
  ASSUME IInv, NEW c \in WatchConns, RemoveConn(c)
  PROVE  IInv'
<1> USE NoneAssumption DEF IInv, RemoveConn, Subscribed, CancelledWith
<1>1. TypeOK'
  <2>1. /\ active' \in [Pods -> Followers \cup {None}]
        /\ connKeys' \in [WatchConns -> SUBSET Pods]
        /\ cancelled' \subseteq Followers
        /\ open' \subseteq WatchConns
    BY DEF TypeOK
  <2>2. ASSUME NEW q \in Pods, active'[q] # None
        PROVE  /\ pod'[active'[q]] = q
               /\ owner'[active'[q]] # None
               /\ active'[q] \notin due' \cup cancelled'
    BY <2>2, EntriesDiffer DEF TypeOK
  <2> QED BY <2>1, <2>2 DEF TypeOK
<1>2. Used'
  BY DEF Used, TypeOK
<1>3. FollowerAccounted'
  BY DEF FollowerAccounted, Running, TypeOK, Used
<1>4. ConnKeysMatch'
  BY DEF ConnKeysMatch, TypeOK
<1> QED BY <1>1, <1>2, <1>3, <1>4

(* Every step of the hub and of its followers keeps the invariant.         *)
LEMMA StepIInv == IInv /\ [Next]_vars => IInv'
<1> SUFFICES ASSUME IInv, [Next]_vars PROVE IInv'
  OBVIOUS
<1> USE NoneAssumption
<1>1. CASE UNCHANGED vars
  BY <1>1 DEF vars, IInv, TypeOK, Used, FollowerAccounted, ConnKeysMatch, Subscribed, Running
<1>2. ASSUME NEW c \in WatchConns, RemoveConn(c) PROVE IInv'
  BY <1>2, RemoveConnKeeps
<1>3. ASSUME NEW c \in WatchConns, NEW p \in Pods, Unsubscribe(c, p) PROVE IInv'
  <2>1. at' \in [Followers -> {"new", "opening", "reading", "failed", "ended"}] /\ at' = at
    BY <1>3 DEF Unsubscribe, IInv, TypeOK
  <2> QED BY <1>3, <2>1, DropKeeps DEF Unsubscribe
<1>4. ASSUME NEW c \in WatchConns, NEW p \in Pods, NEW f \in Followers, Subscribe(c, p, f)
      PROVE  IInv'
  BY <1>4, SubscribeKeeps
<1>5. ASSUME NEW f \in Followers, Cancel(f) PROVE IInv'
  BY <1>5 DEF Cancel, IInv, TypeOK, Used, FollowerAccounted, ConnKeysMatch, Subscribed, Running
<1>6. ASSUME NEW f \in Followers, FollowOpen(f) PROVE IInv'
  BY <1>6 DEF FollowOpen, IInv, TypeOK, Used, FollowerAccounted, ConnKeysMatch, Subscribed, Running
<1>7. ASSUME NEW f \in Followers, FollowFail(f) PROVE IInv'
  <2>1. /\ owner[f] \in WatchConns /\ pod[f] \in Pods
        /\ at' \in [Followers -> {"new", "opening", "reading", "failed", "ended"}]
        /\ \A g \in Followers : at'[g] = at[g] \/ (at[g] = "failed" /\ at'[g] = "ended")
    BY <1>7 DEF FollowFail, IInv, TypeOK, Used
  <2> QED BY <1>7, <2>1, DropKeeps DEF FollowFail
<1>8. ASSUME NEW f \in Followers, FollowEnd(f) PROVE IInv'
  BY <1>8 DEF FollowEnd, IInv, TypeOK, Used, FollowerAccounted, ConnKeysMatch, Subscribed, Running
<1>9. CASE Stop
  BY <1>9 DEF Stop, IInv, TypeOK, Used, FollowerAccounted, ConnKeysMatch, Subscribed, Running
<1> QED BY <1>1, <1>2, <1>3, <1>4, <1>5, <1>6, <1>7, <1>8, <1>9 DEF Next

(* The invariant holds in every reachable state.                           *)
LEMMA Invariant == Spec => []IInv
  BY InitIInv, StepIInv, PTL DEF Spec

(* The entries of the hub's map always hold a started follower of their    *)
(* own key that nobody has stopped (subscribePodLogs, Drop, RemoveConn).   *)
THEOREM TypeCorrect == Spec => []TypeOK
<1>1. IInv => TypeOK
  BY DEF IInv
<1> QED BY <1>1, Invariant, PTL

(* For any number of connections, pods and subscriptions, every follower   *)
(* that runs is its key's entry or has been handed to a stop: no goroutine *)
(* of followPodLogs is ever beyond the reach of Unsubscribe, RemoveConn    *)
(* and Stop.                                                               *)
THEOREM FollowersAccounted == Spec => []FollowerAccounted
<1>1. IInv => FollowerAccounted
  BY DEF IInv
<1> QED BY <1>1, Invariant, PTL

(* For any instance, until Stop the keys of a connection are exactly the   *)
(* entries it owns, so RemoveConn misses none of its subscriptions.        *)
THEOREM ConnKeysAlwaysMatch == Spec => []ConnKeysMatch
<1>1. IInv => ConnKeysMatch
  BY DEF IInv
<1> QED BY <1>1, Invariant, PTL

-------------------------------------------------------------------------------
(***************************************************************************)
(* Streams.  The stage of a terminal's handler tells which audit rows its  *)
(* session has by now, unless the store refused one, and whether its exec  *)
(* has been started: AuditedSoFar.                                         *)
(***************************************************************************)
Opened == <<"terminal-open">>
OpenedAndClosed == <<"terminal-open", "terminal-close">>

Unopened == {"idle", "refused"}
Executed == {"stream", "ended", "exit", "audit"}
Ending == {"return", "done"}

AuditedSoFar ==
  \A s \in Terms :
    /\ stage[s] \in Unopened \cup {"opened"} \cup Executed \cup Ending
    /\ stage[s] \in Unopened => audit[s] = <<>> /\ s \notin lost
    /\ stage[s] \in {"opened"} \cup Executed /\ s \notin lost => audit[s] = Opened
    /\ stage[s] \in Ending /\ remote[s] # "none" /\ s \notin lost => audit[s] = OpenedAndClosed
    /\ stage[s] \in Unopened \cup {"opened"} => remote[s] = "none"

StreamsInv == StreamsTypeOK /\ AuditedSoFar

(* The rows of an exec that ran, as recordTerminalAudit appends them.       *)
LEMMA RowsInOrder ==
  /\ Append(<<>>, "terminal-open") = Opened
  /\ Append(Opened, "terminal-close") = OpenedAndClosed
<1> DEFINE Actions == {"terminal-open", "terminal-close"}
           rows == Append(Opened, "terminal-close")
<1>1. Append(<<>>, "terminal-open") = Opened
  BY DEF Opened
<1>2. Opened \in Seq(Actions) /\ Len(Opened) = 1 /\ Opened[1] = "terminal-open"
  BY DEF Opened
<1>3. /\ rows \in Seq(Actions) /\ Len(rows) = 2
      /\ rows[1] = "terminal-open" /\ rows[2] = "terminal-close"
  <2>1. "terminal-close" \in Actions
    OBVIOUS
  <2>2. /\ rows \in Seq(Actions) /\ Len(rows) = Len(Opened) + 1
        /\ \A i \in 1..Len(Opened) : rows[i] = Opened[i]
        /\ rows[Len(Opened) + 1] = "terminal-close"
    BY <1>2, <2>1, AppendProperties, Zenon
  <2> QED BY <1>2, <2>2
<1>4. /\ OpenedAndClosed \in Seq(Actions) /\ Len(OpenedAndClosed) = 2
      /\ OpenedAndClosed[1] = "terminal-open" /\ OpenedAndClosed[2] = "terminal-close"
  BY DEF OpenedAndClosed
<1>5. \A i \in 1..2 : rows[i] = OpenedAndClosed[i]
  BY <1>3, <1>4
<1>6. rows = OpenedAndClosed
  BY <1>3, <1>4, <1>5, SeqEqual
<1> QED BY <1>1, <1>6

(* No session has been opened when the server starts.                       *)
LEMMA StreamsInitInv == StreamsInit => StreamsInv
  BY BoundsAssumption DEF StreamsInit, StreamsInv, StreamsTypeOK, AuditedSoFar,
     Handlers, Unopened, Executed, Ending, Sessions

(* What a session of either kind may do: none of these writes a row.       *)
LEMMA SessionKeeps ==
  ASSUME StreamsInv, NEW s \in Sessions,
         Refuse(s) \/ Leave(s) \/ RemoteExits(s) \/ ReadFails(s) \/ Return(s)
  PROVE  StreamsInv'
<1> USE KindsAssumption, BoundsAssumption, RowsInOrder DEF StreamsInv, StreamsTypeOK, AuditedSoFar,
        Handlers, Unopened, Executed, Ending, Sessions, Goto, netVars, termVars
<1>1. CASE Refuse(s)
  BY <1>1 DEF Refuse
<1>2. CASE Leave(s)
  BY <1>2 DEF Leave
<1>3. CASE RemoteExits(s)
  BY <1>3 DEF RemoteExits
<1>4. CASE ReadFails(s)
  BY <1>4 DEF ReadFails
<1>5. CASE Return(s)
  BY <1>5 DEF Cancelled, Return
<1> QED BY <1>1, <1>2, <1>3, <1>4, <1>5

(* podTerminal, pumpTerminalInput and the process: OpenTerminal writes the *)
(* first row, RecordClose the second, and only Exec starts a process.      *)
LEMMA TermKeeps ==
  ASSUME StreamsInv, NEW s \in Terms,
         \/ OpenTerminal(s) \/ TermHandler(s) \/ StdinWriteFails(s)
         \/ ReadStdin(s) \/ ReadResize(s) \/ ReadPing(s)
         \/ RemoteTakesStdin(s) \/ RemoteTakesSize(s) \/ OutputFails(s)
  PROVE  StreamsInv'
<1> USE KindsAssumption, BoundsAssumption, RowsInOrder DEF StreamsInv, StreamsTypeOK, AuditedSoFar,
        Handlers, Unopened, Executed, Ending, Sessions, Goto, netVars, termVars
<1>1. CASE OpenTerminal(s)
  <2>1. audit[s] = <<>> /\ s \notin lost
    BY <1>1 DEF OpenTerminal
  <2>2. CASE audit' = [audit EXCEPT ![s] = Opened] /\ lost' = lost
    <3>1. Opened \in Seq({"terminal-open", "terminal-close"})
      BY DEF Opened
    <3> QED BY <1>1, <2>1, <2>2, <3>1 DEF OpenTerminal, Upgrade
  <2>3. CASE audit' = audit /\ lost' = lost \cup {s}
    BY <1>1, <2>1, <2>3 DEF OpenTerminal, Upgrade
  <2> QED BY <1>1, <2>1, <2>2, <2>3 DEF OpenTerminal, Record
<1>2. CASE ExecFails(s)
  BY <1>2 DEF Send, ExecFails
<1>3. CASE Exec(s)
  BY <1>3 DEF Exec
<1>4. CASE StreamEnds(s)
  BY <1>4 DEF StreamEnds
<1>5. CASE CloseStdin(s)
  BY <1>5 DEF CloseStdin
<1>6. CASE SendExit(s)
  BY <1>6 DEF Send, SendExit
<1>7. CASE RecordClose(s)
  <2>1. s \notin lost => audit[s] = Opened
    BY <1>7 DEF RecordClose
  <2>2. Append(audit[s], "terminal-close") \in Seq({"terminal-open", "terminal-close"})
    BY AppendProperties
  <2>3. CASE /\ audit' = [audit EXCEPT ![s] = Append(audit[s], "terminal-close")]
             /\ lost' = lost
    BY <1>7, <2>1, <2>2, <2>3 DEF RecordClose
  <2>4. CASE audit' = audit /\ lost' = lost \cup {s}
    BY <1>7, <2>4 DEF RecordClose
  <2> QED BY <1>7, <2>3, <2>4 DEF RecordClose, Record
<1>8. CASE StdinWriteFails(s)
  BY <1>8 DEF StdinWriteFails
<1>9. CASE ReadStdin(s)
  BY <1>9 DEF ReadStdin
<1>10. CASE ReadResize(s)
  BY <1>10 DEF ReadResize
<1>11. CASE ReadPing(s)
  BY <1>11 DEF Send, ReadPing
<1>12. CASE RemoteTakesStdin(s)
  BY <1>12 DEF RemoteTakesStdin
<1>13. CASE RemoteTakesSize(s)
  BY <1>13 DEF RemoteTakesSize
<1>14. CASE OutputFails(s)
  BY <1>14 DEF WriteFails, OutputFails
<1> QED BY <1>1, <1>2, <1>3, <1>4, <1>5, <1>6, <1>7, <1>8, <1>9, <1>10, <1>11, <1>12, <1>13,
           <1>14 DEF TermHandler

(* podLogStream: a log stream runs from the moment the handler reads it.   *)
LEMMA LogKeeps ==
  ASSUME StreamsInv, NEW s \in Logs,
         OpenLog(s) \/ PodLogs(s) \/ LogHandler(s)
  PROVE  StreamsInv'
<1> USE KindsAssumption, BoundsAssumption, RowsInOrder DEF StreamsInv, StreamsTypeOK, AuditedSoFar,
        Handlers, Unopened, Executed, Ending, Sessions, Goto, netVars, termVars
<1>1. CASE OpenLog(s)
  <2>1. CASE Goto(s, "return") /\ Send(s, "error") /\ UNCHANGED <<pump, remote>>
    BY <1>1, <2>1 DEF OpenLog, Upgrade, Send
  <2>2. CASE /\ Goto(s, "read")
             /\ pump' = [pump EXCEPT ![s] = "read"]
             /\ remote' = [remote EXCEPT ![s] = "running"]
             /\ UNCHANGED queued
    BY <1>1, <2>2 DEF OpenLog, Upgrade
  <2> QED BY <1>1, <2>1, <2>2 DEF OpenLog
<1>2. CASE PodLogs(s)
  BY <1>2 DEF PodLogs
<1>3. CASE ReadChunk(s)
  BY <1>3 DEF ReadChunk
<1>4. CASE ReadEnd(s)
  BY <1>4 DEF ReadEnd
<1>5. CASE WriteChunk(s)
  <2>1. CASE Goto(s, "check") /\ Written(s)
    BY <1>5, <2>1 DEF Written, WriteChunk
  <2>2. CASE Goto(s, "eof") /\ WriteFails(s)
    BY <1>5, <2>2 DEF WriteFails, WriteChunk
  <2> QED BY <1>5, <2>1, <2>2 DEF WriteChunk
<1>6. CASE CheckClient(s)
  <2>1. CASE Goto(s, "return")
    BY <1>6, <2>1 DEF CheckClient
  <2>2. CASE Goto(s, "read")
    BY <1>6, <2>2 DEF CheckClient
  <2> QED BY <1>6, <2>1, <2>2 DEF CheckClient
<1>7. CASE SendClose(s)
  BY <1>7 DEF Send, SendClose
<1> QED BY <1>1, <1>2, <1>3, <1>4, <1>5, <1>6, <1>7 DEF LogHandler

(* Every step of a session keeps the invariant.                            *)
LEMMA StreamsStepInv == StreamsInv /\ [StreamsNext]_streamsVars => StreamsInv'
<1> SUFFICES ASSUME StreamsInv, [StreamsNext]_streamsVars PROVE StreamsInv'
  OBVIOUS
<1>1. CASE UNCHANGED streamsVars
  BY <1>1 DEF streamsVars, StreamsInv, StreamsTypeOK, AuditedSoFar
<1>2. CASE \E s \in Sessions :
             Refuse(s) \/ Leave(s) \/ RemoteExits(s) \/ ReadFails(s) \/ Return(s)
  BY <1>2, SessionKeeps
<1>3. CASE \E s \in Terms :
             \/ OpenTerminal(s) \/ TermHandler(s) \/ StdinWriteFails(s)
             \/ ReadStdin(s) \/ ReadResize(s) \/ ReadPing(s)
             \/ RemoteTakesStdin(s) \/ RemoteTakesSize(s) \/ OutputFails(s)
  BY <1>3, TermKeeps
<1>4. CASE \E s \in Logs : OpenLog(s) \/ PodLogs(s) \/ LogHandler(s)
  BY <1>4, LogKeeps
<1> QED BY <1>1, <1>2, <1>3, <1>4 DEF StreamsNext

LEMMA StreamsInvariant == StreamsSpec => []StreamsInv
  BY StreamsInitInv, StreamsStepInv, PTL DEF StreamsSpec

(* Sessions of any number keep the types of their state: among them, a     *)
(* refused request has neither a socket nor a reading goroutine, and the   *)
(* resize queue never holds more than its capacity.                        *)
THEOREM StreamsTypeCorrect == StreamsSpec => []StreamsTypeOK
<1>1. StreamsInv => StreamsTypeOK
  BY DEF StreamsInv
<1> QED BY <1>1, StreamsInvariant, PTL

(* For any number of terminals and however client, shell and goroutines    *)
(* interleave, a session whose exec ran ends with exactly its opening and  *)
(* its closing row, in that order, unless the store refused one            *)
(* (podTerminal's two calls of recordTerminalAudit).                       *)
THEOREM SessionsAudited == StreamsSpec => []SessionAudited
<1>1. StreamsInv => SessionAudited
  BY DEF StreamsInv, AuditedSoFar, SessionAudited, OpenedAndClosed, Ending
<1> QED BY <1>1, StreamsInvariant, PTL
===============================================================================
