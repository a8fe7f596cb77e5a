------------------------------ MODULE AgentClient ------------------------------
(* The agent in the cluster, internal/agent/client.go: the loop of Run with  *)
(* its backoff, the signaling session of runOnce with the goroutines that    *)
(* serve starts, and handleDial with the two copies of each tunnel. AgentHub *)
(* is the other end. A step is one blocking call or one wake-up.             *)
EXTENDS Naturals

CONSTANTS
  DialFrames,               \* dial frames, each handled by a goroutine
  MaxSessions,              \* bound: sessions that register
  BackoffStart, BackoffMax  \* seconds

ASSUME AgentClientAssumption ==
  /\ MaxSessions \in Nat
  /\ BackoffStart \in Nat \ {0} /\ BackoffMax \in Nat /\ BackoffStart <= BackoffMax

(* run     : where Run and runOnce stand                                     *)
(* backoff : the next wait                                                   *)
(* stopped : the context of Run is cancelled (SIGTERM)                       *)
(* cur     : the session registered last                                     *)
(* sess    : per session its socket, the server's end, heartbeat and watcher *)
(* dial    : per dial frame its handler, session, connections and copies:    *)
(*           up copies from the tunnel to the target, down the other way     *)
VARIABLES run, backoff, stopped, cur, sess, dial
clientVars == <<run, backoff, stopped, cur, sess, dial>>
loopVars == <<run, backoff, cur>>

Sessions == 1..MaxSessions

Fresh == [ws |-> "none", peer |-> "up", beat |-> "none", watch |-> "none"]
Registered == [ws |-> "open", peer |-> "up", beat |-> "runs", watch |-> "runs"]
NoDial == [at |-> "idle", sess |-> 0, target |-> "none", targetEnd |-> "up",
           tunnel |-> "none", tunnelEnd |-> "up", up |-> "none", down |-> "none"]

SessionRecord == [ws : {"none", "open", "closed"}, peer : {"up", "gone"},
                  beat : {"none", "runs", "ended"}, watch : {"none", "runs", "ended"}]
DialRecord == [at : {"idle", "target", "data", "copy", "join", "done"}, sess : 0..MaxSessions,
               target : {"none", "open", "closed"}, targetEnd : {"up", "gone"},
               tunnel : {"none", "open", "closed"}, tunnelEnd : {"up", "gone"},
               up : {"none", "runs", "ended"}, down : {"none", "runs", "ended"}]

ClientTypeOK ==
  /\ run \in {"top", "dial", "register", "serve", "lost", "failed", "wait", "returned"}
  /\ backoff \in BackoffStart..BackoffMax
  /\ stopped \in BOOLEAN
  /\ cur \in 0..MaxSessions
  /\ run = "serve" => cur # 0
  /\ sess \in [Sessions -> SessionRecord]
  /\ dial \in [DialFrames -> DialRecord]

ClientInit ==
  /\ run = "top" /\ backoff = BackoffStart
  /\ stopped = FALSE /\ cur = 0
  /\ sess = [s \in Sessions |-> Fresh]
  /\ dial = [d \in DialFrames |-> NoDial]

(* The context of a session's goroutines is cancelled when serve returns.    *)
Serving(s) == run = "serve" /\ cur = s
Over(s) == stopped \/ ~Serving(s)

-------------------------------------------------------------------------------
(* Run and runOnce                                                           *)
Attempt ==
  /\ run = "top"
  /\ run' = IF stopped THEN "returned" ELSE "dial"
  /\ UNCHANGED <<backoff, stopped, cur, sess, dial>>

DialSignaling ==
  /\ run = "dial"
  /\ \/ ~stopped /\ run' = "register"
     \/ run' = "failed"
  /\ UNCHANGED <<backoff, stopped, cur, sess, dial>>

(* The reply is awaited with a deadline only: cancelling does not interrupt  *)
(* it. serve then starts the heartbeat and the watcher of the context.       *)
Register ==
  /\ run = "register"
  /\ \/ /\ cur < MaxSessions
        /\ cur' = cur + 1
        /\ sess' = [sess EXCEPT ![cur'] = Registered]
        /\ run' = "serve"
     \/ run' = "failed" /\ UNCHANGED <<cur, sess>>
  /\ UNCHANGED <<backoff, stopped, dial>>

(* A frame to dial is handled in a goroutine of its own. *)
DialFrame(d) ==
  /\ run = "serve" /\ sess[cur].ws = "open" /\ sess[cur].peer = "up"
  /\ dial[d].at = "idle"
  /\ dial' = [dial EXCEPT ![d].at = "target", ![d].sess = cur]
  /\ UNCHANGED <<loopVars, stopped, sess>>

ReadFailsOnClose ==
  /\ run = "serve" /\ sess[cur].ws = "closed"
  /\ run' = "lost"
  /\ UNCHANGED <<backoff, stopped, cur, sess, dial>>

(* The socket was closed, the server has gone, or its answers stay away      *)
(* beyond the read deadline because nobody pings any more. *)
Unreadable(s) == sess[s].ws = "closed" \/ sess[s].peer = "gone" \/ sess[s].beat = "ended"

(* serve cancels its context and runOnce closes the socket. *)
ReadFails ==
  /\ run = "serve" /\ Unreadable(cur)
  /\ run' = "lost"
  /\ sess' = [sess EXCEPT ![cur].ws = "closed"]
  /\ UNCHANGED <<backoff, stopped, cur, dial>>

(* A session that was registered resets the backoff. *)
Retry ==
  /\ run \in {"failed", "lost"}
  /\ IF stopped THEN run' = "returned" /\ UNCHANGED backoff
     ELSE run' = "wait" /\ backoff' = IF run = "lost" THEN BackoffStart ELSE backoff
  /\ UNCHANGED <<stopped, cur, sess, dial>>

Least(a, b) == IF a <= b THEN a ELSE b

(* select: when the timer has fired and the context is cancelled, either.    *)
Wait ==
  /\ run = "wait"
  /\ \/ stopped /\ run' = "returned" /\ UNCHANGED backoff
     \/ /\ run' = "top"
        /\ backoff' = Least(2 * backoff, BackoffMax)
  /\ UNCHANGED <<stopped, cur, sess, dial>>

Loop == Attempt \/ DialSignaling \/ Register \/ ReadFails \/ Retry \/ Wait

-------------------------------------------------------------------------------
(* The goroutines of a session                                               *)

(* The heartbeat ends with the context, or when a ping cannot be sent, which *)
(* nobody is told of.                                                        *)
BeatFails(s) ==
  /\ sess[s].beat = "runs" /\ ~Over(s)
  /\ sess' = [sess EXCEPT ![s].beat = "ended"]
  /\ UNCHANGED <<loopVars, stopped, dial>>

BeatStops(s) ==
  /\ sess[s].beat = "runs" /\ Over(s)
  /\ sess' = [sess EXCEPT ![s].beat = "ended"]
  /\ UNCHANGED <<loopVars, stopped, dial>>

WatchEnds(s) ==
  /\ sess[s].watch = "runs" /\ Over(s)
  /\ sess' = [sess EXCEPT ![s].watch = "ended", ![s].ws = "closed"]
  /\ UNCHANGED <<loopVars, stopped, dial>>

-------------------------------------------------------------------------------
(* handleDial: the target first, then the data channel, then both copies     *)
DialTarget(d) ==
  /\ dial[d].at = "target"
  /\ \/ ~Over(dial[d].sess) /\ dial' = [dial EXCEPT ![d].at = "data", ![d].target = "open"]
     \/ dial' = [dial EXCEPT ![d].at = "done"]
  /\ UNCHANGED <<loopVars, stopped, sess>>

OpenDataForgets(d) ==
  /\ dial[d].at = "data"
  /\ \/ /\ ~Over(dial[d].sess)
        /\ dial' = [dial EXCEPT ![d].at = "copy", ![d].tunnel = "open",
                                ![d].up = "runs", ![d].down = "runs"]
     \/ dial' = [dial EXCEPT ![d].at = "done"]
  /\ UNCHANGED <<loopVars, stopped, sess>>

OpenData(d) ==
  /\ dial[d].at = "data"
  /\ \/ /\ ~Over(dial[d].sess)
        /\ dial' = [dial EXCEPT ![d].at = "copy", ![d].tunnel = "open",
                                ![d].up = "runs", ![d].down = "runs"]
     \/ dial' = [dial EXCEPT ![d].at = "done", ![d].target = "closed"]
  /\ UNCHANGED <<loopVars, stopped, sess>>

(* An end of a connection can be read from until either side closes it.      *)
TunnelShut(d) == dial[d].tunnel = "closed" \/ dial[d].tunnelEnd = "gone"
TargetShut(d) == dial[d].target = "closed" \/ dial[d].targetEnd = "gone"

(* A copy that ends closes only the connection it has read from, which does  *)
(* not wake the other copy. *)
UpEnds(d) ==
  /\ dial[d].up = "runs" /\ TunnelShut(d)
  /\ dial' = [dial EXCEPT ![d].up = "ended", ![d].tunnel = "closed"]
  /\ UNCHANGED <<loopVars, stopped, sess>>

DownEnds(d) ==
  /\ dial[d].down = "runs" /\ TargetShut(d)
  /\ dial' = [dial EXCEPT ![d].down = "ended", ![d].target = "closed"]
  /\ UNCHANGED <<loopVars, stopped, sess>>

(* Data that arrives for a connection that has gone ends the copy as well.   *)
UpWriteFails(d) ==
  /\ dial[d].up = "runs" /\ TargetShut(d) /\ ~TunnelShut(d)
  /\ dial' = [dial EXCEPT ![d].up = "ended", ![d].tunnel = "closed"]
  /\ UNCHANGED <<loopVars, stopped, sess>>

DownWriteFails(d) ==
  /\ dial[d].down = "runs" /\ TunnelShut(d) /\ ~TargetShut(d)
  /\ dial' = [dial EXCEPT ![d].down = "ended", ![d].target = "closed"]
  /\ UNCHANGED <<loopVars, stopped, sess>>

CancelClosesTunnel(d) ==
  /\ dial[d].at = "copy" /\ Over(dial[d].sess)
  /\ dial' = [dial EXCEPT ![d].at = "join", ![d].tunnel = "closed"]
  /\ UNCHANGED <<loopVars, stopped, sess>>

Cancel(d) ==
  /\ dial[d].at = "copy" /\ Over(dial[d].sess)
  /\ dial' = [dial EXCEPT ![d].at = "join", ![d].tunnel = "closed", ![d].target = "closed"]
  /\ UNCHANGED <<loopVars, stopped, sess>>

Finish(d) ==
  /\ dial[d].at \in {"copy", "join"}
  /\ dial[d].up = "ended" /\ dial[d].down = "ended"
  /\ dial' = [dial EXCEPT ![d].at = "done", ![d].target = "closed"]
  /\ UNCHANGED <<loopVars, stopped, sess>>

Handle(d) ==
  DialTarget(d) \/ OpenData(d) \/ Cancel(d) \/ Finish(d)

-------------------------------------------------------------------------------
(* The environment: the signal to stop, the server, either end of a tunnel   *)
Stop ==
  /\ ~stopped /\ stopped' = TRUE
  /\ UNCHANGED <<loopVars, sess, dial>>

ServerGone(s) ==
  /\ sess[s].ws = "open" /\ sess[s].peer = "up"
  /\ sess' = [sess EXCEPT ![s].peer = "gone"]
  /\ UNCHANGED <<loopVars, stopped, dial>>

TargetGone(d) ==
  /\ dial[d].target = "open" /\ dial[d].targetEnd = "up"
  /\ dial' = [dial EXCEPT ![d].targetEnd = "gone"]
  /\ UNCHANGED <<loopVars, stopped, sess>>

TunnelGone(d) ==
  /\ dial[d].tunnel = "open" /\ dial[d].tunnelEnd = "up"
  /\ dial' = [dial EXCEPT ![d].tunnelEnd = "gone"]
  /\ UNCHANGED <<loopVars, stopped, sess>>

ClientNext ==
  \/ Loop \/ Stop
  \/ \E s \in Sessions : BeatFails(s) \/ BeatStops(s) \/ WatchEnds(s) \/ ServerGone(s)
  \/ \E d \in DialFrames :
       \/ DialFrame(d) \/ Handle(d) \/ UpEnds(d) \/ DownEnds(d)
       \/ UpWriteFails(d) \/ DownWriteFails(d) \/ TargetGone(d) \/ TunnelGone(d)

ClientSpec == ClientInit /\ [][ClientNext]_clientVars

(* Blocking calls have deadlines, timers fire, a goroutine that can go on    *)
(* does. Nothing is assumed of the server, of either end of a tunnel or of   *)
(* the data they send.                                                       *)
ClientFairSpec ==
  /\ ClientSpec
  /\ WF_clientVars(Loop)
  /\ \A s \in Sessions : WF_clientVars(BeatStops(s)) /\ WF_clientVars(WatchEnds(s))
  /\ \A d \in DialFrames :
       WF_clientVars(Handle(d)) /\ WF_clientVars(UpEnds(d)) /\ WF_clientVars(DownEnds(d))

-------------------------------------------------------------------------------
(* A handler that has ended leaves no connection open and no copy running,   *)
(* whichever of target, data channel, copies and session failed first.       *)
HandlerLeavesNothing ==
  \A d \in DialFrames : dial[d].at = "done" =>
    /\ dial[d].target # "open" /\ dial[d].tunnel # "open"
    /\ dial[d].up # "runs" /\ dial[d].down # "runs"

(* The agent serves one session at a time: the socket of a session is open   *)
(* only while serve reads from it, however late the goroutines of the        *)
(* sessions before it wake up.                                               *)
OneSessionAtATime == \A s \in Sessions : sess[s].ws = "open" => Serving(s)

(* A session whose server has gone without a word, or which the signal      *)
(* finds waiting, is given up: there is another attempt, after the shortest  *)
(* of waits however long those before the session were, or Run returns.      *)
AttemptsGoOn ==
  (run = "serve" /\ (stopped \/ sess[cur].peer = "gone")) ~>
    \/ run = "dial" /\ ~stopped /\ backoff = Least(2 * BackoffStart, BackoffMax)
    \/ run = "returned"

(* When a session is over, also by the signal to stop, its goroutines end    *)
(* and its connections are closed, even if neither end of a tunnel ever says *)
(* a word. Nothing waits for them: serve's and handleDial's use of their     *)
(* contexts is all that ends them.                                           *)
SessionEndsWhole ==
  \A s \in Sessions : (s <= cur /\ Over(s)) ~>
    /\ sess[s].beat = "ended" /\ sess[s].watch = "ended" /\ sess[s].ws = "closed"
    /\ \A d \in DialFrames : dial[d].sess = s => dial[d].at = "done"
===============================================================================
