----------------------------- MODULE ClusterManager -----------------------------
(***************************************************************************)
(* The runtime registry of one cluster and its health loops: backend/      *)
(* internal/k8s/manager.go, runtime.go and health.go, with the status      *)
(* callback of cmd/server/main.go and the clusters subscription of the     *)
(* watch hub, which both hear of every transition.                         *)
(*                                                                         *)
(* One element of Runtimes is one call of Manager.Register and the         *)
(* runtime it builds; one element of Removals is one call of Unregister.   *)
(* Every step is one critical section of Manager.mu, the closing of a      *)
(* stopCh, one join, one probe with the setStatus that follows it, or one  *)
(* callback of notify.                                                     *)
(***************************************************************************)
EXTENDS Naturals, FiniteSets

CONSTANTS Runtimes, Removals,
          Subscribers,  \* connections that subscribe to clusters, once each
          None,
          DegradedThreshold, ReconnectThreshold,  \* consecutive failures
          HealthInterval, BackoffStart, BackoffMax,  \* seconds
          MaxFails    \* bound: failures are counted up to here

ASSUME NoneAssumption == None \notin Runtimes
ASSUME ThresholdAssumption ==
  /\ DegradedThreshold \in Nat /\ ReconnectThreshold \in Nat /\ MaxFails \in Nat
  /\ 0 < DegradedThreshold /\ DegradedThreshold < ReconnectThreshold
  /\ ReconnectThreshold <= MaxFails
ASSUME BackoffAssumption ==
  /\ HealthInterval \in Nat /\ BackoffStart \in Nat /\ BackoffMax \in Nat
  /\ 0 < BackoffStart /\ BackoffStart <= BackoffMax

VARIABLES
  current,   \* Manager.runtimes entry
  reg, old,  \* where each Register call stands; the runtime it found
  rem, target, \* where each Unregister call stands; the runtime it removes
  stop,      \* runtimes whose stopCh is closed
  loop,      \* where the health loop of each runtime stands
  health,    \* status, message and the local variables of runHealth
  db,        \* the status column, which StatusUpdater writes
  unsaved,   \* history: the last write of the column failed
  feed, snap, last  \* each subscriber: progress, snapshot read, last frame sent

callVars == <<current, reg, old, rem, target, stop>>
feedVars == <<feed, snap, last>>
column == <<db, unsaved>>
vars == <<callVars, loop, health, column, feedVars>>

Status == {"", "ready", "degraded", "reconnecting"}

HealthRecord ==
  [status : Status, msg : 0..MaxFails, fails : 0..MaxFails, local : Status,
   backoff : 1..BackoffMax, delay : Nat]

LoopState == {"none", "select", "probing", "store", "listen", "ended"}
RegState == {"new", "stopOld", "join", "install", "announce", "store", "listen",
             "start", "done"}

TypeOK ==
  /\ current \in Runtimes \cup {None}
  /\ reg \in [Runtimes -> RegState]
  /\ old \in [Runtimes -> Runtimes \cup {None}]
  /\ \A r \in Runtimes : reg[r] \in {"stopOld", "join"} => old[r] # None
  /\ rem \in [Removals -> {"new", "stop", "join", "done"}]
  /\ target \in [Removals -> Runtimes \cup {None}]
  /\ \A u \in Removals : rem[u] \in {"stop", "join"} => target[u] # None
  /\ stop \subseteq Runtimes
  /\ loop \in [Runtimes -> LoopState]
  /\ health \in [Runtimes -> HealthRecord]
  /\ db \in Status
  /\ unsaved \in BOOLEAN
  /\ feed \in [Subscribers -> {"none", "subscribed", "read", "live"}]
  /\ snap \in [Subscribers -> Status]
  /\ last \in [Subscribers -> Status]

(* A loop that has probed nothing: only setStatus of Register touches it.  *)
NewHealth(st) == [status |-> st, msg |-> 0, fails |-> 0, local |-> "",
                  backoff |-> BackoffStart, delay |-> HealthInterval]

Init ==
  /\ current = None
  /\ reg = [r \in Runtimes |-> "new"]
  /\ old = [r \in Runtimes |-> None]
  /\ rem = [u \in Removals |-> "new"]
  /\ target = [u \in Removals |-> None]
  /\ stop = {}
  /\ loop = [r \in Runtimes |-> "none"]
  /\ health = [r \in Runtimes |-> NewHealth("")]
  /\ db = ""
  /\ unsaved = FALSE
  /\ feed = [w \in Subscribers |-> "none"]
  /\ snap = [w \in Subscribers |-> ""]
  /\ last = [w \in Subscribers |-> ""]

-----------------------------------------------------------------------------
(* Manager.Register                                                        *)

At(r, l) == reg' = [reg EXCEPT ![r] = l]

(* An old runtime makes Register give up the lock before it installs.      *)
RegisterLookup(r) ==
  /\ reg[r] = "new"
  /\ \/ /\ current = None
        /\ current' = r
        /\ At(r, "announce")
        /\ UNCHANGED old
     \/ /\ current # None
        /\ old' = [old EXCEPT ![r] = current]
        /\ At(r, "stopOld")
        /\ UNCHANGED current
  /\ UNCHANGED <<rem, target, stop, loop, health, column, feedVars>>

(* old.Stop(): close stopCh, then wait for healthDone.                     *)
RegisterStopOld(r) ==
  /\ reg[r] = "stopOld"
  /\ stop' = stop \cup {old[r]}
  /\ At(r, "join")
  /\ UNCHANGED <<current, old, rem, target, loop, health, column, feedVars>>

AlwaysJoined(q) == TRUE
Joined(q) == loop[q] = "ended"

RegisterJoin(r) ==
  /\ reg[r] = "join" /\ Joined(old[r])
  /\ At(r, "install")
  /\ UNCHANGED <<current, old, rem, target, stop, loop, health, column, feedVars>>

RegisterInstall(r) ==
  /\ reg[r] = "install"
  /\ current' = r
  /\ At(r, "announce")
  /\ UNCHANGED <<old, rem, target, stop, loop, health, column, feedVars>>

(* setStatus("ready"), before the loop that owns the status is started.    *)
RegisterAnnounce(r) ==
  /\ reg[r] = "announce"
  /\ health' = [health EXCEPT ![r] = NewHealth("ready")]
  /\ At(r, "store")
  /\ UNCHANGED <<current, old, rem, target, stop, loop, column, feedVars>>

(* notify: the status column first, then the listeners, here the watch     *)
(* hub's publishClusterStatus, which sends a frame to every subscriber.    *)
ToFeed(st) == last' = [w \in Subscribers |-> IF feed[w] = "none" THEN last[w] ELSE st]

(* StatusUpdater only logs a failed write; the next one comes with the     *)
(* next transition.                                                        *)
WriteStatus(st) ==
  \/ db' = st /\ unsaved' = FALSE
  \/ UNCHANGED db /\ unsaved' = TRUE

RegisterStore(r) ==
  /\ reg[r] = "store"
  /\ WriteStatus("ready")
  /\ At(r, "listen")
  /\ UNCHANGED <<current, old, rem, target, stop, loop, health, feedVars>>

RegisterListen(r) ==
  /\ reg[r] = "listen"
  /\ ToFeed("ready")
  /\ At(r, "start")
  /\ UNCHANGED <<current, old, rem, target, stop, loop, health, column, feed, snap>>

(* go m.runHealth(rt)                                                      *)
RegisterStart(r) ==
  /\ reg[r] = "start"
  /\ loop' = [loop EXCEPT ![r] = "select"]
  /\ At(r, "done")
  /\ UNCHANGED <<current, old, rem, target, stop, health, column, feedVars>>

Register(r) ==
  \/ RegisterStopOld(r) \/ RegisterJoin(r) \/ RegisterInstall(r)
  \/ RegisterAnnounce(r) \/ RegisterStore(r) \/ RegisterListen(r) \/ RegisterStart(r)

-----------------------------------------------------------------------------
(* Manager.Unregister, which Close calls for every cluster                 *)

(* The entry is taken out under the lock; without one there is nothing to  *)
(* do.                                                                     *)
UnregisterLookup(u) ==
  /\ rem[u] = "new"
  /\ target' = [target EXCEPT ![u] = current]
  /\ current' = None
  /\ rem' = [rem EXCEPT ![u] = IF current = None THEN "done" ELSE "stop"]
  /\ UNCHANGED <<reg, old, stop, loop, health, column, feedVars>>

UnregisterStopForgotten(u) ==
  /\ rem[u] = "stop"
  /\ rem' = [rem EXCEPT ![u] = "join"]
  /\ UNCHANGED <<current, reg, old, target, stop, loop, health, column, feedVars>>

(* rt.Stop(), outside the lock: close stopCh, then wait for healthDone.    *)
UnregisterStop(u) ==
  /\ rem[u] = "stop"
  /\ stop' = stop \cup {target[u]}
  /\ rem' = [rem EXCEPT ![u] = "join"]
  /\ UNCHANGED <<current, reg, old, target, loop, health, column, feedVars>>

UnregisterJoin(u) ==
  /\ rem[u] = "join" /\ Joined(target[u])
  /\ rem' = [rem EXCEPT ![u] = "done"]
  /\ UNCHANGED <<current, reg, old, target, stop, loop, health, column, feedVars>>

Unregister(u) == UnregisterStop(u) \/ UnregisterJoin(u)

-----------------------------------------------------------------------------
(* runHealth                                                               *)

Least(a, b) == IF a <= b THEN a ELSE b

AfterSuccessKeepBackoff(h) ==
  [status |-> "ready", msg |-> 0, fails |-> 0, local |-> "ready",
   backoff |-> h.backoff, delay |-> HealthInterval]

AfterSuccess(h) ==
  [status |-> "ready", msg |-> 0, fails |-> 0, local |-> "ready",
   backoff |-> BackoffStart, delay |-> HealthInterval]

(* The number of failures is part of the message while reconnecting.       *)
Reconnecting(h, n) ==
  [status |-> "reconnecting", msg |-> n, fails |-> n, local |-> "reconnecting",
   backoff |-> Least(2 * h.backoff, BackoffMax), delay |-> h.backoff]

Degraded(h, n) ==
  [status |-> "degraded", msg |-> 0, fails |-> n, local |-> "degraded",
   backoff |-> h.backoff, delay |-> HealthInterval]

(* Below the thresholds the status, its message and its copy stay.         *)
Unsettled(h, n) ==
  [status |-> h.status, msg |-> h.msg, fails |-> n, local |-> h.local,
   backoff |-> h.backoff, delay |-> HealthInterval]

AfterFailureLate(h) ==
  LET n == Least(h.fails + 1, MaxFails) IN
  IF n > ReconnectThreshold THEN Reconnecting(h, n)
  ELSE IF n >= DegradedThreshold THEN Degraded(h, n)
  ELSE Unsettled(h, n)

AfterFailure(h) ==
  LET n == Least(h.fails + 1, MaxFails) IN
  IF n >= ReconnectThreshold THEN Reconnecting(h, n)
  ELSE IF n >= DegradedThreshold THEN Degraded(h, n)
  ELSE Unsettled(h, n)

(* setStatus returns true, so the transition is published.                 *)
Changed(h, g) == h.status # g.status \/ h.msg # g.msg

Loop(r, l) == loop' = [loop EXCEPT ![r] = l]

LoopStop(r) ==
  /\ loop[r] = "select" /\ r \in stop
  /\ Loop(r, "ended")
  /\ UNCHANGED <<callVars, health, column, feedVars>>

TimerFires(r) ==
  /\ loop[r] = "select"
  /\ Loop(r, "probing")
  /\ UNCHANGED <<callVars, health, column, feedVars>>

(* A probe that succeeds also resets the RESTMapper, unless it is the      *)
(* first; nothing reads that mapper's cache, so it is not modelled.        *)
ProbeSucceeds(r) ==
  LET g == AfterSuccess(health[r]) IN
  /\ loop[r] = "probing"
  /\ health' = [health EXCEPT ![r] = g]
  /\ Loop(r, IF Changed(health[r], g) THEN "store" ELSE "select")
  /\ UNCHANGED <<callVars, column, feedVars>>

ProbeFails(r) ==
  LET g == AfterFailure(health[r]) IN
  /\ loop[r] = "probing"
  /\ health' = [health EXCEPT ![r] = g]
  /\ Loop(r, IF Changed(health[r], g) THEN "store" ELSE "select")
  /\ UNCHANGED <<callVars, column, feedVars>>

LoopStore(r) ==
  /\ loop[r] = "store"
  /\ WriteStatus(health[r].status)
  /\ Loop(r, "listen")
  /\ UNCHANGED <<callVars, health, feedVars>>

LoopListen(r) ==
  /\ loop[r] = "listen"
  /\ ToFeed(health[r].status)
  /\ Loop(r, "select")
  /\ UNCHANGED <<callVars, health, column, feed, snap>>

HealthLoop(r) ==
  TimerFires(r) \/ ProbeSucceeds(r) \/ ProbeFails(r) \/ LoopStore(r) \/ LoopListen(r)

-----------------------------------------------------------------------------
(* Subscribe to clusters: the subscriber is listed, then a snapshot of the *)
(* status is read, then sent (watchhub.go, pushClusterSnapshot).           *)

FeedSubscribe(w) ==
  /\ feed[w] = "none"
  /\ feed' = [feed EXCEPT ![w] = "subscribed"]
  /\ UNCHANGED <<callVars, loop, health, column, snap, last>>

FeedRead(w) ==
  /\ feed[w] = "subscribed"
  /\ \/ /\ current = None
        /\ feed' = [feed EXCEPT ![w] = "live"]
        /\ UNCHANGED snap
     \/ /\ current # None
        /\ feed' = [feed EXCEPT ![w] = "read"]
        /\ snap' = [snap EXCEPT ![w] = health[current].status]
  /\ UNCHANGED <<callVars, loop, health, column, last>>

FeedSend(w) ==
  /\ feed[w] = "read"
  /\ feed' = [feed EXCEPT ![w] = "live"]
  /\ last' = [last EXCEPT ![w] = snap[w]]
  /\ UNCHANGED <<callVars, loop, health, column, snap>>

-----------------------------------------------------------------------------
Next ==
  \/ \E r \in Runtimes :
       RegisterLookup(r) \/ Register(r) \/ LoopStop(r) \/ HealthLoop(r)
  \/ \E u \in Removals : UnregisterLookup(u) \/ Unregister(u)
  \/ \E w \in Subscribers : FeedSubscribe(w) \/ FeedRead(w) \/ FeedSend(w)

Spec == Init /\ [][Next]_vars

(* Calls go on, probes and callbacks return, timers fire.  A closed stopCh *)
(* is chosen by select in the end: right after timer.Reset it is the only  *)
(* ready case.                                                             *)
Fairness ==
  /\ \A r \in Runtimes :
       WF_vars(Register(r)) /\ WF_vars(HealthLoop(r)) /\ SF_vars(LoopStop(r))
  /\ \A u \in Removals : WF_vars(Unregister(u))
  /\ \A w \in Subscribers : WF_vars(FeedRead(w)) /\ WF_vars(FeedSend(w))

FairSpec == Spec /\ Fairness

-----------------------------------------------------------------------------
(* Properties                                                              *)

Looping(r) == loop[r] \notin {"none", "ended"}

Matches(h) ==
  /\ h.status = "ready" <=> h.fails < DegradedThreshold
  /\ h.status = "degraded" <=> h.fails \in DegradedThreshold..(ReconnectThreshold - 1)
  /\ h.status = "reconnecting" <=> h.fails >= ReconnectThreshold
  /\ h.fails < ReconnectThreshold => h.backoff = BackoffStart /\ h.delay = HealthInterval
  /\ h.fails >= ReconnectThreshold => h.delay <= h.backoff

(* The status a runtime reports is the one its consecutive failures call   *)
(* for, and a backoff that has grown is forgotten with the outage it       *)
(* belongs to (runHealth over any sequence of probe results).              *)
HealthMatchesFailures == \A r \in Runtimes : Looping(r) => Matches(health[r])

(* While reconnecting, the k-th wait is BackoffStart * 2^(k-1), at most    *)
(* BackoffMax (01-architecture.md §3.1).                                   *)
BackoffDoubles ==
  \A r \in Runtimes :
    LET h == health[r] IN
    Looping(r) /\ h.fails \in ReconnectThreshold..(MaxFails - 1) =>
      h.delay = Least(BackoffStart * 2 ^ (h.fails - ReconnectThreshold), BackoffMax)

(* The runtime that an Unregister call removed publishes nothing once the  *)
(* call has returned, even if its Register was still under way: its row    *)
(* may be deleted (ClusterRuntime.Stop joins healthDone).                  *)
RemovedIsSilent ==
  \A u \in Removals :
    rem[u] = "done" /\ target[u] # None
      => loop[target[u]] = "ended" /\ reg[target[u]] = "done"

(* When registrations have replaced one another and the loop of the one    *)
(* runtime left rests, the status column holds its status, unless the last *)
(* write failed, which main.go only logs: no runtime it replaced has       *)
(* written later (notify and the join of Register).  Removals give no such *)
(* guarantee: Unregister frees the entry before it stops the runtime, so a *)
(* registration may find it free and overtake it.                          *)
StoreIsCurrent ==
  \A r \in Runtimes :
    /\ \A u \in Removals : rem[u] = "new"
    /\ current = r /\ reg[r] = "done" /\ loop[r] = "select"
    /\ \A q \in Runtimes \ {r} : ~Looping(q) /\ reg[q] \in {"new", "done"}
    => unsaved \/ db = health[r].status

(* Every call returns, however registrations and removals overlap: nobody  *)
(* waits for a health loop that is never started or never told to stop.    *)
CallsReturn ==
  /\ \A r \in Runtimes : reg[r] # "new" ~> reg[r] = "done"
  /\ \A u \in Removals : rem[u] # "new" ~> rem[u] = "done"
===============================================================================
