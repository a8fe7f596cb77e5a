-------------------------------- MODULE PodLogs --------------------------------
(***************************************************************************)
(* The podlogs subscriptions of the watch hub: subscribePodLogs,           *)
(* followPodLogs and the podlogs side of Unsubscribe, RemoveConn and Stop  *)
(* in backend/internal/service/watchhub.go.                                *)
(*                                                                         *)
(* One element of Followers is one accepted subscription, i.e. one         *)
(* subState and the goroutine that follows the log for it.  Every step is  *)
(* one critical section of WatchHub.mu, one cancel, or one return of a     *)
(* blocking call of the follower.                                          *)
(***************************************************************************)
EXTENDS FiniteSets

CONSTANTS WatchConns,  \* watch connections
          Pods,        \* podlogs keys: cluster, namespace and pod
          Followers,   \* accepted subscriptions, each used once
          None

ASSUME NoneAssumption == None \notin Followers /\ None \notin WatchConns

VARIABLES
  active,     \* the subscription of each key: WatchHub.subs
  connKeys,   \* podlogs keys of each connection: WatchHub.conns
  open,       \* connections whose handler still reads frames
  pod, owner, \* key and connection of each follower
  at,         \* where each follower goroutine stands
  due,        \* followers whose stop is about to be called, outside the lock
  cancelled,  \* followers whose context is cancelled
  stopped     \* WatchHub.Stop has run

vars == <<active, connKeys, open, pod, owner, at, due, cancelled, stopped>>

TypeOK ==
  /\ active \in [Pods -> Followers \cup {None}]
  /\ connKeys \in [WatchConns -> SUBSET Pods]
  /\ open \subseteq WatchConns
  /\ pod \in [Followers -> Pods \cup {None}]
  /\ owner \in [Followers -> WatchConns \cup {None}]
  /\ at \in [Followers -> {"new", "opening", "reading", "failed", "ended"}]
  /\ due \subseteq Followers
  /\ cancelled \subseteq Followers
  /\ stopped \in BOOLEAN
  /\ \A p \in Pods : active[p] # None =>
       pod[active[p]] = p /\ owner[active[p]] # None /\ active[p] \notin due \cup cancelled

Init ==
  /\ active = [p \in Pods |-> None]
  /\ connKeys = [c \in WatchConns |-> {}]
  /\ open = WatchConns
  /\ pod = [f \in Followers |-> None]
  /\ owner = [f \in Followers |-> None]
  /\ at = [f \in Followers |-> "new"]
  /\ due = {}
  /\ cancelled = {}
  /\ stopped = FALSE

Subscribed(c, p) == active[p] # None /\ owner[active[p]] = c

-----------------------------------------------------------------------------
(* subscribePodLogs: refused while the key has a subscription, whatever    *)
(* became of its follower.  Stop is not consulted, and a hijacked          *)
(* connection outlives srv.Shutdown.                                       *)
Subscribe(c, p, f) ==
  /\ c \in open /\ at[f] = "new" /\ active[p] = None
  /\ active' = [active EXCEPT ![p] = f]
  /\ connKeys' = [connKeys EXCEPT ![c] = @ \cup {p}]
  /\ pod' = [pod EXCEPT ![f] = p]
  /\ owner' = [owner EXCEPT ![f] = c]
  /\ at' = [at EXCEPT ![f] = "opening"]
  /\ UNCHANGED <<open, due, cancelled, stopped>>

DropWithoutStop(c, p) ==
  /\ connKeys' = [connKeys EXCEPT ![c] = @ \ {p}]
  /\ active' = [active EXCEPT ![p] = IF Subscribed(c, p) THEN None ELSE @]
  /\ UNCHANGED due

(* Unsubscribe: the entry goes when its only connection is c; its stop is  *)
(* called after the lock is released.                                      *)
Drop(c, p) ==
  /\ connKeys' = [connKeys EXCEPT ![c] = @ \ {p}]
  /\ active' = [active EXCEPT ![p] = IF Subscribed(c, p) THEN None ELSE @]
  /\ due' = IF Subscribed(c, p) THEN due \cup {active[p]} ELSE due

Unsubscribe(c, p) ==
  /\ c \in open
  /\ Drop(c, p)
  /\ UNCHANGED <<open, pod, owner, at, cancelled, stopped>>

Cancel(f) ==
  /\ f \in due
  /\ due' = due \ {f}
  /\ cancelled' = cancelled \cup {f}
  /\ UNCHANGED <<active, connKeys, open, pod, owner, at, stopped>>

CancelledNone(c) == cancelled
CancelledWith(c) == cancelled \cup {active[p] : p \in {q \in connKeys[c] : Subscribed(c, q)}}

(* RemoveConn calls every stop under the lock.                             *)
RemoveConn(c) ==
  /\ c \in open
  /\ open' = open \ {c}
  /\ cancelled' = CancelledWith(c)
  /\ active' = [p \in Pods |-> IF p \in connKeys[c] /\ Subscribed(c, p) THEN None ELSE active[p]]
  /\ connKeys' = [connKeys EXCEPT ![c] = {}]
  /\ UNCHANGED <<pod, owner, at, due, stopped>>

(* Stop empties WatchHub.subs under the lock and stops what it held.       *)
Stop ==
  /\ ~stopped
  /\ stopped' = TRUE
  /\ due' = due \cup ({active[p] : p \in Pods} \ {None})
  /\ active' = [p \in Pods |-> None]
  /\ UNCHANGED <<connKeys, open, pod, owner, at, cancelled>>

-----------------------------------------------------------------------------
(* followPodLogs                                                           *)

(* FollowPodLogs returns: a stream, or an error (always one once the       *)
(* context is cancelled).                                                  *)
FollowOpen(f) ==
  /\ at[f] = "opening"
  /\ \/ /\ f \notin cancelled
        /\ at' = [at EXCEPT ![f] = "reading"]
     \/ at' = [at EXCEPT ![f] = "failed"]
  /\ UNCHANGED <<active, connKeys, open, pod, owner, due, cancelled, stopped>>

(* The open failed: the follower unsubscribes its connection from its key, *)
(* after an error frame.                                                   *)
FollowFail(f) ==
  /\ at[f] = "failed"
  /\ at' = [at EXCEPT ![f] = "ended"]
  /\ Drop(owner[f], pod[f])
  /\ UNCHANGED <<open, pod, owner, cancelled, stopped>>

(* The stream ends, because the container does or the context is           *)
(* cancelled; the subscription stays.                                      *)
FollowEnd(f) ==
  /\ at[f] = "reading"
  /\ at' = [at EXCEPT ![f] = "ended"]
  /\ UNCHANGED <<active, connKeys, open, pod, owner, due, cancelled, stopped>>

-----------------------------------------------------------------------------
Next ==
  \/ \E c \in WatchConns :
       \/ RemoveConn(c)
       \/ \E p \in Pods : Unsubscribe(c, p) \/ \E f \in Followers : Subscribe(c, p, f)
  \/ \E f \in Followers : Cancel(f) \/ FollowOpen(f) \/ FollowFail(f) \/ FollowEnd(f)
  \/ Stop

Spec == Init /\ [][Next]_vars

(* A started call of stop is made, an open returns, a failed follower      *)
(* reports, and a cancelled stream ends; a log may be followed for ever.   *)
Fairness ==
  \A f \in Followers :
    WF_vars(Cancel(f)) /\ WF_vars(FollowOpen(f)) /\ WF_vars(FollowFail(f))
      /\ WF_vars(f \in cancelled /\ FollowEnd(f))

FairSpec == Spec /\ Fairness

-----------------------------------------------------------------------------
(* Properties                                                              *)

Running(f) == at[f] \in {"opening", "reading"}

(* Every follower that still runs can be reached by a stop: it is the one  *)
(* its key's entry holds, or its stop has been or is about to be called.   *)
(* So a key is never followed twice for long (subscribePodLogs, Drop and   *)
(* RemoveConn against late failures of earlier followers).                 *)
FollowerAccounted ==
  \A f \in Followers : Running(f) => active[pod[f]] = f \/ f \in due \cup cancelled

(* The hub's two maps agree, so RemoveConn finds the subscriptions of its  *)
(* connection even after failed followers have unsubscribed it.            *)
ConnKeysMatch ==
  ~stopped => \A c \in WatchConns, p \in Pods : p \in connKeys[c] <=> Subscribed(c, p)

(* The followers of a connection that has gone all end.                    *)
FollowersEndWithConn ==
  \A f \in Followers :
    (at[f] # "new" /\ owner[f] \notin open) ~> at[f] = "ended"
===============================================================================
