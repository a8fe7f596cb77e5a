-------------------------------- MODULE WatchHub --------------------------------
(***************************************************************************)
(* The subscriptions of /api/v1/watch to cluster resources: backend/       *)
(* internal/service/watchhub.go driving the informer pools of k8s/         *)
(* informer.go, with the connection handler of api/handler/watch.go and    *)
(* the runtime registry of k8s/manager.go that decides which pool a call   *)
(* reaches.  All keys belong to one cluster.  podlogs subscriptions are in *)
(* module PodLogs; clusters and audit keep no informer.                    *)
(*                                                                         *)
(* One element of WatchConns is one WebSocket and the goroutine that reads *)
(* its frames, which runs one hub call at a time.  Every step is one       *)
(* critical section of WatchHub.mu, one Manager.Get or one pool call.      *)
(***************************************************************************)
EXTENDS InformerPool

CONSTANTS WatchConns,   \* watch connections, each used once
          None

ASSUME WatchAssumption == None \notin Runtimes /\ None \notin Keys

VARIABLES
  subs,     \* subscribers of each key: WatchHub.subs (an entry is present iff not empty)
  conns,    \* keys of each connection: WatchHub.conns
  at,       \* where the goroutine of each connection stands
  key,      \* the key its hub call is about
  rt,       \* the runtime its hub call has looked up
  todo,     \* keys it still has to Unwatch
  leaving,  \* connections whose read loop has ended
  stopped,  \* WatchHub.Stop has run
  stale,    \* whether its Subscribe call holds a subState that Stop threw away,
            \* alone in it or not
  current,  \* Manager.runtimes entry of the cluster
  registering   \* runtimes that Register is about to put there, the old one being stopped

stopVars == <<stopped, stale>>
hubVars  == <<subs, conns, at, key, rt, todo, leaving, stopVars>>
mgrVars  == <<current, registering>>
watchVars == <<poolVars, hubVars, mgrVars>>

WatchTypeOK ==
  /\ PoolTypeOK
  /\ subs \in [Keys -> SUBSET WatchConns]
  /\ conns \in [WatchConns -> SUBSET Keys]
  /\ at \in [WatchConns -> {"idle", "add", "watch", "undo", "resolve", "unwatch", "gone"}]
  /\ key \in [WatchConns -> Keys \cup {None}]
  /\ rt \in [WatchConns -> Runtimes \cup {None}]
  /\ todo \in [WatchConns -> SUBSET Keys]
  /\ \A c \in WatchConns : at[c] \in {"add", "watch", "undo", "unwatch"}
                          => key[c] # None /\ rt[c] # None
  /\ leaving \subseteq WatchConns
  /\ stopped \in BOOLEAN
  /\ stale \in [WatchConns -> {"no", "alone", "shared"}]
  /\ current \in Runtimes \cup {None}
  /\ registering \subseteq Runtimes

WatchInit ==
  /\ PoolInit
  /\ subs = [k \in Keys |-> {}]
  /\ conns = [c \in WatchConns |-> {}]
  /\ at = [c \in WatchConns |-> "idle"]
  /\ key = [c \in WatchConns |-> None]
  /\ rt = [c \in WatchConns |-> None]
  /\ todo = [c \in WatchConns |-> {}]
  /\ leaving = {}
  /\ stopped = FALSE
  /\ stale = [c \in WatchConns |-> "no"]
  /\ current = None
  /\ registering = {}

(* The goroutine of c goes on at l with a call about key k on runtime r.   *)
Go(c, l, k, r) ==
  /\ at' = [at EXCEPT ![c] = l]
  /\ key' = [key EXCEPT ![c] = k]
  /\ rt' = [rt EXCEPT ![c] = r]

(* What follows a hub call: the next key to Unwatch, or l, which is the    *)
(* next frame or the end of the handler.                                   *)
GoOn(c, left, l) ==
  /\ todo' = [todo EXCEPT ![c] = left]
  /\ Go(c, IF left # {} THEN "resolve" ELSE l, None, None)

Rest(c) == IF c \in leaving THEN "gone" ELSE "idle"

-----------------------------------------------------------------------------
(* Subscribe                                                               *)

(* Manager.Get; a failure is answered by an error frame and changes        *)
(* nothing.  ResolveResource cannot fail: every resource of watchResources *)
(* that has an informer is in builtinResources.                            *)
SubscribeGet(c, k) ==
  /\ at[c] = "idle" /\ current # None
  /\ Go(c, "add", k, current)
  /\ UNCHANGED <<poolVars, subs, conns, todo, leaving, stopVars, mgrVars>>

(* The subscription is recorded; the first subscriber starts the watch,    *)
(* any other relies on the watch of the first.                             *)
SubscribeAdd(c) ==
  LET k == key[c] IN
  /\ at[c] = "add"
  /\ subs' = [subs EXCEPT ![k] = @ \cup {c}]
  /\ conns' = [conns EXCEPT ![c] = @ \cup {k}]
  /\ IF subs'[k] = {c} THEN Go(c, "watch", k, rt[c]) ELSE Go(c, "idle", None, None)
  /\ UNCHANGED <<poolVars, todo, leaving, stopVars, mgrVars>>

(* Pool.Watch on the runtime looked up before the lock was taken.          *)
SubscribeWatch(c) ==
  /\ at[c] = "watch"
  /\ \/ /\ Watch(rt[c], key[c])
        /\ Go(c, "idle", None, None)
        /\ stale' = [stale EXCEPT ![c] = "no"]
     \/ /\ pool[rt[c]] = "closed"
        /\ Go(c, "undo", key[c], rt[c])
        /\ UNCHANGED <<poolVars, stale>>
  /\ UNCHANGED <<subs, conns, todo, leaving, stopped, mgrVars>>

(* The call takes its connection out of the subState it recorded it in; if *)
(* that empties it, the entry the key has now is deleted.                  *)
Undone(c) == CASE stale[c] = "no"     -> subs[key[c]] \ {c}
               [] stale[c] = "alone"  -> {}
               [] stale[c] = "shared" -> subs[key[c]]

SubscribeUndoKeepsConn(c) ==
  LET k == key[c] IN
  /\ at[c] = "undo"
  /\ subs' = [subs EXCEPT ![k] = Undone(c)]
  /\ stale' = [stale EXCEPT ![c] = "no"]
  /\ Go(c, "idle", None, None)
  /\ UNCHANGED <<poolVars, conns, todo, leaving, stopped, mgrVars>>

(* A failed Watch takes the subscription back.                             *)
SubscribeUndo(c) ==
  LET k == key[c] IN
  /\ at[c] = "undo"
  /\ subs' = [subs EXCEPT ![k] = Undone(c)]
  /\ conns' = [conns EXCEPT ![c] = @ \ {k}]
  /\ stale' = [stale EXCEPT ![c] = "no"]
  /\ Go(c, "idle", None, None)
  /\ UNCHANGED <<poolVars, todo, leaving, stopped, mgrVars>>

-----------------------------------------------------------------------------
(* Unsubscribe and RemoveConn                                              *)

EmptiedNone(before, after) == {}

(* The keys whose last subscriber has just left: it has to Unwatch them.   *)
Emptied(before, after) == {k \in Keys : before[k] # {} /\ after[k] = {}}

(* A frame for a key nobody subscribes to returns at once.                 *)
Unsubscribe(c, k) ==
  /\ at[c] = "idle"
  /\ subs' = [subs EXCEPT ![k] = @ \ {c}]
  /\ conns' = [conns EXCEPT ![c] = @ \ {k}]
  /\ GoOn(c, Emptied(subs, subs'), "idle")
  /\ UNCHANGED <<poolVars, leaving, stopVars, mgrVars>>

(* The read loop has ended (peer gone, 30 s of silence): every             *)
(* subscription of the connection is dropped in one critical section.      *)
RemoveConn(c) ==
  /\ at[c] = "idle"
  /\ leaving' = leaving \cup {c}
  /\ subs' = [k \in Keys |-> subs[k] \ {c}]
  /\ conns' = [conns EXCEPT ![c] = {}]
  /\ GoOn(c, Emptied(subs, subs'), "gone")
  /\ UNCHANGED <<poolVars, stopVars, mgrVars>>

(* Outside the lock, for each key left: Manager.Get.  A key whose cluster  *)
(* is not registered is passed over.                                       *)
ResolveUnwatch(c, k) ==
  /\ at[c] = "resolve" /\ k \in todo[c]
  /\ \/ /\ current # None
        /\ Go(c, "unwatch", k, current)
        /\ UNCHANGED todo
     \/ /\ current = None
        /\ GoOn(c, todo[c] \ {k}, Rest(c))
  /\ UNCHANGED <<poolVars, subs, conns, leaving, stopVars, mgrVars>>

UnwatchPool(c) ==
  /\ at[c] = "unwatch"
  /\ Unwatch(rt[c], key[c])
  /\ GoOn(c, todo[c] \ {key[c]}, Rest(c))
  /\ UNCHANGED <<subs, conns, leaving, stopVars, mgrVars>>

(* WatchHub.Stop, on shutdown: the subscriptions are thrown away; their    *)
(* handlers stay in the pools, which Manager.Close stops later.            *)
StopHub ==
  /\ ~stopped
  /\ stopped' = TRUE
  /\ stale' = [c \in WatchConns |->
                IF at[c] \notin {"watch", "undo"} THEN "no"
                ELSE IF subs[key[c]] = {c} THEN "alone" ELSE "shared"]
  /\ subs' = [k \in Keys |-> {}]
  /\ UNCHANGED <<poolVars, conns, at, key, rt, todo, leaving, mgrVars>>

-----------------------------------------------------------------------------
(* The informers and the runtimes behind the subscriptions                 *)

PoolStep(r) ==
  /\ Stop(r) \/ Reap(r) \/ EnsureEventInformer(r) \/ \E e \in Entries : Age(r, e)
  /\ UNCHANGED <<hubVars, mgrVars>>

(* Manager.Register: a fresh runtime; the one it finds is stopped first    *)
(* and stays reachable while its health loop is joined, without the lock.  *)
RegisterRuntime(r) ==
  /\ pool[r] = "none"
  /\ \/ /\ current = None
        /\ Open(r)
        /\ current' = r
        /\ UNCHANGED registering
     \/ /\ current # None
        /\ pool' = [StopRequested(current) EXCEPT ![r] = "open"]
        /\ registering' = registering \cup {r}
        /\ UNCHANGED <<current, entries, handlers, resident, aged>>
  /\ UNCHANGED hubVars

(* The entry is overwritten without another look: a runtime that an        *)
(* overlapping registration has put there meanwhile is not stopped.        *)
ReplaceRuntime(r) ==
  /\ r \in registering
  /\ current' = r
  /\ registering' = registering \ {r}
  /\ UNCHANGED <<poolVars, hubVars>>

(* Manager.Unregister: out of the registry, then stopped.                  *)
UnregisterRuntime ==
  /\ current # None
  /\ current' = None
  /\ pool' = StopRequested(current)
  /\ UNCHANGED <<registering, entries, handlers, resident, aged, hubVars>>

-----------------------------------------------------------------------------
HubStep(c) ==
  \/ SubscribeAdd(c) \/ SubscribeWatch(c) \/ SubscribeUndo(c)
  \/ UnwatchPool(c) \/ \E k \in Keys : ResolveUnwatch(c, k)

WatchNext ==
  \/ \E c \in WatchConns :
       \/ HubStep(c) \/ RemoveConn(c)
       \/ \E k \in Keys : SubscribeGet(c, k) \/ Unsubscribe(c, k)
  \/ \E r \in Runtimes : RegisterRuntime(r) \/ ReplaceRuntime(r) \/ PoolStep(r)
  \/ UnregisterRuntime
  \/ StopHub

WatchSpec == WatchInit /\ [][WatchNext]_watchVars

(* A hub call that has begun goes on, the reaper ticks and time passes.    *)
(* Clients and administrators are free.                                    *)
WatchFairness ==
  /\ \A c \in WatchConns : WF_watchVars(HubStep(c))
  /\ \A r \in Runtimes :
       /\ WF_watchVars(ReplaceRuntime(r))
       /\ WF_watchVars(Stop(r) /\ UNCHANGED <<hubVars, mgrVars>>)
       /\ WF_watchVars(Reap(r) /\ UNCHANGED <<hubVars, mgrVars>>)
       /\ \A e \in Entries : WF_watchVars(Age(r, e) /\ UNCHANGED <<hubVars, mgrVars>>)

FairWatchSpec == WatchSpec /\ WatchFairness

-----------------------------------------------------------------------------
(* Properties                                                              *)

(* The two maps of the hub describe the same subscriptions after every     *)
(* critical section, and a connection that has left is in neither, so no   *)
(* event is ever addressed to it again (addConnSub, RemoveConn and the     *)
(* undo of a failed Watch).                                                *)
SubsMirror ==
  /\ \A c \in WatchConns, k \in Keys :
       IF stopped THEN c \in subs[k] => k \in conns[c] ELSE k \in conns[c] <=> c \in subs[k]
  /\ \A c \in leaving : conns[c] = {}

(* No hub call about k is under way.                                       *)
NoCallOn(k) == \A c \in WatchConns : key[c] # k /\ k \notin todo[c]

(* When no call about a key is under way, the pool a new subscriber would  *)
(* reach has no handler without subscribers: the informer would never be   *)
(* reclaimed (the comment above RemoveConn; Stop leaves that to the pools).*)
NoHandlerLeak ==
  \A k \in Keys :
    ~stopped /\ NoCallOn(k) /\ current # None /\ k \in handlers[current] => subs[k] # {}

(* The pool of a runtime that an overlapping registration has overwritten: *)
(* nobody reaches it any more, and nobody tells it to stop.                *)
Overwritten(r) == pool[r] = "open" /\ r # current /\ r \notin registering

(* Once every connection has gone, every informer but the resident one is  *)
(* eventually stopped, in the registered pool and in those of runtimes     *)
(* that were replaced or removed, except the overwritten ones (RemoveConn, *)
(* Unwatch, reapLoop, Stop).                                               *)
InformersDrain ==
  ~stopped /\ (\A c \in WatchConns : at[c] = "gone")
    ~> stopped \/ \A r \in Runtimes : Overwritten(r) \/ entries[r] \subseteq resident[r]

(* websocket.md:50, the increments that follow a subscription: when no     *)
(* call about a key and no registration is under way, a key with           *)
(* subscribers has a handler in the pool of the registered runtime.        *)
LiveHasHandler ==
  \A k \in Keys :
    ~stopped /\ NoCallOn(k) /\ current # None /\ registering = {} /\ subs[k] # {}
      => k \in handlers[current]
================================================================================
