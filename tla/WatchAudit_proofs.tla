--------------------------- MODULE WatchAudit_proofs ---------------------------
(***************************************************************************)
(* Proofs about the watch hub in two parts: the subscriptions to cluster   *)
(* resources with the informer pools they drive (WatchHub), then the audit *)
(* trail, the feed the hub makes of it and the proxy (Audit, Proxy).  The  *)
(* parts share no state: each has its own invariant.                       *)
(***************************************************************************)
EXTENDS WatchHub, Proxy, SequenceTheorems, FiniteSetTheorems, TLAPS

-----------------------------------------------------------------------------
(* WatchHub                                                                *)

(* What the pools promise.                                                 *)
PoolInv == HandlersHaveInformer /\ ResidentRuns /\ ClosedPoolEmpty

(* A runtime that a call can hold has been built, and those that Register  *)
(* calls are about to publish have not been seen by any call.              *)
Lookups ==
  /\ \A c \in WatchConns : rt[c] # None => pool[rt[c]] # "none" /\ rt[c] \notin registering
  /\ current # None => pool[current] # "none" /\ current \notin registering
  /\ \A r \in registering : pool[r] # "none" /\ handlers[r] = {}
  /\ \A r \in Runtimes : pool[r] = "none" => handlers[r] = {}

(* The hub calls under way.  The first subscriber of a key stays in the    *)
(* key's entry until its Watch has returned, so no two calls watch a key.  *)
Starting(c) == at[c] \in {"watch", "undo"}

Calls ==
  /\ \A c \in leaving : at[c] \in {"resolve", "unwatch", "gone"}
  /\ \A c \in WatchConns :
       /\ at[c] = "unwatch" => key[c] \in todo[c]
       /\ at[c] = "undo" => pool[rt[c]] = "closed"
       /\ stale[c] # "no" => stopped /\ Starting(c) /\ c \notin subs[key[c]]
       /\ ~stopped /\ Starting(c) => c \in subs[key[c]]
  /\ \A c, d \in WatchConns : ~stopped /\ Starting(c) /\ Starting(d) /\ key[c] = key[d] => c = d

(* A subscriber that subscribes again looked its runtime up no earlier     *)
(* than the first subscriber, which is still starting the watch.           *)
Resubscribing(c, k) == at[c] = "add" /\ key[c] = k /\ c \in subs[k]

Fresh ==
  \A c, d \in WatchConns :
    ~stopped /\ at[d] = "watch" /\ rt[d] = current /\ Resubscribing(c, key[d])
      => rt[c] = current

(* Somebody is going to remove the handler of k from the current pool.     *)
Pending(k) ==
  \E c \in WatchConns :
    /\ k \in todo[c]
    /\ at[c] = "resolve" \/ (at[c] = "unwatch" /\ (key[c] = k => rt[c] = current))

(* A call that may fail on a replaced runtime and leave k without          *)
(* subscribers.                                                            *)
Behind(c, k) == rt[c] # current /\ ((Starting(c) /\ key[c] = k) \/ Resubscribing(c, k))

Guarded ==
  \A k \in Keys :
    (/\ ~stopped /\ current # None
     /\ k \in handlers[current]
     /\ subs[k] = {} \/ \E c \in WatchConns : Behind(c, k))
      => Pending(k)

IInv == WatchTypeOK /\ PoolInv /\ Lookups /\ Calls /\ SubsMirror /\ Fresh /\ Guarded

(* A call past its lookup has a key and a runtime.                         *)
LEMMA CallHolds ==
  ASSUME WatchTypeOK, NEW c \in WatchConns, at[c] \in {"add", "watch", "undo", "unwatch"}
  PROVE  key[c] \in Keys /\ rt[c] \in Runtimes
  BY WatchAssumption DEF WatchTypeOK

(* SubscribeAdd: the subscriber is recorded, and starts the watch only     *)
(* when nobody else had a subscription to the key.                         *)
LEMMA AddEffect ==
  ASSUME WatchTypeOK, NEW c \in WatchConns, SubscribeAdd(c)
  PROVE  /\ at[c] = "add"
         /\ subs' \in [Keys -> SUBSET WatchConns]
         /\ \A k \in Keys : subs'[k] = IF k = key[c] THEN subs[k] \cup {c} ELSE subs[k]
         /\ \/ subs[key[c]] \subseteq {c} /\ Go(c, "watch", key[c], rt[c])
            \/ Go(c, "idle", None, None)
         /\ UNCHANGED <<poolVars, todo, leaving, stopVars, mgrVars>>
<1>1. key[c] \in Keys
  BY CallHolds DEF SubscribeAdd
<1>2. /\ subs' \in [Keys -> SUBSET WatchConns]
      /\ \A k \in Keys : subs'[k] = IF k = key[c] THEN subs[k] \cup {c} ELSE subs[k]
  BY <1>1 DEF SubscribeAdd, WatchTypeOK
<1>3. \/ subs'[key[c]] = {c} /\ Go(c, "watch", key[c], rt[c])
      \/ Go(c, "idle", None, None)
  BY DEF SubscribeAdd
<1>4. subs'[key[c]] = {c} => subs[key[c]] \subseteq {c}
  BY <1>1, <1>2 DEF WatchTypeOK
<1> QED BY <1>2, <1>3, <1>4 DEF SubscribeAdd

(* Every step keeps the types, in particular that a call past its lookup   *)
(* has a key and a runtime.                                                *)
LEMMA TypeStep == IInv /\ [WatchNext]_watchVars => WatchTypeOK'
<1> SUFFICES ASSUME IInv, [WatchNext]_watchVars PROVE WatchTypeOK'
  OBVIOUS
<1> USE EntryAssumption, WatchAssumption
   DEF IInv, WatchTypeOK, PoolTypeOK, Lookups, poolVars, hubVars, stopVars, mgrVars
<1>1. ASSUME NEW c \in WatchConns, NEW k \in Keys, SubscribeGet(c, k) PROVE WatchTypeOK'
  BY <1>1 DEF SubscribeGet, Go
<1>2. ASSUME NEW c \in WatchConns, SubscribeAdd(c) PROVE WatchTypeOK'
  <2>1. /\ key[c] \in Keys /\ rt[c] \in Runtimes /\ at[c] = "add"
        /\ subs' \in [Keys -> SUBSET WatchConns]
        /\ \A k \in Keys : subs'[k] = IF k = key[c] THEN subs[k] \cup {c} ELSE subs[k]
        /\ \/ subs[key[c]] \subseteq {c} /\ Go(c, "watch", key[c], rt[c])
           \/ Go(c, "idle", None, None)
        /\ UNCHANGED <<poolVars, todo, leaving, stopVars, mgrVars>>
    <3> HIDE DEF WatchTypeOK, poolVars, stopVars, mgrVars
    <3> QED BY <1>2, AddEffect, CallHolds
  <2>2. conns' \in [WatchConns -> SUBSET Keys]
    BY <1>2, <2>1 DEF SubscribeAdd
  <2>3. CASE Go(c, "watch", key[c], rt[c])
    BY <2>1, <2>2, <2>3 DEF Go
  <2>4. CASE Go(c, "idle", None, None)
    BY <2>1, <2>2, <2>4 DEF Go
  <2> QED BY <2>1, <2>3, <2>4
<1>3. ASSUME NEW c \in WatchConns, SubscribeWatch(c) PROVE WatchTypeOK'
  <2>1. key[c] \in Keys /\ rt[c] \in Runtimes
    BY <1>3, CallHolds DEF SubscribeWatch
  <2>2. CASE Watch(rt[c], key[c]) /\ Go(c, "idle", None, None)
    BY <1>3, <2>1, <2>2 DEF SubscribeWatch, Watch, Add, Drop, Go
  <2>3. CASE Go(c, "undo", key[c], rt[c]) /\ UNCHANGED <<poolVars, stale>>
    BY <1>3, <2>1, <2>3 DEF SubscribeWatch, Go
  <2> QED BY <1>3, <2>2, <2>3 DEF SubscribeWatch
<1>4. ASSUME NEW c \in WatchConns, SubscribeUndo(c) PROVE WatchTypeOK'
  BY <1>4 DEF SubscribeUndo, Undone, Go
<1>5. ASSUME NEW c \in WatchConns, NEW k \in Keys, Unsubscribe(c, k) PROVE WatchTypeOK'
  BY <1>5 DEF Unsubscribe, Emptied, GoOn, Go
<1>6. ASSUME NEW c \in WatchConns, RemoveConn(c) PROVE WatchTypeOK'
  BY <1>6 DEF RemoveConn, Emptied, GoOn, Go
<1>7. ASSUME NEW c \in WatchConns, NEW k \in Keys, ResolveUnwatch(c, k) PROVE WatchTypeOK'
  <2>1. CASE current # None /\ Go(c, "unwatch", k, current) /\ UNCHANGED todo
    BY <1>7, <2>1 DEF ResolveUnwatch, Go
  <2>2. CASE GoOn(c, todo[c] \ {k}, Rest(c))
    BY <1>7, <2>2 DEF ResolveUnwatch, Rest, GoOn, Go
  <2> QED BY <1>7, <2>1, <2>2 DEF ResolveUnwatch
<1>8. ASSUME NEW c \in WatchConns, UnwatchPool(c) PROVE WatchTypeOK'
  BY <1>8 DEF UnwatchPool, Unwatch, HandlersOf, Drop, Rest, GoOn, Go
<1>9. ASSUME StopHub PROVE WatchTypeOK'
  BY <1>9 DEF StopHub
<1>11. ASSUME NEW r \in Runtimes, PoolStep(r) PROVE WatchTypeOK'
  <2>1. UNCHANGED <<hubVars, mgrVars>>
    BY <1>11 DEF PoolStep
  <2>2. CASE Stop(r)
    BY <2>1, <2>2 DEF Stop
  <2>3. CASE Reap(r)
    BY <2>1, <2>3 DEF Reap, Reapable, Drop, HandlersOf
  <2>4. CASE EnsureEventInformer(r)
    BY <2>1, <2>4 DEF EnsureEventInformer, Add
  <2>5. ASSUME NEW e \in Entries, Age(r, e) PROVE WatchTypeOK'
    BY <2>1, <2>5 DEF Age, Add
  <2> QED BY <1>11, <2>2, <2>3, <2>4, <2>5 DEF PoolStep
<1>12. ASSUME NEW r \in Runtimes, RegisterRuntime(r) PROVE WatchTypeOK'
  BY <1>12 DEF RegisterRuntime, Open, StopRequested
<1>13. ASSUME NEW r \in Runtimes, ReplaceRuntime(r) PROVE WatchTypeOK'
  BY <1>13 DEF ReplaceRuntime
<1>14. ASSUME UnregisterRuntime PROVE WatchTypeOK'
  BY <1>14 DEF UnregisterRuntime, StopRequested
<1>15. ASSUME UNCHANGED watchVars PROVE WatchTypeOK'
  BY <1>15 DEF watchVars
<1> QED BY <1>1, <1>2, <1>3, <1>4, <1>5, <1>6, <1>7, <1>8, <1>9, <1>11, <1>12,
       <1>13, <1>14, <1>15
   DEF WatchNext, HubStep

(* No step of the hub, of the reaper or of the registry takes a running    *)
(* informer away from a handler or leaves one in a closed pool.            *)
LEMMA PoolInvStep == IInv /\ [WatchNext]_watchVars => PoolInv'
<1> SUFFICES ASSUME IInv, [WatchNext]_watchVars PROVE PoolInv'
  OBVIOUS
<1> USE EntryAssumption, WatchAssumption
   DEF IInv, WatchTypeOK, PoolTypeOK, PoolInv, HandlersHaveInformer, ResidentRuns,
       ClosedPoolEmpty, poolVars, hubVars, stopVars, mgrVars
<1>1. ASSUME NEW c \in WatchConns, NEW k \in Keys, SubscribeGet(c, k) PROVE PoolInv'
  BY <1>1 DEF SubscribeGet, Go
<1>2. ASSUME NEW c \in WatchConns, SubscribeAdd(c) PROVE PoolInv'
  BY <1>2 DEF SubscribeAdd, Go
<1>3. ASSUME NEW c \in WatchConns, SubscribeWatch(c) PROVE PoolInv'
  <2>1. key[c] \in Keys /\ rt[c] \in Runtimes
    BY <1>3, CallHolds DEF SubscribeWatch
  <2>2. CASE Watch(rt[c], key[c])
    BY <2>1, <2>2 DEF Watch, Add
  <2>3. CASE UNCHANGED poolVars
    BY <2>3
  <2> QED BY <1>3, <2>2, <2>3 DEF SubscribeWatch
<1>4. ASSUME NEW c \in WatchConns, SubscribeUndo(c) PROVE PoolInv'
  BY <1>4 DEF SubscribeUndo, Undone, Go
<1>5. ASSUME NEW c \in WatchConns, NEW k \in Keys, Unsubscribe(c, k) PROVE PoolInv'
  BY <1>5 DEF Unsubscribe, Emptied, GoOn, Go
<1>6. ASSUME NEW c \in WatchConns, RemoveConn(c) PROVE PoolInv'
  BY <1>6 DEF RemoveConn, Emptied, GoOn, Go
<1>7. ASSUME NEW c \in WatchConns, NEW k \in Keys, ResolveUnwatch(c, k) PROVE PoolInv'
  BY <1>7 DEF ResolveUnwatch, Rest, GoOn, Go
<1>8. ASSUME NEW c \in WatchConns, UnwatchPool(c) PROVE PoolInv'
  BY <1>8 DEF UnwatchPool, Unwatch, HandlersOf, Drop, Rest, GoOn, Go
<1>9. ASSUME StopHub PROVE PoolInv'
  BY <1>9 DEF StopHub
<1>11. ASSUME NEW r \in Runtimes, PoolStep(r) PROVE PoolInv'
  <2>1. UNCHANGED <<hubVars, mgrVars>>
    BY <1>11 DEF PoolStep
  <2>2. CASE Stop(r)
    BY <2>1, <2>2 DEF Stop
  <2>3. CASE Reap(r)
    BY <2>1, <2>3 DEF Reap, Reapable, Drop, HandlersOf
  <2>4. CASE EnsureEventInformer(r)
    BY <2>1, <2>4 DEF EnsureEventInformer, Add
  <2>5. ASSUME NEW e \in Entries, Age(r, e) PROVE PoolInv'
    BY <2>1, <2>5 DEF Age, Add
  <2> QED BY <1>11, <2>2, <2>3, <2>4, <2>5 DEF PoolStep
<1>12. ASSUME NEW r \in Runtimes, RegisterRuntime(r) PROVE PoolInv'
  BY <1>12 DEF RegisterRuntime, Open, StopRequested
<1>13. ASSUME NEW r \in Runtimes, ReplaceRuntime(r) PROVE PoolInv'
  BY <1>13 DEF ReplaceRuntime
<1>14. ASSUME UnregisterRuntime PROVE PoolInv'
  BY <1>14 DEF UnregisterRuntime, StopRequested
<1>15. ASSUME UNCHANGED watchVars PROVE PoolInv'
  BY <1>15 DEF watchVars
<1> QED BY <1>1, <1>2, <1>3, <1>4, <1>5, <1>6, <1>7, <1>8, <1>9, <1>11, <1>12,
       <1>13, <1>14, <1>15
   DEF WatchNext, HubStep

(* Calls only hold runtimes that Manager.Get has returned, so those that   *)
(* Register calls are about to publish have no handler yet.                *)
LEMMA LookupsStep == IInv /\ [WatchNext]_watchVars => Lookups'
<1> SUFFICES ASSUME IInv, [WatchNext]_watchVars PROVE Lookups'
  OBVIOUS
<1> USE EntryAssumption, WatchAssumption
   DEF IInv, WatchTypeOK, PoolTypeOK, Lookups, poolVars, hubVars, stopVars, mgrVars
<1>1. ASSUME NEW c \in WatchConns, NEW k \in Keys, SubscribeGet(c, k) PROVE Lookups'
  BY <1>1 DEF SubscribeGet, Go
<1>2. ASSUME NEW c \in WatchConns, SubscribeAdd(c) PROVE Lookups'
  BY <1>2 DEF SubscribeAdd, Go
<1>3. ASSUME NEW c \in WatchConns, SubscribeWatch(c) PROVE Lookups'
  BY <1>3 DEF SubscribeWatch, Watch, Add, Drop, Go
<1>4. ASSUME NEW c \in WatchConns, SubscribeUndo(c) PROVE Lookups'
  BY <1>4 DEF SubscribeUndo, Undone, Go
<1>5. ASSUME NEW c \in WatchConns, NEW k \in Keys, Unsubscribe(c, k) PROVE Lookups'
  BY <1>5 DEF Unsubscribe, Emptied, GoOn, Go
<1>6. ASSUME NEW c \in WatchConns, RemoveConn(c) PROVE Lookups'
  BY <1>6 DEF RemoveConn, Emptied, GoOn, Go
<1>7. ASSUME NEW c \in WatchConns, NEW k \in Keys, ResolveUnwatch(c, k) PROVE Lookups'
  BY <1>7 DEF ResolveUnwatch, Rest, GoOn, Go
<1>8. ASSUME NEW c \in WatchConns, UnwatchPool(c) PROVE Lookups'
  BY <1>8 DEF UnwatchPool, Unwatch, HandlersOf, Drop, Rest, GoOn, Go
<1>9. ASSUME StopHub PROVE Lookups'
  BY <1>9 DEF StopHub
<1>11. ASSUME NEW r \in Runtimes, PoolStep(r) PROVE Lookups'
  BY <1>11
     DEF PoolStep, Stop, Reap, Reapable, EnsureEventInformer, Age, Add, Drop, HandlersOf
<1>12. ASSUME NEW r \in Runtimes, RegisterRuntime(r) PROVE Lookups'
  BY <1>12 DEF RegisterRuntime, Open, StopRequested
<1>13. ASSUME NEW r \in Runtimes, ReplaceRuntime(r) PROVE Lookups'
  BY <1>13 DEF ReplaceRuntime
<1>14. ASSUME UnregisterRuntime PROVE Lookups'
  BY <1>14 DEF UnregisterRuntime, StopRequested
<1>15. ASSUME UNCHANGED watchVars PROVE Lookups'
  BY <1>15 DEF watchVars
<1> QED BY <1>1, <1>2, <1>3, <1>4, <1>5, <1>6, <1>7, <1>8, <1>9, <1>11, <1>12,
       <1>13, <1>14, <1>15
   DEF WatchNext, HubStep

(* The control state of the hub calls under way.                           *)
LEMMA CallsStep == IInv /\ [WatchNext]_watchVars => Calls'
<1> SUFFICES ASSUME IInv, [WatchNext]_watchVars PROVE Calls'
  OBVIOUS
<1> USE EntryAssumption, WatchAssumption
   DEF IInv, WatchTypeOK, PoolTypeOK, Lookups, Calls, Starting, poolVars, hubVars,
       stopVars, mgrVars
<1>1. ASSUME NEW c \in WatchConns, NEW k \in Keys, SubscribeGet(c, k) PROVE Calls'
  BY <1>1 DEF SubscribeGet, Go
<1>2. ASSUME NEW c \in WatchConns, SubscribeAdd(c) PROVE Calls'
  <2>1. /\ key[c] \in Keys /\ rt[c] \in Runtimes /\ at[c] = "add"
        /\ subs' \in [Keys -> SUBSET WatchConns]
        /\ \A k \in Keys : subs'[k] = IF k = key[c] THEN subs[k] \cup {c} ELSE subs[k]
        /\ \/ subs[key[c]] \subseteq {c} /\ Go(c, "watch", key[c], rt[c])
           \/ Go(c, "idle", None, None)
        /\ UNCHANGED <<poolVars, todo, leaving, stopVars, mgrVars>>
    <3> HIDE DEF WatchTypeOK, poolVars, stopVars, mgrVars
    <3> QED BY <1>2, AddEffect, CallHolds
  <2>2. CASE subs[key[c]] \subseteq {c} /\ Go(c, "watch", key[c], rt[c])
    <3>1. /\ at' = [at EXCEPT ![c] = "watch"]
          /\ key' = key /\ rt' = rt
      BY <2>1, <2>2 DEF Go
    <3>2. \A d \in leaving' : at'[d] \in {"resolve", "unwatch", "gone"}
      BY <2>1, <3>1
    <3>3. ASSUME NEW d \in WatchConns
          PROVE  /\ at'[d] = "unwatch" => key'[d] \in todo'[d]
                 /\ at'[d] = "undo" => pool'[rt'[d]] = "closed"
                 /\ stale'[d] # "no" => stopped' /\ Starting(d)' /\ d \notin subs'[key'[d]]
                 /\ ~stopped' /\ Starting(d)' => d \in subs'[key'[d]]
      BY <2>1, <3>1
    <3>4. ASSUME NEW d \in WatchConns, ~stopped', Starting(d)', key'[d] = key'[c]
          PROVE  d = c
      BY <2>1, <2>2, <3>1, <3>4
    <3>5. ASSUME NEW d \in WatchConns, NEW e \in WatchConns, d # c, e # c,
                 ~stopped', Starting(d)', Starting(e)', key'[d] = key'[e]
          PROVE  d = e
      BY <2>1, <3>1, <3>5
    <3> QED BY <3>2, <3>3, <3>4, <3>5
  <2>3. CASE Go(c, "idle", None, None)
    BY <2>1, <2>3 DEF Go
  <2> QED BY <2>1, <2>2, <2>3
<1>3. ASSUME NEW c \in WatchConns, SubscribeWatch(c) PROVE Calls'
  <2>1. key[c] \in Keys /\ rt[c] \in Runtimes
    BY <1>3, CallHolds DEF SubscribeWatch
  <2>2. CASE /\ Watch(rt[c], key[c]) /\ Go(c, "idle", None, None)
             /\ stale' = [stale EXCEPT ![c] = "no"]
    BY <1>3, <2>1, <2>2 DEF SubscribeWatch, Watch, Go
  <2>3. CASE /\ pool[rt[c]] = "closed" /\ Go(c, "undo", key[c], rt[c])
             /\ UNCHANGED <<poolVars, stale>>
    BY <1>3, <2>1, <2>3 DEF SubscribeWatch, Go
  <2> QED BY <1>3, <2>2, <2>3 DEF SubscribeWatch
<1>4. ASSUME NEW c \in WatchConns, SubscribeUndo(c) PROVE Calls'
  BY <1>4 DEF SubscribeUndo, Undone, Go
<1>5. ASSUME NEW c \in WatchConns, NEW k \in Keys, Unsubscribe(c, k) PROVE Calls'
  BY <1>5 DEF Unsubscribe, Emptied, GoOn, Go
<1>6. ASSUME NEW c \in WatchConns, RemoveConn(c) PROVE Calls'
  BY <1>6 DEF RemoveConn, Emptied, GoOn, Go
<1>7. ASSUME NEW c \in WatchConns, NEW k \in Keys, ResolveUnwatch(c, k) PROVE Calls'
  <2>1. CASE Go(c, "unwatch", k, current) /\ UNCHANGED todo
    BY <1>7, <2>1 DEF ResolveUnwatch, Go
  <2>2. CASE GoOn(c, todo[c] \ {k}, Rest(c))
    BY <1>7, <2>2 DEF ResolveUnwatch, Rest, GoOn, Go
  <2> QED BY <1>7, <2>1, <2>2 DEF ResolveUnwatch
<1>8. ASSUME NEW c \in WatchConns, UnwatchPool(c) PROVE Calls'
  BY <1>8 DEF UnwatchPool, Unwatch, HandlersOf, Drop, Rest, GoOn, Go
<1>9. ASSUME StopHub PROVE Calls'
  BY <1>9 DEF StopHub
<1>11. ASSUME NEW r \in Runtimes, PoolStep(r) PROVE Calls'
  BY <1>11
     DEF PoolStep, Stop, Reap, Reapable, EnsureEventInformer, Age, Add, Drop, HandlersOf
<1>12. ASSUME NEW r \in Runtimes, RegisterRuntime(r) PROVE Calls'
  BY <1>12 DEF RegisterRuntime, Open, StopRequested
<1>13. ASSUME NEW r \in Runtimes, ReplaceRuntime(r) PROVE Calls'
  BY <1>13 DEF ReplaceRuntime
<1>14. ASSUME UnregisterRuntime PROVE Calls'
  BY <1>14 DEF UnregisterRuntime, StopRequested
<1>15. ASSUME UNCHANGED watchVars PROVE Calls'
  BY <1>15 DEF watchVars
<1> QED BY <1>1, <1>2, <1>3, <1>4, <1>5, <1>6, <1>7, <1>8, <1>9, <1>11, <1>12,
       <1>13, <1>14, <1>15
   DEF WatchNext, HubStep

(* Every critical section of the hub changes its two maps together.        *)
LEMMA MirrorStep == IInv /\ [WatchNext]_watchVars => SubsMirror'
<1> SUFFICES ASSUME IInv, [WatchNext]_watchVars PROVE SubsMirror'
  OBVIOUS
<1> USE EntryAssumption, WatchAssumption
   DEF IInv, WatchTypeOK, SubsMirror, Calls, Starting, poolVars, hubVars, stopVars,
       mgrVars
<1>1. ASSUME NEW c \in WatchConns, NEW k \in Keys, SubscribeGet(c, k) PROVE SubsMirror'
  BY <1>1 DEF SubscribeGet, Go
<1>2. ASSUME NEW c \in WatchConns, SubscribeAdd(c) PROVE SubsMirror'
  <2>1. key[c] \in Keys /\ rt[c] \in Runtimes
    BY <1>2, CallHolds DEF SubscribeAdd
  <2>2. c \notin leaving
    BY <1>2 DEF SubscribeAdd
  <2>3. \A d \in WatchConns, k \in Keys :
          /\ d \in subs'[k] <=> d \in subs[k] \/ (d = c /\ k = key[c])
          /\ k \in conns'[d] <=> k \in conns[d] \/ (d = c /\ k = key[c])
    BY <1>2, <2>1 DEF SubscribeAdd
  <2> QED BY <1>2, <2>2, <2>3 DEF SubscribeAdd
<1>3. ASSUME NEW c \in WatchConns, SubscribeWatch(c) PROVE SubsMirror'
  BY <1>3 DEF SubscribeWatch, Watch, Add, Drop, Go
<1>4. ASSUME NEW c \in WatchConns, SubscribeUndo(c) PROVE SubsMirror'
  BY <1>4 DEF SubscribeUndo, Undone, Go
<1>5. ASSUME NEW c \in WatchConns, NEW k \in Keys, Unsubscribe(c, k) PROVE SubsMirror'
  BY <1>5 DEF Unsubscribe, Emptied, GoOn, Go
<1>6. ASSUME NEW c \in WatchConns, RemoveConn(c) PROVE SubsMirror'
  BY <1>6 DEF RemoveConn, Emptied, GoOn, Go
<1>7. ASSUME NEW c \in WatchConns, NEW k \in Keys, ResolveUnwatch(c, k) PROVE SubsMirror'
  BY <1>7 DEF ResolveUnwatch, Rest, GoOn, Go
<1>8. ASSUME NEW c \in WatchConns, UnwatchPool(c) PROVE SubsMirror'
  BY <1>8 DEF UnwatchPool, Unwatch, HandlersOf, Drop, Rest, GoOn, Go
<1>9. ASSUME StopHub PROVE SubsMirror'
  BY <1>9 DEF StopHub
<1>11. ASSUME NEW r \in Runtimes, PoolStep(r) PROVE SubsMirror'
  BY <1>11
     DEF PoolStep, Stop, Reap, Reapable, EnsureEventInformer, Age, Add, Drop, HandlersOf
<1>12. ASSUME NEW r \in Runtimes, RegisterRuntime(r) PROVE SubsMirror'
  BY <1>12 DEF RegisterRuntime, Open, StopRequested
<1>13. ASSUME NEW r \in Runtimes, ReplaceRuntime(r) PROVE SubsMirror'
  BY <1>13 DEF ReplaceRuntime
<1>14. ASSUME UnregisterRuntime PROVE SubsMirror'
  BY <1>14 DEF UnregisterRuntime, StopRequested
<1>15. ASSUME UNCHANGED watchVars PROVE SubsMirror'
  BY <1>15 DEF watchVars
<1> QED BY <1>1, <1>2, <1>3, <1>4, <1>5, <1>6, <1>7, <1>8, <1>9, <1>11, <1>12,
       <1>13, <1>14, <1>15
   DEF WatchNext, HubStep

(* A lookup that starts the watch on the current runtime is not older than *)
(* the lookup of a subscriber that subscribes again meanwhile.             *)
LEMMA FreshStep == IInv /\ [WatchNext]_watchVars => Fresh'
<1> SUFFICES ASSUME IInv, [WatchNext]_watchVars PROVE Fresh'
  OBVIOUS
<1> USE EntryAssumption, WatchAssumption
   DEF IInv, WatchTypeOK, PoolTypeOK, Fresh, Lookups, Calls, Starting, Resubscribing,
       poolVars, hubVars, stopVars, mgrVars
<1>1. ASSUME NEW c \in WatchConns, NEW k \in Keys, SubscribeGet(c, k) PROVE Fresh'
  BY <1>1 DEF SubscribeGet, Go
<1>2. ASSUME NEW c \in WatchConns, SubscribeAdd(c) PROVE Fresh'
  <2>1. /\ key[c] \in Keys /\ at[c] = "add"
        /\ \A k \in Keys : subs'[k] = subs[k] \/ subs'[k] = subs[k] \cup {c}
        /\ \/ subs[key[c]] \subseteq {c} /\ Go(c, "watch", key[c], rt[c])
           \/ Go(c, "idle", None, None)
        /\ UNCHANGED <<mgrVars, stopVars>>
    <3> HIDE DEF WatchTypeOK, Fresh, Calls, Lookups, stopVars, mgrVars
    <3> QED BY <1>2, AddEffect, CallHolds
  <2>2. SUFFICES ASSUME NEW d \in WatchConns, NEW e \in WatchConns, ~stopped',
                        at'[e] = "watch", rt'[e] = current', Resubscribing(d, key[e])'
                 PROVE  rt'[d] = current'
    BY DEF Fresh
  <2>3. d # c /\ rt'[d] = rt[d] /\ at[d] = "add" /\ key'[d] = key[d]
    BY <2>1, <2>2 DEF Go
  <2>4. CASE e = c
    <3>1. key'[c] = key[c] /\ subs[key[c]] \subseteq {c}
      BY <2>1, <2>2, <2>4 DEF Go
    <3>2. d \in subs'[key[c]]
      BY <2>2, <2>4, <3>1
    <3>3. d \in subs[key[c]]
      BY <2>1, <2>3, <3>2
    <3> QED BY <2>3, <3>1, <3>3
  <2>5. CASE e # c
    <3>1. at[e] = "watch" /\ rt'[e] = rt[e] /\ key'[e] = key[e] /\ key[e] \in Keys
      BY <2>1, <2>2, <2>5, CallHolds DEF Go
    <3>2. d \in subs'[key[e]] /\ key[d] = key[e]
      BY <2>2, <2>3, <3>1
    <3>3. d \in subs[key[e]]
      BY <2>1, <2>3, <3>1, <3>2
    <3>4. Resubscribing(d, key[e]) /\ rt[e] = current /\ ~stopped /\ current' = current
      BY <2>1, <2>2, <2>3, <3>1, <3>2, <3>3
    <3> QED BY <2>3, <3>1, <3>4
  <2> QED BY <2>4, <2>5
<1>3. ASSUME NEW c \in WatchConns, SubscribeWatch(c) PROVE Fresh'
  BY <1>3 DEF SubscribeWatch, Watch, Add, Drop, Go
<1>4. ASSUME NEW c \in WatchConns, SubscribeUndo(c) PROVE Fresh'
  BY <1>4 DEF SubscribeUndo, Undone, Go
<1>5. ASSUME NEW c \in WatchConns, NEW k \in Keys, Unsubscribe(c, k) PROVE Fresh'
  BY <1>5 DEF Unsubscribe, Emptied, GoOn, Go
<1>6. ASSUME NEW c \in WatchConns, RemoveConn(c) PROVE Fresh'
  BY <1>6 DEF RemoveConn, Emptied, GoOn, Go
<1>7. ASSUME NEW c \in WatchConns, NEW k \in Keys, ResolveUnwatch(c, k) PROVE Fresh'
  BY <1>7 DEF ResolveUnwatch, Rest, GoOn, Go
<1>8. ASSUME NEW c \in WatchConns, UnwatchPool(c) PROVE Fresh'
  BY <1>8 DEF UnwatchPool, Unwatch, HandlersOf, Drop, Rest, GoOn, Go
<1>9. ASSUME StopHub PROVE Fresh'
  BY <1>9 DEF StopHub
<1>11. ASSUME NEW r \in Runtimes, PoolStep(r) PROVE Fresh'
  BY <1>11
     DEF PoolStep, Stop, Reap, Reapable, EnsureEventInformer, Age, Add, Drop, HandlersOf
<1>12. ASSUME NEW r \in Runtimes, RegisterRuntime(r) PROVE Fresh'
  BY <1>12 DEF RegisterRuntime, Open, StopRequested
<1>13. ASSUME NEW r \in Runtimes, ReplaceRuntime(r) PROVE Fresh'
  BY <1>13 DEF ReplaceRuntime
<1>14. ASSUME UnregisterRuntime PROVE Fresh'
  BY <1>14 DEF UnregisterRuntime, StopRequested
<1>15. ASSUME UNCHANGED watchVars PROVE Fresh'
  BY <1>15 DEF watchVars
<1> QED BY <1>1, <1>2, <1>3, <1>4, <1>5, <1>6, <1>7, <1>8, <1>9, <1>11, <1>12,
       <1>13, <1>14, <1>15
   DEF WatchNext, HubStep

(* A handler of the current pool whose key has lost its subscribers, or is *)
(* about to, always has a call that will remove it.                        *)
LEMMA GuardedStep == IInv /\ [WatchNext]_watchVars => Guarded'
<1> SUFFICES ASSUME IInv, [WatchNext]_watchVars PROVE Guarded'
  OBVIOUS
<1> USE EntryAssumption, WatchAssumption
   DEF IInv, WatchTypeOK, PoolTypeOK, PoolInv, ClosedPoolEmpty, Guarded, Lookups,
       Fresh, Calls, Starting, Resubscribing, Behind, Pending, poolVars, hubVars,
       stopVars, mgrVars
<1>1. ASSUME NEW c \in WatchConns, NEW k \in Keys, SubscribeGet(c, k) PROVE Guarded'
  BY <1>1 DEF SubscribeGet, Go
<1>2. ASSUME NEW c \in WatchConns, SubscribeAdd(c) PROVE Guarded'
  <2>1. /\ key[c] \in Keys /\ rt[c] \in Runtimes /\ at[c] = "add"
        /\ subs' \in [Keys -> SUBSET WatchConns]
        /\ \A k \in Keys : subs'[k] = IF k = key[c] THEN subs[k] \cup {c} ELSE subs[k]
        /\ \/ subs[key[c]] \subseteq {c} /\ Go(c, "watch", key[c], rt[c])
           \/ Go(c, "idle", None, None)
        /\ UNCHANGED <<poolVars, todo, leaving, stopVars, mgrVars>>
    <3> HIDE DEF WatchTypeOK, poolVars, stopVars, mgrVars
    <3> QED BY <1>2, AddEffect, CallHolds
  <2> SUFFICES ASSUME NEW j \in Keys, ~stopped', current' # None, j \in handlers'[current'],
                      subs'[j] = {} \/ \E d \in WatchConns : Behind(d, j)'
               PROVE  Pending(j)'
    OBVIOUS
  <2>2. \A d \in WatchConns : d # c => at'[d] = at[d] /\ key'[d] = key[d] /\ rt'[d] = rt[d]
    BY <2>1 DEF Go
  <2>3. Pending(j) => Pending(j)'
    BY <2>1, <2>2
  <2>4. CASE subs'[j] = {}
    BY <2>1, <2>3, <2>4
  <2>5. ASSUME NEW d \in WatchConns, d # c, Behind(d, j)' PROVE Pending(j)'
    <3>1. Behind(d, j)
      BY <2>1, <2>2, <2>5
    <3> QED BY <2>1, <2>3, <3>1
  <2>6. ASSUME Behind(c, j)' PROVE Pending(j)'
    <3>1. /\ subs[key[c]] \subseteq {c} /\ key[c] = j /\ rt[c] # current
      BY <2>1, <2>6 DEF Go
    <3>2. subs[j] = {} \/ Behind(c, j)
      BY <2>1, <3>1
    <3> QED BY <2>1, <2>3, <3>2
  <2> QED BY <2>4, <2>5, <2>6
<1>3. ASSUME NEW c \in WatchConns, SubscribeWatch(c) PROVE Guarded'
  <2>1. key[c] \in Keys /\ rt[c] \in Runtimes
    BY <1>3, CallHolds DEF SubscribeWatch
  <2> SUFFICES ASSUME NEW j \in Keys, ~stopped', current' # None, j \in handlers'[current'],
                      subs'[j] = {} \/ \E d \in WatchConns : Behind(d, j)'
               PROVE  Pending(j)'
    OBVIOUS
  <2>2. /\ at[c] = "watch"
        /\ \A d \in WatchConns : d # c => at'[d] = at[d] /\ key'[d] = key[d] /\ rt'[d] = rt[d]
        /\ at'[c] = "idle" \/ (at'[c] = "undo" /\ key'[c] = key[c] /\ rt'[c] = rt[c])
        /\ UNCHANGED <<subs, todo, stopped, current>>
    BY <1>3 DEF SubscribeWatch, Go
  <2>3. Pending(j) => Pending(j)'
    BY <2>2
  <2>4. ASSUME NEW d \in WatchConns, Behind(d, j)' PROVE Behind(d, j)
    BY <2>2, <2>4
  <2>5. CASE j \in handlers[current]
    BY <2>2, <2>3, <2>4, <2>5
  <2>6. CASE j \notin handlers[current]
    <3>1. j = key[c] /\ rt[c] = current /\ at'[c] = "idle"
      BY <1>3, <2>1, <2>2, <2>6 DEF SubscribeWatch, Watch, Add, Go
    <3>2. c \in subs'[j]
      BY <2>2, <3>1
    <3>3. ASSUME NEW d \in WatchConns, Behind(d, j)' PROVE FALSE
      <4>1. d # c /\ Behind(d, j)
        BY <2>4, <3>1, <3>3
      <4>2. CASE Starting(d) /\ key[d] = j
        BY <2>2, <3>1, <4>1, <4>2
      <4>3. CASE Resubscribing(d, j)
        BY <2>2, <3>1, <4>1, <4>3
      <4> QED BY <4>1, <4>2, <4>3
    <3> QED BY <3>2, <3>3
  <2> QED BY <2>5, <2>6
<1>4. ASSUME NEW c \in WatchConns, SubscribeUndo(c) PROVE Guarded'
  BY <1>4 DEF SubscribeUndo, Undone, Go
<1>5. ASSUME NEW c \in WatchConns, NEW k \in Keys, Unsubscribe(c, k) PROVE Guarded'
  <2> SUFFICES ASSUME NEW j \in Keys, ~stopped', current' # None, j \in handlers'[current'],
                      subs'[j] = {} \/ \E d \in WatchConns : Behind(d, j)'
               PROVE  Pending(j)'
    OBVIOUS
  <2>1. /\ at[c] = "idle"
        /\ \A d \in WatchConns : d # c => /\ at'[d] = at[d] /\ key'[d] = key[d]
                                       /\ rt'[d] = rt[d] /\ todo'[d] = todo[d]
        /\ subs'[j] \subseteq subs[j] /\ UNCHANGED <<handlers, stopped, current>>
    BY <1>5 DEF Unsubscribe, GoOn, Go
  <2>2. /\ todo'[c] = {m \in Keys : subs[m] # {} /\ subs'[m] = {}}
        /\ at'[c] = IF todo'[c] # {} THEN "resolve" ELSE "idle"
    BY <1>5 DEF Unsubscribe, GoOn, Go, Emptied
  <2>3. Pending(j) => Pending(j)'
    BY <2>1
  <2>4. ASSUME NEW d \in WatchConns, Behind(d, j)' PROVE Behind(d, j)
    BY <2>1, <2>2, <2>4
  <2>5. CASE subs'[j] = {} /\ subs[j] # {}
    BY <2>2, <2>5
  <2> QED BY <2>1, <2>3, <2>4, <2>5
<1>6. ASSUME NEW c \in WatchConns, RemoveConn(c) PROVE Guarded'
  <2> SUFFICES ASSUME NEW j \in Keys, ~stopped', current' # None, j \in handlers'[current'],
                      subs'[j] = {} \/ \E d \in WatchConns : Behind(d, j)'
               PROVE  Pending(j)'
    OBVIOUS
  <2>1. /\ at[c] = "idle"
        /\ \A d \in WatchConns : d # c => /\ at'[d] = at[d] /\ key'[d] = key[d]
                                       /\ rt'[d] = rt[d] /\ todo'[d] = todo[d]
        /\ subs'[j] \subseteq subs[j] /\ UNCHANGED <<handlers, stopped, current>>
    BY <1>6 DEF RemoveConn, GoOn, Go
  <2>2. /\ todo'[c] = {m \in Keys : subs[m] # {} /\ subs'[m] = {}}
        /\ at'[c] = IF todo'[c] # {} THEN "resolve" ELSE "gone"
    BY <1>6 DEF RemoveConn, GoOn, Go, Emptied
  <2>3. Pending(j) => Pending(j)'
    BY <2>1
  <2>4. ASSUME NEW d \in WatchConns, Behind(d, j)' PROVE Behind(d, j)
    BY <2>1, <2>2, <2>4
  <2>5. CASE subs'[j] = {} /\ subs[j] # {}
    BY <2>2, <2>5
  <2> QED BY <2>1, <2>3, <2>4, <2>5
<1>7. ASSUME NEW c \in WatchConns, NEW k \in Keys, ResolveUnwatch(c, k) PROVE Guarded'
  <2> SUFFICES ASSUME NEW j \in Keys, ~stopped', current' # None, j \in handlers'[current'],
                      subs'[j] = {} \/ \E d \in WatchConns : Behind(d, j)'
               PROVE  Pending(j)'
    OBVIOUS
  <2>1. /\ at[c] = "resolve" /\ k \in todo[c]
        /\ at' = [at EXCEPT ![c] = "unwatch"]
        /\ key' = [key EXCEPT ![c] = k]
        /\ rt' = [rt EXCEPT ![c] = current]
        /\ UNCHANGED <<subs, handlers, todo, stopped, current>>
    BY <1>7 DEF ResolveUnwatch, Go
  <2>2. Pending(j) => Pending(j)'
    BY <2>1
  <2>3. ASSUME NEW d \in WatchConns, Behind(d, j)' PROVE Behind(d, j)
    BY <2>1, <2>3
  <2> QED BY <2>1, <2>2, <2>3
<1>8. ASSUME NEW c \in WatchConns, UnwatchPool(c) PROVE Guarded'
  BY <1>8 DEF UnwatchPool, Unwatch, HandlersOf, Drop, Rest, GoOn, Go
<1>9. ASSUME StopHub PROVE Guarded'
  BY <1>9 DEF StopHub
<1>11. ASSUME NEW r \in Runtimes, PoolStep(r) PROVE Guarded'
  BY <1>11
     DEF PoolStep, Stop, Reap, Reapable, EnsureEventInformer, Age, Add, Drop, HandlersOf
<1>12. ASSUME NEW r \in Runtimes, RegisterRuntime(r) PROVE Guarded'
  BY <1>12 DEF RegisterRuntime, Open, StopRequested
<1>13. ASSUME NEW r \in Runtimes, ReplaceRuntime(r) PROVE Guarded'
  BY <1>13 DEF ReplaceRuntime
<1>14. ASSUME UnregisterRuntime PROVE Guarded'
  BY <1>14 DEF UnregisterRuntime, StopRequested
<1>15. ASSUME UNCHANGED watchVars PROVE Guarded'
  BY <1>15 DEF watchVars
<1> QED BY <1>1, <1>2, <1>3, <1>4, <1>5, <1>6, <1>7, <1>8, <1>9, <1>11, <1>12,
       <1>13, <1>14, <1>15
   DEF WatchNext, HubStep

(* Before the first call nothing is subscribed and no runtime is built.    *)
LEMMA InitIInv == WatchInit => IInv
<1> SUFFICES ASSUME WatchInit PROVE IInv
  OBVIOUS
<1> USE WatchAssumption DEF WatchInit, PoolInit
<1>1. WatchTypeOK
  BY DEF WatchTypeOK, PoolTypeOK
<1>2. PoolInv
  BY DEF PoolInv, HandlersHaveInformer, ResidentRuns, ClosedPoolEmpty
<1>3. Lookups
  BY DEF Lookups
<1>4. Calls
  BY DEF Calls, Starting
<1>5. SubsMirror /\ Fresh /\ Guarded
  BY DEF SubsMirror, Fresh, Guarded
<1> QED BY <1>1, <1>2, <1>3, <1>4, <1>5 DEF IInv

(* The invariant is inductive: it holds in every reachable state.          *)
LEMMA Invariant == WatchSpec => []IInv
<1>1. IInv /\ [WatchNext]_watchVars => IInv'
  BY TypeStep, PoolInvStep, LookupsStep, CallsStep, MirrorStep, FreshStep, GuardedStep DEF IInv
<1> QED BY <1>1, InitIInv, PTL DEF WatchSpec

(* Every call of the hub that is past its runtime lookup holds a key and a *)
(* runtime, for any instance.                                              *)
THEOREM WatchTypeCorrect == WatchSpec => []WatchTypeOK
<1>1. IInv => WatchTypeOK
  BY DEF IInv
<1> QED BY <1>1, Invariant, PTL

(* For any number of connections, keys and runtimes, the hub's maps subs   *)
(* and conns describe the same subscriptions after every critical section, *)
(* and a connection that RemoveConn has seen is in neither.                *)
THEOREM SubscriptionsMirror == WatchSpec => []SubsMirror
<1>1. IInv => SubsMirror
  BY DEF IInv
<1> QED BY <1>1, Invariant, PTL

(* For any sharing of informers by watch ids, reapLoop and Unwatch never   *)
(* stop an informer that still has a handler.                              *)
THEOREM HandlersKeepInformer == WatchSpec => []HandlersHaveInformer
<1>1. IInv => HandlersHaveInformer
  BY DEF IInv, PoolInv
<1> QED BY <1>1, Invariant, PTL

(* The resident informer of EnsureEventInformer runs until its pool stops. *)
THEOREM ResidentKeepsRunning == WatchSpec => []ResidentRuns
<1>1. IInv => ResidentRuns
  BY DEF IInv, PoolInv
<1> QED BY <1>1, Invariant, PTL

(* Both together: no scan and no other watcher stops what is in use.       *)
THEOREM NeededKeepRunning == WatchSpec => []NeededInformersRun
<1>1. HandlersHaveInformer /\ ResidentRuns => NeededInformersRun
  BY DEF NeededInformersRun
<1> QED BY <1>1, HandlersKeepInformer, ResidentKeepsRunning, PTL

(* A closed pool stays empty, whatever calls were under way at Stop.       *)
THEOREM ClosedPoolStaysEmpty == WatchSpec => []ClosedPoolEmpty
<1>1. IInv => ClosedPoolEmpty
  BY DEF IInv, PoolInv
<1> QED BY <1>1, Invariant, PTL

(* For any instance, when no call about a key is under way, the registered *)
(* runtime has no handler that nobody subscribes to: the first subscriber  *)
(* and the last one to leave, who act on the pool outside WatchHub.mu,     *)
(* never leave one behind, across failed watches, repeated subscriptions   *)
(* and replaced runtimes.                                                  *)
THEOREM HandlersDoNotLeak == WatchSpec => []NoHandlerLeak
<1>1. IInv => NoHandlerLeak
  <2> SUFFICES ASSUME IInv, NEW k \in Keys, ~stopped, NoCallOn(k), current # None,
                      k \in handlers[current]
               PROVE  subs[k] # {}
    BY DEF NoHandlerLeak
  <2>1. ~Pending(k)
    BY DEF Pending, NoCallOn
  <2> QED BY <2>1 DEF IInv, Guarded
<1> QED BY <1>1, Invariant, PTL

-----------------------------------------------------------------------------
(***************************************************************************)
(* Audit and Proxy.  What is broadcast, buffered, carried by the pump or   *)
(* delivered is a row of the table whose recorder is done with it, and it  *)
(* is in one of these places at a time: FeedInv.  The rows themselves say  *)
(* what became of the request they are about: RecordInv.                   *)
(***************************************************************************)
Distinct(s) == \A i, j \in 1..Len(s) : s[i] = s[j] => i = j

(* Rows whose broadcast is over.                                           *)
Sent == {e \in Elements(rows) : rec[e.req] = "done"}

FeedInv ==
  /\ Distinct(feed) /\ Elements(feed) \subseteq Sent
  /\ pump.at = "send" =>
       /\ pump.event \in Sent \ Elements(feed)
       /\ \A c \in pump.todo : pump.event \notin Elements(inbox[c])
  /\ \A c \in Listeners :
       /\ Distinct(inbox[c])
       /\ Elements(inbox[c]) \subseteq Sent \ Elements(feed)

(* A row or an entry tells the outcome of a request of the API.            *)
Tells(e, outcome) ==
  /\ e.result = Result(outcome.kind = "reveal" \/ outcome.ok)
  /\ e.user \in {outcome.user, Nothing}
  /\ outcome.ok /\ outcome.kind # "login" => e.user = outcome.user

RecordInv ==
  /\ \A r \in Recorders :
       /\ rec[r] \in {"create", "broadcast"} => entry[r] \in Row /\ entry[r].req = r
       /\ rec[r] = "broadcast" => entry[r] \in Elements(rows)
       /\ rec[r] \in {"broadcast", "done"} <=> \E e \in Elements(rows) : e.req = r
  /\ \A i, j \in 1..Len(rows) : rows[i].req = rows[j].req => i = j
  /\ \A r \in Requests :
       /\ rec[r] # "none" => call[r] # Nothing
       /\ call[r] # Nothing /\ call[r].ok => rec[r] # "none"
       /\ rec[r] = "create" => Tells(entry[r], call[r])
       /\ \A e \in Elements(rows) : e.req = r => Tells(e, call[r])

AuditInv == AuditTypeOK /\ RecordInv /\ FeedInv

(* A request of the proxy is recorded once, with the answer it got, and    *)
(* the runtime it finds was registered since it arrived.                   *)
AnswerOf(x) == IF pat[x] = "denied" THEN "deny" ELSE "allow"

CallInv ==
  \A x \in Others :
    /\ pat[x] \in {"idle", "lookup", "client", "failed"} <=> rec[x] = "none"
    /\ rec[x] = "create" => entry[x].result = AnswerOf(x)
    /\ \A e \in Elements(rows) : e.req = x => e.result = AnswerOf(x)
    /\ pat[x] = "lookup" /\ runtime # Nothing => runtime \in since[x]
    /\ pat[x] = "client" =>
         config[x] \in since[x] \ {Nothing} /\ dial[config[x]] # Nothing
    /\ pat[x] = "allowed" =>
         /\ served[x] \in Client /\ served[x].config \in since[x]
         /\ served[x].dial = "network" => served[x].config \in direct

(* A config that dials the network was built before the dialer was set,    *)
(* and so is one of a client that does; the client cached for a config has *)
(* its credentials.                                                        *)
CacheInv ==
  /\ \A g \in Configs :
       /\ dial[g] = "network" => g \in direct
       /\ clients[g] # Nothing =>
            /\ clients[g].config = g
            /\ clients[g].dial = "network" => g \in direct
  /\ \A p \in pending : dial[p[2]] # Nothing
  /\ runtime # Nothing => dial[runtime] # Nothing

ProxyInv == AuditInv /\ ProxyTypeOK /\ CallInv /\ CacheInv

-----------------------------------------------------------------------------
(* What the operators of Sequences do to the elements of a sequence.       *)
LEMMA AppendElements ==
  ASSUME NEW S, NEW s \in Seq(S), NEW e \in S
  PROVE  /\ Append(s, e) \in Seq(S)
         /\ Elements(Append(s, e)) = Elements(s) \cup {e}
         /\ Distinct(s) /\ e \notin Elements(s) => Distinct(Append(s, e))
<1> DEFINE t == Append(s, e)
           n == Len(s)
<1>1. /\ t \in Seq(S) /\ Len(t) = n + 1 /\ n \in Nat
      /\ \A i \in 1..n : t[i] = s[i]
      /\ t[n + 1] = e
  BY AppendProperties
<1> HIDE DEF t, n
<1>2. 1..(n + 1) = 1..n \cup {n + 1}
  BY <1>1
<1>3. Elements(t) = Elements(s) \cup {e}
  BY <1>1, <1>2 DEF Elements, n
<1>4. Distinct(s) /\ e \notin Elements(s) => Distinct(t)
  BY <1>1, <1>2 DEF Elements, Distinct, n
<1> QED BY <1>1, <1>3, <1>4 DEF t

LEMMA TailElements ==
  ASSUME NEW S, NEW s \in Seq(S), s # <<>>
  PROVE  /\ Head(s) \in Elements(s) /\ Tail(s) \in Seq(S) /\ Len(Tail(s)) = Len(s) - 1
         /\ Elements(Tail(s)) \subseteq Elements(s)
         /\ Distinct(s) => Distinct(Tail(s)) /\ Head(s) \notin Elements(Tail(s))
<1> DEFINE t == Tail(s)
           n == Len(s)
<1>1. /\ n \in Nat /\ n > 0 /\ Head(s) = s[1]
      /\ t \in Seq(S) /\ Len(t) = n - 1
      /\ \A i \in 1..(n - 1) : t[i] = s[i + 1]
  BY HeadTailProperties, EmptySeq
<1> HIDE DEF t, n
<1>2. /\ 1 \in 1..n
      /\ \A i \in 1..(n - 1) : i + 1 \in 1..n /\ i + 1 # 1
      /\ \A i, j \in 1..(n - 1) : i + 1 = j + 1 => i = j
  BY <1>1
<1>3. Head(s) \in Elements(s) /\ Elements(t) \subseteq Elements(s)
  BY <1>1, <1>2 DEF Elements, n
<1>4. Distinct(s) => Distinct(t) /\ Head(s) \notin Elements(t)
  BY <1>1, <1>2 DEF Elements, Distinct, n
<1> QED BY <1>1, <1>3, <1>4 DEF t, n

LEMMA DistinctCardinality ==
  ASSUME NEW S, NEW s \in Seq(S), Distinct(s)
  PROVE  Cardinality(Elements(s)) = Len(s)
<1>1. s \in Bijection(1..Len(s), Elements(s))
  BY DEF Distinct, Elements, Bijection, Injection, Surjection, IsInjective
<1>2. Len(s) \in Nat
  OBVIOUS
<1> QED BY <1>1, <1>2, FS_CountingElements DEF ExistsBijection

-----------------------------------------------------------------------------
(* The records.                                                            *)

(* The feed does not notice that more rows are recorded.                   *)
LEMMA FeedStays ==
  ASSUME FeedInv, Sent \subseteq Sent', UNCHANGED <<feed, pump, inbox>>
  PROVE  FeedInv'
  BY DEF FeedInv

LEMMA AuditInitInv == AuditInit => AuditInv
<1> SUFFICES ASSUME AuditInit PROVE AuditInv
  OBVIOUS
<1> USE AuditAssumption DEF AuditInit
<1>1. /\ <<>> \in Seq(Row) /\ Len(<<>>) = 0 /\ Elements(<<>>) = {}
      /\ Distinct(<<>>)
  BY DEF Elements, Distinct
<1>2. AuditTypeOK
  <2>1. /\ call \in [Requests -> Call \cup {Nothing}]
        /\ rec \in [Recorders -> {"none", "create", "broadcast", "done", "lost"}]
        /\ entry \in [Recorders -> Row \cup {Nothing}]
        /\ inbox \in [Listeners -> Seq(Row)]
    BY <1>1
  <2>2. Asleep \in [at : {"recv", "send", "ended"}, event : Row \cup {Nothing},
                    todo : SUBSET Listeners]
    BY DEF Asleep
  <2>3. rows \in Seq(Row) /\ feed \in Seq(Row) /\ Len(feed) <= FeedCap
    BY <1>1
  <2>4. tapped \in BOOLEAN /\ hubStopped \in BOOLEAN /\ auditSubs \subseteq Listeners
    OBVIOUS
  <2> HIDE DEF AuditInit
  <2> QED BY <2>1, <2>2, <2>3, <2>4 DEF AuditTypeOK, AuditInit
<1>3. RecordInv
  <2>1. /\ \A r \in Recorders : rec[r] = "none"
        /\ \A r \in Requests : call[r] = Nothing
    OBVIOUS
  <2>2. Elements(rows) = {} /\ Len(rows) = 0
    BY <1>1
  <2> HIDE DEF AuditInit
  <2> QED BY <2>1, <2>2 DEF RecordInv, Recorders
<1>4. FeedInv
  BY <1>1 DEF FeedInv, Asleep
<1> QED BY <1>2, <1>3, <1>4 DEF AuditInv

(* A recorder that starts for the first time: Handle and Reveal of the     *)
(* middleware, Deny and ClientFor of the proxy.                            *)
LEMMA StartRecordKeeps ==
  ASSUME AuditInv, NEW r \in Recorders, rec[r] = "none",
         NEW user \in Users \cup {Nothing}, NEW result \in {"allow", "deny"},
         StartRecord(r, user, result), UNCHANGED <<tapped, feed, feedVars>>,
         call' \in [Requests -> Call \cup {Nothing}],
         \A q \in Requests : q # r => call'[q] = call[q],
         r \in Requests => call'[r] # Nothing /\ Tells(entry'[r], call'[r])
  PROVE  AuditInv'
<1> USE DEF AuditInv, StartRecord, feedVars
<1> DEFINE e == [req |-> r, user |-> user, result |-> result]
<1>1. e \in Row /\ e.req = r
  BY DEF Row
<1>2. /\ rec' = [rec EXCEPT ![r] = "create"] /\ entry' = [entry EXCEPT ![r] = e]
      /\ rows' = rows
  OBVIOUS
<1> HIDE DEF e
<1>3. AuditTypeOK'
  BY <1>1, <1>2 DEF AuditTypeOK
<1>4. RecordInv'
  BY <1>1, <1>2 DEF RecordInv, AuditTypeOK
<1>5. Sent \subseteq Sent'
  BY <1>2 DEF Sent, AuditTypeOK, RecordInv
<1>6. FeedInv'
  BY <1>5, FeedStays
<1> QED BY <1>3, <1>4, <1>6

(* A request whose handling is not recorded.                               *)
LEMMA HandledKeeps ==
  ASSUME AuditInv, NEW r \in Requests, NEW kind \in {"login", "refresh", "write", "reveal"},
         NEW user \in Users, Handled(r, kind, user, FALSE), UNCHANGED recordVars
  PROVE  AuditInv'
<1> USE AuditAssumption DEF AuditInv, Handled, recordVars, feedVars, Call
<1>1. AuditTypeOK'
  BY DEF AuditTypeOK
<1>2. rec[r] = "none" /\ \A e \in Elements(rows) : e.req # r
  BY DEF RecordInv, Recorders
<1>3. RecordInv'
  BY <1>2 DEF RecordInv, AuditTypeOK, Recorders
<1>4. FeedInv'
  BY FeedStays DEF Sent
<1> QED BY <1>1, <1>3, <1>4

(* The middleware and the handlers it wraps.                               *)
LEMMA RequestKeeps ==
  ASSUME AuditInv, NEW r \in Requests, Handle(r) \/ Panic(r) \/ Reveal(r)
  PROVE  AuditInv'
<1>1. ASSUME NEW kind \in {"login", "refresh", "write", "reveal"},
             NEW user \in Users \cup {Nothing}, NEW ok \in BOOLEAN,
             NEW name \in {user, Nothing}, ok /\ kind # "login" => name = user,
             Handled(r, kind, user, ok),
             StartRecord(r, name, Result(kind = "reveal" \/ ok))
      PROVE  AuditInv'
  <2> DEFINE outcome == [kind |-> kind, user |-> user, ok |-> ok]
  <2>1. call[r] = Nothing /\ call' = [call EXCEPT ![r] = outcome]
    BY <1>1 DEF Handled
  <2>2. outcome \in Call
    BY DEF Call
  <2>3. /\ call' \in [Requests -> Call \cup {Nothing}]
        /\ call'[r] = outcome /\ call'[r] # Nothing
        /\ \A q \in Requests : q # r => call'[q] = call[q]
    BY <2>1, <2>2, AuditAssumption DEF AuditInv, AuditTypeOK
  <2>4. rec[r] = "none" /\ r \in Recorders
    BY <2>1 DEF AuditInv, RecordInv, AuditTypeOK, Recorders
  <2>5. entry'[r].user = name /\ entry'[r].result = Result(kind = "reveal" \/ ok)
    BY <1>1, <2>4 DEF StartRecord, AuditInv, AuditTypeOK
  <2>6. Tells(entry'[r], call'[r])
    BY <1>1, <2>3, <2>5 DEF Tells
  <2>7. Result(kind = "reveal" \/ ok) \in {"allow", "deny"} /\ name \in Users \cup {Nothing}
    BY <1>1 DEF Result
  <2> QED BY <1>1, <2>3, <2>4, <2>6, <2>7, StartRecordKeeps DEF Handled
<1>2. CASE Handle(r)
  <2>1. PICK kind \in {"login", "refresh", "write"}, user \in Users \cup {Nothing},
             ok, authenticated \in BOOLEAN :
          /\ kind = "write" /\ ok => authenticated
          /\ Handled(r, kind, user, ok)
          /\ \E name \in Usernames(kind, user, authenticated, ok) :
               StartRecord(r, name, Result(ok))
    BY <1>2 DEF Handle
  <2>2. PICK name \in Usernames(kind, user, authenticated, ok) : StartRecord(r, name, Result(ok))
    BY <2>1
  <2>3. name \in {user, Nothing} /\ (ok /\ kind # "login" => name = user)
    BY <2>1, <2>2 DEF Usernames
  <2>4. Result(kind = "reveal" \/ ok) = Result(ok)
    BY <2>1 DEF Result
  <2> QED BY <1>1, <2>1, <2>2, <2>3, <2>4
<1>3. CASE Panic(r)
  BY <1>3, HandledKeeps DEF Panic
<1>4. CASE Reveal(r)
  <2>1. PICK user \in Users :
          \/ Handled(r, "reveal", user, FALSE) /\ UNCHANGED recordVars
          \/ \E ok \in BOOLEAN : Handled(r, "reveal", user, ok) /\ StartRecord(r, user, "allow")
    BY <1>4 DEF Reveal
  <2>2. CASE Handled(r, "reveal", user, FALSE) /\ UNCHANGED recordVars
    BY <2>2, HandledKeeps
  <2>3. ASSUME NEW ok \in BOOLEAN, Handled(r, "reveal", user, ok), StartRecord(r, user, "allow")
        PROVE  AuditInv'
    BY <1>1, <2>3 DEF Result
  <2> QED BY <2>1, <2>2, <2>3
<1> QED BY <1>2, <1>3, <1>4

(* AuditService.Record commits the row, ...                                *)
LEMMA CreateRowKeeps ==
  ASSUME AuditInv, NEW r \in Recorders, CreateRow(r)
  PROVE  AuditInv'
<1> USE DEF AuditInv, CreateRow
<1>1. /\ rec[r] = "create" /\ entry[r] \in Row /\ entry[r].req = r
      /\ UNCHANGED <<call, tapped, feed, pump, auditSubs, inbox, hubStopped>>
      /\ \A e \in Elements(rows) : e.req # r
  BY DEF RecordInv, feedVars
<1>2. CASE /\ rows' = Append(rows, entry[r])
           /\ rec' = [rec EXCEPT ![r] = "broadcast"]
           /\ UNCHANGED entry
  <2>1. /\ rows' \in Seq(Row) /\ Elements(rows') = Elements(rows) \cup {entry[r]}
    BY <1>1, <1>2, AppendElements DEF AuditTypeOK
  <2>2. AuditTypeOK'
    BY <1>1, <1>2, <2>1 DEF AuditTypeOK
  <2>3. \A i, j \in 1..Len(rows') : rows'[i].req = rows'[j].req => i = j
    <3>1. rows \in Seq(Row) /\ Len(rows) \in Nat
      BY DEF AuditTypeOK
    <3>2. /\ Len(rows') = Len(rows) + 1
          /\ \A i \in 1..Len(rows) : rows'[i] = rows[i]
          /\ rows'[Len(rows) + 1] = entry[r]
      BY <1>1, <1>2, <3>1, AppendProperties
    <3>3. \A i \in 1..Len(rows) : rows[i].req # r
      BY <1>1 DEF Elements
    <3>4. \A i, j \in 1..Len(rows) : rows[i].req = rows[j].req => i = j
      BY DEF RecordInv
    <3> HIDE DEF AuditInv, CreateRow
    <3> QED BY <1>1, <3>1, <3>2, <3>3, <3>4
  <2>4. RecordInv'
    <3>1. ASSUME NEW q \in Recorders
          PROVE  /\ rec'[q] \in {"create", "broadcast"} => entry'[q] \in Row /\ entry'[q].req = q
                 /\ rec'[q] = "broadcast" => entry'[q] \in Elements(rows')
                 /\ rec'[q] \in {"broadcast", "done"} <=> \E e \in Elements(rows') : e.req = q
      BY <1>1, <1>2, <2>1 DEF RecordInv, AuditTypeOK
    <3>2. ASSUME NEW q \in Requests
          PROVE  /\ rec'[q] # "none" => call'[q] # Nothing
                 /\ call'[q] # Nothing /\ call'[q].ok => rec'[q] # "none"
                 /\ rec'[q] = "create" => Tells(entry'[q], call'[q])
                 /\ \A e \in Elements(rows') : e.req = q => Tells(e, call'[q])
      BY <1>1, <1>2, <2>1 DEF RecordInv, AuditTypeOK, Recorders
    <3> QED BY <2>3, <3>1, <3>2 DEF RecordInv
  <2>5. FeedInv'
    <3>1. Sent \subseteq Sent'
      BY <1>1, <1>2, <2>1 DEF Sent, AuditTypeOK
    <3> QED BY <1>1, <3>1, FeedStays
  <2> QED BY <2>2, <2>4, <2>5
<1>3. CASE RefusedRow(r)
  <2>1. AuditTypeOK'
    BY <1>1, <1>3 DEF RefusedRow, AuditTypeOK
  <2>2. RecordInv'
    BY <1>1, <1>3 DEF RefusedRow, RecordInv, AuditTypeOK, Recorders
  <2>3. Sent \subseteq Sent'
    BY <1>1, <1>3 DEF RefusedRow, Sent, AuditTypeOK
  <2> QED BY <1>1, <2>1, <2>2, <2>3, FeedStays
<1> QED BY <1>2, <1>3

(* ... and only then broadcasts it.                                        *)
LEMMA BroadcastKeeps ==
  ASSUME AuditInv, NEW r \in Recorders, Broadcast(r)
  PROVE  AuditInv'
<1> USE DEF AuditInv, Broadcast
<1>1. /\ rec[r] = "broadcast" /\ entry[r] \in Row /\ entry[r].req = r
      /\ entry[r] \in Elements(rows) \ Sent
      /\ rec' = [rec EXCEPT ![r] = "done"] /\ entry' = [entry EXCEPT ![r] = Nothing]
      /\ UNCHANGED <<call, rows, tapped, pump, auditSubs, inbox, hubStopped>>
  BY DEF RecordInv, feedVars, Sent
<1>2. /\ \/ feed' = feed
         \/ feed' = Append(feed, entry[r]) /\ Len(feed) < FeedCap
      /\ feed' \in Seq(Row) /\ Len(feed') <= FeedCap
      /\ Elements(feed') \subseteq Elements(feed) \cup {entry[r]}
      /\ Distinct(feed')
  <2>1. Append(feed, entry[r]) \in Seq(Row) /\ Len(Append(feed, entry[r])) = Len(feed) + 1
    BY <1>1, AppendProperties DEF AuditTypeOK
  <2>2. /\ Elements(Append(feed, entry[r])) = Elements(feed) \cup {entry[r]}
        /\ Distinct(Append(feed, entry[r]))
    BY <1>1, AppendElements DEF AuditTypeOK, FeedInv
  <2>3. Distinct(feed)
    BY DEF FeedInv
  <2>4. Len(feed) \in Nat /\ FeedCap \in Nat
    BY AuditAssumption DEF AuditTypeOK
  <2> QED BY <2>1, <2>2, <2>3, <2>4 DEF AuditTypeOK
<1>3. AuditTypeOK'
  BY <1>1, <1>2 DEF AuditTypeOK
<1>4. RecordInv'
  BY <1>1 DEF RecordInv, AuditTypeOK, Recorders
<1>5. Sent' = Sent \cup {e \in Elements(rows) : e.req = r}
  BY <1>1 DEF Sent, AuditTypeOK, Elements
<1>6. Elements(feed') \subseteq Sent' /\ entry[r] \notin Sent
  BY <1>1, <1>2, <1>5 DEF FeedInv
<1>7. FeedInv'
  BY <1>1, <1>2, <1>5, <1>6 DEF FeedInv
<1> QED BY <1>3, <1>4, <1>7

-----------------------------------------------------------------------------
(* The feed.                                                               *)

(* An event leaves the buffer for the pump: it was there once, and nobody  *)
(* has received it.                                                        *)
LEMMA PumpTakeKeeps ==
  ASSUME AuditInv, PumpTake
  PROVE  AuditInv'
<1> USE DEF AuditInv, PumpTake
<1> DEFINE e == Head(feed)
<1>1. /\ e \in Elements(feed) /\ feed' = Tail(feed)
      /\ feed' \in Seq(Row) /\ Len(feed') = Len(feed) - 1
      /\ Elements(feed') \subseteq Elements(feed)
      /\ Distinct(feed') /\ e \notin Elements(feed')
  BY TailElements DEF AuditTypeOK, FeedInv
<1>2. e \in Row
  BY HeadTailProperties DEF AuditTypeOK
<1>3. \/ hubStopped /\ pump' = [pump EXCEPT !.at = "ended"]
      \/ pump' = [at |-> "send", event |-> e, todo |-> auditSubs]
  OBVIOUS
<1>4. UNCHANGED <<call, rec, entry, rows, tapped, auditSubs, inbox, hubStopped>>
  BY DEF recordVars
<1> HIDE DEF e
<1>5. AuditTypeOK'
  <2>1. pump' \in [at : {"recv", "send", "ended"}, event : Row \cup {Nothing},
                   todo : SUBSET Listeners]
    BY <1>2, <1>3 DEF AuditTypeOK
  <2>2. Len(feed') <= FeedCap
    BY <1>1, AuditAssumption DEF AuditTypeOK
  <2> QED BY <1>1, <1>4, <2>1, <2>2 DEF AuditTypeOK
<1>6. RecordInv'
  BY <1>4 DEF RecordInv
<1>7. FeedInv'
  <2>1. Sent' = Sent
    BY <1>4 DEF Sent
  <2>2. CASE pump' = [pump EXCEPT !.at = "ended"]
    BY <1>1, <1>4, <2>1, <2>2 DEF FeedInv, AuditTypeOK
  <2>3. CASE pump' = [at |-> "send", event |-> e, todo |-> auditSubs]
    BY <1>1, <1>4, <2>1, <2>3 DEF FeedInv, AuditTypeOK
  <2> QED BY <1>3, <2>2, <2>3
<1> QED BY <1>5, <1>6, <1>7

(* The pump serves a listener at most once.                                *)
LEMMA PumpSendKeeps ==
  ASSUME AuditInv, NEW c \in Listeners, PumpSend(c)
  PROVE  AuditInv'
<1> USE DEF AuditInv
<1>1. /\ pump.at = "send" /\ c \in pump.todo
      /\ pump' = [pump EXCEPT !.todo = pump.todo \ {c}]
      /\ UNCHANGED <<call, rec, entry, rows, tapped, feed, auditSubs, hubStopped>>
  BY DEF PumpSend, recordVars
<1>2. pump.event \in Sent \ Elements(feed) /\ pump.event \notin Elements(inbox[c])
  BY <1>1 DEF FeedInv
<1>3. pump.event \in Row
  BY <1>2 DEF Sent, Elements, AuditTypeOK
<1>4. RecordInv' /\ Sent' = Sent
  BY <1>1 DEF RecordInv, Sent
<1>5. /\ pump' \in [at : {"recv", "send", "ended"}, event : Row \cup {Nothing},
                    todo : SUBSET Listeners]
      /\ pump'.event = pump.event /\ pump'.todo = pump.todo \ {c}
  BY <1>1 DEF AuditTypeOK
<1>6. CASE inbox' = inbox
  <2>1. AuditTypeOK'
    BY <1>1, <1>5, <1>6 DEF AuditTypeOK
  <2>2. FeedInv'
    BY <1>1, <1>4, <1>5, <1>6 DEF FeedInv
  <2> QED BY <1>4, <2>1, <2>2
<1>7. CASE inbox' = [inbox EXCEPT ![c] = Append(inbox[c], pump.event)]
  <2>1. /\ Append(inbox[c], pump.event) \in Seq(Row)
        /\ Elements(Append(inbox[c], pump.event)) = Elements(inbox[c]) \cup {pump.event}
        /\ Distinct(Append(inbox[c], pump.event))
    BY <1>2, <1>3, AppendElements DEF AuditTypeOK, FeedInv
  <2>2. AuditTypeOK'
    BY <1>1, <1>5, <1>7, <2>1 DEF AuditTypeOK
  <2>3. \A d \in Listeners : inbox'[d] = IF d = c THEN Append(inbox[c], pump.event) ELSE inbox[d]
    BY <1>7 DEF AuditTypeOK
  <2>4. FeedInv'
    <3>1. Distinct(feed') /\ Elements(feed') \subseteq Sent'
      BY <1>1, <1>4 DEF FeedInv
    <3>2. /\ pump'.event \in Sent' \ Elements(feed')
          /\ \A d \in pump'.todo : pump'.event \notin Elements(inbox'[d])
      BY <1>1, <1>2, <1>4, <1>5, <2>3 DEF FeedInv, AuditTypeOK
    <3>3. ASSUME NEW d \in Listeners
          PROVE  Distinct(inbox'[d]) /\ Elements(inbox'[d]) \subseteq Sent' \ Elements(feed')
      BY <1>1, <1>2, <1>4, <2>1, <2>3 DEF FeedInv
    <3> QED BY <3>1, <3>2, <3>3 DEF FeedInv
  <2> QED BY <1>4, <2>2, <2>4
<1> QED BY <1>6, <1>7 DEF PumpSend

(* The other steps of the hub touch no event.                              *)
LEMMA HubKeeps ==
  ASSUME AuditInv,
         \/ \E c \in Listeners : SubscribeAudit(c) \/ UnsubscribeAudit(c)
         \/ PumpSent \/ StopFeed \/ Untap
  PROVE  AuditInv'
<1> USE DEF AuditInv, recordVars
<1>1. /\ UNCHANGED <<call, rec, entry, rows, feed, inbox>>
      /\ pump' = pump \/ pump' = Asleep
  BY DEF SubscribeAudit, UnsubscribeAudit, PumpSent, StopFeed, Untap, feedVars
<1>2. /\ auditSubs' \subseteq Listeners /\ tapped' \in BOOLEAN /\ hubStopped' \in BOOLEAN
  BY DEF SubscribeAudit, UnsubscribeAudit, PumpSent, StopFeed, Untap, feedVars, AuditTypeOK
<1>3. AuditTypeOK'
  BY <1>1, <1>2 DEF AuditTypeOK, Asleep
<1>4. RecordInv' /\ Sent' = Sent
  BY <1>1 DEF RecordInv, Sent
<1>5. FeedInv'
  BY <1>1, <1>4 DEF FeedInv, Asleep
<1> QED BY <1>3, <1>4, <1>5

(* Every step of the audit trail keeps the invariant.                      *)
LEMMA AuditStepInv == AuditInv /\ AuditNext => AuditInv'
<1> SUFFICES ASSUME AuditInv, AuditNext PROVE AuditInv'
  OBVIOUS
<1>1. CASE \E r \in Requests : Handle(r) \/ Panic(r) \/ Reveal(r)
  BY <1>1, RequestKeeps
<1>2. CASE \E r \in Recorders : Record(r)
  BY <1>2, CreateRowKeeps, BroadcastKeeps DEF Record
<1>3. CASE \/ \E c \in Listeners : SubscribeAudit(c) \/ UnsubscribeAudit(c)
           \/ PumpSent \/ StopFeed \/ Untap
  BY <1>3, HubKeeps
<1>4. CASE PumpTake
  BY <1>4, PumpTakeKeeps
<1>5. CASE \E c \in Listeners : PumpSend(c)
  BY <1>5, PumpSendKeeps
<1> QED BY <1>1, <1>2, <1>3, <1>4, <1>5 DEF AuditNext, Pump

-----------------------------------------------------------------------------
(* The proxy.                                                              *)

(* What the audit trail does with the record of a request of the proxy: it *)
(* starts none, and its row is the entry.                                  *)
LEMMA AuditAnswers ==
  ASSUME AuditInv, AuditNext, NEW x \in Others
  PROVE  /\ rec'[x] = "none" <=> rec[x] = "none"
         /\ rec'[x] = "create" => rec[x] = "create" /\ entry'[x] = entry[x]
         /\ \A e \in Elements(rows') :
              e.req = x => e \in Elements(rows) \/ (rec[x] = "create" /\ e = entry[x])
<1> USE AuditAssumption DEF AuditInv, AuditTypeOK, Recorders
<1>1. ASSUME NEW r \in Requests, Handle(r) \/ Panic(r) \/ Reveal(r)
      PROVE  /\ rec'[x] = rec[x] /\ entry'[x] = entry[x] /\ rows' = rows
  <2>1. ASSUME NEW user, NEW result, StartRecord(r, user, result)
        PROVE  rec'[x] = rec[x] /\ entry'[x] = entry[x] /\ rows' = rows
    BY <2>1 DEF StartRecord
  <2>2. ASSUME UNCHANGED recordVars
        PROVE  rec'[x] = rec[x] /\ entry'[x] = entry[x] /\ rows' = rows
    BY <2>2 DEF recordVars
  <2> QED BY <1>1, <2>1, <2>2 DEF Handle, Panic, Reveal
<1>2. ASSUME NEW r \in Recorders, CreateRow(r)
      PROVE  /\ rec'[x] = "none" <=> rec[x] = "none"
             /\ rec'[x] = "create" => rec[x] = "create" /\ entry'[x] = entry[x]
             /\ \A e \in Elements(rows') :
                  e.req = x => e \in Elements(rows) \/ (rec[x] = "create" /\ e = entry[x])
  <2>1. rec[r] = "create" /\ entry[r] \in Row /\ entry[r].req = r
    BY <1>2 DEF CreateRow, RecordInv
  <2>2. \/ rows' = rows
        \/ rows' = Append(rows, entry[r])
    BY <1>2 DEF CreateRow, RefusedRow
  <2>3. Elements(Append(rows, entry[r])) = Elements(rows) \cup {entry[r]}
    <3>1. rows \in Seq(Row)
      OBVIOUS
    <3> QED BY <2>1, <3>1, AppendElements
  <2>4. /\ rec'[r] \in {"broadcast", "lost"}
        /\ \A q \in Recorders : q # r => rec'[q] = rec[q] /\ entry'[q] = entry[q]
    BY <1>2 DEF CreateRow, RefusedRow
  <2>5. \A e \in Elements(rows') : e.req = x => e \in Elements(rows) \/ (r = x /\ e = entry[r])
    BY <2>1, <2>2, <2>3
  <2>6. x \in Recorders
    OBVIOUS
  <2> HIDE DEF AuditInv, AuditTypeOK, Recorders
  <2>7. CASE r = x
    BY <2>1, <2>4, <2>5, <2>7
  <2>8. CASE r # x
    BY <2>4, <2>5, <2>6, <2>8
  <2> QED BY <2>7, <2>8
<1>3. ASSUME NEW r \in Recorders, Broadcast(r)
      PROVE  /\ rec'[x] = "none" <=> rec[x] = "none"
             /\ rec'[x] = "create" => rec[x] = "create" /\ entry'[x] = entry[x]
             /\ rows' = rows
  BY <1>3 DEF Broadcast
<1>4. ASSUME \/ \E c \in Listeners : SubscribeAudit(c) \/ UnsubscribeAudit(c)
             \/ Pump \/ StopFeed \/ Untap
      PROVE  UNCHANGED <<rec, entry, rows>>
  BY <1>4 DEF SubscribeAudit, UnsubscribeAudit, Pump, PumpTake, PumpSend, PumpSent, StopFeed,
              Untap, recordVars
<1> QED BY <1>1, <1>2, <1>3, <1>4 DEF AuditNext, Record

LEMMA ProxyInitInv == Init => ProxyInv
<1> SUFFICES ASSUME Init PROVE ProxyInv
  OBVIOUS
<1>1. AuditInv
  BY AuditInitInv DEF Init
<1>2. ProxyTypeOK
  BY DEF Init, ProxyTypeOK
<1>3. CallInv
  <2>1. \A x \in Others : rec[x] = "none" /\ pat[x] = "idle"
    BY DEF Init, AuditInit, Recorders
  <2>2. Elements(rows) = {}
    BY DEF Init, AuditInit, Elements
  <2> QED BY <2>1, <2>2 DEF CallInv
<1>4. CacheInv
  BY ProxyAssumption DEF Init, CacheInv, Dials
<1> QED BY <1>1, <1>2, <1>3, <1>4 DEF ProxyInv

(* Steps that leave the audit trail alone.                                 *)
LEMMA AuditUntouched ==
  ASSUME AuditInv, UNCHANGED auditVars
  PROVE  AuditInv' /\ UNCHANGED <<rec, entry, rows>>
<1>1. UNCHANGED <<call, rec, entry, rows, tapped, feed, pump, auditSubs, inbox, hubStopped>>
  BY DEF auditVars, recordVars, feedVars
<1>2. AuditTypeOK' /\ RecordInv' /\ Sent' = Sent
  BY <1>1 DEF AuditInv, AuditTypeOK, RecordInv, Sent
<1>3. FeedInv'
  BY <1>1, <1>2 DEF AuditInv, FeedInv
<1> QED BY <1>1, <1>2, <1>3 DEF AuditInv

(* The client that clientFor hands out has the credentials of the config   *)
(* it is asked for, and dials the network only if that was built before    *)
(* the tunnel dialer was set.                                              *)
LEMMA ClientOfConfig ==
  ASSUME ProxyInv, NEW g \in Configs, dial[g] # Nothing
  PROVE  /\ ClientOf(g) \in Client /\ ClientOf(g).config = g /\ ClientOf(g) # Nothing
         /\ ClientOf(g).dial = "network" => g \in direct
<1>1. dial[g] \in Dials
  BY DEF ProxyInv, ProxyTypeOK
<1>2. CASE clients[g] # Nothing
  BY <1>2 DEF ProxyInv, ProxyTypeOK, CacheInv, ClientOf, CacheKey
<1>3. CASE clients[g] = Nothing
  <2>1. ClientOf(g) = [config |-> g, dial |-> dial[g]]
    BY <1>3 DEF ClientOf, CacheKey
  <2>2. ClientOf(g) \in Client
    BY <1>1, <2>1 DEF Client
  <2> QED BY <2>1, <2>2, ProxyAssumption DEF ProxyInv, CacheInv
<1> QED BY <1>2, <1>3

LEMMA CacheKeeps ==
  ASSUME ProxyInv, NEW g \in Configs, dial[g] # Nothing, Cache(g),
         UNCHANGED managerVars
  PROVE  CacheInv' /\ clients' \in [Configs -> Client \cup {Nothing}]
<1>1. clients' = [clients EXCEPT ![g] = ClientOf(g)]
  BY DEF Cache, CacheKey
<1>2. /\ ClientOf(g) \in Client /\ ClientOf(g).config = g /\ ClientOf(g) # Nothing
      /\ ClientOf(g).dial = "network" => g \in direct
  BY ClientOfConfig
<1> QED BY <1>1, <1>2 DEF ProxyInv, ProxyTypeOK, CacheInv, managerVars

(* The runtime manager, and requests the model does not follow.            *)
LEMMA ManagerKeeps ==
  ASSUME ProxyInv,
         \/ \E g \in Configs : Register(g) \/ \E n \in Callers : Install(n, g)
         \/ \E n \in Attachments : Attach(n) \/ Reregister(n)
         \/ Unregister \/ Unfollowed
  PROVE  ProxyInv'
<1> USE ProxyAssumption DEF ProxyInv, managerVars, callVars
<1>1. UNCHANGED auditVars
  BY DEF Register, Install, Attach, Reregister, Unregister, Unfollowed
<1>2. AuditInv' /\ UNCHANGED <<rec, entry, rows>>
  BY <1>1, AuditUntouched
<1>3. ASSUME NEW g \in Configs, Register(g) PROVE ProxyInv'
  <2>1. ProxyTypeOK'
    BY <1>3 DEF Register, ProxyTypeOK, Dials, Callers
  <2>2. CallInv'
    BY <1>2, <1>3 DEF Register, ProxyTypeOK, CallInv, AnswerOf, Dials
  <2>3. CacheInv'
    BY <1>3 DEF Register, ProxyTypeOK, CacheInv, Dials
  <2> QED BY <1>2, <2>1, <2>2, <2>3
<1>4. ASSUME NEW g \in Configs, NEW n \in Callers, Install(n, g) PROVE ProxyInv'
  <2>1. ProxyTypeOK'
    BY <1>4 DEF Install, ProxyTypeOK
  <2>2. CallInv'
    BY <1>2, <1>4 DEF Install, Underway, ProxyTypeOK, CallInv, AnswerOf
  <2>3. CacheInv'
    BY <1>4 DEF Install, ProxyTypeOK, CacheInv
  <2> QED BY <1>2, <2>1, <2>2, <2>3
<1>5. ASSUME NEW n \in Attachments, Attach(n) PROVE ProxyInv'
  BY <1>2, <1>5 DEF Attach, ProxyTypeOK, CallInv, CacheInv, AnswerOf
<1>6. ASSUME NEW n \in Attachments, Reregister(n) PROVE ProxyInv'
  <2>1. ProxyTypeOK'
    BY <1>6 DEF Reregister, ProxyTypeOK, Dials, Callers
  <2>2. CallInv'
    BY <1>2, <1>6 DEF Reregister, ProxyTypeOK, CallInv, AnswerOf, Dials
  <2>3. CacheInv'
    BY <1>6 DEF Reregister, ProxyTypeOK, CacheInv, Dials
  <2> QED BY <1>2, <2>1, <2>2, <2>3
<1>7. CASE Unregister
  BY <1>2, <1>7 DEF Unregister, ProxyTypeOK, CallInv, CacheInv, AnswerOf
<1>8. CASE Unfollowed
  <2>1. runtime \in Configs /\ dial[runtime] # Nothing
    BY <1>8 DEF Unfollowed, ProxyTypeOK, CacheInv
  <2>2. CacheInv' /\ clients' \in [Configs -> Client \cup {Nothing}]
    BY <1>8, <2>1, CacheKeeps DEF Unfollowed
  <2>3. ProxyTypeOK'
    BY <1>8, <2>2 DEF Unfollowed, ProxyTypeOK
  <2>4. CallInv'
    BY <1>2, <1>8 DEF Unfollowed, CallInv, AnswerOf
  <2> QED BY <1>2, <2>2, <2>3, <2>4
<1> QED BY <1>3, <1>4, <1>5, <1>6, <1>7, <1>8

(* A request of the proxy that is answered is recorded with the answer.    *)
LEMMA AnswerKeeps ==
  ASSUME ProxyInv, NEW x \in Others, NEW result \in {"allow", "deny"},
         rec[x] = "none", StartRecord(x, Nothing, result),
         UNCHANGED <<call, tapped, feed, feedVars>>,
         pat' \in [Others -> {"idle", "lookup", "client", "allowed", "denied", "failed", "served"}],
         \A y \in Others : y # x => pat'[y] = pat[y]
  PROVE  /\ AuditInv'
         /\ \A y \in Others : y # x =>
              rec'[y] = rec[y] /\ entry'[y] = entry[y] /\ AnswerOf(y)' = AnswerOf(y)
         /\ rec'[x] = "create" /\ entry'[x].result = result
         /\ rows' = rows /\ \A e \in Elements(rows') : e.req # x
<1> USE DEF ProxyInv
<1>1. x \in Recorders /\ x \notin Requests /\ Nothing \in Users \cup {Nothing}
  BY AuditAssumption DEF Recorders
<1>2. AuditInv'
  BY <1>1, StartRecordKeeps DEF AuditInv, AuditTypeOK
<1>3. /\ rows' = rows
      /\ rec'[x] = "create" /\ entry'[x].result = result
      /\ \A y \in Recorders : y # x => rec'[y] = rec[y] /\ entry'[y] = entry[y]
  BY <1>1 DEF StartRecord, AuditInv, AuditTypeOK
<1>4. \A e \in Elements(rows) : e.req # x
  BY <1>1 DEF AuditInv, RecordInv
<1> QED BY <1>2, <1>3, <1>4 DEF Recorders, AnswerOf

LEMMA DenyKeeps ==
  ASSUME ProxyInv, NEW x \in Others, pat[x] \in {"idle", "lookup"}, Deny(x),
         UNCHANGED <<call, tapped, feed, feedVars, managerVars, clients>>
  PROVE  ProxyInv'
<1> USE DEF ProxyInv
<1>1. /\ pat' = [pat EXCEPT ![x] = "denied"]
      /\ config' = [config EXCEPT ![x] = Nothing] /\ served' = [served EXCEPT ![x] = Nothing]
      /\ since' = [since EXCEPT ![x] = {}]
      /\ StartRecord(x, Nothing, "deny") /\ rec[x] = "none"
  BY DEF Deny, End, Goto, CallInv
<1>2. ProxyTypeOK'
  BY <1>1 DEF ProxyTypeOK, managerVars
<1>3. /\ pat'[x] = "denied"
      /\ \A y \in Others : y # x =>
           /\ pat'[y] = pat[y] /\ config'[y] = config[y]
           /\ served'[y] = served[y] /\ since'[y] = since[y]
  BY <1>1 DEF ProxyTypeOK
<1>4. /\ AuditInv'
      /\ \A y \in Others : y # x =>
           rec'[y] = rec[y] /\ entry'[y] = entry[y] /\ AnswerOf(y)' = AnswerOf(y)
      /\ rec'[x] = "create" /\ entry'[x].result = "deny"
      /\ rows' = rows /\ \A e \in Elements(rows') : e.req # x
  BY <1>1, <1>2, <1>3, AnswerKeeps DEF ProxyTypeOK
<1>5. CallInv' /\ CacheInv'
  BY <1>3, <1>4 DEF CallInv, CacheInv, managerVars, AnswerOf
<1> QED BY <1>2, <1>4, <1>5

(* k8sProxy.                                                               *)
LEMMA AuthenticateKeeps ==
  ASSUME ProxyInv, NEW x \in Others, Authenticate(x)
  PROVE  ProxyInv'
<1>1. CASE Deny(x)
  BY <1>1, DenyKeeps DEF Authenticate
<1>2. CASE /\ Goto(x, "lookup")
           /\ since' = [since EXCEPT ![x] = {runtime}]
           /\ UNCHANGED <<config, served, recordVars>>
  <2>1. /\ UNCHANGED auditVars /\ UNCHANGED <<managerVars, clients, config, served>>
        /\ pat[x] = "idle"
    BY <1>2 DEF Authenticate, auditVars
  <2>2. AuditInv' /\ UNCHANGED <<rec, entry, rows>>
    BY <2>1, AuditUntouched DEF ProxyInv
  <2>3. ProxyTypeOK'
    BY <1>2, <2>1 DEF Goto, ProxyInv, ProxyTypeOK, managerVars
  <2>4. CallInv' /\ CacheInv'
    BY <1>2, <2>1, <2>2
       DEF Goto, ProxyInv, ProxyTypeOK, CallInv, CacheInv, AnswerOf, managerVars
  <2> QED BY <2>2, <2>3, <2>4 DEF ProxyInv
<1> QED BY <1>1, <1>2 DEF Authenticate

LEMMA LookupKeeps ==
  ASSUME ProxyInv, NEW x \in Others, Lookup(x)
  PROVE  ProxyInv'
<1>1. CASE Deny(x)
  BY <1>1, DenyKeeps DEF Lookup
<1>2. CASE /\ runtime # Nothing
           /\ Goto(x, "client")
           /\ config' = [config EXCEPT ![x] = runtime]
           /\ UNCHANGED <<served, since, recordVars>>
  <2>1. /\ UNCHANGED auditVars /\ UNCHANGED <<managerVars, clients, served, since>>
        /\ pat[x] = "lookup"
    BY <1>2 DEF Lookup, auditVars
  <2>2. AuditInv' /\ UNCHANGED <<rec, entry, rows>>
    BY <2>1, AuditUntouched DEF ProxyInv
  <2>3. ProxyTypeOK'
    BY <1>2, <2>1 DEF Goto, ProxyInv, ProxyTypeOK, managerVars
  <2>4. CallInv' /\ CacheInv'
    BY <1>2, <2>1, <2>2
       DEF Goto, ProxyInv, ProxyTypeOK, CallInv, CacheInv, AnswerOf, managerVars
  <2> QED BY <2>2, <2>3, <2>4 DEF ProxyInv
<1> QED BY <1>1, <1>2 DEF Lookup

LEMMA ClientForKeeps ==
  ASSUME ProxyInv, NEW x \in Others, ClientFor(x)
  PROVE  ProxyInv'
<1> USE DEF ProxyInv
<1>1. /\ Cache(config[x])
      /\ served' = [served EXCEPT ![x] = ClientOf(config[x])]
      /\ pat[x] = "client" /\ pat' = [pat EXCEPT ![x] = "allowed"]
      /\ StartRecord(x, Nothing, "allow") /\ rec[x] = "none"
      /\ UNCHANGED <<call, tapped, feed, feedVars, managerVars, config, since>>
  BY DEF ClientFor, Goto, CallInv
<1>2. config[x] \in Configs /\ config[x] \in since[x] /\ dial[config[x]] # Nothing
  BY <1>1 DEF CallInv, ProxyTypeOK
<1>3. CacheInv' /\ clients' \in [Configs -> Client \cup {Nothing}]
  BY <1>1, <1>2, CacheKeeps
<1>4. /\ ClientOf(config[x]) \in Client /\ ClientOf(config[x]).config = config[x]
      /\ ClientOf(config[x]).dial = "network" => config[x] \in direct
  BY <1>2, ClientOfConfig
<1>5. ProxyTypeOK'
  BY <1>1, <1>3, <1>4 DEF ProxyTypeOK, managerVars
<1>6. /\ pat'[x] = "allowed" /\ served'[x] = ClientOf(config[x])
      /\ \A y \in Others : y # x => pat'[y] = pat[y] /\ served'[y] = served[y]
  BY <1>1 DEF ProxyTypeOK
<1>7. /\ AuditInv'
      /\ \A y \in Others : y # x =>
           rec'[y] = rec[y] /\ entry'[y] = entry[y] /\ AnswerOf(y)' = AnswerOf(y)
      /\ rec'[x] = "create" /\ entry'[x].result = "allow"
      /\ rows' = rows /\ \A e \in Elements(rows') : e.req # x
  BY <1>1, <1>5, <1>6, AnswerKeeps DEF ProxyTypeOK
<1>8. CallInv'
  BY <1>1, <1>2, <1>4, <1>6, <1>7 DEF CallInv, managerVars, AnswerOf
<1> QED BY <1>3, <1>5, <1>7, <1>8

(* A request that ends without an answer of its own: ClientFails before it *)
(* is recorded, Forward after.                                             *)
LEMMA EndKeeps ==
  ASSUME ProxyInv, NEW x \in Others, ClientFails(x) \/ Forward(x)
  PROVE  ProxyInv'
<1> USE DEF ProxyInv
<1>1. /\ UNCHANGED <<auditVars, managerVars, clients>>
      /\ config' = [config EXCEPT ![x] = Nothing] /\ served' = [served EXCEPT ![x] = Nothing]
      /\ since' = [since EXCEPT ![x] = {}]
      /\ \/ pat[x] = "client" /\ pat' = [pat EXCEPT ![x] = "failed"]
         \/ pat[x] = "allowed" /\ pat' = [pat EXCEPT ![x] = "served"]
  BY DEF ClientFails, Forward, End, Goto
<1>2. AuditInv' /\ UNCHANGED <<rec, entry, rows>>
  BY <1>1, AuditUntouched
<1>3. ProxyTypeOK'
  BY <1>1 DEF ProxyTypeOK, managerVars
<1>4. /\ \/ pat[x] = "client" /\ pat'[x] = "failed"
         \/ pat[x] = "allowed" /\ pat'[x] = "served"
      /\ \A y \in Others : y # x =>
           /\ pat'[y] = pat[y] /\ config'[y] = config[y]
           /\ served'[y] = served[y] /\ since'[y] = since[y]
  BY <1>1 DEF ProxyTypeOK
<1>5. CallInv' /\ CacheInv'
  BY <1>1, <1>2, <1>4 DEF CallInv, CacheInv, managerVars, AnswerOf
<1> QED BY <1>2, <1>3, <1>5

(* Every step keeps the invariant.                                         *)
LEMMA ProxyStepInv == ProxyInv /\ [Next]_vars => ProxyInv'
<1> SUFFICES ASSUME ProxyInv, [Next]_vars PROVE ProxyInv'
  OBVIOUS
<1>1. CASE UNCHANGED vars
  <2>1. AuditInv' /\ UNCHANGED <<rec, entry, rows>>
    BY <1>1, AuditUntouched DEF vars, ProxyInv
  <2>2. ProxyTypeOK' /\ CallInv' /\ CacheInv'
    BY <1>1, <2>1 DEF vars, proxyVars, managerVars, callVars, ProxyInv, ProxyTypeOK, CallInv,
                      CacheInv, AnswerOf
  <2> QED BY <2>1, <2>2 DEF ProxyInv
<1>2. CASE AuditNext /\ UNCHANGED proxyVars
  <2>1. AuditInv'
    BY <1>2, AuditStepInv DEF ProxyInv
  <2>2. ProxyTypeOK' /\ CacheInv'
    BY <1>2 DEF proxyVars, managerVars, callVars, ProxyInv, ProxyTypeOK, CacheInv
  <2>3. ASSUME NEW x \in Others
        PROVE  /\ rec'[x] = "none" <=> rec[x] = "none"
               /\ rec'[x] = "create" => rec[x] = "create" /\ entry'[x] = entry[x]
               /\ \A e \in Elements(rows') :
                    e.req = x => e \in Elements(rows) \/ (rec[x] = "create" /\ e = entry[x])
    BY <1>2, AuditAnswers DEF ProxyInv
  <2>4. CallInv'
    BY <1>2, <2>3 DEF proxyVars, managerVars, callVars, ProxyInv, CallInv, AnswerOf
  <2> QED BY <2>1, <2>2, <2>4 DEF ProxyInv
<1>3. CASE \/ \E g \in Configs : Register(g) \/ \E n \in Callers : Install(n, g)
           \/ \E n \in Attachments : Attach(n) \/ Reregister(n)
           \/ Unregister \/ Unfollowed
  BY <1>3, ManagerKeeps
<1>4. CASE \E x \in Others :
             Authenticate(x) \/ Lookup(x) \/ ClientFor(x) \/ ClientFails(x) \/ Forward(x)
  BY <1>4, AuthenticateKeeps, LookupKeeps, ClientForKeeps, EndKeeps
<1> QED BY <1>1, <1>2, <1>3, <1>4 DEF Next

LEMMA ProxyInvariant == Spec => []ProxyInv
  BY ProxyInitInv, ProxyStepInv, PTL DEF Spec

(* Every variable of the audit trail and of the proxy keeps its type: the  *)
(* buffer of the feed stays within its capacity, and only clients of       *)
(* configs that were built are cached.                                     *)
THEOREM GatewayTypeCorrect == Spec => [](AuditTypeOK /\ ProxyTypeOK)
<1>1. ProxyInv => AuditTypeOK /\ ProxyTypeOK
  BY DEF ProxyInv, AuditInv
<1> QED BY <1>1, ProxyInvariant, PTL

(* For any number of requests, listeners and any capacity, a listener of   *)
(* the audit feed receives rows of the table only, and none of them twice, *)
(* however commits, broadcasts and deliveries interleave (Record and       *)
(* pumpAudit).                                                             *)
THEOREM FeedIsAlwaysStored == Spec => []FeedIsStored
<1>1. ProxyInv => FeedIsStored
  <2> SUFFICES ASSUME ProxyInv, NEW c \in Listeners
               PROVE  /\ Elements(inbox[c]) \subseteq Elements(rows)
                      /\ Cardinality(Elements(inbox[c])) = Len(inbox[c])
    BY DEF FeedIsStored
  <2>1. Elements(inbox[c]) \subseteq Elements(rows)
    BY DEF ProxyInv, AuditInv, FeedInv, Sent
  <2>2. inbox[c] \in Seq(Row) /\ Distinct(inbox[c])
    BY DEF ProxyInv, AuditInv, AuditTypeOK, FeedInv
  <2> QED BY <2>1, <2>2, DistinctCardinality
<1> QED BY <1>1, ProxyInvariant, PTL

(* For any number of requests, one of the API that succeeded reaches the   *)
(* audit trail, what is stored of it is one row that says how it ended or, *)
(* of a reveal, that it was granted, and names its user or nobody; one of  *)
(* the proxy that was answered is recorded, and a row of it tells the      *)
(* answer (the Audit middleware, getResource and proxyAudit).              *)
THEOREM OutcomeAlwaysRecorded == Spec => []OutcomeRecorded
<1>1. ProxyInv => OutcomeRecorded
  <2> SUFFICES ASSUME ProxyInv PROVE OutcomeRecorded
    OBVIOUS
  <2>1. \A i \in 1..Len(rows) : rows[i] \in Elements(rows)
    BY DEF Elements
  <2>2. ASSUME NEW r \in Requests PROVE RequestRecorded(r)
    <3>1. /\ call[r] # Nothing /\ call[r].ok => rec[r] # "none"
          /\ \A e \in Elements(rows) : e.req = r => Tells(e, call[r])
          /\ \A i, j \in 1..Len(rows) : rows[i].req = rows[j].req => i = j
      BY DEF ProxyInv, AuditInv, RecordInv
    <3>2. rec[r] \in {"broadcast", "done"} => \E i \in 1..Len(rows) : rows[i].req = r
      BY DEF ProxyInv, AuditInv, RecordInv, Recorders, Elements
    <3> QED BY <2>1, <3>1, <3>2 DEF Tells, RequestRecorded
  <2>3. ASSUME NEW x \in Others PROVE AccessRecorded(x)
    <3>1. pat[x] \in {"allowed", "served", "denied"} => rec[x] # "none"
      BY DEF ProxyInv, CallInv
    <3>2. ASSUME rec[x] \in {"broadcast", "done"}
          PROVE  \E i \in 1..Len(rows) :
                   /\ rows[i].req = x
                   /\ rows[i].result = IF pat[x] = "denied" THEN "deny" ELSE "allow"
                   /\ \A j \in 1..Len(rows) : rows[j].req = x => i = j
      <4>1. PICK i \in 1..Len(rows) : rows[i].req = x
        BY <3>2 DEF ProxyInv, AuditInv, RecordInv, Recorders, Elements
      <4>2. rows[i].result = AnswerOf(x)
        BY <2>1, <4>1 DEF ProxyInv, CallInv
      <4>3. \A j \in 1..Len(rows) : rows[j].req = x => i = j
        BY <4>1 DEF ProxyInv, AuditInv, RecordInv
      <4> QED BY <4>1, <4>2, <4>3 DEF AnswerOf
    <3> QED BY <3>1, <3>2 DEF AccessRecorded
  <2> QED BY <2>2, <2>3 DEF OutcomeRecorded
<1> QED BY <1>1, ProxyInvariant, PTL

(* For any number of requests, rotations and attachments, the proxy serves *)
(* a request with the credentials of a runtime that was registered while   *)
(* the request ran, never with rotated ones that a cached client carries;  *)
(* past the tunnel only with a config that was built before the tunnel     *)
(* dialer was set (clientFor, attachDialer and Manager.Register).          *)
THEOREM AlwaysServedWithCurrentCredentials == Spec => []ServedWithCurrentCredentials
<1>1. ProxyInv => ServedWithCurrentCredentials
  BY DEF ProxyInv, CallInv, ServedWithCurrentCredentials
<1> QED BY <1>1, ProxyInvariant, PTL
================================================================================
