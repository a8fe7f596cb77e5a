----------------------------- MODULE InformerPool -----------------------------
(***************************************************************************)
(* The lazily started, reference counted informers of one cluster:         *)
(* backend/internal/k8s/informer.go.  Every registration of the cluster    *)
(* builds a runtime with a pool of its own, so the state is a function of  *)
(* the runtime.  An entry is one informer (a GVR and a namespace); a key   *)
(* is a watch id, the identity of a handler in its entry.  Every step is   *)
(* one critical section of InformerPool.mu; time is the flag aged, set     *)
(* once informerIdleTTL has passed since the last access.                  *)
(***************************************************************************)
EXTENDS FiniteSets

CONSTANTS Runtimes,    \* runtimes of the cluster, each built once
          Keys,        \* watch ids
          Entries,     \* informer keys
          EntryOf,     \* the informer a watch id belongs to
          EventEntry   \* the informer of corev1 events in all namespaces

ASSUME EntryAssumption == EntryOf \in [Keys -> Entries] /\ EventEntry \in Entries

VARIABLES
  pool,      \* none; open; stopping (runtime stopCh closed); closed
  entries,   \* running informers of each pool
  handlers,  \* watch ids with a handler
  resident,  \* informers that are never reclaimed
  aged       \* informers not accessed for informerIdleTTL

poolVars == <<pool, entries, handlers, resident, aged>>

PoolTypeOK ==
  /\ pool \in [Runtimes -> {"none", "open", "stopping", "closed"}]
  /\ entries \in [Runtimes -> SUBSET Entries]
  /\ handlers \in [Runtimes -> SUBSET Keys]
  /\ resident \in [Runtimes -> SUBSET Entries]
  /\ aged \in [Runtimes -> SUBSET Entries]
  /\ \A r \in Runtimes : aged[r] \subseteq entries[r]

PoolInit ==
  /\ pool = [r \in Runtimes |-> "none"]
  /\ entries = [r \in Runtimes |-> {}]
  /\ handlers = [r \in Runtimes |-> {}]
  /\ resident = [r \in Runtimes |-> {}]
  /\ aged = [r \in Runtimes |-> {}]

HandlersOf(r, e) == {k \in handlers[r] : EntryOf[k] = e}

Add(f, r, x) == [f EXCEPT ![r] = @ \cup {x}]
Drop(f, r, S) == [f EXCEPT ![r] = @ \ S]

-----------------------------------------------------------------------------
(* Watch: a closed pool refuses, an entry is created on demand, a handler  *)
(* of the same id replaced.                                                *)
Watch(r, k) ==
  /\ pool[r] \in {"open", "stopping"}
  /\ entries' = Add(entries, r, EntryOf[k])
  /\ handlers' = Add(handlers, r, k)
  /\ aged' = Drop(aged, r, {EntryOf[k]})
  /\ UNCHANGED <<pool, resident>>

(* Unwatch: the idle time counts from the removal of the last handler.     *)
Unwatch(r, k) ==
  /\ handlers' = Drop(handlers, r, {k})
  /\ aged' = IF EntryOf[k] \notin resident[r] /\ HandlersOf(r, EntryOf[k]) \subseteq {k}
             THEN Drop(aged, r, {EntryOf[k]}) ELSE aged
  /\ UNCHANGED <<pool, entries, resident>>

EnsureEventInformer(r) ==
  /\ pool[r] \in {"open", "stopping"}
  /\ entries' = Add(entries, r, EventEntry)
  /\ resident' = Add(resident, r, EventEntry)
  /\ UNCHANGED <<pool, handlers, aged>>

StopFlagOnly(r) ==
  /\ pool[r] = "stopping"
  /\ pool' = [pool EXCEPT ![r] = "closed"]
  /\ UNCHANGED <<entries, handlers, resident, aged>>

(* The whole pool goes when reapLoop sees the runtime's stopCh closed.     *)
Stop(r) ==
  /\ pool[r] = "stopping"
  /\ pool' = [pool EXCEPT ![r] = "closed"]
  /\ entries' = [entries EXCEPT ![r] = {}]
  /\ handlers' = [handlers EXCEPT ![r] = {}]
  /\ resident' = [resident EXCEPT ![r] = {}]
  /\ aged' = [aged EXCEPT ![r] = {}]

ReapableByAge(r) == {e \in aged[r] : e \notin resident[r]}

Reapable(r) == {e \in aged[r] : e \notin resident[r] /\ HandlersOf(r, e) = {}}

(* One tick of reapLoop; select may prefer it to a closed stopCh.          *)
Reap(r) ==
  /\ pool[r] \in {"open", "stopping"} /\ Reapable(r) # {}
  /\ entries' = Drop(entries, r, Reapable(r))
  /\ aged' = Drop(aged, r, Reapable(r))
  /\ UNCHANGED <<pool, handlers, resident>>

-----------------------------------------------------------------------------
(* newInformerPool, ClusterRuntime.Stop and the clock                      *)

Open(r) ==
  /\ pool[r] = "none"
  /\ pool' = [pool EXCEPT ![r] = "open"]
  /\ UNCHANGED <<entries, handlers, resident, aged>>

(* stopCh is closed; until reapLoop sees it the pool accepts watches.      *)
StopRequested(r) == [pool EXCEPT ![r] = IF @ = "open" THEN "stopping" ELSE @]

Age(r, e) ==
  /\ e \in entries[r] \ aged[r]
  /\ aged' = Add(aged, r, e)
  /\ UNCHANGED <<pool, entries, handlers, resident>>

-----------------------------------------------------------------------------
(* A watch id that has a handler has a running informer: neither the       *)
(* reaper nor a handler of another id sharing the informer takes it away   *)
(* (reapLoop, Unwatch).                                                    *)
HandlersHaveInformer ==
  \A r \in Runtimes : \A k \in handlers[r] : EntryOf[k] \in entries[r]

(* The informer of events, once resident, runs until the pool is closed.   *)
ResidentRuns == \A r \in Runtimes : resident[r] \subseteq entries[r]

(* Whoever relies on an informer has it running: handlers of every watch id *)
(* and the resident collection of events, whatever the idle scan does.      *)
NeededInformersRun == HandlersHaveInformer /\ ResidentRuns

(* A Watch or EnsureEventInformer that loses the race with Stop starts     *)
(* nothing: a closed pool has no informer that nobody would stop.          *)
ClosedPoolEmpty ==
  \A r \in Runtimes : pool[r] = "closed" => entries[r] = {} /\ handlers[r] = {}
===============================================================================
