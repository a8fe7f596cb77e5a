------------------------------ MODULE ClusterReg ------------------------------
(* The registration of one cluster: service/clusterreg.go over the clusters  *)
(* table, the in-memory registry of service/registry.go, the runtime of      *)
(* k8s.Manager behind RuntimeHook (ClusterManager has its health loop in     *)
(* detail), and the callbacks of cmd/server/main.go that write registry and  *)
(* table from the manager and from the agent hub. A step is one statement,   *)
(* one registry call or one critical section; the server may stop between    *)
(* any two of them.                                                          *)
EXTENDS Naturals

CONSTANTS
  Kubeconfigs,
  MultiContext,  \* those that parse only with an explicit context
  Keys,          \* master keys that the server is started with
  Calls,         \* requests and agent callbacks in flight
  Boot,          \* RestoreClusters as the one who installed a runtime
  None

ASSUME ClusterRegAssumption ==
  /\ MultiContext \subseteq Kubeconfigs
  /\ None \notin Kubeconfigs \cup Keys \cup Calls \cup {Boot, "direct", "agent"}
  /\ Boot \notin Calls

Owners == Calls \cup {Boot}
Modes == {"direct", "agent"}

(* row      : the row of clusters; its kc is None when there is none         *)
(* entry    : the registry has an entry                                      *)
(* runtime  : Manager.runtimes: the kubeconfig and who installed it          *)
(* loop     : the health loop of the runtime that each owner installed       *)
(* key      : the master key of this start                                   *)
(* agent    : whether an agent token for the cluster, or a session, exists   *)
(* call     : where each call stands, its request, the runtime it stops, and *)
(*            whether it has run alone, with no leaked loop left (history)   *)
(* probed   : kubeconfigs whose probe succeeded (history)                    *)
(* torn     : calls overlapped, one of them failed half-way, RestoreClusters *)
(*            did, or an agent reported on a cluster without a runtime, and  *)
(*            neither a restart that went through nor a call that ran alone  *)
(*            has repaired it since (history)                                *)
VARIABLES row, entry, runtime, loop, key, agent, call, probed, torn
vars == <<row, entry, runtime, loop, key, agent, call, probed, torn>>

NoRow == [kc |-> None, mode |-> None, key |-> None, offline |-> FALSE]
NoRuntime == [kc |-> None, by |-> None]
Idle == [at |-> "idle", kc |-> None, mode |-> None, old |-> None, solo |-> FALSE]

HasRow == row.kc # None
HasRuntime == runtime.kc # None

Steps == {"idle", "probe", "find", "insert", "update", "save", "put", "hook", "join", "install",
          "announce", "status", "start", "unhook", "joinGone", "remove", "delete",
          "setMode", "setReady", "getRuntime", "setDegraded"}

At(p, l) == call[p].at = l
Goto(p, l) == call' = [call EXCEPT ![p].at = l]
Done(p) == call' = [call EXCEPT ![p] = Idle]

FailHalfway(p) == torn' = TRUE /\ Done(p)

(* A registration or deletion that ran alone repairs what others tore. *)
Repair(p) == torn' = (torn /\ ~call[p].solo)

(* Loops that nobody will join: they go on reporting on the cluster. *)
Leaked == \E o \in Owners : o # runtime.by /\ loop[o] # "none"

(* A call starts. Calls that run at the same time disturb each other. The    *)
(* slot p is reused only when no loop of it is being waited for.             *)
Begin(p, l, kc, mode) ==
  LET others == {q \in Calls \ {p} : ~At(q, "idle")} IN
  /\ At(p, "idle")
  /\ \A q \in Calls : call[q].old # p
  /\ call' = [q \in Calls |->
       IF q = p THEN [at |-> l, kc |-> kc, mode |-> mode, old |-> None,
                      solo |-> others = {} /\ ~Leaked]
       ELSE [call[q] EXCEPT !.solo = FALSE]]
  /\ torn' = (torn \/ others # {})

-------------------------------------------------------------------------------
(* Register: the kubeconfig parses with the context given; a direct cluster  *)
(* is probed first, an agent cluster is not reachable yet. *)
Enter(p, kc, mode) == Begin(p, IF mode = "direct" THEN "probe" ELSE "find", kc, mode)

Register(p, kc, mode) ==
  /\ Enter(p, kc, mode)
  /\ UNCHANGED <<row, entry, runtime, loop, key, agent, probed>>

(* RotateKubeconfig registers again with the mode it has read from the row.  *)
RotateKubeconfig(p, kc) ==
  /\ HasRow
  /\ Enter(p, kc, row.mode)
  /\ UNCHANGED <<row, entry, runtime, loop, key, agent, probed>>

(* A failed probe ends the call before anything is written. *)
ProbeIgnored(p) ==
  /\ At(p, "probe")
  /\ Goto(p, "find")
  /\ UNCHANGED <<row, entry, runtime, loop, key, agent, probed, torn>>

Probe(p) ==
  /\ At(p, "probe")
  /\ \/ Goto(p, "find") /\ probed' = probed \cup {call[p].kc} /\ UNCHANGED torn
     \/ Done(p) /\ UNCHANGED <<probed, torn>>
  /\ UNCHANGED <<row, entry, runtime, loop, key, agent>>

(* UpsertCluster: FirstOrCreate looks the row up. It creates one, which the  *)
(* unique name refuses if another call was faster, or it updates the row it  *)
(* found, which misses if that one has gone or was stored anew. Either may   *)
(* fail, and then nothing is written. Save writes the whole row after that,  *)
(* inserting it once more if it has gone, and fails if another row has the   *)
(* name by then.                                                             *)
UpsertFind(p) ==
  /\ At(p, "find")
  /\ Goto(p, IF HasRow THEN "update" ELSE "insert")
  /\ UNCHANGED <<row, entry, runtime, loop, key, agent, probed, torn>>

NewRow(p) == [kc |-> call[p].kc, mode |-> call[p].mode, key |-> key,
              offline |-> call[p].mode = "agent"]

UpsertInsert(p) ==
  /\ At(p, "insert")
  /\ \/ Done(p) /\ UNCHANGED row
     \/ ~HasRow /\ Goto(p, "save") /\ row' = NewRow(p)
  /\ UNCHANGED <<entry, runtime, loop, key, agent, probed, torn>>

UpsertUpdate(p) ==
  /\ At(p, "update")
  /\ \/ Done(p) /\ UNCHANGED row
     \/ Goto(p, "save") /\ row' \in {row} \cup (IF HasRow THEN {NewRow(p)} ELSE {})
  /\ UNCHANGED <<entry, runtime, loop, key, agent, probed, torn>>

UpsertSave(p) ==
  /\ At(p, "save")
  /\ \/ row' = NewRow(p) /\ Goto(p, "put") /\ UNCHANGED torn
     \/ FailHalfway(p) /\ UNCHANGED row
  /\ UNCHANGED <<entry, runtime, loop, key, agent, probed>>

RegistryPut(p) ==
  /\ At(p, "put")
  /\ entry' = TRUE
  /\ Goto(p, "hook")
  /\ UNCHANGED <<row, runtime, loop, key, agent, probed, torn>>

HookOnlyIfNew(p) ==
  /\ At(p, "hook")
  /\ IF HasRuntime THEN Done(p) ELSE Goto(p, "install")
  /\ UNCHANGED <<row, entry, runtime, loop, key, agent, probed, torn>>

(* OnClusterRegistered: the clients may not build, and then row and entry    *)
(* stay. A runtime that is there is stopped before the new one is installed. *)
Hook(p) ==
  /\ At(p, "hook")
  /\ \/ FailHalfway(p)
     \/ /\ call' = IF HasRuntime THEN [call EXCEPT ![p].at = "join", ![p].old = runtime.by]
                   ELSE [call EXCEPT ![p].at = "install"]
        /\ UNCHANGED torn
  /\ UNCHANGED <<row, entry, runtime, loop, key, agent, probed>>

(* Stop waits until the loop is back at its select, which it leaves for good.*)
Stopped(o) == loop[o] \in {"none", "idle"}
Join(p, from, to) ==
  LET o == call[p].old IN
  /\ At(p, from)
  /\ Stopped(o)
  /\ loop' = [loop EXCEPT ![o] = "none"]
  /\ call' = [call EXCEPT ![p].at = to, ![p].old = None]
  /\ UNCHANGED <<row, entry, runtime, key, agent, probed, torn>>

JoinOld(p) == Join(p, "join", "install")

(* Only what the later steps use is kept. Bound: a slot installs only when   *)
(* the loop it started before has ended.                                     *)
Install(p) ==
  /\ At(p, "install")
  /\ loop[p] = "none"
  /\ runtime' = [kc |-> call[p].kc, by |-> p]
  /\ loop' = [loop EXCEPT ![p] = "new"]
  /\ call' = [call EXCEPT ![p].at = "announce", ![p].kc = None]
  /\ UNCHANGED <<row, entry, key, agent, probed, torn>>

(* notify calls StatusUpdater, which writes the registry and then the table, *)
(* where a row that has gone stays gone. A write that fails is only logged.  *)
Announce(p) ==
  /\ At(p, "announce")
  /\ entry' = TRUE
  /\ Goto(p, "status")
  /\ UNCHANGED <<row, runtime, loop, key, agent, probed, torn>>

Online(r) == IF r.kc = None THEN r ELSE [r EXCEPT !.offline = FALSE]
UpdateClusterStatus == row' \in {row, Online(row)}

AnnounceStatus(p) ==
  /\ At(p, "status")
  /\ UpdateClusterStatus
  /\ Goto(p, "start")
  /\ UNCHANGED <<entry, runtime, loop, key, agent, probed, torn>>

StartLoop(p) ==
  /\ At(p, "start")
  /\ loop' = [loop EXCEPT ![p] = "idle"]
  /\ IF call[p].mode = None THEN UNCHANGED torn ELSE Repair(p)
  /\ Done(p)
  /\ UNCHANGED <<row, entry, runtime, key, agent, probed>>

-------------------------------------------------------------------------------
(* Delete: stop the runtime, leave the registry, delete the row.             *)
Delete(p) ==
  /\ HasRow
  /\ Begin(p, "unhook", None, None)
  /\ UNCHANGED <<row, entry, runtime, loop, key, agent, probed>>

Unhook(p) ==
  /\ At(p, "unhook")
  /\ IF HasRuntime
     THEN call' = [call EXCEPT ![p].at = "joinGone", ![p].old = runtime.by]
     ELSE Goto(p, "remove")
  /\ runtime' = NoRuntime
  /\ UNCHANGED <<row, entry, loop, key, agent, probed, torn>>

JoinGone(p) == Join(p, "joinGone", "remove")

RegistryRemove(p) ==
  /\ At(p, "remove")
  /\ entry' = FALSE
  /\ Goto(p, "delete")
  /\ UNCHANGED <<row, runtime, loop, key, agent, probed, torn>>

DeleteRow(p) ==
  /\ At(p, "delete")
  /\ \/ row' = NoRow /\ Repair(p) /\ Done(p)
     \/ FailHalfway(p) /\ UNCHANGED row
  /\ UNCHANGED <<entry, runtime, loop, key, agent, probed>>

-------------------------------------------------------------------------------
(* The health loop reports a transition: registry first, table second.       *)
Transition(o) ==
  /\ loop[o] = "idle"
  /\ loop' = [loop EXCEPT ![o] = "put"]
  /\ UNCHANGED <<row, entry, runtime, key, agent, call, probed, torn>>

TransitionPut(o) ==
  /\ loop[o] = "put"
  /\ entry' = TRUE
  /\ loop' = [loop EXCEPT ![o] = "status"]
  /\ UNCHANGED <<row, runtime, key, agent, call, probed, torn>>

TransitionStatus(o) ==
  /\ loop[o] = "status"
  /\ UpdateClusterStatus
  /\ loop' = [loop EXCEPT ![o] = "idle"]
  /\ UNCHANGED <<entry, runtime, key, agent, call, probed, torn>>

-------------------------------------------------------------------------------
(* EnrollService.Create asks for the row; the token outlives it.             *)
EnrollToken ==
  /\ HasRow /\ agent = "none"
  /\ agent' = "token"
  /\ UNCHANGED <<row, entry, runtime, loop, key, call, probed, torn>>

(* OnConnect writes the registry, the mode and the status, and only logs a   *)
(* write that fails; attachDialer then registers the runtime again with the  *)
(* kubeconfig it finds in it.                                                *)
AgentConnect(p) ==
  /\ agent = "token"
  /\ agent' = "session"
  /\ Begin(p, "setMode", None, None)
  /\ entry' = TRUE
  /\ UNCHANGED <<row, runtime, loop, key, probed>>

SetMode(p) ==
  /\ At(p, "setMode")
  /\ row' \in {row} \cup (IF HasRow THEN {[row EXCEPT !.mode = "agent"]} ELSE {})
  /\ Goto(p, "setReady")
  /\ UNCHANGED <<entry, runtime, loop, key, agent, probed, torn>>

SetReady(p) ==
  /\ At(p, "setReady")
  /\ UpdateClusterStatus
  /\ Goto(p, "getRuntime")
  /\ UNCHANGED <<entry, runtime, loop, key, agent, probed, torn>>

GetRuntime(p) ==
  /\ At(p, "getRuntime")
  /\ IF HasRuntime
     THEN call' = [call EXCEPT ![p].at = "hook", ![p].kc = runtime.kc] /\ UNCHANGED torn
     ELSE FailHalfway(p)
  /\ UNCHANGED <<row, entry, runtime, loop, key, agent, probed>>

(* OnDisconnect: the same two writes; what it reports on may have gone. *)
AgentDisconnect(p) ==
  /\ agent = "session"
  /\ agent' = "token"
  /\ Begin(p, "setDegraded", None, None)
  /\ entry' = TRUE
  /\ UNCHANGED <<row, runtime, loop, key, probed>>

SetDegraded(p) ==
  /\ At(p, "setDegraded")
  /\ UpdateClusterStatus
  /\ torn' = (torn \/ ~HasRuntime)
  /\ Done(p)
  /\ UNCHANGED <<entry, runtime, loop, key, agent, probed>>

-------------------------------------------------------------------------------
(* The server stops, wherever its calls stand, and starts again, perhaps     *)
(* with another master key. RestoreClusters runs before any request, and     *)
(* main only logs its errors. If it reads the table, a row that does not     *)
(* decrypt or parse is marked offline, which may fail; any other one is put  *)
(* back into the registry and then the manager, whose hook may fail.         *)
Readable(r, k) == r.key = k /\ r.kc \notin MultiContext

NoneStarted ==
  /\ runtime' = NoRuntime
  /\ loop' = [o \in Owners |-> "none"]

RestoreOne(k) ==
  /\ HasRow /\ Readable(row, k)
  /\ entry' = TRUE
  /\ \/ /\ runtime' = [kc |-> row.kc, by |-> Boot]
        /\ loop' = [o \in Owners |-> IF o = Boot THEN "idle" ELSE "none"]
        /\ UpdateClusterStatus
        /\ torn' = FALSE
     \/ NoneStarted /\ UNCHANGED row /\ torn' = TRUE

MarkOffline(k) ==
  /\ HasRow /\ ~Readable(row, k)
  /\ entry' = FALSE
  /\ NoneStarted
  /\ \/ row' = [row EXCEPT !.offline = TRUE] /\ torn' = FALSE
     \/ UNCHANGED row /\ torn' = TRUE

NothingListed ==
  /\ entry' = FALSE
  /\ NoneStarted
  /\ torn' = HasRow
  /\ UNCHANGED row

Restart(k) ==
  /\ key' = k
  /\ call' = [p \in Calls |-> Idle]
  /\ agent' = IF agent = "session" THEN "token" ELSE agent
  /\ RestoreOne(k) \/ MarkOffline(k) \/ NothingListed
  /\ UNCHANGED probed

Init ==
  /\ row = NoRow /\ entry = FALSE /\ runtime = NoRuntime
  /\ loop = [o \in Owners |-> "none"]
  /\ key \in Keys
  /\ agent = "none"
  /\ call = [p \in Calls |-> Idle]
  /\ probed = {} /\ torn = FALSE

CallStep(p) ==
  \/ Probe(p) \/ UpsertFind(p) \/ UpsertInsert(p) \/ UpsertUpdate(p) \/ UpsertSave(p)
  \/ RegistryPut(p) \/ Hook(p) \/ JoinOld(p) \/ Install(p)
  \/ Announce(p) \/ AnnounceStatus(p) \/ StartLoop(p)
  \/ Unhook(p) \/ JoinGone(p) \/ RegistryRemove(p) \/ DeleteRow(p)
  \/ SetMode(p) \/ SetReady(p) \/ GetRuntime(p) \/ SetDegraded(p)

Next ==
  \/ \E p \in Calls :
       \/ \E kc \in Kubeconfigs, mode \in Modes : Register(p, kc, mode)
       \/ \E kc \in Kubeconfigs : RotateKubeconfig(p, kc)
       \/ Delete(p) \/ AgentConnect(p) \/ AgentDisconnect(p)
       \/ CallStep(p)
  \/ \E o \in Owners : Transition(o) \/ TransitionPut(o) \/ TransitionStatus(o)
  \/ EnrollToken
  \/ \E k \in Keys : Restart(k)

Spec == Init /\ [][Next]_vars

-------------------------------------------------------------------------------
(* Every variable keeps its type; a call that stops a runtime knows which.   *)
Row == [kc : Kubeconfigs, mode : Modes, key : Keys, offline : BOOLEAN]
Call == [at : Steps, kc : Kubeconfigs \cup {None}, mode : Modes \cup {None},
         old : Owners \cup {None}, solo : BOOLEAN]

ClusterRegTypeOK ==
  /\ row \in Row \cup {NoRow}
  /\ entry \in BOOLEAN
  /\ runtime \in [kc : Kubeconfigs, by : Owners] \cup {NoRuntime}
  /\ loop \in [Owners -> {"none", "new", "idle", "put", "status"}]
  /\ key \in Keys
  /\ agent \in {"none", "token", "session"}
  /\ call \in [Calls -> Call]
  /\ \A p \in Calls : (call[p].at \in {"join", "joinGone"}) <=> (call[p].old # None)
  /\ probed \subseteq Kubeconfigs
  /\ torn \in BOOLEAN

AtRest ==
  /\ \A p \in Calls : At(p, "idle")
  /\ \A o \in Owners : loop[o] \in {"none", "idle"}

(* Table, registry and manager agree whenever nothing is in flight and no    *)
(* disturbance is unrepaired: there is a runtime exactly for a row that      *)
(* could be read, with the kubeconfig of the row, and a registry entry       *)
(* exactly for a runtime. So a crash between any two statements, and a       *)
(* RestoreClusters that failed, are repaired by the next restart whose       *)
(* RestoreClusters goes through, or by a call that runs alone; a rotation    *)
(* leaves no runtime on the old kubeconfig, and no loop reports a deleted    *)
(* cluster back into the registry. What overlapping calls leave behind until *)
(* then is outside it.                                                       *)
TablesAgree ==
  AtRest /\ ~torn =>
    /\ entry = HasRuntime
    /\ IF HasRuntime THEN row.kc = runtime.kc /\ loop[runtime.by] = "idle"
       ELSE HasRow => row.offline

(* A cluster is stored as a direct one only with a kubeconfig that a probe   *)
(* has accepted, whichever way calls, agents and restarts interleave.        *)
ProbedBeforeStored == row.mode = "direct" => row.kc \in probed
===============================================================================
