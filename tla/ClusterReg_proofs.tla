--------------------------- MODULE ClusterReg_proofs ---------------------------
(* Proofs about ClusterReg: for any kubeconfigs, master keys and calls.      *)
EXTENDS ClusterReg, TLAPS

(* A call carries what its later steps use, and a direct registration that   *)
(* got past its probe has been probed.                                       *)
Fit(l, kc, mode, old, solo, P) ==
  /\ l \in {"join", "joinGone"} <=> old # None
  /\ l \in {"probe", "find", "insert", "update", "save", "put"} =>
       mode \in Modes /\ kc \in Kubeconfigs
  /\ l \in {"hook", "join", "install"} => kc \in Kubeconfigs
  /\ l \in {"setMode", "setReady", "getRuntime", "setDegraded", "unhook", "joinGone",
            "remove", "delete"} => mode = None
  /\ l = "idle" => ~solo
  /\ l \in {"find", "insert", "update", "save"} /\ mode = "direct" => kc \in P

Fits(c, P) == Fit(c.at, c.kc, c.mode, c.old, c.solo, P)

CallsOK == call \in [Calls -> Call] /\ \A p \in Calls : Fits(call[p], probed)

DataOK ==
  /\ row \in Row \cup {NoRow} /\ entry \in BOOLEAN
  /\ runtime \in [kc : Kubeconfigs, by : Owners] \cup {NoRuntime}
  /\ loop \in [Owners -> {"none", "new", "idle", "put", "status"}]
  /\ key \in Keys /\ agent \in {"none", "token", "session"}
  /\ probed \subseteq Kubeconfigs /\ torn \in BOOLEAN
  /\ ProbedBeforeStored

TypeInv == DataOK /\ CallsOK

(* A call that runs alone is the only one; so is every call while nothing is *)
(* torn. No loop runs then that nobody knows of.                             *)
Solitude ==
  /\ \A p, q \in Calls : call[p].solo /\ ~At(q, "idle") => p = q
  /\ ~torn => \A p, q \in Calls : ~At(p, "idle") /\ ~At(q, "idle") => p = q

Orderly == ~torn \/ \E p \in Calls : call[p].solo

LoopsKnown ==
  Orderly => \A o \in Owners :
    loop[o] = "none" \/ o = runtime.by \/ \E p \in Calls : call[p].old = o

NoLoops == \A o \in Owners : loop[o] = "none"

(* What the runtime serves is the row; its loop runs.                        *)
Served == HasRuntime => row.kc = runtime.kc /\ loop[runtime.by] \notin {"none", "new"}
Agree == Served /\ entry = HasRuntime /\ (HasRow /\ ~HasRuntime => row.offline)

(* Where a call stands and what it has established by then: while nothing is *)
(* torn, when a registration repairs, and when any call runs alone.          *)
Untorn(p) ==
  /\ call[p].at \in {"probe", "find", "insert", "update"} => Agree
  /\ At(p, "insert") => ~HasRow
  /\ call[p].at \in {"setMode", "setReady", "getRuntime", "setDegraded"} => Served /\ entry

Registering(p) ==
  /\ At(p, "put") => row.kc = call[p].kc
  /\ call[p].at \in {"hook", "join", "install"} => row.kc = call[p].kc /\ entry
  /\ call[p].at \in {"announce", "status", "start"} =>
       entry /\ HasRuntime /\ row.kc = runtime.kc

Stopping(p) ==
  /\ At(p, "join") => call[p].old = runtime.by
  /\ At(p, "install") => NoLoops
  /\ call[p].at \in {"announce", "status", "start"} => runtime.by = p /\ loop[p] = "new"
  /\ At(p, "joinGone") => ~HasRuntime
  /\ At(p, "remove") => ~HasRuntime /\ NoLoops
  /\ At(p, "delete") => ~HasRuntime /\ NoLoops /\ ~entry

Staged(p) ==
  /\ ~torn => Untorn(p)
  /\ ~torn \/ (call[p].solo /\ call[p].mode # None) => Registering(p)
  /\ ~torn \/ call[p].solo => Stopping(p)

Stages == \A p \in Calls : Staged(p)

Rest == ~torn /\ (\A p \in Calls : At(p, "idle")) => Agree

IInv == TypeInv /\ Solitude /\ LoopsKnown /\ Stages /\ Rest
-------------------------------------------------------------------------------
(* How one call moves.                                                       *)
Moves(p, l, kc, mode, old, solo) ==
  /\ call' \in [Calls -> Call]
  /\ call'[p].at = l /\ call'[p].kc = kc /\ call'[p].mode = mode
  /\ call'[p].old = old /\ call'[p].solo = solo
  /\ \A q \in Calls : q # p => call'[q] = call[q]

(* Goto.                                                                     *)
Advances(p, l) == Moves(p, l, call[p].kc, call[p].mode, call[p].old, call[p].solo)
(* Done.                                                                     *)
Ends(p) == Moves(p, "idle", None, None, None, FALSE)

LEMMA MovesBy ==
  ASSUME call \in [Calls -> Call], NEW p \in Calls, NEW c \in Call, call' = [call EXCEPT ![p] = c]
  PROVE  Moves(p, c.at, c.kc, c.mode, c.old, c.solo)
BY DEF Moves

LEMMA GotoMoves ==
  ASSUME call \in [Calls -> Call], NEW p \in Calls, NEW l \in Steps, Goto(p, l)
  PROVE  Advances(p, l)
<1> DEFINE c == [call[p] EXCEPT !.at = l]
<1>1. c \in Call
  BY DEF Call
<1>2. call' = [call EXCEPT ![p] = c]
  BY DEF Goto
<1>3. c.at = l /\ c.kc = call[p].kc /\ c.mode = call[p].mode /\ c.old = call[p].old
      /\ c.solo = call[p].solo
  BY DEF Call
<1> HIDE DEF c
<1>4. Moves(p, c.at, c.kc, c.mode, c.old, c.solo)
  BY <1>1, <1>2, MovesBy
<1> QED BY <1>3, <1>4 DEF Advances

LEMMA DoneMoves ==
  ASSUME call \in [Calls -> Call], NEW p \in Calls, Done(p)
  PROVE  Ends(p)
<1>1. Idle \in Call
  BY DEF Idle, Call, Steps
<1>2. Moves(p, Idle.at, Idle.kc, Idle.mode, Idle.old, Idle.solo)
  BY <1>1, MovesBy DEF Done
<1> QED BY <1>2 DEF Ends, Idle

(* The fields of the call that moves, for the calls of the same type.        *)
LEMMA Fields ==
  ASSUME call \in [Calls -> Call], NEW p \in Calls
  PROVE  /\ call[p].at \in Steps /\ call[p].kc \in Kubeconfigs \cup {None}
         /\ call[p].mode \in Modes \cup {None} /\ call[p].old \in Owners \cup {None}
         /\ call[p].solo \in BOOLEAN
BY DEF Call

(* The others stay as they fit, and undisturbed by a call that was active.   *)
LEMMA OthersFit ==
  ASSUME CallsOK, NEW p \in Calls, NEW l, NEW kc, NEW mode, NEW old, NEW s,
         Moves(p, l, kc, mode, old, s), probed \subseteq probed',
         Fit(l, kc, mode, old, s, probed')
  PROVE  CallsOK'
<1>1. ASSUME NEW q \in Calls PROVE Fits(call'[q], probed')
  <2>1. CASE q = p
    BY <2>1 DEF Fits, Moves
  <2>2. CASE q # p
    <3>1. Fits(call[q], probed)
      BY DEF CallsOK
    <3>2. call'[q] = call[q]
      BY <2>2 DEF Moves
    <3> QED BY <3>1, <3>2 DEF Fits, Fit
  <2> QED BY <2>1, <2>2
<1>2. call' \in [Calls -> Call]
  BY DEF Moves
<1> QED BY <1>1, <1>2 DEF CallsOK

LEMMA Quiet ==
  ASSUME Solitude, NEW p \in Calls, ~At(p, "idle"),
         torn' \/ ~torn \/ call[p].solo,
         NEW q \in Calls, q # p, call'[q] = call[q], ~torn' \/ call'[q].solo
  PROVE  At(q, "idle") /\ At(q, "idle")'
BY DEF Solitude, At

LEMMA SolitudeKept ==
  ASSUME TypeInv, Solitude, NEW p \in Calls, NEW l, NEW kc, NEW mode, NEW old, NEW s,
         ~At(p, "idle"), Moves(p, l, kc, mode, old, s), s => call[p].solo,
         torn' \/ ~torn \/ call[p].solo
  PROVE  Solitude'
<1>1. ASSUME NEW x \in Calls, NEW y \in Calls, call'[x].solo, ~At(y, "idle")' PROVE x = y
  <2>1. call[x].solo
    BY <1>1 DEF Moves
  <2>2. x = p
    BY <2>1 DEF Solitude
  <2>3. CASE y # p
    <3>1. ~At(y, "idle")
      BY <1>1, <2>3 DEF Moves, At
    <3> QED BY <3>1, <2>1 DEF Solitude
  <2> QED BY <2>2, <2>3
<1>2. ASSUME ~torn', NEW x \in Calls, NEW y \in Calls, ~At(x, "idle")', ~At(y, "idle")' PROVE x = y
  <2>1. x = p
    BY <1>2, Quiet DEF Moves
  <2>2. y = p
    BY <1>2, Quiet DEF Moves
  <2> QED BY <2>1, <2>2
<1> QED BY <1>1, <1>2 DEF Solitude

LEMMA OrderlyBefore ==
  ASSUME NEW p \in Calls, NEW l, NEW kc, NEW mode, NEW old, NEW s,
         Moves(p, l, kc, mode, old, s), s => call[p].solo,
         torn' \/ ~torn \/ call[p].solo, Orderly'
  PROVE  Orderly
<1>1. CASE ~torn'
  BY <1>1 DEF Orderly
<1>2. CASE \E q \in Calls : call'[q].solo
  <2>1. PICK q \in Calls : call'[q].solo
    BY <1>2
  <2>2. call[q].solo
    BY <2>1 DEF Moves
  <2> QED BY <2>2 DEF Orderly
<1> QED BY <1>1, <1>2 DEF Orderly

(* Loops stay known when neither they nor what is known of them changes.     *)
LEMMA LoopsStayKnown ==
  ASSUME LoopsKnown, NEW p \in Calls, NEW l, NEW kc, NEW mode, NEW s,
         Moves(p, l, kc, mode, call[p].old, s), s => call[p].solo,
         torn' \/ ~torn \/ call[p].solo, loop' = loop, runtime' = runtime
  PROVE  LoopsKnown'
<1>1. ASSUME Orderly', NEW o \in Owners, loop'[o] # "none", o # runtime'.by
      PROVE  \E q \in Calls : call'[q].old = o
  <2>1. Orderly
    BY <1>1, OrderlyBefore
  <2>2. PICK q \in Calls : call[q].old = o
    BY <1>1, <2>1 DEF LoopsKnown
  <2>3. call'[q].old = call[q].old
    BY DEF Moves
  <2> QED BY <2>2, <2>3
<1> QED BY <1>1 DEF LoopsKnown

(* One step of a call: what remains to be shown of it.                       *)
LEMMA CallStepKeeps ==
  ASSUME IInv, NEW p \in Calls, NEW l, NEW kc, NEW mode, NEW old, NEW s,
         ~At(p, "idle"), Moves(p, l, kc, mode, old, s), s => call[p].solo,
         torn' \/ ~torn \/ call[p].solo, probed \subseteq probed',
         Fit(l, kc, mode, old, s, probed'),
         DataOK', LoopsKnown', Staged(p)', l = "idle" => Rest'
  PROVE  IInv'
<1>1. TypeInv'
  BY OthersFit DEF IInv, TypeInv
<1>2. Solitude'
  BY SolitudeKept DEF IInv
<1>3. Stages'
  <2>1. ASSUME NEW q \in Calls, q # p PROVE Staged(q)'
    <3>1. CASE ~torn' \/ call'[q].solo
      <4>1. At(q, "idle")'
        BY <2>1, <3>1, Quiet DEF Moves, IInv
      <4> QED BY <4>1 DEF Staged, Untorn, Registering, Stopping, At
    <3>2. CASE torn' /\ ~call'[q].solo
      BY <3>2 DEF Staged
    <3> QED BY <3>1, <3>2
  <2> QED BY <2>1 DEF Stages
<1>4. Rest'
  BY DEF Rest, At, Moves
<1> QED BY <1>1, <1>2, <1>3, <1>4 DEF IInv

(* What holds of a call that stands somewhere.                               *)
LEMMA Here ==
  ASSUME IInv, NEW p \in Calls
  PROVE  /\ call \in [Calls -> Call] /\ DataOK /\ LoopsKnown /\ Staged(p)
         /\ Fit(call[p].at, call[p].kc, call[p].mode, call[p].old, call[p].solo, probed)
         /\ call[p].solo \in BOOLEAN
BY Fields DEF IInv, TypeInv, CallsOK, Fits, Stages

LEMMA EndsStaged == ASSUME NEW p \in Calls, Ends(p) PROVE Staged(p)'
BY DEF Ends, Moves, Staged, Untorn, Registering, Stopping, At

LEMMA EndsFit == ASSUME NEW P PROVE Fit("idle", None, None, None, FALSE, P)
BY DEF Fit

(* Loops stay known at the end of a call that waits for none.                *)
LEMMA EndsKnown ==
  ASSUME IInv, NEW p \in Calls, call[p].old = None, Ends(p),
         torn' \/ ~torn \/ call[p].solo, loop' = loop, runtime' = runtime
  PROVE  LoopsKnown'
BY Here, LoopsStayKnown DEF Ends

(* What is written to the row.                                               *)
LEMMA RowsTyped ==
  ASSUME row \in Row \cup {NoRow}
  PROVE  /\ Online(row) \in Row \cup {NoRow}
         /\ Online(row).kc = row.kc /\ Online(row).mode = row.mode
         /\ Online(row).kc # None => ~Online(row).offline
<1>1. CASE row.kc = None
  BY <1>1 DEF Online
<1>2. CASE row.kc # None
  <2>1. row \in Row
    BY <1>2 DEF NoRow
  <2> QED BY <1>2, <2>1 DEF Online, Row
<1> QED BY <1>1, <1>2

LEMMA AgentRowTyped ==
  ASSUME row \in Row \cup {NoRow}, HasRow
  PROVE  /\ [row EXCEPT !.mode = "agent"] \in Row
         /\ [row EXCEPT !.mode = "agent"].mode # "direct"
         /\ [row EXCEPT !.mode = "agent"].kc = row.kc
         /\ [row EXCEPT !.mode = "agent"].offline = row.offline
BY DEF HasRow, NoRow, Row, Modes

LEMMA NewRowTyped ==
  ASSUME IInv, NEW p \in Calls, call[p].at \in {"insert", "update", "save"}
  PROVE  /\ NewRow(p) \in Row /\ NewRow(p).kc = call[p].kc /\ NewRow(p).mode = call[p].mode
         /\ NewRow(p).kc # None
         /\ call[p].mode = "direct" => call[p].kc \in probed
BY Here, ClusterRegAssumption DEF DataOK, Fit, NewRow, Row

LEMMA RuntimeTyped ==
  ASSUME DataOK
  PROVE  /\ HasRuntime => runtime.kc \in Kubeconfigs /\ runtime.by \in Owners
         /\ ~HasRuntime => runtime = NoRuntime /\ runtime.by \notin Owners
BY ClusterRegAssumption DEF DataOK, HasRuntime, NoRuntime, Owners
-------------------------------------------------------------------------------

(* A call that is alone, or with nothing torn, is the only one active: the   *)
(* others wait for no loop, and without a runtime there is no loop at all.   *)
LEMMA OthersIdle ==
  ASSUME IInv, NEW p \in Calls, ~At(p, "idle"), ~torn \/ call[p].solo, NEW q \in Calls, q # p
  PROVE  At(q, "idle") /\ call[q].old = None
<1>1. At(q, "idle")
  BY DEF IInv, Solitude
<1> QED BY <1>1, Here DEF Fit, At

LEMMA Alone ==
  ASSUME IInv, NEW p \in Calls, ~At(p, "idle"), ~torn \/ call[p].solo,
         NEW o \in Owners, loop[o] # "none", o # runtime.by
  PROVE  call[p].old = o
<1>1. Orderly
  BY DEF Orderly
<1>2. PICK q \in Calls : call[q].old = o
  BY <1>1 DEF IInv, LoopsKnown
<1>3. o # None
  BY ClusterRegAssumption DEF Owners
<1> QED BY <1>2, <1>3, OthersIdle

LEMMA NoneLeft ==
  ASSUME IInv, NEW p \in Calls, ~At(p, "idle"), ~torn \/ call[p].solo,
         call[p].old = None, ~HasRuntime
  PROVE  NoLoops
<1>1. ASSUME NEW o \in Owners, loop[o] # "none" PROVE FALSE
  <2>1. o # runtime.by
    BY RuntimeTyped DEF IInv, TypeInv
  <2>2. call[p].old = o
    BY <1>1, <2>1, Alone
  <2> QED BY <2>2, ClusterRegAssumption DEF Owners
<1> QED BY <1>1 DEF NoLoops

(* One lemma per step of a call, from the code it models: Register ...       *)
LEMMA ProbeKeeps ==
  ASSUME IInv, NEW p \in Calls, Probe(p)
  PROVE  IInv'
<1>1. CASE Goto(p, "find") /\ probed' = probed \cup {call[p].kc} /\ UNCHANGED torn
  <2>1. Advances(p, "find")
    BY <1>1, Here, GotoMoves DEF Steps
  <2>2. At(p, "probe") /\ probed \subseteq probed' /\ (torn' \/ ~torn \/ call[p].solo)
    BY DEF Probe
  <2>3. Fit("find", call[p].kc, call[p].mode, call[p].old, call[p].solo, probed')
    BY <1>1, <2>2, Here DEF Fit, At
  <2>4. DataOK'
    BY Here DEF Probe, DataOK, ProbedBeforeStored, Fit, At
  <2>5. LoopsKnown'
    BY <2>1, Here, LoopsStayKnown DEF Probe, Advances
  <2>6. Staged(p)'
    BY <2>1, Here DEF Probe, Advances, Moves, Staged, Untorn, Registering, Stopping, Served,
       Agree, HasRow, HasRuntime, At
  <2> QED
    BY <2>1, <2>2, <2>3, <2>4, <2>5, <2>6, CallStepKeeps DEF Advances, At
<1>2. CASE Done(p) /\ UNCHANGED <<probed, torn>>
  <2>1. Ends(p)
    BY <1>2, Here, DoneMoves
  <2>2. At(p, "probe") /\ probed \subseteq probed' /\ (torn' \/ ~torn \/ call[p].solo)
    BY DEF Probe
  <2>3. call[p].old = None
    BY <2>2, Here DEF Fit, At
  <2>4. DataOK'
    BY <1>2, Here DEF Probe, DataOK, ProbedBeforeStored
  <2>5. LoopsKnown'
    BY <2>1, <2>3, EndsKnown DEF Probe
  <2>6. Rest'
    BY Here DEF Probe, Rest, Staged, Untorn, Served, Agree, HasRow, HasRuntime, At
  <2> QED
    BY <2>1, <2>2, <2>4, <2>5, <2>6, EndsStaged, EndsFit, CallStepKeeps DEF Ends, At
<1> QED BY <1>1, <1>2, Here DEF Probe

LEMMA UpsertFindKeeps ==
  ASSUME IInv, NEW p \in Calls, UpsertFind(p)
  PROVE  IInv'
<1>1. CASE HasRow
  <2>1. Advances(p, "update")
    BY <1>1, Here, GotoMoves DEF UpsertFind, Steps
  <2>2. At(p, "find") /\ probed \subseteq probed' /\ (torn' \/ ~torn \/ call[p].solo)
    BY DEF UpsertFind
  <2>3. Fit("update", call[p].kc, call[p].mode, call[p].old, call[p].solo, probed')
    BY <2>2, Here DEF Fit, At
  <2>4. DataOK'
    BY Here DEF UpsertFind, DataOK, ProbedBeforeStored
  <2>5. LoopsKnown'
    BY <2>1, Here, LoopsStayKnown DEF UpsertFind, Advances
  <2>6. Staged(p)'
    BY <2>1, Here DEF UpsertFind, Advances, Moves, Staged, Untorn, Registering, Stopping,
       Served, Agree, HasRow, HasRuntime, At
  <2> QED
    BY <2>1, <2>2, <2>3, <2>4, <2>5, <2>6, CallStepKeeps DEF Advances, At
<1>2. CASE ~HasRow
  <2>1. Advances(p, "insert")
    BY <1>2, Here, GotoMoves DEF UpsertFind, Steps
  <2>2. At(p, "find") /\ probed \subseteq probed' /\ (torn' \/ ~torn \/ call[p].solo)
    BY DEF UpsertFind
  <2>3. Fit("insert", call[p].kc, call[p].mode, call[p].old, call[p].solo, probed')
    BY <2>2, Here DEF Fit, At
  <2>4. DataOK'
    BY Here DEF UpsertFind, DataOK, ProbedBeforeStored
  <2>5. LoopsKnown'
    BY <2>1, Here, LoopsStayKnown DEF UpsertFind, Advances
  <2>6. Staged(p)'
    BY <1>2, <2>1, Here DEF UpsertFind, Advances, Moves, Staged, Untorn, Registering,
       Stopping, Served, Agree, HasRow, HasRuntime, At
  <2> QED
    BY <2>1, <2>2, <2>3, <2>4, <2>5, <2>6, CallStepKeeps DEF Advances, At
<1> QED BY <1>1, <1>2, Here DEF UpsertFind

(* A statement of UpsertCluster that fails writes nothing.                   *)
LEMMA UpsertFails ==
  ASSUME IInv, NEW p \in Calls, call[p].at \in {"insert", "update"}, Done(p),
         UNCHANGED <<row, entry, runtime, loop, key, agent, probed, torn>>
  PROVE  IInv'
<1>1. Ends(p)
  BY Here, DoneMoves
<1>2. call[p].old = None /\ ~At(p, "idle")
  BY Here DEF Fit, At
<1>3. DataOK'
  BY Here DEF DataOK, ProbedBeforeStored
<1>4. LoopsKnown'
  BY <1>1, <1>2, EndsKnown
<1>5. Rest'
  BY Here DEF Rest, Staged, Untorn, Served, Agree, HasRow, HasRuntime
<1> QED
  BY <1>1, <1>2, <1>3, <1>4, <1>5, Here, EndsStaged, EndsFit, CallStepKeeps DEF Ends, DataOK

(* One that succeeds leaves the row as it was or writes the one of the call. *)
LEMMA UpsertWrites ==
  ASSUME IInv, NEW p \in Calls, call[p].at \in {"insert", "update"}, Goto(p, "save"),
         row' \in {row, NewRow(p)},
         UNCHANGED <<entry, runtime, loop, key, agent, probed, torn>>
  PROVE  IInv'
<1>1. Advances(p, "save")
  BY Here, GotoMoves DEF Steps
<1>2. Fit("save", call[p].kc, call[p].mode, call[p].old, call[p].solo, probed')
  BY Here DEF Fit
<1>3. DataOK'
  BY Here, NewRowTyped DEF DataOK, ProbedBeforeStored
<1>4. LoopsKnown'
  BY <1>1, Here, LoopsStayKnown DEF Advances, DataOK
<1>5. Staged(p)'
  BY <1>1 DEF Advances, Moves, Staged, Untorn, Registering, Stopping, At
<1> QED
  BY <1>1, <1>2, <1>3, <1>4, <1>5, Here, CallStepKeeps DEF Advances, At, DataOK

LEMMA UpsertInsertKeeps ==
  ASSUME IInv, NEW p \in Calls, UpsertInsert(p)
  PROVE  IInv'
BY UpsertFails, UpsertWrites DEF UpsertInsert, At

LEMMA UpsertUpdateKeeps ==
  ASSUME IInv, NEW p \in Calls, UpsertUpdate(p)
  PROVE  IInv'
BY UpsertFails, UpsertWrites DEF UpsertUpdate, At

LEMMA UpsertSaveKeeps ==
  ASSUME IInv, NEW p \in Calls, UpsertSave(p)
  PROVE  IInv'
<1>1. CASE row' = NewRow(p) /\ Goto(p, "put") /\ UNCHANGED torn
  <2>1. Advances(p, "put")
    BY <1>1, Here, GotoMoves DEF Steps
  <2>2. At(p, "save") /\ probed \subseteq probed' /\ (torn' \/ ~torn \/ call[p].solo)
    BY <1>1 DEF UpsertSave
  <2>3. Fit("put", call[p].kc, call[p].mode, call[p].old, call[p].solo, probed')
    BY <2>2, Here DEF Fit, At
  <2>4. DataOK'
    BY <1>1, Here, NewRowTyped DEF UpsertSave, DataOK, ProbedBeforeStored, At
  <2>5. LoopsKnown'
    BY <1>1, <2>1, Here, LoopsStayKnown DEF UpsertSave, Advances
  <2>6. Staged(p)'
    BY <1>1, <2>1, <2>2, NewRowTyped DEF Advances, Moves, Staged, Untorn, Registering,
       Stopping, At
  <2> QED
    BY <2>1, <2>2, <2>3, <2>4, <2>5, <2>6, CallStepKeeps DEF Advances, At
<1>2. CASE FailHalfway(p) /\ UNCHANGED row
  <2>1. Ends(p)
    BY <1>2, Here, DoneMoves DEF FailHalfway
  <2>2. At(p, "save") /\ probed \subseteq probed' /\ (torn' \/ ~torn \/ call[p].solo)
    BY DEF UpsertSave, FailHalfway
  <2>3. call[p].old = None
    BY <2>2, Here DEF Fit, At
  <2>4. DataOK'
    BY <1>2, Here DEF UpsertSave, FailHalfway, DataOK, ProbedBeforeStored
  <2>5. LoopsKnown'
    BY <2>1, <2>2, <2>3, EndsKnown DEF UpsertSave
  <2>6. Rest'
    BY <1>2 DEF FailHalfway, Rest
  <2> QED
    BY <2>1, <2>2, <2>4, <2>5, <2>6, EndsStaged, EndsFit, CallStepKeeps DEF Ends, At
<1> QED BY <1>1, <1>2, Here DEF UpsertSave

LEMMA RegistryPutKeeps ==
  ASSUME IInv, NEW p \in Calls, RegistryPut(p)
  PROVE  IInv'
<1>1. Advances(p, "hook")
  BY Here, GotoMoves DEF RegistryPut, Steps
<1>2. At(p, "put") /\ probed \subseteq probed' /\ (torn' \/ ~torn \/ call[p].solo)
  BY DEF RegistryPut
<1>3. Fit("hook", call[p].kc, call[p].mode, call[p].old, call[p].solo, probed')
  BY <1>2, Here DEF Fit, At
<1>4. DataOK'
  BY Here DEF RegistryPut, DataOK, ProbedBeforeStored
<1>5. LoopsKnown'
  BY <1>1, Here, LoopsStayKnown DEF RegistryPut, Advances
<1>6. Staged(p)'
  BY <1>1, Here DEF RegistryPut, Advances, Moves, Staged, Untorn, Registering, Stopping, At
<1> QED
  BY <1>1, <1>2, <1>3, <1>4, <1>5, <1>6, CallStepKeeps DEF Advances, At

LEMMA AnnounceKeeps ==
  ASSUME IInv, NEW p \in Calls, Announce(p)
  PROVE  IInv'
<1>1. Advances(p, "status")
  BY Here, GotoMoves DEF Announce, Steps
<1>2. At(p, "announce") /\ probed \subseteq probed' /\ (torn' \/ ~torn \/ call[p].solo)
  BY DEF Announce
<1>3. Fit("status", call[p].kc, call[p].mode, call[p].old, call[p].solo, probed')
  BY <1>2, Here DEF Fit, At
<1>4. DataOK'
  BY Here DEF Announce, DataOK, ProbedBeforeStored
<1>5. LoopsKnown'
  BY <1>1, Here, LoopsStayKnown DEF Announce, Advances
<1>6. Staged(p)'
  BY <1>1, Here DEF Announce, Advances, Moves, Staged, Untorn, Registering, Stopping,
     HasRuntime, At
<1> QED
  BY <1>1, <1>2, <1>3, <1>4, <1>5, <1>6, CallStepKeeps DEF Advances, At

LEMMA AnnounceStatusKeeps ==
  ASSUME IInv, NEW p \in Calls, AnnounceStatus(p)
  PROVE  IInv'
<1>1. Advances(p, "start")
  BY Here, GotoMoves DEF AnnounceStatus, Steps
<1>2. At(p, "status") /\ probed \subseteq probed' /\ (torn' \/ ~torn \/ call[p].solo)
  BY DEF AnnounceStatus
<1>3. Fit("start", call[p].kc, call[p].mode, call[p].old, call[p].solo, probed')
  BY <1>2, Here DEF Fit, At
<1>4. DataOK'
  BY Here, RowsTyped DEF AnnounceStatus, UpdateClusterStatus, DataOK, ProbedBeforeStored
<1>5. LoopsKnown'
  BY <1>1, Here, LoopsStayKnown DEF AnnounceStatus, Advances
<1>6. Staged(p)'
  BY <1>1, Here, RowsTyped DEF AnnounceStatus, UpdateClusterStatus, Advances, Moves,
     DataOK, Staged, Untorn, Registering, Stopping, HasRuntime, At
<1> QED
  BY <1>1, <1>2, <1>3, <1>4, <1>5, <1>6, CallStepKeeps DEF Advances, At

LEMMA RegistryRemoveKeeps ==
  ASSUME IInv, NEW p \in Calls, RegistryRemove(p)
  PROVE  IInv'
<1>1. Advances(p, "delete")
  BY Here, GotoMoves DEF RegistryRemove, Steps
<1>2. At(p, "remove") /\ probed \subseteq probed' /\ (torn' \/ ~torn \/ call[p].solo)
  BY DEF RegistryRemove
<1>3. Fit("delete", call[p].kc, call[p].mode, call[p].old, call[p].solo, probed')
  BY <1>2, Here DEF Fit, At
<1>4. DataOK'
  BY Here DEF RegistryRemove, DataOK, ProbedBeforeStored
<1>5. LoopsKnown'
  BY <1>1, Here, LoopsStayKnown DEF RegistryRemove, Advances
<1>6. Staged(p)'
  BY <1>1, Here DEF RegistryRemove, Advances, Moves, Staged, Untorn, Registering, Stopping,
     NoLoops, HasRuntime, At
<1> QED
  BY <1>1, <1>2, <1>3, <1>4, <1>5, <1>6, CallStepKeeps DEF Advances, At

LEMMA SetModeKeeps ==
  ASSUME IInv, NEW p \in Calls, SetMode(p)
  PROVE  IInv'
<1>1. Advances(p, "setReady")
  BY Here, GotoMoves DEF SetMode, Steps
<1>2. At(p, "setMode") /\ probed \subseteq probed' /\ (torn' \/ ~torn \/ call[p].solo)
  BY DEF SetMode
<1>3. Fit("setReady", call[p].kc, call[p].mode, call[p].old, call[p].solo, probed')
  BY <1>2, Here DEF Fit, At
<1>4. DataOK'
  BY Here, AgentRowTyped DEF SetMode, DataOK, ProbedBeforeStored
<1>5. LoopsKnown'
  BY <1>1, Here, LoopsStayKnown DEF SetMode, Advances
<1>6. row'.kc = row.kc
  BY Here, AgentRowTyped DEF SetMode, DataOK
<1>7. Staged(p)'
  BY <1>1, <1>6, Here DEF SetMode, Advances, Moves, Staged, Untorn, Registering, Stopping,
     Served, HasRuntime, At
<1> QED
  BY <1>1, <1>2, <1>3, <1>4, <1>5, <1>7, CallStepKeeps DEF Advances, At

LEMMA SetReadyKeeps ==
  ASSUME IInv, NEW p \in Calls, SetReady(p)
  PROVE  IInv'
<1>1. Advances(p, "getRuntime")
  BY Here, GotoMoves DEF SetReady, Steps
<1>2. At(p, "setReady") /\ probed \subseteq probed' /\ (torn' \/ ~torn \/ call[p].solo)
  BY DEF SetReady
<1>3. Fit("getRuntime", call[p].kc, call[p].mode, call[p].old, call[p].solo, probed')
  BY <1>2, Here DEF Fit, At
<1>4. DataOK'
  BY Here, RowsTyped DEF SetReady, UpdateClusterStatus, DataOK, ProbedBeforeStored
<1>5. LoopsKnown'
  BY <1>1, Here, LoopsStayKnown DEF SetReady, Advances
<1>6. Staged(p)'
  BY <1>1, Here, RowsTyped DEF SetReady, UpdateClusterStatus, Advances, Moves, DataOK,
     Staged, Untorn, Registering, Stopping, Served, HasRuntime, At
<1> QED
  BY <1>1, <1>2, <1>3, <1>4, <1>5, <1>6, CallStepKeeps DEF Advances, At

LEMMA SetDegradedKeeps ==
  ASSUME IInv, NEW p \in Calls, SetDegraded(p)
  PROVE  IInv'
<1>1. Ends(p)
  BY Here, DoneMoves DEF SetDegraded
<1>2. At(p, "setDegraded") /\ probed \subseteq probed' /\ (torn' \/ ~torn \/ call[p].solo)
  BY DEF SetDegraded
<1>3. call[p].old = None
  BY <1>2, Here DEF Fit, At
<1>4. DataOK'
  BY Here, RowsTyped DEF SetDegraded, UpdateClusterStatus, DataOK, ProbedBeforeStored
<1>5. LoopsKnown'
  BY <1>1, <1>3, EndsKnown DEF SetDegraded
<1>6. Rest'
  BY Here, RowsTyped DEF SetDegraded, UpdateClusterStatus, Rest, DataOK, Staged, Untorn,
     Served, Agree, HasRuntime, At
<1> QED
  BY <1>1, <1>2, <1>4, <1>5, <1>6, EndsStaged, EndsFit, CallStepKeeps DEF Ends, At

LEMMA DeleteRowKeeps ==
  ASSUME IInv, NEW p \in Calls, DeleteRow(p)
  PROVE  IInv'
<1>1. CASE row' = NoRow /\ Repair(p) /\ Done(p)
  <2>1. Ends(p)
    BY <1>1, Here, DoneMoves
  <2>2. At(p, "delete") /\ probed \subseteq probed' /\ (torn' \/ ~torn \/ call[p].solo)
    BY <1>1 DEF DeleteRow, Repair
  <2>3. call[p].old = None
    BY <2>2, Here DEF Fit, At
  <2>4. DataOK'
    BY <1>1, Here, ClusterRegAssumption DEF DeleteRow, Repair, DataOK, ProbedBeforeStored, NoRow
  <2>5. LoopsKnown'
    BY <2>1, <2>2, <2>3, EndsKnown DEF DeleteRow
  <2>6. Rest'
    BY <1>1, <2>2, Here DEF DeleteRow, Rest, DataOK, NoRow, Staged, Stopping, Served, Agree,
       HasRow, HasRuntime
  <2> QED
    BY <2>1, <2>2, <2>4, <2>5, <2>6, EndsStaged, EndsFit, CallStepKeeps DEF Ends, At
<1>2. CASE FailHalfway(p) /\ UNCHANGED row
  <2>1. Ends(p)
    BY <1>2, Here, DoneMoves DEF FailHalfway
  <2>2. At(p, "delete") /\ probed \subseteq probed' /\ (torn' \/ ~torn \/ call[p].solo)
    BY <1>2 DEF DeleteRow, FailHalfway
  <2>3. call[p].old = None
    BY <2>2, Here DEF Fit, At
  <2>4. DataOK'
    BY <1>2, Here DEF DeleteRow, FailHalfway, DataOK, ProbedBeforeStored
  <2>5. LoopsKnown'
    BY <2>1, <2>2, <2>3, EndsKnown DEF DeleteRow
  <2>6. Rest'
    BY <1>2 DEF FailHalfway, Rest
  <2> QED
    BY <2>1, <2>2, <2>4, <2>5, <2>6, EndsStaged, EndsFit, CallStepKeeps DEF Ends, At
<1> QED BY <1>1, <1>2, Here DEF DeleteRow

LEMMA HookKeeps ==
  ASSUME IInv, NEW p \in Calls, Hook(p)
  PROVE  IInv'
<1>1. CASE FailHalfway(p)
  <2>1. Ends(p)
    BY <1>1, Here, DoneMoves DEF FailHalfway
  <2>2. At(p, "hook") /\ probed \subseteq probed' /\ (torn' \/ ~torn \/ call[p].solo)
    BY DEF Hook, FailHalfway
  <2>3. call[p].old = None
    BY <2>2, Here DEF Fit, At
  <2>4. DataOK'
    BY Here DEF Hook, FailHalfway, DataOK, ProbedBeforeStored
  <2>5. LoopsKnown'
    BY <2>1, <2>2, <2>3, EndsKnown DEF Hook
  <2>6. Rest'
    BY <1>1 DEF FailHalfway, Rest
  <2> QED
    BY <2>1, <2>2, <2>4, <2>5, <2>6, EndsStaged, EndsFit, CallStepKeeps DEF Ends, At
<1>2. CASE /\ HasRuntime /\ UNCHANGED torn
           /\ call' = [call EXCEPT ![p].at = "join", ![p].old = runtime.by]
  <2>1. At(p, "hook") /\ probed' = probed /\ torn' = torn
    BY <1>2 DEF Hook
  <2>2. Moves(p, "join", call[p].kc, call[p].mode, runtime.by, call[p].solo)
    <3> DEFINE c == [call[p] EXCEPT !.at = "join", !.old = runtime.by]
    <3>1. c \in Call
      <4>1. call[p] \in Call
        BY Here
      <4>2. runtime.by \in Owners
        BY <1>2, Here, RuntimeTyped
      <4> QED BY <4>1, <4>2 DEF Call, Steps
    <3>2. call' = [call EXCEPT ![p] = c]
      BY <1>2
    <3>3. c.at = "join" /\ c.kc = call[p].kc /\ c.mode = call[p].mode
          /\ c.old = runtime.by /\ c.solo = call[p].solo
      BY Here
    <3> HIDE DEF c
    <3>4. Moves(p, c.at, c.kc, c.mode, c.old, c.solo)
      BY <3>1, <3>2, Here, MovesBy
    <3> QED BY <3>3, <3>4
  <2>3. Fit("join", call[p].kc, call[p].mode, runtime.by, call[p].solo, probed')
    BY <1>2, <2>1, Here, RuntimeTyped, ClusterRegAssumption DEF Fit, At, Owners
  <2>4. DataOK'
    BY <1>2, Here DEF Hook, DataOK, ProbedBeforeStored
  <2>5. LoopsKnown'
    <3>1. ASSUME Orderly', NEW o \in Owners, loop'[o] # "none", o # runtime'.by
          PROVE  \E q \in Calls : call'[q].old = o
      <4>1. Orderly
        BY <2>1, <2>2, <3>1, OrderlyBefore
      <4>2. loop[o] # "none"
        BY <3>1 DEF Hook
      <4>3. o = runtime.by \/ \E q \in Calls : call[q].old = o
        BY <4>1, <4>2, Here DEF LoopsKnown
      <4> QED
        <5>1. CASE o = runtime.by
          BY <5>1, <3>1 DEF Hook
        <5>2. CASE \E q \in Calls : call[q].old = o
          <6>1. PICK q \in Calls : call[q].old = o
            BY <5>2
          <6>2. q # p
            BY <6>1, <2>1, Here, ClusterRegAssumption DEF Fit, At, Owners
          <6> QED BY <6>1, <6>2, <2>2 DEF Moves
        <5> QED BY <4>3, <5>1, <5>2
    <3> QED BY <3>1 DEF LoopsKnown
  <2>6. Staged(p)'
    BY <1>2, Here DEF Hook, Staged, Untorn, Registering, Stopping, HasRuntime, At
  <2> QED
    BY <2>1, <2>2, <2>3, <2>4, <2>5, <2>6, CallStepKeeps DEF At
<1>3. CASE ~HasRuntime /\ call' = [call EXCEPT ![p].at = "install"] /\ UNCHANGED torn
  <2>1. At(p, "hook") /\ probed' = probed /\ torn' = torn
    BY <1>3 DEF Hook
  <2>2. Moves(p, "install", call[p].kc, call[p].mode, call[p].old, call[p].solo)
    <3> DEFINE c == [call[p] EXCEPT !.at = "install"]
    <3>1. c \in Call
      <4>1. call[p] \in Call
        BY Here
      <4>2. call[p].old \in Owners \cup {None}
        BY Here, Fields
      <4> QED BY <4>1, <4>2 DEF Call, Steps
    <3>2. call' = [call EXCEPT ![p] = c]
      BY <1>3
    <3>3. c.at = "install" /\ c.kc = call[p].kc /\ c.mode = call[p].mode
          /\ c.old = call[p].old /\ c.solo = call[p].solo
      BY Here
    <3> HIDE DEF c
    <3>4. Moves(p, c.at, c.kc, c.mode, c.old, c.solo)
      BY <3>1, <3>2, Here, MovesBy
    <3> QED BY <3>3, <3>4
  <2>3. Fit("install", call[p].kc, call[p].mode, call[p].old, call[p].solo, probed')
    BY <2>1, Here DEF Fit, At
  <2>4. DataOK'
    BY <1>3, Here DEF Hook, DataOK, ProbedBeforeStored
  <2>5. LoopsKnown'
    BY <2>1, <2>2, Here, LoopsStayKnown DEF Hook
  <2>6. Staged(p)'
    BY <1>3, Here, NoneLeft DEF Hook, Fit, Staged, Untorn, Registering, Stopping, NoLoops, At
<2> QED
    BY <2>1, <2>2, <2>3, <2>4, <2>5, <2>6, CallStepKeeps DEF At
<1> QED BY <1>1, <1>2, <1>3, Here DEF Hook

(* Some call being alone, or nothing torn, is this call being alone.         *)
LEMMA OrderlyIsMine ==
  ASSUME IInv, NEW p \in Calls, ~At(p, "idle"), Orderly
  PROVE  ~torn \/ call[p].solo
BY DEF IInv, Solitude, Orderly

(* The loop that a call waits for ends, and with it, if the call is alone,   *)
(* the last loop there is. *)
LEMMA Joins ==
  ASSUME IInv, NEW p \in Calls, NEW from \in {"join", "joinGone"}, NEW to \in {"install", "remove"},
         Join(p, from, to)
  PROVE  /\ At(p, from)
         /\ Moves(p, to, call[p].kc, call[p].mode, None, call[p].solo)
         /\ DataOK' /\ LoopsKnown'
         /\ ~torn \/ call[p].solo => NoLoops' \/ (from = "join" /\ call[p].old # runtime.by)
<1> DEFINE o == call[p].old
<1>1. At(p, from) /\ o \in Owners /\ o # None /\ ~At(p, "idle")
  BY Here, Fields DEF Join, Fit, At
<1>2. /\ loop' = [loop EXCEPT ![o] = "none"]
      /\ UNCHANGED <<row, entry, runtime, key, agent, probed, torn>>
  BY DEF Join
<1>3. Moves(p, to, call[p].kc, call[p].mode, None, call[p].solo)
  <2> DEFINE c == [call[p] EXCEPT !.at = to, !.old = None]
  <2>1. c \in Call
    <3>1. call[p] \in Call
      BY Here
    <3> QED BY <3>1 DEF Call, Steps
  <2>2. call' = [call EXCEPT ![p] = c]
    BY Here DEF Join
  <2>3. c.at = to /\ c.kc = call[p].kc /\ c.mode = call[p].mode /\ c.old = None
        /\ c.solo = call[p].solo
    BY Here DEF Call
  <2> HIDE DEF c
  <2>4. Moves(p, c.at, c.kc, c.mode, c.old, c.solo)
    BY <2>1, <2>2, Here, MovesBy
  <2> QED BY <2>3, <2>4
<1>4. DataOK'
  BY <1>1, <1>2, Here DEF DataOK, ProbedBeforeStored
<1>5. ASSUME NEW x \in Owners, loop'[x] # "none" PROVE x # o /\ loop[x] # "none"
  BY <1>1, <1>2, <1>5, Here DEF DataOK
<1>6. LoopsKnown'
  <2>1. ASSUME Orderly', NEW x \in Owners, loop'[x] # "none", x # runtime'.by
        PROVE  \E q \in Calls : call'[q].old = x
    <3>1. Orderly
      BY <1>2, <1>3, <2>1, OrderlyBefore
    <3>2. PICK q \in Calls : call[q].old = x
      BY <1>2, <1>5, <2>1, <3>1, Here DEF LoopsKnown
    <3>3. call'[q] = call[q]
      BY <1>3, <1>5, <2>1, <3>2 DEF Moves
    <3> QED BY <3>2, <3>3
  <2> QED BY <2>1 DEF LoopsKnown
<1>7. ASSUME ~torn \/ call[p].solo, from = "join" => o = runtime.by PROVE NoLoops'
  <2>1. ASSUME NEW x \in Owners, loop'[x] # "none" PROVE FALSE
    <3>1. x # o /\ loop[x] # "none"
      BY <1>5, <2>1
    <3>2. x = runtime.by
      BY <1>1, <1>7, <3>1, Alone
    <3>3. from = "joinGone" /\ ~HasRuntime
      BY <1>1, <1>7, <3>1, <3>2, Here DEF Staged, Stopping, At
    <3> QED BY <3>2, <3>3, Here, RuntimeTyped
  <2> QED BY <2>1 DEF NoLoops
<1> QED BY <1>1, <1>3, <1>4, <1>6, <1>7

LEMMA JoinOldKeeps ==
  ASSUME IInv, NEW p \in Calls, JoinOld(p)
  PROVE  IInv'
<1>1. Join(p, "join", "install")
  BY DEF JoinOld
<1>2. UNCHANGED <<row, entry, runtime, probed, torn>>
  BY <1>1 DEF Join
<1>3. /\ At(p, "join") /\ DataOK' /\ LoopsKnown'
      /\ Moves(p, "install", call[p].kc, call[p].mode, None, call[p].solo)
      /\ ~torn \/ call[p].solo => NoLoops' \/ call[p].old # runtime.by
  BY <1>1, Joins
<1>4. Fit("install", call[p].kc, call[p].mode, None, call[p].solo, probed')
  BY <1>3, Here DEF Fit, At
<1>5. ~torn \/ call[p].solo => NoLoops'
  BY <1>3, Here DEF Staged, Stopping, At
<1>6. Staged(p)'
  BY <1>2, <1>3, <1>5, Here DEF Moves, Staged, Untorn, Registering, Stopping, At
<1> QED BY <1>2, <1>3, <1>4, <1>6, CallStepKeeps, Here DEF At, DataOK

LEMMA JoinGoneKeeps ==
  ASSUME IInv, NEW p \in Calls, JoinGone(p)
  PROVE  IInv'
<1>1. Join(p, "joinGone", "remove")
  BY DEF JoinGone
<1>2. UNCHANGED <<row, entry, runtime, probed, torn>>
  BY <1>1 DEF Join
<1>3. /\ At(p, "joinGone") /\ DataOK' /\ LoopsKnown'
      /\ Moves(p, "remove", call[p].kc, call[p].mode, None, call[p].solo)
      /\ ~torn \/ call[p].solo => NoLoops'
  BY <1>1, Joins
<1>4. Fit("remove", call[p].kc, call[p].mode, None, call[p].solo, probed')
  BY <1>3, Here DEF Fit, At
<1>5. ~torn \/ call[p].solo => ~HasRuntime'
  BY <1>2, <1>3, Here DEF Staged, Stopping, At, HasRuntime
<1>6. Staged(p)'
  BY <1>2, <1>3, <1>5, Here DEF Moves, Staged, Untorn, Registering, Stopping, At
<1> QED BY <1>2, <1>3, <1>4, <1>6, CallStepKeeps, Here DEF At, DataOK

LEMMA InstallKeeps ==
  ASSUME IInv, NEW p \in Calls, Install(p)
  PROVE  IInv'
<1>1. /\ At(p, "install") /\ p \in Owners /\ call[p].old = None /\ call[p].kc \in Kubeconfigs
      /\ call[p].kc # None /\ call[p].mode \in Modes \cup {None}
  BY Here, Fields, ClusterRegAssumption DEF Install, Fit, At, Owners
<1>2. /\ runtime' = [kc |-> call[p].kc, by |-> p] /\ loop' = [loop EXCEPT ![p] = "new"]
      /\ UNCHANGED <<row, entry, key, agent, probed, torn>>
  BY DEF Install
<1>3. Moves(p, "announce", None, call[p].mode, None, call[p].solo)
  <2> DEFINE c == [call[p] EXCEPT !.at = "announce", !.kc = None]
  <2>1. c \in Call
    <3>1. call[p] \in Call
      BY Here
    <3> QED BY <3>1 DEF Call, Steps
  <2>2. call' = [call EXCEPT ![p] = c]
    BY Here DEF Install
  <2>3. c.at = "announce" /\ c.kc = None /\ c.mode = call[p].mode /\ c.old = None
        /\ c.solo = call[p].solo
    BY <1>1, Here DEF Call
  <2> HIDE DEF c
  <2>4. Moves(p, c.at, c.kc, c.mode, c.old, c.solo)
    BY <2>1, <2>2, Here, MovesBy
  <2> QED BY <2>3, <2>4
<1>4. Fit("announce", None, call[p].mode, None, call[p].solo, probed')
  BY <1>1, Here DEF Fit, At
<1>5. DataOK'
  BY <1>1, <1>2, Here DEF DataOK, ProbedBeforeStored
<1>6. loop'[p] = "new" /\ \A x \in Owners : x # p => loop'[x] = loop[x]
  BY <1>1, <1>2, Here DEF DataOK
<1>7. LoopsKnown'
  <2>1. ASSUME Orderly', NEW x \in Owners, loop'[x] # "none", x # runtime'.by
        PROVE  FALSE
    <3>1. ~torn \/ call[p].solo
      BY <1>1, <1>2, <1>3, <2>1, OrderlyBefore, OrderlyIsMine DEF At
    <3>2. NoLoops
      BY <1>1, <3>1, Here DEF Staged, Stopping, At
    <3> QED BY <1>2, <1>6, <2>1, <3>2 DEF NoLoops
  <2> QED BY <2>1 DEF LoopsKnown
<1>8. Staged(p)'
  BY <1>1, <1>2, <1>3, <1>6, Here DEF Moves, Staged, Untorn, Registering, Stopping, At,
     HasRuntime
<1> QED BY <1>1, <1>2, <1>3, <1>4, <1>5, <1>7, <1>8, CallStepKeeps, Here DEF At, DataOK

LEMMA StartLoopKeeps ==
  ASSUME IInv, NEW p \in Calls, StartLoop(p)
  PROVE  IInv'
<1>1. At(p, "start") /\ p \in Owners /\ call[p].old = None
  BY Here, ClusterRegAssumption DEF StartLoop, Fit, At, Owners
<1>2. loop' = [loop EXCEPT ![p] = "idle"] /\ UNCHANGED <<row, entry, runtime, key, agent, probed>>
  BY DEF StartLoop
<1>3. Ends(p)
  BY Here, DoneMoves DEF StartLoop
<1>4. /\ torn' \in BOOLEAN /\ (torn' \/ ~torn \/ call[p].solo)
      /\ ~torn' => ~torn \/ (call[p].solo /\ call[p].mode # None)
  BY Here DEF StartLoop, Repair, DataOK
<1>5. DataOK'
  BY <1>1, <1>2, <1>4, Here DEF DataOK, ProbedBeforeStored
<1>6. loop'[p] = "idle" /\ \A x \in Owners : x # p => loop'[x] = loop[x]
  BY <1>1, <1>2, Here DEF DataOK
<1>7. ~torn \/ call[p].solo => runtime.by = p
  BY <1>1, Here DEF Staged, Stopping, At
<1>8. LoopsKnown'
  <2>1. ASSUME Orderly', NEW x \in Owners, loop'[x] # "none", x # runtime'.by
        PROVE  FALSE
    <3>1. ~torn \/ call[p].solo
      BY <1>1, <1>3, <1>4, <2>1, OrderlyBefore, OrderlyIsMine DEF At, Ends
    <3>2. x # p /\ x # runtime.by /\ loop[x] # "none"
      BY <1>2, <1>6, <1>7, <2>1, <3>1
    <3>3. call[p].old = x
      BY <1>1, <3>1, <3>2, Alone DEF At
    <3> QED BY <1>1, <3>3, ClusterRegAssumption DEF Owners
  <2> QED BY <2>1 DEF LoopsKnown
<1>9. Rest'
  <2>1. ASSUME ~torn' PROVE Agree'
    <3>1. entry /\ HasRuntime /\ row.kc = runtime.kc /\ runtime.by = p
      BY <1>1, <1>4, <1>7, <2>1, Here DEF Staged, Registering, At
    <3> QED BY <1>2, <1>6, <3>1, Here DEF Agree, Served, HasRuntime, DataOK
  <2> QED BY <2>1 DEF Rest
<1> QED
  BY <1>1, <1>2, <1>3, <1>4, <1>5, <1>8, <1>9, EndsStaged, EndsFit, CallStepKeeps DEF Ends, At

LEMMA UnhookKeeps ==
  ASSUME IInv, NEW p \in Calls, Unhook(p)
  PROVE  IInv'
<1>1. At(p, "unhook") /\ call[p].old = None
  BY Here DEF Unhook, Fit, At
<1>2. /\ runtime' = NoRuntime /\ ~HasRuntime'
      /\ UNCHANGED <<row, entry, loop, key, agent, probed, torn>>
  BY DEF Unhook, HasRuntime, NoRuntime
<1>3. DataOK'
  BY <1>2, Here DEF DataOK, ProbedBeforeStored
<1>4. CASE HasRuntime
  <2>1. Moves(p, "joinGone", call[p].kc, call[p].mode, runtime.by, call[p].solo)
    <3> DEFINE c == [call[p] EXCEPT !.at = "joinGone", !.old = runtime.by]
    <3>1. c \in Call
      <4>1. call[p] \in Call /\ runtime.by \in Owners
        BY <1>4, Here, RuntimeTyped
      <4> QED BY <4>1 DEF Call, Steps
    <3>2. call' = [call EXCEPT ![p] = c]
      BY <1>4, Here DEF Unhook
    <3>3. c.at = "joinGone" /\ c.kc = call[p].kc /\ c.mode = call[p].mode
          /\ c.old = runtime.by /\ c.solo = call[p].solo
      BY Here DEF Call
    <3> HIDE DEF c
    <3>4. Moves(p, c.at, c.kc, c.mode, c.old, c.solo)
      BY <3>1, <3>2, Here, MovesBy
    <3> QED BY <3>3, <3>4
  <2>2. runtime.by \in Owners /\ runtime.by # None
    BY <1>4, Here, RuntimeTyped, ClusterRegAssumption DEF Owners
  <2>3. Fit("joinGone", call[p].kc, call[p].mode, runtime.by, call[p].solo, probed')
    BY <1>1, <2>2, Here DEF Fit, At
  <2>4. LoopsKnown'
    <3>1. ASSUME Orderly', NEW x \in Owners, loop'[x] # "none"
          PROVE  \E q \in Calls : call'[q].old = x
      <4>1. Orderly
        BY <1>2, <2>1, <3>1, OrderlyBefore
      <4>2. CASE x = runtime.by
        BY <2>1, <4>2 DEF Moves
      <4>3. CASE \E q \in Calls : call[q].old = x
        <5>1. PICK q \in Calls : call[q].old = x
          BY <4>3
        <5>2. q # p
          BY <1>1, <5>1, ClusterRegAssumption DEF Owners
        <5> QED BY <2>1, <5>1, <5>2 DEF Moves
      <4> QED BY <1>2, <3>1, <4>1, <4>2, <4>3, Here DEF LoopsKnown
    <3> QED BY <3>1 DEF LoopsKnown
  <2>5. Staged(p)'
    BY <1>2, <2>1 DEF Moves, Staged, Untorn, Registering, Stopping, At
  <2> QED BY <1>1, <1>2, <1>3, <2>1, <2>3, <2>4, <2>5, CallStepKeeps, Here DEF At, DataOK
<1>5. CASE ~HasRuntime
  <2>1. Advances(p, "remove")
    BY <1>5, Here, GotoMoves DEF Unhook, Steps
  <2>2. Fit("remove", call[p].kc, call[p].mode, call[p].old, call[p].solo, probed')
    BY <1>1, Here DEF Fit, At
  <2>3. runtime' = runtime
    BY <1>2, <1>5, Here, RuntimeTyped
  <2>4. LoopsKnown'
    BY <1>2, <2>1, <2>3, Here, LoopsStayKnown, Fields DEF Advances, DataOK
  <2>5. ~torn \/ call[p].solo => NoLoops'
    BY <1>1, <1>2, <1>5, NoneLeft DEF At, NoLoops
  <2>6. Staged(p)'
    BY <1>2, <2>1, <2>5 DEF Advances, Moves, Staged, Untorn, Registering, Stopping, At
  <2> QED
    BY <1>1, <1>2, <1>3, <2>1, <2>2, <2>4, <2>6, CallStepKeeps, Here DEF Advances, At, DataOK
<1> QED BY <1>4, <1>5

LEMMA GetRuntimeKeeps ==
  ASSUME IInv, NEW p \in Calls, GetRuntime(p)
  PROVE  IInv'
<1>1. /\ At(p, "getRuntime") /\ call[p].old = None /\ call[p].mode = None
      /\ UNCHANGED <<row, entry, runtime, loop, key, agent, probed>>
  BY Here DEF GetRuntime, Fit, At
<1>2. CASE HasRuntime
  <2>1. Moves(p, "hook", runtime.kc, None, None, call[p].solo) /\ torn' = torn
    <3> DEFINE c == [call[p] EXCEPT !.at = "hook", !.kc = runtime.kc]
    <3>1. c \in Call
      <4>1. call[p] \in Call /\ runtime.kc \in Kubeconfigs
        BY <1>2, Here, RuntimeTyped
      <4> QED BY <4>1 DEF Call, Steps
    <3>2. call' = [call EXCEPT ![p] = c]
      BY <1>2, Here DEF GetRuntime
    <3>3. c.at = "hook" /\ c.kc = runtime.kc /\ c.mode = None /\ c.old = None
          /\ c.solo = call[p].solo
      BY <1>1, Here DEF Call
    <3> HIDE DEF c
    <3>4. Moves(p, c.at, c.kc, c.mode, c.old, c.solo)
      BY <3>1, <3>2, Here, MovesBy
    <3> QED BY <1>2, <3>3, <3>4 DEF GetRuntime
  <2>2. Fit("hook", runtime.kc, None, None, call[p].solo, probed')
    BY <1>2, Here, RuntimeTyped DEF Fit
  <2>3. DataOK'
    BY <1>1, <2>1, Here DEF DataOK, ProbedBeforeStored
  <2>4. LoopsKnown'
    BY <1>1, <2>1, Here, LoopsStayKnown DEF DataOK
  <2>5. Staged(p)'
    BY <1>1, <1>2, <2>1, Here
       DEF Moves, Staged, Untorn, Registering, Stopping, Served, HasRuntime, At
  <2> QED BY <1>1, <2>1, <2>2, <2>3, <2>4, <2>5, CallStepKeeps, Here DEF At, DataOK
<1>3. CASE ~HasRuntime
  <2>1. Ends(p) /\ torn'
    BY <1>3, Here, DoneMoves DEF GetRuntime, FailHalfway
  <2>2. DataOK'
    BY <1>1, <2>1, Here DEF DataOK, ProbedBeforeStored, GetRuntime, FailHalfway
  <2>3. LoopsKnown'
    BY <1>1, <2>1, EndsKnown
  <2>4. Rest'
    BY <2>1 DEF Rest
  <2> QED
    BY <1>1, <2>1, <2>2, <2>3, <2>4, EndsStaged, EndsFit, CallStepKeeps DEF Ends, At
<1> QED BY <1>2, <1>3

LEMMA CallKeeps ==
  ASSUME IInv, NEW p \in Calls, CallStep(p)
  PROVE  IInv'
BY ProbeKeeps, UpsertFindKeeps, UpsertInsertKeeps, UpsertUpdateKeeps, UpsertSaveKeeps,
   RegistryPutKeeps, HookKeeps, JoinOldKeeps, InstallKeeps, AnnounceKeeps,
   AnnounceStatusKeeps, StartLoopKeeps, UnhookKeeps,
   JoinGoneKeeps, RegistryRemoveKeeps, DeleteRowKeeps, SetModeKeeps, SetReadyKeeps,
   GetRuntimeKeeps, SetDegradedKeeps
   DEF CallStep
-------------------------------------------------------------------------------
(* A call starts: alone it finds every loop known and, with nothing torn,    *)
(* the tables in agreement; otherwise it disturbs and nothing is promised.   *)
LEMMA BeginKeeps ==
  ASSUME IInv, NEW p \in Calls, NEW l \in {"probe", "find", "unhook", "setMode", "setDegraded"},
         NEW kc \in Kubeconfigs \cup {None}, NEW mode \in Modes \cup {None},
         Begin(p, l, kc, mode),
         l \in {"probe", "find"} => mode \in Modes /\ kc \in Kubeconfigs,
         l \notin {"probe", "find"} => mode = None,
         l = "find" => mode # "direct",
         UNCHANGED <<row, runtime, loop, key, probed>>,
         agent' \in {"none", "token", "session"},
         entry' = IF l \in {"setMode", "setDegraded"} THEN TRUE ELSE entry
  PROVE  IInv'
<1> DEFINE others == {q \in Calls \ {p} : ~At(q, "idle")}
<1> DEFINE s == others = {} /\ ~Leaked
<1>1. /\ At(p, "idle") /\ torn' = (torn \/ others # {})
      /\ call' = [q \in Calls |->
           IF q = p THEN [at |-> l, kc |-> kc, mode |-> mode, old |-> None, solo |-> s]
           ELSE [call[q] EXCEPT !.solo = FALSE]]
  BY DEF Begin
<1>2. /\ call'[p].at = l /\ call'[p].kc = kc /\ call'[p].mode = mode /\ call'[p].old = None
      /\ call'[p].solo = s
  BY <1>1
<1>3. ASSUME NEW q \in Calls, q # p
      PROVE  /\ call'[q].at = call[q].at /\ call'[q].kc = call[q].kc
             /\ call'[q].mode = call[q].mode /\ call'[q].old = call[q].old /\ ~call'[q].solo
             /\ call'[q] \in Call
  <2>1. call[q] \in Call
    BY Here
  <2>2. call'[q] = [call[q] EXCEPT !.solo = FALSE]
    BY <1>1, <1>3
  <2> QED BY <2>1, <2>2 DEF Call
<1> HIDE DEF s
<1>4. CallsOK'
  <2>1. call' \in [Calls -> Call]
    <3>1. [at |-> l, kc |-> kc, mode |-> mode, old |-> None, solo |-> s] \in Call
      BY DEF Call, Steps, s
    <3>2. \A q \in Calls : call'[q] \in Call
      BY <1>1, <1>3, <3>1
    <3>3. call' = [q \in Calls |-> call'[q]]
      BY <1>1
    <3> QED BY <3>2, <3>3
  <2>2. ASSUME NEW q \in Calls PROVE Fits(call'[q], probed')
    <3>1. CASE q = p
      BY <1>2, <3>1 DEF Fits, Fit
    <3>2. CASE q # p
      BY <1>3, <3>2, Here DEF Fits, Fit
    <3> QED BY <3>1, <3>2
  <2> QED BY <2>1, <2>2 DEF CallsOK
<1>5. DataOK'
  BY <1>1, Here DEF DataOK, ProbedBeforeStored
<1>6. ASSUME ~torn' \/ s, NEW q \in Calls, q # p PROVE At(q, "idle") /\ At(q, "idle")'
  BY <1>1, <1>3, <1>6 DEF At, s
<1>7. Solitude'
  <2>1. ASSUME NEW x \in Calls, NEW y \in Calls, call'[x].solo, ~At(y, "idle")' PROVE x = y
    BY <1>2, <1>3, <1>6, <2>1
  <2>2. ASSUME ~torn', NEW x \in Calls, NEW y \in Calls, ~At(x, "idle")', ~At(y, "idle")'
        PROVE  x = y
    BY <1>6, <2>2
  <2> QED BY <2>1, <2>2 DEF Solitude
<1>8. LoopsKnown'
  <2>1. ASSUME Orderly', NEW o \in Owners, loop'[o] # "none", o # runtime'.by PROVE FALSE
    <3>1. ~torn' \/ s
      BY <1>2, <1>3, <2>1 DEF Orderly
    <3>2. CASE s
      BY <2>1, <3>2 DEF s, Leaked
    <3>3. CASE ~torn'
      <4>1. PICK q \in Calls : call[q].old = o
        BY <1>1, <2>1, <3>3, Here DEF LoopsKnown, Orderly
      <4>2. At(q, "idle")
        BY <1>1, <1>6, <3>3
      <4> QED BY <4>1, <4>2, Here, ClusterRegAssumption DEF Fit, At, Owners
    <3> QED BY <3>1, <3>2, <3>3
  <2> QED BY <2>1 DEF LoopsKnown
<1>9. Stages'
  <2>1. ASSUME NEW q \in Calls, q # p PROVE Staged(q)'
    BY <1>3, <1>6, <2>1 DEF Staged, Untorn, Registering, Stopping, At
  <2>2. ~torn' => Agree
    BY <1>1, <1>6 DEF IInv, Rest
  <2>3. Staged(p)'
    BY <1>2, <2>2 DEF Staged, Untorn, Registering, Stopping, Agree, Served, HasRow,
       HasRuntime, At
  <2> QED BY <2>1, <2>3 DEF Stages
<1>10. Rest'
  BY <1>2 DEF Rest, At
<1> QED BY <1>4, <1>5, <1>7, <1>8, <1>9, <1>10 DEF IInv, TypeInv

LEMMA RequestKeeps ==
  ASSUME IInv, NEW p \in Calls,
         \/ \E kc \in Kubeconfigs, mode \in Modes : Register(p, kc, mode)
         \/ \E kc \in Kubeconfigs : RotateKubeconfig(p, kc)
         \/ Delete(p) \/ AgentConnect(p) \/ AgentDisconnect(p)
  PROVE  IInv'
<1>1. IInv => DataOK
  BY DEF IInv, TypeInv
<1>2. ASSUME NEW kc \in Kubeconfigs, NEW mode \in Modes, Enter(p, kc, mode),
             UNCHANGED <<row, entry, runtime, loop, key, agent, probed>>
      PROVE  IInv'
  <2> DEFINE l == IF mode = "direct" THEN "probe" ELSE "find"
  <2>1. l \in {"probe", "find"} /\ (l = "find" => mode # "direct") /\ Begin(p, l, kc, mode)
    BY <1>2 DEF Enter
  <2> HIDE DEF l
  <2> QED BY <1>1, <1>2, <2>1, BeginKeeps DEF DataOK
<1>3. CASE \E kc \in Kubeconfigs, mode \in Modes : Register(p, kc, mode)
  BY <1>2, <1>3 DEF Register
<1>4. CASE \E kc \in Kubeconfigs : RotateKubeconfig(p, kc)
  <2>1. row.mode \in Modes
    BY <1>1, <1>4 DEF RotateKubeconfig, HasRow, DataOK, Row, NoRow
  <2> QED BY <1>2, <1>4, <2>1 DEF RotateKubeconfig
<1>5. CASE Delete(p)
  BY <1>1, <1>5, BeginKeeps DEF Delete, DataOK
<1>6. CASE AgentConnect(p)
  BY <1>1, <1>6, BeginKeeps DEF AgentConnect, DataOK
<1>7. CASE AgentDisconnect(p)
  BY <1>1, <1>7, BeginKeeps DEF AgentDisconnect, DataOK
<1> QED BY <1>3, <1>4, <1>5, <1>6, <1>7

-------------------------------------------------------------------------------
(* While nothing is torn and nobody waits for a loop, the only loop there is *)
(* belongs to the runtime.                                                   *)
LEMMA LoopIsOfRuntime ==
  ASSUME IInv, ~torn, \A p \in Calls : call[p].old = None, NEW o \in Owners, loop[o] # "none"
  PROVE  HasRuntime /\ o = runtime.by
<1>1. o # None
  BY ClusterRegAssumption DEF Owners
<1>2. o = runtime.by
  BY <1>1 DEF IInv, LoopsKnown, Orderly
<1> QED BY <1>2, RuntimeTyped DEF IInv, TypeInv

(* A loop that runs reports what is true of its runtime, if that is still    *)
(* there; if a call waits for it, the call has not yet written what it would *)
(* contradict. *)
LEMMA LoopKeeps ==
  ASSUME IInv, NEW o \in Owners, loop[o] \in {"idle", "put", "status"},
         NEW v \in {"idle", "put", "status"}, loop' = [loop EXCEPT ![o] = v],
         UNCHANGED <<runtime, key, agent, call, probed, torn>>,
         row' \in {row, Online(row)}, entry' \in {entry, TRUE}
  PROVE  IInv'
<1>1. DataOK /\ CallsOK /\ LoopsKnown /\ Stages /\ Solitude /\ Rest
  BY DEF IInv, TypeInv
<1>2. row' \in Row \cup {NoRow} /\ row'.kc = row.kc /\ row'.mode = row.mode
  BY <1>1, RowsTyped DEF DataOK
<1>3. loop'[o] = v /\ \A x \in Owners : x # o => loop'[x] = loop[x]
  BY <1>1 DEF DataOK
<1>4. DataOK'
  BY <1>1, <1>2 DEF DataOK, ProbedBeforeStored
<1>5. CallsOK' /\ Solitude'
  BY <1>1 DEF CallsOK, Solitude, At
<1>6. LoopsKnown'
  BY <1>1, <1>3 DEF LoopsKnown, Orderly
<1>7. ASSUME ~torn, \A p \in Calls : call[p].old = None, Agree PROVE Agree'
  <2>1. HasRuntime /\ o = runtime.by
    BY <1>7, LoopIsOfRuntime
  <2> QED BY <1>2, <1>3, <1>7, <2>1 DEF Agree, Served, HasRuntime, HasRow
<1>8. ASSUME NEW p \in Calls PROVE Staged(p)'
  <2>1. ~NoLoops /\ (loop[p] = "new" /\ p \in Owners => loop'[p] = "new") /\ p \in Owners
    BY <1>3 DEF NoLoops, Owners
  <2>2. Staged(p)
    BY <1>1 DEF Stages
  <2>3. ~torn \/ call[p].solo => Stopping(p)'
    BY <1>3, <2>1, <2>2 DEF Staged, Stopping, HasRuntime, At
  <2>4. ~torn \/ (call[p].solo /\ call[p].mode # None) => Registering(p)'
    BY <1>2, <2>2 DEF Staged, Registering, HasRuntime, At
  <2>5. ASSUME ~torn PROVE Untorn(p)'
    <3>1. Untorn(p)
      BY <2>2, <2>5 DEF Staged
    <3>2. ASSUME call[p].at \in {"probe", "find", "insert", "update"} PROVE Agree'
      <4>1. \A q \in Calls : call[q].old = None
        BY <2>5, <3>2, OthersIdle, Here DEF Fit, At
      <4> QED BY <1>7, <2>5, <3>1, <3>2, <4>1 DEF Untorn
    <3>3. Served => Served'
      <4>1. ASSUME Served, HasRuntime
            PROVE  row'.kc = runtime.kc /\ loop'[runtime.by] \notin {"none", "new"}
        BY <1>1, <1>2, <1>3, <4>1, RuntimeTyped DEF Served
      <4> QED BY <4>1 DEF Served, HasRuntime
    <3> QED BY <1>2, <3>1, <3>2, <3>3 DEF Untorn, HasRow, At
  <2> QED BY <2>3, <2>4, <2>5 DEF Staged
<1>9. Rest'
  <2>1. ASSUME ~torn, \A p \in Calls : At(p, "idle") PROVE Agree'
    <3>1. \A p \in Calls : call[p].old = None
      BY <2>1, Here DEF Fit, At
    <3> QED BY <1>1, <1>7, <2>1, <3>1 DEF Rest
  <2> QED BY <2>1 DEF Rest, At
<1> QED BY <1>4, <1>5, <1>6, <1>8, <1>9 DEF IInv, TypeInv, Stages

LEMMA EnrollTokenKeeps == IInv /\ EnrollToken => IInv'
<1> SUFFICES ASSUME IInv, EnrollToken PROVE IInv'
  OBVIOUS
<1>1. UNCHANGED <<row, entry, runtime, loop, key, call, probed, torn>> /\ agent' = "token"
  BY DEF EnrollToken
<1>2. TypeInv'
  BY <1>1 DEF IInv, TypeInv, DataOK, CallsOK, ProbedBeforeStored
<1> QED
  BY <1>1, <1>2
     DEF IInv, Solitude, LoopsKnown, Orderly, Stages, Rest, Staged, Untorn, Registering,
         Stopping, NoLoops, Agree, Served, HasRow, HasRuntime, At

(* With every call idle there is little to show.                             *)
LEMMA IdleCalls ==
  ASSUME DataOK', call' = [p \in Calls |-> Idle],
         \A o \in Owners : loop'[o] # "none" => o = runtime'.by,
         ~torn' => Agree'
  PROVE  IInv'
<1>1. \A p \in Calls :
        call'[p] = Idle /\ call'[p].at = "idle" /\ call'[p].old = None /\ ~call'[p].solo
  BY DEF Idle
<1>2. CallsOK'
  <2>1. Idle \in Call
    BY DEF Idle, Call, Steps
  <2> QED BY <1>1, <2>1 DEF CallsOK, Fits, Fit, Idle
<1>3. Solitude' /\ Rest' /\ LoopsKnown'
  BY <1>1 DEF Solitude, Rest, LoopsKnown, At
<1>4. Stages'
  BY <1>1 DEF Stages, Staged, Untorn, Registering, Stopping, At
<1> QED BY <1>2, <1>3, <1>4 DEF IInv, TypeInv

(* A restart that starts no runtime leaves the row, or marks it offline.     *)
LEMMA NoneStartedKeeps ==
  ASSUME IInv, NEW k \in Keys, Restart(k), NoneStarted, entry' \in BOOLEAN, torn' \in BOOLEAN,
         row' \in {row, [row EXCEPT !.offline = TRUE]}, row' = row \/ HasRow,
         ~torn' => ~entry' /\ (HasRow => row'.offline)
  PROVE  IInv'
<1>1. DataOK
  BY DEF IInv, TypeInv
<1>2. row' \in Row \cup {NoRow} /\ row'.kc = row.kc /\ row'.mode = row.mode
  <2>1. CASE row' = row
    BY <1>1, <2>1 DEF DataOK
  <2>2. CASE HasRow /\ row' = [row EXCEPT !.offline = TRUE]
    <3>1. row \in Row
      BY <1>1, <2>2 DEF DataOK, HasRow, NoRow
    <3> QED BY <2>2, <3>1 DEF Row
  <2> QED BY <2>1, <2>2
<1>3. DataOK'
  BY <1>1, <1>2 DEF DataOK, ProbedBeforeStored, Restart, NoneStarted
<1>4. ~torn' => Agree'
  BY <1>2 DEF Agree, Served, HasRuntime, HasRow, NoneStarted, NoRuntime
<1> QED BY <1>3, <1>4, IdleCalls DEF Restart, NoneStarted

(* A restart puts back what the row says, if all of it succeeds.             *)
LEMMA RestartKeeps ==
  ASSUME IInv, NEW k \in Keys, Restart(k)
  PROVE  IInv'
<1>1. DataOK
  BY DEF IInv, TypeInv
<1>2. /\ key' = k /\ call' = [p \in Calls |-> Idle] /\ probed' = probed
      /\ agent' \in {"none", "token", "session"}
  BY <1>1 DEF Restart, DataOK
<1>3. CASE /\ HasRow /\ entry' = TRUE
           /\ runtime' = [kc |-> row.kc, by |-> Boot]
           /\ loop' = [o \in Owners |-> IF o = Boot THEN "idle" ELSE "none"]
           /\ UpdateClusterStatus
           /\ torn' = FALSE
  <2>1. row.kc \in Kubeconfigs /\ row.kc # None /\ Boot \in Owners
    BY <1>1, <1>3, ClusterRegAssumption DEF DataOK, HasRow, Row, NoRow, Owners
  <2>2. row' \in Row \cup {NoRow} /\ row'.kc = row.kc /\ row'.mode = row.mode
    BY <1>1, <1>3, RowsTyped DEF DataOK, UpdateClusterStatus
  <2>3. DataOK'
    BY <1>1, <1>2, <1>3, <2>1, <2>2 DEF DataOK, ProbedBeforeStored
  <2>4. Agree'
    BY <1>2, <1>3, <2>1, <2>2 DEF Agree, Served, HasRuntime
  <2> QED BY <1>2, <1>3, <2>3, <2>4, IdleCalls
<1>4. CASE RestoreOne(k) /\ NoneStarted /\ UNCHANGED row /\ torn' = TRUE
  BY <1>4, NoneStartedKeeps DEF RestoreOne
<1>5. CASE MarkOffline(k)
  <2>1. HasRow => [row EXCEPT !.offline = TRUE].offline
    BY <1>1 DEF DataOK, HasRow, NoRow, Row
  <2> QED BY <1>5, <2>1, NoneStartedKeeps DEF MarkOffline
<1>6. CASE NothingListed
  BY <1>6, NoneStartedKeeps DEF NothingListed, HasRow
<1> QED BY <1>3, <1>4, <1>5, <1>6 DEF Restart, RestoreOne

LEMMA Initially == Init => IInv
<1> SUFFICES ASSUME Init PROVE IInv
  OBVIOUS
<1>1. \A p \in Calls : call[p] = Idle /\ call[p].at = "idle" /\ call[p].old = None /\ ~call[p].solo
  BY DEF Init, Idle
<1>2. DataOK
  BY ClusterRegAssumption DEF Init, DataOK, ProbedBeforeStored, NoRow, NoRuntime
<1>3. CallsOK
  <2>1. Idle \in Call
    BY DEF Idle, Call, Steps
  <2> QED BY <1>1, <2>1 DEF Init, CallsOK, Fits, Fit, Idle
<1>4. Solitude /\ LoopsKnown /\ Stages
  BY <1>1 DEF Init, Solitude, LoopsKnown, Stages, Staged, Untorn, Registering, Stopping, At
<1>5. Rest
  BY DEF Init, Rest, Agree, Served, HasRow, HasRuntime, NoRow, NoRuntime
<1> QED BY <1>2, <1>3, <1>4, <1>5 DEF IInv, TypeInv

LEMMA StepKeeps == IInv /\ [Next]_vars => IInv'
<1> SUFFICES ASSUME IInv, [Next]_vars PROVE IInv'
  OBVIOUS
<1>1. ASSUME NEW p \in Calls,
             \/ \E kc \in Kubeconfigs, mode \in Modes : Register(p, kc, mode)
             \/ \E kc \in Kubeconfigs : RotateKubeconfig(p, kc)
             \/ Delete(p) \/ AgentConnect(p) \/ AgentDisconnect(p)
      PROVE  IInv'
  BY <1>1, RequestKeeps
<1>2. ASSUME NEW p \in Calls, CallStep(p) PROVE IInv'
  BY <1>2, CallKeeps
<1>3. ASSUME NEW o \in Owners, Transition(o) PROVE IInv'
  BY <1>3, LoopKeeps DEF Transition
<1>4. ASSUME NEW o \in Owners, TransitionPut(o) PROVE IInv'
  BY <1>4, LoopKeeps DEF TransitionPut
<1>5. ASSUME NEW o \in Owners, TransitionStatus(o) PROVE IInv'
  BY <1>5, LoopKeeps DEF TransitionStatus, UpdateClusterStatus
<1>6. CASE EnrollToken
  BY <1>6, EnrollTokenKeeps
<1>7. ASSUME NEW k \in Keys, Restart(k) PROVE IInv'
  BY <1>7, RestartKeeps
<1>8. CASE UNCHANGED vars
  BY <1>8
     DEF vars, IInv, TypeInv, DataOK, CallsOK, ProbedBeforeStored, Solitude, LoopsKnown, Orderly,
         Stages, Rest, Staged, Untorn, Registering, Stopping, NoLoops, Agree, Served, HasRow,
         HasRuntime, At
<1> QED BY <1>1, <1>2, <1>3, <1>4, <1>5, <1>6, <1>7, <1>8 DEF Next

LEMMA Always == Spec => []IInv
BY Initially, StepKeeps, PTL DEF Spec
-------------------------------------------------------------------------------
(* Every variable keeps its type, and exactly the calls that wait for a loop *)
(* know which: Stop of k8s.Manager, in a registration and in a deletion.     *)
THEOREM TypeCorrect == Spec => []ClusterRegTypeOK
<1>1. IInv => ClusterRegTypeOK
  BY DEF IInv, TypeInv, DataOK, CallsOK, Fits, Fit, ClusterRegTypeOK
<1> QED BY <1>1, Always, PTL

(* ClusterService.Register stores a direct cluster only with a kubeconfig    *)
(* that a probe accepted: no agent, rotation, deletion, concurrent upsert or *)
(* restart brings another one into such a row.                               *)
THEOREM DirectIsProbed == Spec => []ProbedBeforeStored
<1>1. IInv => ProbedBeforeStored
  BY DEF IInv, TypeInv, DataOK
<1> QED BY <1>1, Always, PTL

(* Row, registry and runtimes agree whenever nothing is in flight and no     *)
(* disturbance is left unrepaired: a RestoreClusters that goes through       *)
(* repairs a stop between any two statements and an earlier restart that     *)
(* failed, a call that runs alone repairs what the ones before it left.      *)
THEOREM TablesAlwaysAgree == Spec => []TablesAgree
<1>1. ASSUME IInv, AtRest, ~torn
      PROVE  /\ entry = HasRuntime
             /\ IF HasRuntime THEN row.kc = runtime.kc /\ loop[runtime.by] = "idle"
                ELSE HasRow => row.offline
  <2>1. Agree
    BY <1>1 DEF IInv, Rest, AtRest
  <2>2. HasRuntime => loop[runtime.by] \in {"none", "idle"}
    BY <1>1, RuntimeTyped DEF AtRest, IInv, TypeInv
  <2> QED BY <2>1, <2>2 DEF Agree, Served
<1>2. IInv => TablesAgree
  BY <1>1 DEF TablesAgree
<1> QED BY <1>2, Always, PTL

===============================================================================
