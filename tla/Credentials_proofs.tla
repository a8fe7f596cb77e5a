---------------------------- MODULE Credentials_proofs ----------------------------
(* Proofs about Credentials: for any tokens, requests, lifetimes and clocks. *)
EXTENDS Credentials, TLAPS

CallType ==
  [at : Steps, tok : Tokens \cup {None}, time : 0..MaxNow, void : BOOLEAN]

(* A download that began with a refused token still finds it refused at the  *)
(* time it has read.                                                         *)
VoidStaysVoid ==
  \A p \in Calls :
    call[p].at \in {"take", "check"} /\ call[p].void => ~InForce(call[p].tok, call[p].time)

(* Where the one code of a token is: with the call that issues it, in        *)
(* memory, with the download that took it, or spent.                         *)
Holds(p, t) == call[p].at \in {"offer", "check"} /\ call[p].tok = t

OneCode ==
  /\ \A t \in Short : codes[t] # None => t \in given
  /\ \A p \in Calls, t \in Short : Holds(p, t) =>
       codes[t] = None /\ \A q \in Calls : Holds(q, t) => q = p
  /\ \A d \in delivered :
       d.tok \in given /\ codes[d.tok] = None /\ \A p \in Calls : ~Holds(p, d.tok)

IInv == CredentialsTypeOK /\ VoidStaysVoid /\ NothingVoidDelivered /\ OneCode

-------------------------------------------------------------------------------
(* Goto and Done: one call moves on.                                         *)
Moves(p, l, t, time, void) ==
  /\ call' \in [Calls -> CallType]
  /\ call'[p].at = l /\ call'[p].tok = t /\ call'[p].time = time /\ call'[p].void = void
  /\ \A q \in Calls : q # p => call'[q] = call[q]

LEMMA GotoMoves ==
  ASSUME call \in [Calls -> CallType], NEW p \in Calls, NEW l \in Steps,
         NEW t \in Tokens \cup {None}, NEW time \in 0..MaxNow, NEW void \in BOOLEAN,
         Goto(p, l, t, time, void)
  PROVE  Moves(p, l, t, time, void)
BY DEF Goto, CallType, Moves

LEMMA IdleType ==
  Idle \in CallType /\ Idle.at = "idle" /\ Idle.tok = None /\ Idle.time = 0
  /\ Idle.void = FALSE
BY CredentialsAssumption DEF Idle, CallType, Steps

LEMMA DoneMoves ==
  ASSUME call \in [Calls -> CallType], NEW p \in Calls, Done(p)
  PROVE  Moves(p, "idle", None, 0, FALSE)
BY IdleType DEF Done, Moves

(* parseTTL: a lifetime that wrapped is still a Duration.                    *)
LEMMA WrapRange == \A x \in Int : Wrap(x) \in Int /\ Wrap(x) >= -HalfRange
<1> DEFINE m == 2 * HalfRange
<1>1. m \in Nat \ {0} /\ HalfRange \in Int
  BY CredentialsAssumption
<1>2. \A y \in Int : y % m \in Int /\ y % m >= 0
  BY <1>1
<1> QED BY <1>1, <1>2 DEF Wrap

LEMMA TTLRange == \A d \in ParseTTL : d \in -HalfRange..EnrollMax
<1>1. \A n \in Numbers, u \in Units : n * u \in Int
  BY CredentialsAssumption
<1>2. \A n \in Numbers, u \in Units : Wrap(n * u) \in Int /\ Wrap(n * u) >= -HalfRange
  BY <1>1, WrapRange
<1> SUFFICES ASSUME NEW d \in ParseTTL PROVE d \in -HalfRange..EnrollMax
  OBVIOUS
<1>3. CASE d = EnrollDefault
  BY <1>3, CredentialsAssumption
<1>4. CASE d # EnrollDefault
  <2>1. PICK n \in Numbers, u \in Units : d = Wrap(n * u) /\ d <= EnrollMax
    BY <1>4 DEF ParseTTL
  <2> QED BY <1>2, <2>1, CredentialsAssumption
<1> QED BY <1>3, <1>4

LEMMA IssueMoves ==
  ASSUME CredentialsTypeOK, NEW p \in Calls, Issue(p)
  PROVE  Moves(p, "clean", None, 0, FALSE)
<1>1. call \in [Calls -> CallType]
  BY DEF CredentialsTypeOK, CallType
<1>2. Goto(p, "clean", None, 0, FALSE)
  BY DEF Issue
<1>3. "clean" \in Steps /\ None \in Tokens \cup {None} /\ 0 \in 0..MaxNow
      /\ (FALSE) \in BOOLEAN
  BY CredentialsAssumption, <1>1
     DEF CredentialsTypeOK, CallType, Steps, Tokens, Accepts, InForce
<1> QED BY <1>1, <1>2, <1>3, GotoMoves

LEMMA CleanRowsMoves ==
  ASSUME CredentialsTypeOK, NEW p \in Calls, CleanRows(p)
  PROVE  Moves(p, "cleanCodes", None, 0, FALSE)
<1>1. call \in [Calls -> CallType]
  BY DEF CredentialsTypeOK, CallType
<1>2. Goto(p, "cleanCodes", None, 0, FALSE)
  BY DEF CleanRows
<1>3. "cleanCodes" \in Steps /\ None \in Tokens \cup {None} /\ 0 \in 0..MaxNow
      /\ (FALSE) \in BOOLEAN
  BY CredentialsAssumption, <1>1
     DEF CredentialsTypeOK, CallType, Steps, Tokens, Accepts, InForce
<1> QED BY <1>1, <1>2, <1>3, GotoMoves

LEMMA CleanCodesMoves ==
  ASSUME CredentialsTypeOK, NEW p \in Calls, CleanCodes(p)
  PROVE  Moves(p, "insert", None, now, FALSE)
<1>1. call \in [Calls -> CallType]
  BY DEF CredentialsTypeOK, CallType
<1>2. Goto(p, "insert", None, now, FALSE)
  BY DEF CleanCodes
<1>3. "insert" \in Steps /\ None \in Tokens \cup {None} /\ now \in 0..MaxNow
      /\ (FALSE) \in BOOLEAN
  BY CredentialsAssumption, <1>1
     DEF CredentialsTypeOK, CallType, Steps, Tokens, Accepts, InForce
<1> QED BY <1>1, <1>2, <1>3, GotoMoves

LEMMA InsertIssuedMoves ==
  ASSUME CredentialsTypeOK, NEW p \in Calls, NEW t \in Short, NEW ttl \in TtlRequests,
         InsertIssued(p, t, ttl)
  PROVE  Moves(p, "offer", t, call[p].time, FALSE)
<1>1. call \in [Calls -> CallType]
  BY DEF CredentialsTypeOK, CallType
<1>2. Goto(p, "offer", t, call[p].time, FALSE)
  BY DEF InsertIssued
<1>3. "offer" \in Steps /\ t \in Tokens \cup {None} /\ call[p].time \in 0..MaxNow
      /\ (FALSE) \in BOOLEAN
  BY CredentialsAssumption, <1>1
     DEF CredentialsTypeOK, CallType, Steps, Tokens, Accepts, InForce
<1> QED BY <1>1, <1>2, <1>3, GotoMoves

LEMMA OfferCodeMoves ==
  ASSUME CredentialsTypeOK, NEW p \in Calls, OfferCode(p)
  PROVE  Moves(p, "idle", None, 0, FALSE)
<1>1. call \in [Calls -> CallType]
  BY DEF CredentialsTypeOK, CallType
<1>2. Done(p)
  BY DEF OfferCode
<1> QED BY <1>1, <1>2, DoneMoves

LEMMA DownloadMoves ==
  ASSUME CredentialsTypeOK, NEW p \in Calls, NEW t \in Short, Download(p, t)
  PROVE  Moves(p, "take", t, now, ~Accepts(t))
<1>1. call \in [Calls -> CallType]
  BY DEF CredentialsTypeOK, CallType
<1>2. Goto(p, "take", t, now, ~Accepts(t))
  BY DEF Download
<1>3. "take" \in Steps /\ t \in Tokens \cup {None} /\ now \in 0..MaxNow
      /\ (~Accepts(t)) \in BOOLEAN
  BY CredentialsAssumption, <1>1
     DEF CredentialsTypeOK, CallType, Steps, Tokens, Accepts, InForce
<1> QED BY <1>1, <1>2, <1>3, GotoMoves

LEMMA TakeCodeMoves ==
  ASSUME CredentialsTypeOK, NEW p \in Calls, TakeCode(p),
         codes[call[p].tok] # None /\ InTime(codes[call[p].tok], call[p].time)
  PROVE  Moves(p, "check", call[p].tok, call[p].time, call[p].void)
<1>1. call \in [Calls -> CallType]
  BY DEF CredentialsTypeOK, CallType
<1>2. Goto(p, "check", call[p].tok, call[p].time, call[p].void)
  BY DEF TakeCode
<1>3. "check" \in Steps /\ call[p].tok \in Tokens \cup {None} /\ call[p].time \in 0..MaxNow
      /\ (call[p].void) \in BOOLEAN
  BY CredentialsAssumption, <1>1
     DEF CredentialsTypeOK, CallType, Steps, Tokens, Accepts, InForce
<1> QED BY <1>1, <1>2, <1>3, GotoMoves

LEMMA TakeCodeIdles ==
  ASSUME CredentialsTypeOK, NEW p \in Calls, TakeCode(p),
         ~(codes[call[p].tok] # None /\ InTime(codes[call[p].tok], call[p].time))
  PROVE  Moves(p, "idle", None, 0, FALSE)
<1>1. call \in [Calls -> CallType]
  BY DEF CredentialsTypeOK, CallType
<1>2. Done(p)
  BY DEF TakeCode
<1> QED BY <1>1, <1>2, DoneMoves

LEMMA CheckRowMoves ==
  ASSUME CredentialsTypeOK, NEW p \in Calls, CheckRow(p)
  PROVE  Moves(p, "idle", None, 0, FALSE)
<1>1. call \in [Calls -> CallType]
  BY DEF CredentialsTypeOK, CallType
<1>2. Done(p)
  BY DEF CheckRow
<1> QED BY <1>1, <1>2, DoneMoves

LEMMA CreateEnrollMoves ==
  ASSUME CredentialsTypeOK, NEW p \in Calls, CreateEnroll(p)
  PROVE  Moves(p, "insertEnroll", None, now, FALSE)
<1>1. call \in [Calls -> CallType]
  BY DEF CredentialsTypeOK, CallType
<1>2. Goto(p, "insertEnroll", None, now, FALSE)
  BY DEF CreateEnroll
<1>3. "insertEnroll" \in Steps /\ None \in Tokens \cup {None} /\ now \in 0..MaxNow
      /\ (FALSE) \in BOOLEAN
  BY CredentialsAssumption, <1>1
     DEF CredentialsTypeOK, CallType, Steps, Tokens, Accepts, InForce
<1> QED BY <1>1, <1>2, <1>3, GotoMoves

LEMMA InsertEnrollMoves ==
  ASSUME CredentialsTypeOK, NEW p \in Calls, NEW t \in Enroll, InsertEnroll(p, t)
  PROVE  Moves(p, "idle", None, 0, FALSE)
<1>1. call \in [Calls -> CallType]
  BY DEF CredentialsTypeOK, CallType
<1>2. Done(p)
  BY DEF InsertEnroll
<1> QED BY <1>1, <1>2, DoneMoves

LEMMA ValidateMoves ==
  ASSUME CredentialsTypeOK, NEW p \in Calls, NEW t \in Enroll, Validate(p, t)
  PROVE  Moves(p, "confirm", t, 0, FALSE)
<1>1. call \in [Calls -> CallType]
  BY DEF CredentialsTypeOK, CallType
<1>2. Goto(p, "confirm", t, 0, FALSE)
  BY DEF Validate
<1>3. "confirm" \in Steps /\ t \in Tokens \cup {None} /\ 0 \in 0..MaxNow
      /\ (FALSE) \in BOOLEAN
  BY CredentialsAssumption, <1>1
     DEF CredentialsTypeOK, CallType, Steps, Tokens, Accepts, InForce
<1> QED BY <1>1, <1>2, <1>3, GotoMoves

LEMMA ConfirmMoves ==
  ASSUME CredentialsTypeOK, NEW p \in Calls, Confirm(p),
         Accepts(call[p].tok)
  PROVE  Moves(p, "consume", call[p].tok, 0, FALSE)
<1>1. call \in [Calls -> CallType]
  BY DEF CredentialsTypeOK, CallType
<1>2. Goto(p, "consume", call[p].tok, 0, FALSE)
  BY DEF Confirm
<1>3. "consume" \in Steps /\ call[p].tok \in Tokens \cup {None} /\ 0 \in 0..MaxNow
      /\ (FALSE) \in BOOLEAN
  BY CredentialsAssumption, <1>1
     DEF CredentialsTypeOK, CallType, Steps, Tokens, Accepts, InForce
<1> QED BY <1>1, <1>2, <1>3, GotoMoves

LEMMA ConfirmIdles ==
  ASSUME CredentialsTypeOK, NEW p \in Calls, Confirm(p),
         ~Accepts(call[p].tok)
  PROVE  Moves(p, "idle", None, 0, FALSE)
<1>1. call \in [Calls -> CallType]
  BY DEF CredentialsTypeOK, CallType
<1>2. Done(p)
  BY DEF Confirm
<1> QED BY <1>1, <1>2, DoneMoves

LEMMA ConsumeMoves ==
  ASSUME CredentialsTypeOK, NEW p \in Calls, Consume(p)
  PROVE  Moves(p, "idle", None, 0, FALSE)
<1>1. call \in [Calls -> CallType]
  BY DEF CredentialsTypeOK, CallType
<1>2. Done(p)
  BY DEF Consume
<1> QED BY <1>1, <1>2, DoneMoves

(* Inserting a row keeps the types of the columns.                           *)
RowsOK ==
  /\ rows \subseteq given /\ never \subseteq given /\ revoked \subseteq given
  /\ used \subseteq given /\ given \subseteq Tokens
  /\ exp \in [Tokens -> -HalfRange..(MaxNow + EnrollMax)]

LEMMA InsertType ==
  ASSUME CredentialsTypeOK, NEW t \in Tokens, NEW permanent \in BOOLEAN,
         NEW e \in -HalfRange..(MaxNow + EnrollMax), Insert(t, e, permanent)
  PROVE  RowsOK' /\ t \in given' /\ given \subseteq given'
BY DEF Insert, CredentialsTypeOK, RowsOK

(* Every step keeps the types.                                               *)
LEMMA TypeStep == IInv /\ [Next]_vars => CredentialsTypeOK'
<1> SUFFICES ASSUME IInv, [Next]_vars PROVE CredentialsTypeOK'
  OBVIOUS
<1>1. ASSUME NEW p \in Calls, Issue(p) PROVE CredentialsTypeOK'
  <2>1. Moves(p, "clean", None, 0, FALSE)
    BY <1>1, IssueMoves DEF IInv
  <2> QED BY CredentialsAssumption, <1>1, <2>1
     DEF IInv, Issue, At, columns, Moves, CallType, CredentialsTypeOK, Tokens, Steps
<1>2. ASSUME NEW p \in Calls, CleanRows(p) PROVE CredentialsTypeOK'
  <2>1. Moves(p, "cleanCodes", None, 0, FALSE)
    BY <1>2, CleanRowsMoves DEF IInv
  <2> QED BY CredentialsAssumption, <1>2, <2>1
     DEF IInv, CleanRows, At, columns, Moves, CallType, CredentialsTypeOK, Tokens, Steps
<1>3. ASSUME NEW p \in Calls, CleanCodes(p) PROVE CredentialsTypeOK'
  <2>1. Moves(p, "insert", None, now, FALSE)
    BY <1>3, CleanCodesMoves DEF IInv
  <2> QED BY CredentialsAssumption, <1>3, <2>1
     DEF IInv, CleanCodes, At, columns, Moves, CallType, CredentialsTypeOK, Tokens,
         Steps
<1>4. ASSUME NEW p \in Calls, NEW t \in Short, NEW ttl \in TtlRequests, InsertIssued(p, t,
             ttl)
      PROVE  CredentialsTypeOK'
  <2>1. Moves(p, "offer", t, call[p].time, FALSE)
    BY <1>4, InsertIssuedMoves DEF IInv
  <2>2. call[p].time + Lifetime(ttl) \in -HalfRange..(MaxNow + EnrollMax)
    <3>1. call[p].time \in 0..MaxNow /\ ttl \in Nat
      BY CredentialsAssumption DEF IInv, CredentialsTypeOK
    <3>2. Lifetime(ttl) \in Nat /\ Lifetime(ttl) <= EnrollMax
      BY <1>4, <3>1, CredentialsAssumption DEF InsertIssued, ValidTTL, Lifetime
    <3> QED BY <3>1, <3>2, CredentialsAssumption
  <2>3. Insert(t, call[p].time + Lifetime(ttl), FALSE)
    BY <1>4 DEF InsertIssued
  <2>4. RowsOK' /\ t \in given'
    BY <2>2, <2>3, InsertType DEF IInv, Tokens
  <2>5. now' = now /\ registered' = registered /\ codes' = codes /\ delivered' = delivered
        /\ given \subseteq given'
    BY <1>4 DEF InsertIssued, Insert
  <2> QED BY <2>1, <2>4, <2>5 DEF IInv, Moves, CallType, CredentialsTypeOK, RowsOK
<1>5. ASSUME NEW p \in Calls, OfferCode(p) PROVE CredentialsTypeOK'
  <2>1. Moves(p, "idle", None, 0, FALSE)
    BY <1>5, OfferCodeMoves DEF IInv
  <2> QED BY CredentialsAssumption, <1>5, <2>1
     DEF IInv, OfferCode, At, columns, Moves, CallType, CredentialsTypeOK, Tokens, Steps
<1>6. ASSUME NEW p \in Calls, NEW t \in Short, Download(p, t) PROVE CredentialsTypeOK'
  <2>1. Moves(p, "take", t, now, ~Accepts(t))
    BY <1>6, DownloadMoves DEF IInv
  <2> QED BY CredentialsAssumption, <1>6, <2>1
     DEF IInv, Download, At, columns, Moves, CallType, CredentialsTypeOK, Tokens, Steps
<1>7. ASSUME NEW p \in Calls, TakeCode(p) PROVE CredentialsTypeOK'
  <2>1. CASE codes[call[p].tok] # None /\ InTime(codes[call[p].tok], call[p].time)
    <3>1. Moves(p, "check", call[p].tok, call[p].time, call[p].void)
      BY <1>7, <2>1, TakeCodeMoves DEF IInv
    <3> QED BY CredentialsAssumption, <1>7, <2>1, <3>1
       DEF IInv, TakeCode, At, columns, Moves, CallType, CredentialsTypeOK, Tokens,
           Steps
  <2>2. CASE ~(codes[call[p].tok] # None /\ InTime(codes[call[p].tok], call[p].time))
    <3>1. Moves(p, "idle", None, 0, FALSE)
      BY <1>7, <2>2, TakeCodeIdles DEF IInv
    <3> QED BY CredentialsAssumption, <1>7, <2>2, <3>1
       DEF IInv, TakeCode, At, columns, Moves, CallType, CredentialsTypeOK, Tokens,
           Steps
  <2> QED BY <2>1, <2>2
<1>8. ASSUME NEW p \in Calls, CheckRow(p) PROVE CredentialsTypeOK'
  <2>1. Moves(p, "idle", None, 0, FALSE)
    BY <1>8, CheckRowMoves DEF IInv
  <2> QED BY CredentialsAssumption, <1>8, <2>1
     DEF IInv, CheckRow, Deliver, At, columns, Moves, CallType, CredentialsTypeOK,
         Tokens, Steps
<1>9. ASSUME NEW p \in Calls, CreateEnroll(p) PROVE CredentialsTypeOK'
  <2>1. Moves(p, "insertEnroll", None, now, FALSE)
    BY <1>9, CreateEnrollMoves DEF IInv
  <2> QED BY CredentialsAssumption, <1>9, <2>1
     DEF IInv, CreateEnroll, At, columns, Moves, CallType, CredentialsTypeOK, Tokens,
         Steps
<1>10. ASSUME NEW p \in Calls, NEW t \in Enroll, InsertEnroll(p, t) PROVE CredentialsTypeOK'
  <2>1. Moves(p, "idle", None, 0, FALSE)
    BY <1>10, InsertEnrollMoves DEF IInv
  <2>2. call[p].time \in 0..MaxNow
    BY DEF IInv, CredentialsTypeOK
  <2>3. PICK e \in -HalfRange..(MaxNow + EnrollMax), permanent \in BOOLEAN :
          Insert(t, e, permanent)
    <3>1. CASE \E d \in ParseTTL : Insert(t, call[p].time + d, FALSE)
      <4>1. PICK d \in ParseTTL : Insert(t, call[p].time + d, FALSE)
        BY <3>1
      <4>2. call[p].time + d \in -HalfRange..(MaxNow + EnrollMax)
        BY <2>2, TTLRange, CredentialsAssumption
      <4> QED BY <4>1, <4>2
    <3>2. CASE Insert(t, call[p].time, TRUE)
      <4>1. call[p].time \in -HalfRange..(MaxNow + EnrollMax)
        BY <2>2, CredentialsAssumption
      <4> QED BY <3>2, <4>1
    <3> QED BY <1>10, <3>1, <3>2 DEF InsertEnroll
  <2>4. RowsOK' /\ given \subseteq given'
    BY <2>3, InsertType DEF IInv, Tokens
  <2>5. now' = now /\ registered' = registered /\ codes' = codes /\ delivered' = delivered
    BY <1>10 DEF InsertEnroll
  <2> QED BY <2>1, <2>4, <2>5 DEF IInv, Moves, CallType, CredentialsTypeOK, RowsOK
<1>11. ASSUME NEW p \in Calls, NEW t \in Enroll, Validate(p, t) PROVE CredentialsTypeOK'
  <2>1. Moves(p, "confirm", t, 0, FALSE)
    BY <1>11, ValidateMoves DEF IInv
  <2> QED BY CredentialsAssumption, <1>11, <2>1
     DEF IInv, Validate, Accepts, InForce, At, columns, Moves, CallType,
         CredentialsTypeOK, Tokens, Steps
<1>12. ASSUME NEW p \in Calls, Confirm(p) PROVE CredentialsTypeOK'
  <2>1. CASE Accepts(call[p].tok)
    <3>1. Moves(p, "consume", call[p].tok, 0, FALSE)
      BY <1>12, <2>1, ConfirmMoves DEF IInv
    <3> QED BY CredentialsAssumption, <1>12, <2>1, <3>1
       DEF IInv, Confirm, At, columns, Moves, CallType, CredentialsTypeOK, Tokens, Steps
  <2>2. CASE ~Accepts(call[p].tok)
    <3>1. Moves(p, "idle", None, 0, FALSE)
      BY <1>12, <2>2, ConfirmIdles DEF IInv
    <3> QED BY CredentialsAssumption, <1>12, <2>2, <3>1
       DEF IInv, Confirm, At, columns, Moves, CallType, CredentialsTypeOK, Tokens, Steps
  <2> QED BY <2>1, <2>2
<1>13. ASSUME NEW p \in Calls, Consume(p) PROVE CredentialsTypeOK'
  <2>1. Moves(p, "idle", None, 0, FALSE)
    BY <1>13, ConsumeMoves DEF IInv
  <2> QED BY CredentialsAssumption, <1>13, <2>1
     DEF IInv, Consume, At, columns, Moves, CallType, CredentialsTypeOK, Tokens, Steps
<1>14. ASSUME NEW t \in Tokens, Revoke(t) PROVE CredentialsTypeOK'
  BY CredentialsAssumption, IdleType, <1>14
     DEF IInv, Revoke, columns, CredentialsTypeOK, Tokens, Steps
<1>15. ASSUME Tick PROVE CredentialsTypeOK'
  BY CredentialsAssumption, IdleType, <1>15
     DEF IInv, Tick, columns, CredentialsTypeOK, Tokens, Steps
<1>16. ASSUME ClusterChanges PROVE CredentialsTypeOK'
  BY CredentialsAssumption, IdleType, <1>16
     DEF IInv, ClusterChanges, columns, CredentialsTypeOK, Tokens, Steps
<1>17. ASSUME Restart PROVE CredentialsTypeOK'
  <2>1. call' \in [Calls -> CallType] /\ \A p \in Calls : call'[p].at = "idle"
    BY <1>17, IdleType DEF Restart
  <2> QED BY <1>17, <2>1 DEF IInv, Restart, columns, CallType, CredentialsTypeOK
<1>18. ASSUME UNCHANGED vars PROVE CredentialsTypeOK'
  BY <1>18 DEF IInv, CredentialsTypeOK, Tokens, Steps, vars, columns
<1> QED BY <1>1, <1>2, <1>3, <1>4, <1>5, <1>6, <1>7, <1>8, <1>9, <1>10, <1>11,
     <1>12, <1>13, <1>14, <1>15, <1>16, <1>17, <1>18
   DEF Next

(* A row that is refused is refused for ever.                                *)
LEMMA VoidStep == IInv /\ [Next]_vars => VoidStaysVoid'
<1> SUFFICES ASSUME IInv, [Next]_vars PROVE VoidStaysVoid'
  OBVIOUS
<1>1. ASSUME NEW p \in Calls, Issue(p) PROVE VoidStaysVoid'
  <2>1. Moves(p, "clean", None, 0, FALSE)
    BY <1>1, IssueMoves DEF IInv
  <2> QED BY CredentialsAssumption, <1>1, <2>1
     DEF IInv, Issue, At, columns, Moves, CallType, CredentialsTypeOK, VoidStaysVoid,
         InForce, Accepts, Tokens
<1>2. ASSUME NEW p \in Calls, CleanRows(p) PROVE VoidStaysVoid'
  <2>1. Moves(p, "cleanCodes", None, 0, FALSE)
    BY <1>2, CleanRowsMoves DEF IInv
  <2> QED BY CredentialsAssumption, <1>2, <2>1
     DEF IInv, CleanRows, At, columns, Moves, CallType, CredentialsTypeOK,
         VoidStaysVoid, InForce, Accepts, Tokens
<1>3. ASSUME NEW p \in Calls, CleanCodes(p) PROVE VoidStaysVoid'
  <2>1. Moves(p, "insert", None, now, FALSE)
    BY <1>3, CleanCodesMoves DEF IInv
  <2> QED BY CredentialsAssumption, <1>3, <2>1
     DEF IInv, CleanCodes, At, columns, Moves, CallType, CredentialsTypeOK,
         VoidStaysVoid, InForce, Accepts, Tokens
<1>4. ASSUME NEW p \in Calls, NEW t \in Short, NEW ttl \in TtlRequests, InsertIssued(p, t,
             ttl)
      PROVE  VoidStaysVoid'
  <2>1. Moves(p, "offer", t, call[p].time, FALSE)
    BY <1>4, InsertIssuedMoves DEF IInv
  <2> QED BY CredentialsAssumption, <1>4, <2>1
     DEF IInv, InsertIssued, Insert, At, columns, Moves, CallType, CredentialsTypeOK,
         VoidStaysVoid, InForce, Accepts, Tokens
<1>5. ASSUME NEW p \in Calls, OfferCode(p) PROVE VoidStaysVoid'
  <2>1. Moves(p, "idle", None, 0, FALSE)
    BY <1>5, OfferCodeMoves DEF IInv
  <2> QED BY CredentialsAssumption, <1>5, <2>1
     DEF IInv, OfferCode, At, columns, Moves, CallType, CredentialsTypeOK,
         VoidStaysVoid, InForce, Accepts, Tokens
<1>6. ASSUME NEW p \in Calls, NEW t \in Short, Download(p, t) PROVE VoidStaysVoid'
  <2>1. Moves(p, "take", t, now, ~Accepts(t))
    BY <1>6, DownloadMoves DEF IInv
  <2> QED BY CredentialsAssumption, <1>6, <2>1
     DEF IInv, Download, At, columns, Moves, CallType, CredentialsTypeOK, VoidStaysVoid,
         InForce, Accepts, Tokens
<1>7. ASSUME NEW p \in Calls, TakeCode(p) PROVE VoidStaysVoid'
  <2>1. CASE codes[call[p].tok] # None /\ InTime(codes[call[p].tok], call[p].time)
    <3>1. Moves(p, "check", call[p].tok, call[p].time, call[p].void)
      BY <1>7, <2>1, TakeCodeMoves DEF IInv
    <3> QED BY CredentialsAssumption, <1>7, <2>1, <3>1
       DEF IInv, TakeCode, At, columns, Moves, CallType, CredentialsTypeOK,
           VoidStaysVoid, InForce, Accepts, Tokens
  <2>2. CASE ~(codes[call[p].tok] # None /\ InTime(codes[call[p].tok], call[p].time))
    <3>1. Moves(p, "idle", None, 0, FALSE)
      BY <1>7, <2>2, TakeCodeIdles DEF IInv
    <3> QED BY CredentialsAssumption, <1>7, <2>2, <3>1
       DEF IInv, TakeCode, At, columns, Moves, CallType, CredentialsTypeOK,
           VoidStaysVoid, InForce, Accepts, Tokens
  <2> QED BY <2>1, <2>2
<1>8. ASSUME NEW p \in Calls, CheckRow(p) PROVE VoidStaysVoid'
  <2>1. Moves(p, "idle", None, 0, FALSE)
    BY <1>8, CheckRowMoves DEF IInv
  <2> QED BY CredentialsAssumption, <1>8, <2>1
     DEF IInv, CheckRow, Deliver, At, columns, Moves, CallType, CredentialsTypeOK,
         VoidStaysVoid, InForce, Accepts, Tokens
<1>9. ASSUME NEW p \in Calls, CreateEnroll(p) PROVE VoidStaysVoid'
  <2>1. Moves(p, "insertEnroll", None, now, FALSE)
    BY <1>9, CreateEnrollMoves DEF IInv
  <2> QED BY CredentialsAssumption, <1>9, <2>1
     DEF IInv, CreateEnroll, At, columns, Moves, CallType, CredentialsTypeOK,
         VoidStaysVoid, InForce, Accepts, Tokens
<1>10. ASSUME NEW p \in Calls, NEW t \in Enroll, InsertEnroll(p, t) PROVE VoidStaysVoid'
  <2>1. Moves(p, "idle", None, 0, FALSE)
    BY <1>10, InsertEnrollMoves DEF IInv
  <2> QED BY CredentialsAssumption, <1>10, <2>1
     DEF IInv, InsertEnroll, Insert, At, columns, Moves, CallType, CredentialsTypeOK,
         VoidStaysVoid, InForce, Accepts, Tokens
<1>11. ASSUME NEW p \in Calls, NEW t \in Enroll, Validate(p, t) PROVE VoidStaysVoid'
  <2>1. Moves(p, "confirm", t, 0, FALSE)
    BY <1>11, ValidateMoves DEF IInv
  <2> QED BY CredentialsAssumption, <1>11, <2>1
     DEF IInv, Validate, At, columns, Moves, CallType, CredentialsTypeOK, VoidStaysVoid,
         InForce, Accepts, Tokens
<1>12. ASSUME NEW p \in Calls, Confirm(p) PROVE VoidStaysVoid'
  <2>1. CASE Accepts(call[p].tok)
    <3>1. Moves(p, "consume", call[p].tok, 0, FALSE)
      BY <1>12, <2>1, ConfirmMoves DEF IInv
    <3> QED BY CredentialsAssumption, <1>12, <2>1, <3>1
       DEF IInv, Confirm, At, columns, Moves, CallType, CredentialsTypeOK,
           VoidStaysVoid, InForce, Accepts, Tokens
  <2>2. CASE ~Accepts(call[p].tok)
    <3>1. Moves(p, "idle", None, 0, FALSE)
      BY <1>12, <2>2, ConfirmIdles DEF IInv
    <3> QED BY CredentialsAssumption, <1>12, <2>2, <3>1
       DEF IInv, Confirm, At, columns, Moves, CallType, CredentialsTypeOK,
           VoidStaysVoid, InForce, Accepts, Tokens
  <2> QED BY <2>1, <2>2
<1>13. ASSUME NEW p \in Calls, Consume(p) PROVE VoidStaysVoid'
  <2>1. Moves(p, "idle", None, 0, FALSE)
    BY <1>13, ConsumeMoves DEF IInv
  <2> QED BY CredentialsAssumption, <1>13, <2>1
     DEF IInv, Consume, At, columns, Moves, CallType, CredentialsTypeOK, VoidStaysVoid,
         InForce, Accepts, Tokens
<1>14. ASSUME NEW t \in Tokens, Revoke(t) PROVE VoidStaysVoid'
  BY CredentialsAssumption, IdleType, <1>14
     DEF IInv, Revoke, columns, CredentialsTypeOK, VoidStaysVoid, InForce, Accepts,
         Tokens
<1>15. ASSUME Tick PROVE VoidStaysVoid'
  BY CredentialsAssumption, IdleType, <1>15
     DEF IInv, Tick, columns, CredentialsTypeOK, VoidStaysVoid, InForce, Accepts, Tokens
<1>16. ASSUME ClusterChanges PROVE VoidStaysVoid'
  BY CredentialsAssumption, IdleType, <1>16
     DEF IInv, ClusterChanges, columns, CredentialsTypeOK, VoidStaysVoid, InForce,
         Accepts, Tokens
<1>17. ASSUME Restart PROVE VoidStaysVoid'
  BY CredentialsAssumption, IdleType, <1>17
     DEF IInv, Restart, columns, CredentialsTypeOK, VoidStaysVoid, InForce, Accepts,
         Tokens
<1>18. ASSUME UNCHANGED vars PROVE VoidStaysVoid'
  BY <1>18
     DEF IInv, CredentialsTypeOK, VoidStaysVoid, InForce, Accepts, Tokens, vars, columns
<1> QED BY <1>1, <1>2, <1>3, <1>4, <1>5, <1>6, <1>7, <1>8, <1>9, <1>10, <1>11,
     <1>12, <1>13, <1>14, <1>15, <1>16, <1>17, <1>18
   DEF Next

(* Only CheckRow delivers.                                                   *)
LEMMA DeliverStep == IInv /\ [Next]_vars => NothingVoidDelivered'
<1> SUFFICES ASSUME IInv, [Next]_vars PROVE NothingVoidDelivered'
  OBVIOUS
<1>1. ASSUME NEW p \in Calls, Issue(p) PROVE NothingVoidDelivered'
  <2>1. Moves(p, "clean", None, 0, FALSE)
    BY <1>1, IssueMoves DEF IInv
  <2> QED BY CredentialsAssumption, <1>1, <2>1
     DEF IInv, Issue, At, columns, Moves, CallType, CredentialsTypeOK, VoidStaysVoid,
         NothingVoidDelivered
<1>2. ASSUME NEW p \in Calls, CleanRows(p) PROVE NothingVoidDelivered'
  <2>1. Moves(p, "cleanCodes", None, 0, FALSE)
    BY <1>2, CleanRowsMoves DEF IInv
  <2> QED BY CredentialsAssumption, <1>2, <2>1
     DEF IInv, CleanRows, At, columns, Moves, CallType, CredentialsTypeOK,
         VoidStaysVoid, NothingVoidDelivered
<1>3. ASSUME NEW p \in Calls, CleanCodes(p) PROVE NothingVoidDelivered'
  <2>1. Moves(p, "insert", None, now, FALSE)
    BY <1>3, CleanCodesMoves DEF IInv
  <2> QED BY CredentialsAssumption, <1>3, <2>1
     DEF IInv, CleanCodes, At, columns, Moves, CallType, CredentialsTypeOK,
         VoidStaysVoid, NothingVoidDelivered
<1>4. ASSUME NEW p \in Calls, NEW t \in Short, NEW ttl \in TtlRequests, InsertIssued(p, t,
             ttl)
      PROVE  NothingVoidDelivered'
  <2>1. Moves(p, "offer", t, call[p].time, FALSE)
    BY <1>4, InsertIssuedMoves DEF IInv
  <2> QED BY CredentialsAssumption, <1>4, <2>1
     DEF IInv, InsertIssued, Insert, At, columns, Moves, CallType, CredentialsTypeOK,
         VoidStaysVoid, NothingVoidDelivered
<1>5. ASSUME NEW p \in Calls, OfferCode(p) PROVE NothingVoidDelivered'
  <2>1. Moves(p, "idle", None, 0, FALSE)
    BY <1>5, OfferCodeMoves DEF IInv
  <2> QED BY CredentialsAssumption, <1>5, <2>1
     DEF IInv, OfferCode, At, columns, Moves, CallType, CredentialsTypeOK,
         VoidStaysVoid, NothingVoidDelivered
<1>6. ASSUME NEW p \in Calls, NEW t \in Short, Download(p, t) PROVE NothingVoidDelivered'
  <2>1. Moves(p, "take", t, now, ~Accepts(t))
    BY <1>6, DownloadMoves DEF IInv
  <2> QED BY CredentialsAssumption, <1>6, <2>1
     DEF IInv, Download, At, columns, Moves, CallType, CredentialsTypeOK, VoidStaysVoid,
         NothingVoidDelivered
<1>7. ASSUME NEW p \in Calls, TakeCode(p) PROVE NothingVoidDelivered'
  <2>1. CASE codes[call[p].tok] # None /\ InTime(codes[call[p].tok], call[p].time)
    <3>1. Moves(p, "check", call[p].tok, call[p].time, call[p].void)
      BY <1>7, <2>1, TakeCodeMoves DEF IInv
    <3> QED BY CredentialsAssumption, <1>7, <2>1, <3>1
       DEF IInv, TakeCode, At, columns, Moves, CallType, CredentialsTypeOK,
           VoidStaysVoid, NothingVoidDelivered
  <2>2. CASE ~(codes[call[p].tok] # None /\ InTime(codes[call[p].tok], call[p].time))
    <3>1. Moves(p, "idle", None, 0, FALSE)
      BY <1>7, <2>2, TakeCodeIdles DEF IInv
    <3> QED BY CredentialsAssumption, <1>7, <2>2, <3>1
       DEF IInv, TakeCode, At, columns, Moves, CallType, CredentialsTypeOK,
           VoidStaysVoid, NothingVoidDelivered
  <2> QED BY <2>1, <2>2
<1>8. ASSUME NEW p \in Calls, CheckRow(p) PROVE NothingVoidDelivered'
  <2>1. Moves(p, "idle", None, 0, FALSE)
    BY <1>8, CheckRowMoves DEF IInv
  <2> QED BY CredentialsAssumption, <1>8, <2>1
     DEF IInv, CheckRow, Deliver, At, columns, Moves, CallType, CredentialsTypeOK,
         VoidStaysVoid, NothingVoidDelivered
<1>9. ASSUME NEW p \in Calls, CreateEnroll(p) PROVE NothingVoidDelivered'
  <2>1. Moves(p, "insertEnroll", None, now, FALSE)
    BY <1>9, CreateEnrollMoves DEF IInv
  <2> QED BY CredentialsAssumption, <1>9, <2>1
     DEF IInv, CreateEnroll, At, columns, Moves, CallType, CredentialsTypeOK,
         VoidStaysVoid, NothingVoidDelivered
<1>10. ASSUME NEW p \in Calls, NEW t \in Enroll, InsertEnroll(p, t)
       PROVE  NothingVoidDelivered'
  <2>1. Moves(p, "idle", None, 0, FALSE)
    BY <1>10, InsertEnrollMoves DEF IInv
  <2> QED BY CredentialsAssumption, <1>10, <2>1
     DEF IInv, InsertEnroll, Insert, At, columns, Moves, CallType, CredentialsTypeOK,
         VoidStaysVoid, NothingVoidDelivered
<1>11. ASSUME NEW p \in Calls, NEW t \in Enroll, Validate(p, t) PROVE NothingVoidDelivered'
  <2>1. Moves(p, "confirm", t, 0, FALSE)
    BY <1>11, ValidateMoves DEF IInv
  <2> QED BY CredentialsAssumption, <1>11, <2>1
     DEF IInv, Validate, Accepts, InForce, At, columns, Moves, CallType,
         CredentialsTypeOK, VoidStaysVoid, NothingVoidDelivered
<1>12. ASSUME NEW p \in Calls, Confirm(p) PROVE NothingVoidDelivered'
  <2>1. CASE Accepts(call[p].tok)
    <3>1. Moves(p, "consume", call[p].tok, 0, FALSE)
      BY <1>12, <2>1, ConfirmMoves DEF IInv
    <3> QED BY CredentialsAssumption, <1>12, <2>1, <3>1
       DEF IInv, Confirm, At, columns, Moves, CallType, CredentialsTypeOK,
           VoidStaysVoid, NothingVoidDelivered
  <2>2. CASE ~Accepts(call[p].tok)
    <3>1. Moves(p, "idle", None, 0, FALSE)
      BY <1>12, <2>2, ConfirmIdles DEF IInv
    <3> QED BY CredentialsAssumption, <1>12, <2>2, <3>1
       DEF IInv, Confirm, At, columns, Moves, CallType, CredentialsTypeOK,
           VoidStaysVoid, NothingVoidDelivered
  <2> QED BY <2>1, <2>2
<1>13. ASSUME NEW p \in Calls, Consume(p) PROVE NothingVoidDelivered'
  <2>1. Moves(p, "idle", None, 0, FALSE)
    BY <1>13, ConsumeMoves DEF IInv
  <2> QED BY CredentialsAssumption, <1>13, <2>1
     DEF IInv, Consume, At, columns, Moves, CallType, CredentialsTypeOK, VoidStaysVoid,
         NothingVoidDelivered
<1>14. ASSUME NEW t \in Tokens, Revoke(t) PROVE NothingVoidDelivered'
  BY CredentialsAssumption, IdleType, <1>14
     DEF IInv, Revoke, columns, CredentialsTypeOK, VoidStaysVoid, NothingVoidDelivered
<1>15. ASSUME Tick PROVE NothingVoidDelivered'
  BY CredentialsAssumption, IdleType, <1>15
     DEF IInv, Tick, columns, CredentialsTypeOK, VoidStaysVoid, NothingVoidDelivered
<1>16. ASSUME ClusterChanges PROVE NothingVoidDelivered'
  BY CredentialsAssumption, IdleType, <1>16
     DEF IInv, ClusterChanges, columns, CredentialsTypeOK, VoidStaysVoid,
         NothingVoidDelivered
<1>17. ASSUME Restart PROVE NothingVoidDelivered'
  BY CredentialsAssumption, IdleType, <1>17
     DEF IInv, Restart, columns, CredentialsTypeOK, VoidStaysVoid, NothingVoidDelivered
<1>18. ASSUME UNCHANGED vars PROVE NothingVoidDelivered'
  BY <1>18 DEF IInv, CredentialsTypeOK, VoidStaysVoid, NothingVoidDelivered, vars, columns
<1> QED BY <1>1, <1>2, <1>3, <1>4, <1>5, <1>6, <1>7, <1>8, <1>9, <1>10, <1>11,
     <1>12, <1>13, <1>14, <1>15, <1>16, <1>17, <1>18
   DEF Next

(* No code is at two places.                                                 *)
LEMMA CodeStep == IInv /\ [Next]_vars => OneCode'
<1> SUFFICES ASSUME IInv, [Next]_vars PROVE OneCode'
  OBVIOUS
<1>1. ASSUME NEW p \in Calls, Issue(p) PROVE OneCode'
  <2>1. Moves(p, "clean", None, 0, FALSE)
    BY <1>1, IssueMoves DEF IInv
  <2> QED BY CredentialsAssumption, <1>1, <2>1
     DEF IInv, Issue, At, columns, Moves, CallType, CredentialsTypeOK, OneCode, Holds
<1>2. ASSUME NEW p \in Calls, CleanRows(p) PROVE OneCode'
  <2>1. Moves(p, "cleanCodes", None, 0, FALSE)
    BY <1>2, CleanRowsMoves DEF IInv
  <2> QED BY CredentialsAssumption, <1>2, <2>1
     DEF IInv, CleanRows, At, columns, Moves, CallType, CredentialsTypeOK, OneCode,
         Holds
<1>3. ASSUME NEW p \in Calls, CleanCodes(p) PROVE OneCode'
  <2>1. Moves(p, "insert", None, now, FALSE)
    BY <1>3, CleanCodesMoves DEF IInv
  <2> QED BY CredentialsAssumption, <1>3, <2>1
     DEF IInv, CleanCodes, At, columns, Moves, CallType, CredentialsTypeOK, OneCode,
         Holds
<1>4. ASSUME NEW p \in Calls, NEW t \in Short, NEW ttl \in TtlRequests, InsertIssued(p, t,
             ttl)
      PROVE  OneCode'
  <2>1. Moves(p, "offer", t, call[p].time, FALSE)
    BY <1>4, InsertIssuedMoves DEF IInv
  <2> QED BY CredentialsAssumption, <1>4, <2>1
     DEF IInv, InsertIssued, Insert, At, columns, Moves, CallType, CredentialsTypeOK,
         OneCode, Holds
<1>5. ASSUME NEW p \in Calls, OfferCode(p) PROVE OneCode'
  <2>1. Moves(p, "idle", None, 0, FALSE)
    BY <1>5, OfferCodeMoves DEF IInv
  <2> QED BY CredentialsAssumption, <1>5, <2>1
     DEF IInv, OfferCode, At, columns, Moves, CallType, CredentialsTypeOK, OneCode,
         Holds
<1>6. ASSUME NEW p \in Calls, NEW t \in Short, Download(p, t) PROVE OneCode'
  <2>1. Moves(p, "take", t, now, ~Accepts(t))
    BY <1>6, DownloadMoves DEF IInv
  <2> QED BY CredentialsAssumption, <1>6, <2>1
     DEF IInv, Download, At, columns, Moves, CallType, CredentialsTypeOK, OneCode, Holds
<1>7. ASSUME NEW p \in Calls, TakeCode(p) PROVE OneCode'
  <2>1. call[p].tok \in Short \cap given /\ call[p].at = "take"
    BY <1>7 DEF TakeCode, At, IInv, CredentialsTypeOK
  <2>2. /\ given' = given /\ delivered' = delivered /\ codes'[call[p].tok] = None
        /\ \A t \in Short : t # call[p].tok => codes'[t] = codes[t]
    BY <1>7, <2>1 DEF TakeCode, columns, IInv, CredentialsTypeOK
  <2>3. CASE codes[call[p].tok] # None /\ InTime(codes[call[p].tok], call[p].time)
    <3>1. Moves(p, "check", call[p].tok, call[p].time, call[p].void)
      BY <1>7, <2>3, TakeCodeMoves DEF IInv
    <3>2. /\ \A q \in Calls : ~Holds(q, call[p].tok)
          /\ \A d \in delivered : d.tok # call[p].tok
      BY <2>1, <2>3 DEF IInv, OneCode
    <3>3. \A q \in Calls, t \in Short :
            Holds(q, t)' <=> Holds(q, t) \/ (q = p /\ t = call[p].tok)
      BY <2>1, <3>1, <3>2 DEF Moves, Holds
    <3>4. /\ \A t \in Short : codes'[t] # None => t \in given'
          /\ \A d \in delivered' : d.tok \in given' /\ codes'[d.tok] = None
      BY <2>1, <2>2 DEF IInv, OneCode, CredentialsTypeOK
    <3>5. \A d \in delivered' : \A q \in Calls : ~Holds(q, d.tok)'
      BY <2>1, <2>2, <3>2, <3>3 DEF IInv, OneCode, CredentialsTypeOK
    <3>6. \A q \in Calls, t \in Short : Holds(q, t)' =>
            codes'[t] = None /\ \A r \in Calls : Holds(r, t)' => r = q
      BY <2>1, <2>2, <3>2, <3>3 DEF IInv, OneCode
    <3> QED BY <3>4, <3>5, <3>6 DEF OneCode
  <2>4. CASE ~(codes[call[p].tok] # None /\ InTime(codes[call[p].tok], call[p].time))
    <3>1. Moves(p, "idle", None, 0, FALSE)
      BY <1>7, <2>4, TakeCodeIdles DEF IInv
    <3>2. \A q \in Calls, t \in Short : Holds(q, t)' <=> Holds(q, t)
      BY <2>1, <3>1 DEF Moves, Holds
    <3>3. /\ \A t \in Short : codes'[t] # None => t \in given'
          /\ \A d \in delivered' : d.tok \in given' /\ codes'[d.tok] = None
      BY <2>1, <2>2 DEF IInv, OneCode, CredentialsTypeOK
    <3>4. \A d \in delivered' : \A q \in Calls : ~Holds(q, d.tok)'
      BY <2>2, <3>2 DEF IInv, OneCode, CredentialsTypeOK
    <3>5. \A q \in Calls, t \in Short : Holds(q, t)' =>
            codes'[t] = None /\ \A r \in Calls : Holds(r, t)' => r = q
      BY <2>1, <2>2, <3>2 DEF IInv, OneCode
    <3> QED BY <3>3, <3>4, <3>5 DEF OneCode
  <2> QED BY <2>3, <2>4
<1>8. ASSUME NEW p \in Calls, CheckRow(p) PROVE OneCode'
  <2>1. Moves(p, "idle", None, 0, FALSE)
    BY <1>8, CheckRowMoves DEF IInv
  <2> QED BY CredentialsAssumption, <1>8, <2>1
     DEF IInv, CheckRow, Deliver, At, columns, Moves, CallType, CredentialsTypeOK,
         OneCode, Holds
<1>9. ASSUME NEW p \in Calls, CreateEnroll(p) PROVE OneCode'
  <2>1. Moves(p, "insertEnroll", None, now, FALSE)
    BY <1>9, CreateEnrollMoves DEF IInv
  <2> QED BY CredentialsAssumption, <1>9, <2>1
     DEF IInv, CreateEnroll, At, columns, Moves, CallType, CredentialsTypeOK, OneCode,
         Holds
<1>10. ASSUME NEW p \in Calls, NEW t \in Enroll, InsertEnroll(p, t) PROVE OneCode'
  <2>1. Moves(p, "idle", None, 0, FALSE)
    BY <1>10, InsertEnrollMoves DEF IInv
  <2> QED BY CredentialsAssumption, <1>10, <2>1
     DEF IInv, InsertEnroll, Insert, At, columns, Moves, CallType, CredentialsTypeOK,
         OneCode, Holds
<1>11. ASSUME NEW p \in Calls, NEW t \in Enroll, Validate(p, t) PROVE OneCode'
  <2>1. Moves(p, "confirm", t, 0, FALSE)
    BY <1>11, ValidateMoves DEF IInv
  <2> QED BY CredentialsAssumption, <1>11, <2>1
     DEF IInv, Validate, Accepts, InForce, At, columns, Moves, CallType,
         CredentialsTypeOK, OneCode, Holds
<1>12. ASSUME NEW p \in Calls, Confirm(p) PROVE OneCode'
  <2>1. CASE Accepts(call[p].tok)
    <3>1. Moves(p, "consume", call[p].tok, 0, FALSE)
      BY <1>12, <2>1, ConfirmMoves DEF IInv
    <3> QED BY CredentialsAssumption, <1>12, <2>1, <3>1
       DEF IInv, Confirm, At, columns, Moves, CallType, CredentialsTypeOK, OneCode,
           Holds
  <2>2. CASE ~Accepts(call[p].tok)
    <3>1. Moves(p, "idle", None, 0, FALSE)
      BY <1>12, <2>2, ConfirmIdles DEF IInv
    <3> QED BY CredentialsAssumption, <1>12, <2>2, <3>1
       DEF IInv, Confirm, At, columns, Moves, CallType, CredentialsTypeOK, OneCode,
           Holds
  <2> QED BY <2>1, <2>2
<1>13. ASSUME NEW p \in Calls, Consume(p) PROVE OneCode'
  <2>1. Moves(p, "idle", None, 0, FALSE)
    BY <1>13, ConsumeMoves DEF IInv
  <2> QED BY CredentialsAssumption, <1>13, <2>1
     DEF IInv, Consume, At, columns, Moves, CallType, CredentialsTypeOK, OneCode, Holds
<1>14. ASSUME NEW t \in Tokens, Revoke(t) PROVE OneCode'
  BY CredentialsAssumption, IdleType, <1>14
     DEF IInv, Revoke, columns, CredentialsTypeOK, OneCode, Holds
<1>15. ASSUME Tick PROVE OneCode'
  BY CredentialsAssumption, IdleType, <1>15
     DEF IInv, Tick, columns, CredentialsTypeOK, OneCode, Holds
<1>16. ASSUME ClusterChanges PROVE OneCode'
  BY CredentialsAssumption, IdleType, <1>16
     DEF IInv, ClusterChanges, columns, CredentialsTypeOK, OneCode, Holds
<1>17. ASSUME Restart PROVE OneCode'
  BY CredentialsAssumption, IdleType, <1>17
     DEF IInv, Restart, columns, CredentialsTypeOK, OneCode, Holds
<1>18. ASSUME UNCHANGED vars PROVE OneCode'
  BY <1>18 DEF IInv, CredentialsTypeOK, OneCode, Holds, vars, columns
<1> QED BY <1>1, <1>2, <1>3, <1>4, <1>5, <1>6, <1>7, <1>8, <1>9, <1>10, <1>11,
     <1>12, <1>13, <1>14, <1>15, <1>16, <1>17, <1>18
   DEF Next

LEMMA Initially == Init => IInv
<1> SUFFICES ASSUME Init PROVE IInv
  OBVIOUS
<1>1. call \in [Calls -> CallType] /\ \A p \in Calls : call[p].at = "idle"
  BY IdleType DEF Init
<1>2. CredentialsTypeOK
  BY <1>1, CredentialsAssumption DEF Init, CredentialsTypeOK, CallType
<1> QED BY <1>1, <1>2
   DEF Init, IInv, VoidStaysVoid, NothingVoidDelivered, OneCode, Holds

LEMMA Invariant == Spec => []IInv
<1>1. IInv /\ [Next]_vars => IInv'
  BY TypeStep, VoidStep, DeliverStep, CodeStep DEF IInv
<1> QED BY Initially, <1>1, PTL DEF Spec

(* No step gives a token a row again, lifts a revocation or puts off an end. *)
RowsOnlyShrink ==
  /\ now' \in Nat /\ now' >= now
  /\ \A t \in given :
       /\ t \in rows' => t \in rows
       /\ t \in revoked => t \in revoked'
       /\ t \in never' => t \in never
       /\ exp'[t] = exp[t]

LEMMA RowsStep == IInv /\ [Next]_vars => RowsOnlyShrink
<1> SUFFICES ASSUME IInv, [Next]_vars PROVE RowsOnlyShrink
  OBVIOUS
<1> USE CredentialsAssumption DEF IInv, CredentialsTypeOK, RowsOnlyShrink, columns
<1>1. ASSUME NEW p \in Calls, Issue(p) PROVE RowsOnlyShrink
  BY <1>1 DEF Issue
<1>2. ASSUME NEW p \in Calls, CleanRows(p) PROVE RowsOnlyShrink
  BY <1>2 DEF CleanRows
<1>3. ASSUME NEW p \in Calls, CleanCodes(p) PROVE RowsOnlyShrink
  BY <1>3 DEF CleanCodes
<1>4. ASSUME NEW p \in Calls, NEW t \in Short, NEW ttl \in TtlRequests, InsertIssued(p, t,
             ttl)
      PROVE  RowsOnlyShrink
  BY <1>4 DEF InsertIssued, Insert
<1>5. ASSUME NEW p \in Calls, OfferCode(p) PROVE RowsOnlyShrink
  BY <1>5 DEF OfferCode
<1>6. ASSUME NEW p \in Calls, NEW t \in Short, Download(p, t) PROVE RowsOnlyShrink
  BY <1>6 DEF Download
<1>7. ASSUME NEW p \in Calls, TakeCode(p) PROVE RowsOnlyShrink
  BY <1>7 DEF TakeCode
<1>8. ASSUME NEW p \in Calls, CheckRow(p) PROVE RowsOnlyShrink
  BY <1>8 DEF CheckRow
<1>9. ASSUME NEW p \in Calls, CreateEnroll(p) PROVE RowsOnlyShrink
  BY <1>9 DEF CreateEnroll
<1>10. ASSUME NEW p \in Calls, NEW t \in Enroll, InsertEnroll(p, t) PROVE RowsOnlyShrink
  BY <1>10 DEF InsertEnroll, Insert
<1>11. ASSUME NEW p \in Calls, NEW t \in Enroll, Validate(p, t) PROVE RowsOnlyShrink
  BY <1>11 DEF Validate
<1>12. ASSUME NEW p \in Calls, Confirm(p) PROVE RowsOnlyShrink
  BY <1>12 DEF Confirm
<1>13. ASSUME NEW p \in Calls, Consume(p) PROVE RowsOnlyShrink
  BY <1>13 DEF Consume
<1>14. ASSUME NEW t \in Tokens, Revoke(t) PROVE RowsOnlyShrink
  BY <1>14 DEF Revoke
<1>15. ASSUME Tick PROVE RowsOnlyShrink
  BY <1>15 DEF Tick
<1>16. ASSUME ClusterChanges PROVE RowsOnlyShrink
  BY <1>16 DEF ClusterChanges
<1>17. ASSUME Restart PROVE RowsOnlyShrink
  BY <1>17 DEF Restart
<1>18. ASSUME UNCHANGED vars PROVE RowsOnlyShrink
  BY <1>18 DEF vars
<1> QED BY <1>1, <1>2, <1>3, <1>4, <1>5, <1>6, <1>7, <1>8, <1>9, <1>10, <1>11,
     <1>12, <1>13, <1>14, <1>15, <1>16, <1>17, <1>18
   DEF Next

-------------------------------------------------------------------------------
(* The refinement.                                                           *)
Spent(t) == \E d \in delivered : d.tok = t

LEMMA PhaseIs ==
  ASSUME NEW t \in Short
  PROVE  phase[t] = IF Spent(t) THEN "redeemed"
                    ELSE IF codes[t] # None THEN "open"
                    ELSE IF HeldBy("check", t) THEN "taken"
                    ELSE IF t \in given /\ ~HeldBy("offer", t) THEN "void" ELSE "unused"
BY DEF phase, Spent

LEMMA PhaseWillBe ==
  ASSUME NEW t \in Short
  PROVE  phase'[t] = IF Spent(t)' THEN "redeemed"
                     ELSE IF codes'[t] # None THEN "open"
                     ELSE IF HeldBy("check", t)' THEN "taken"
                     ELSE IF t \in given' /\ ~HeldBy("offer", t)' THEN "void" ELSE "unused"
BY DEF phase, Spent

(* Vouchers that only become void, or none at all.                           *)
LEMMA SpoilMapped ==

         ASSUME \A t \in Short : phase'[t] = phase[t] \/ (phase'[t] = "void" /\ phase[t] # "redeemed")
  PROVE  Promise!Next
<1> DEFINE V == {t \in Short : phase'[t] # phase[t]}
<1>1. phase' = [t \in Short |-> phase'[t]]
  BY DEF phase
<1>2. \A t \in Short : phase'[t] = IF t \in V THEN "void" ELSE phase[t]
  OBVIOUS
<1>3. phase' = [t \in Short |-> IF t \in V THEN "void" ELSE phase[t]]
  BY <1>1, <1>2
<1>4. \A t \in V : phase[t] # "redeemed"
  OBVIOUS
<1>5. V \in SUBSET Short
  OBVIOUS
<1> HIDE DEF V, phase
<1>6. Promise!Spoil(V)
  BY <1>3, <1>4 DEF Promise!Spoil
<1> QED BY <1>5, <1>6 DEF Promise!Next

(* One voucher that moves.                                                   *)
LEMMA MoveMapped ==
  ASSUME NEW t \in Short, NEW from, NEW to, phase[t] = from, phase'[t] = to,
         \A s \in Short : s # t => phase'[s] = phase[s]
  PROVE  Promise!Move(t, from, to)
<1>1. phase' = [s \in Short |-> phase'[s]] /\ phase = [s \in Short |-> phase[s]]
  BY DEF phase
<1>2. phase' = [phase EXCEPT ![t] = to]
  <2> HIDE DEF phase
  <2> QED BY <1>1
<1> QED BY <1>2 DEF Promise!Move

Quiet ==
  /\ codes' = codes /\ delivered' = delivered
  /\ \A t \in Short : /\ t \in given' <=> t \in given
                      /\ HeldBy("check", t)' <=> HeldBy("check", t)
                      /\ HeldBy("offer", t)' <=> HeldBy("offer", t)

LEMMA QuietMapped == ASSUME Quiet PROVE Promise!Next
<1>1. \A t \in Short : Spent(t)' <=> Spent(t)
  BY DEF Quiet, Spent
<1>2. \A t \in Short : phase'[t] = phase[t]
  <2> HIDE DEF phase
  <2> QED BY <1>1, PhaseIs, PhaseWillBe DEF Quiet
<1> HIDE DEF phase
<1> QED BY <1>2, SpoilMapped

(* OneCode and uniqueness in the words of HeldBy.                            *)
LEMMA Places ==
  ASSUME IInv, NEW t \in Short
  PROVE  /\ codes[t] # None =>
               t \in given /\ ~Spent(t) /\ ~HeldBy("check", t) /\ ~HeldBy("offer", t)
         /\ HeldBy("check", t) =>
               t \in given /\ codes[t] = None /\ ~Spent(t) /\ ~HeldBy("offer", t)
         /\ HeldBy("offer", t) =>
               t \in given /\ codes[t] = None /\ ~Spent(t) /\ ~HeldBy("check", t)
         /\ Spent(t) => t \in given /\ codes[t] = None
BY DEF IInv, OneCode, Holds, HeldBy, At, Spent, CredentialsTypeOK

LEMMA Mapped == IInv /\ [Next]_vars => [Promise!Next]_phase
<1> SUFFICES ASSUME IInv, [Next]_vars PROVE Promise!Next
  OBVIOUS
<1> HIDE DEF phase
<1>1. ASSUME NEW p \in Calls, Issue(p) PROVE Promise!Next
  <2>1. Moves(p, "clean", None, 0, FALSE)
    BY <1>1, IssueMoves DEF IInv
  <2>2. Quiet
    BY <1>1, <2>1, CredentialsAssumption
       DEF Issue, Quiet, At, HeldBy, Moves, columns
  <2> QED BY <2>2, QuietMapped
<1>2. ASSUME NEW p \in Calls, CleanRows(p) PROVE Promise!Next
  <2>1. Moves(p, "cleanCodes", None, 0, FALSE)
    BY <1>2, CleanRowsMoves DEF IInv
  <2>2. Quiet
    BY <1>2, <2>1, CredentialsAssumption
       DEF CleanRows, Quiet, At, HeldBy, Moves, columns
  <2> QED BY <2>2, QuietMapped
<1>3. ASSUME NEW p \in Calls, CleanCodes(p) PROVE Promise!Next
  <2>1. Moves(p, "insert", None, now, FALSE)
    BY <1>3, CleanCodesMoves DEF IInv
  <2>2. /\ delivered' = delivered /\ given' = given /\ call[p].at = "cleanCodes"
        /\ \A t \in Short : codes'[t] = codes[t] \/ codes'[t] = None
    BY <1>3 DEF CleanCodes, columns, At
  <2>3. \A t \in Short : /\ HeldBy("check", t)' <=> HeldBy("check", t)
                         /\ HeldBy("offer", t)' <=> HeldBy("offer", t)
    BY <2>1, <2>2 DEF Moves, HeldBy, At
  <2>4. \A t \in Short : Spent(t)' <=> Spent(t)
    BY <2>2 DEF Spent
  <2>5. ASSUME NEW t \in Short
        PROVE  phase'[t] = phase[t] \/ (phase'[t] = "void" /\ phase[t] # "redeemed")
    <3>1. CASE codes'[t] = codes[t]
      BY <2>2, <2>3, <2>4, <3>1, PhaseIs, PhaseWillBe
    <3>2. CASE codes'[t] # codes[t]
      BY <2>2, <2>3, <2>4, <3>2, PhaseIs, PhaseWillBe, Places
    <3> QED BY <3>1, <3>2
  <2> QED BY <2>5, SpoilMapped
<1>4. ASSUME NEW p \in Calls, NEW t \in Short, NEW ttl \in TtlRequests, InsertIssued(p, t,
             ttl)
      PROVE  Promise!Next
  <2>1. Moves(p, "offer", t, call[p].time, FALSE) /\ call[p].at = "insert"
    BY <1>4, InsertIssuedMoves DEF IInv, InsertIssued, At
  <2>2. /\ delivered' = delivered /\ codes' = codes /\ t \notin given
        /\ given' = given \cup {t}
    BY <1>4 DEF InsertIssued, Insert
  <2>3. \A s \in Short : Spent(s)' <=> Spent(s)
    BY <2>2 DEF Spent
  <2>4. /\ \A s \in Short : HeldBy("check", s)' <=> HeldBy("check", s)
        /\ \A s \in Short : s # t => (HeldBy("offer", s)' <=> HeldBy("offer", s))
        /\ HeldBy("offer", t)'
    BY <2>1 DEF Moves, HeldBy, At
  <2>5. phase[t] = "unused" /\ phase'[t] = "unused"
    BY <2>2, <2>3, <2>4, Places, PhaseIs, PhaseWillBe
  <2>6. \A s \in Short : s # t => phase'[s] = phase[s]
    BY <2>2, <2>3, <2>4, PhaseIs, PhaseWillBe
  <2> QED BY <2>5, <2>6, SpoilMapped
<1>5. ASSUME NEW p \in Calls, OfferCode(p) PROVE Promise!Next
  <2>0. PICK t \in Short : t = call[p].tok /\ t \in given /\ call[p].at = "offer"
    BY <1>5 DEF IInv, OfferCode, At, CredentialsTypeOK
  <2>1. Moves(p, "idle", None, 0, FALSE) /\ call[p].at = "offer" /\ t \in Short
    BY <2>0, <1>5, OfferCodeMoves DEF IInv, OfferCode, At, CredentialsTypeOK
  <2>2. /\ delivered' = delivered /\ given' = given
        /\ codes'[t] = call[p].time /\ call[p].time # None
        /\ \A s \in Short : s # t => codes'[s] = codes[s]
    BY <2>0, <1>5, <2>1, CredentialsAssumption
       DEF OfferCode, columns, IInv, CredentialsTypeOK
  <2>3. \A s \in Short : Spent(s)' <=> Spent(s)
    BY <2>0, <2>2 DEF Spent
  <2>4. /\ HeldBy("offer", t)
        /\ \A s \in Short : s # t => /\ HeldBy("check", s)' <=> HeldBy("check", s)
                                     /\ HeldBy("offer", s)' <=> HeldBy("offer", s)
    BY <2>0, <2>1 DEF Moves, HeldBy, At
  <2>5. phase[t] = "unused" /\ phase'[t] = "open"
    BY <2>0, <2>1, <2>2, <2>3, <2>4, Places, PhaseIs, PhaseWillBe
  <2>6. \A s \in Short : s # t => phase'[s] = phase[s]
    BY <2>0, <2>2, <2>3, <2>4, PhaseIs, PhaseWillBe
  <2>7. Promise!Move(t, "unused", "open")
    BY <2>0, <2>1, <2>5, <2>6, MoveMapped
  <2> QED BY <2>0, <2>1, <2>7 DEF Promise!Next, Promise!Offer
<1>6. ASSUME NEW p \in Calls, NEW t \in Short, Download(p, t) PROVE Promise!Next
  <2>1. Moves(p, "take", t, now, ~Accepts(t))
    BY <1>6, DownloadMoves DEF IInv
  <2>2. Quiet
    BY <1>6, <2>1, CredentialsAssumption
       DEF Download, Quiet, At, HeldBy, Moves, columns
  <2> QED BY <2>2, QuietMapped
<1>7. ASSUME NEW p \in Calls, TakeCode(p) PROVE Promise!Next
  <2>0. PICK t \in Short : t = call[p].tok /\ t \in given /\ call[p].at = "take"
    BY <1>7 DEF IInv, TakeCode, At, CredentialsTypeOK
  <2>2. /\ delivered' = delivered /\ given' = given /\ codes'[t] = None
        /\ \A s \in Short : s # t => codes'[s] = codes[s]
    BY <2>0, <1>7 DEF TakeCode, columns, IInv, CredentialsTypeOK
  <2>3. \A s \in Short : Spent(s)' <=> Spent(s)
    BY <2>0, <2>2 DEF Spent
  <2>4. CASE codes[call[p].tok] # None /\ InTime(codes[call[p].tok], call[p].time)
    <3>1. Moves(p, "check", call[p].tok, call[p].time, call[p].void)
      BY <2>0, <1>7, <2>4, TakeCodeMoves DEF IInv
    <3>2. /\ HeldBy("check", t)'
          /\ \A s \in Short : s # t => (HeldBy("check", s)' <=> HeldBy("check", s))
          /\ \A s \in Short : HeldBy("offer", s)' <=> HeldBy("offer", s)
      BY <2>0, <3>1 DEF Moves, HeldBy, At
    <3>3. codes[t] # None
      BY <2>0, <2>4
    <3>4. phase[t] = "open"
      BY <2>0, <3>3, Places, PhaseIs
    <3>7. ~Spent(t)'
      BY <2>0, <2>3, <3>3, Places
    <3>8. phase'[t] = "taken"
      BY <2>0, <2>2, <3>2, <3>7, PhaseWillBe
    <3>5. \A s \in Short : s # t => phase'[s] = phase[s]
      BY <2>0, <2>2, <2>3, <3>2, PhaseIs, PhaseWillBe
    <3>6. Promise!Move(t, "open", "taken")
      BY <2>0, <3>4, <3>5, <3>8, MoveMapped
    <3> QED BY <2>0, <3>6 DEF Promise!Next, Promise!Take
  <2>5. CASE ~(codes[call[p].tok] # None /\ InTime(codes[call[p].tok], call[p].time))
    <3>1. Moves(p, "idle", None, 0, FALSE)
      BY <2>0, <1>7, <2>5, TakeCodeIdles DEF IInv
    <3>2. \A s \in Short : /\ HeldBy("check", s)' <=> HeldBy("check", s)
                           /\ HeldBy("offer", s)' <=> HeldBy("offer", s)
      BY <2>0, <3>1 DEF Moves, HeldBy, At
    <3>3. ASSUME NEW s \in Short
          PROVE  phase'[s] = phase[s] \/ (phase'[s] = "void" /\ phase[s] # "redeemed")
      <4>1. CASE codes'[s] = codes[s]
        BY <2>0, <2>2, <2>3, <3>2, <4>1, PhaseIs, PhaseWillBe
      <4>2. CASE codes'[s] # codes[s]
        BY <2>0, <2>2, <2>3, <3>2, <4>2, PhaseIs, PhaseWillBe, Places
      <4> QED BY <2>0, <4>1, <4>2
    <3> QED BY <2>0, <3>3, SpoilMapped
  <2> QED BY <2>0, <2>4, <2>5
<1>8. ASSUME NEW p \in Calls, CheckRow(p) PROVE Promise!Next
  <2>0. PICK t \in Short : t = call[p].tok /\ t \in given /\ call[p].at = "check"
    BY <1>8 DEF IInv, CheckRow, At, CredentialsTypeOK
  <2>1. Moves(p, "idle", None, 0, FALSE) /\ call[p].at = "check" /\ t \in Short
    BY <2>0, <1>8, CheckRowMoves DEF IInv, CheckRow, At, CredentialsTypeOK
  <2>2. given' = given /\ codes' = codes
    BY <2>0, <1>8 DEF CheckRow, columns
  <2>3. HeldBy("check", t)
    BY <2>0, <2>1 DEF HeldBy, At
  <2>4. ~HeldBy("check", t)'
    <3>1. \A q \in Calls : Holds(q, t) => q = p
      BY <2>0, <2>1 DEF IInv, OneCode, Holds
    <3> QED BY <2>0, <2>1, <3>1 DEF HeldBy, At, Moves, Holds
  <2>5. \A s \in Short : /\ s # t => (HeldBy("check", s)' <=> HeldBy("check", s))
                         /\ HeldBy("offer", s)' <=> HeldBy("offer", s)
    BY <2>0, <2>1 DEF Moves, HeldBy, At
  <2>6. \/ delivered' = delivered
        \/ Spent(t)' /\ \A s \in Short : s # t => (Spent(s)' <=> Spent(s))
    <3>1. CASE delivered' = delivered
      BY <2>0, <3>1
    <3>2. CASE Deliver(p)
      <4>1. delivered' = delivered \cup {[tok |-> t, void |-> call[p].void]}
        BY <2>0, <3>2 DEF Deliver
      <4> QED BY <2>0, <4>1 DEF Spent
    <3> QED BY <2>0, <1>8, <3>1, <3>2 DEF CheckRow
  <2>7. phase[t] = "taken"
    BY <2>0, <2>1, <2>3, Places, PhaseIs
  <2>8. CASE delivered' = delivered
    <3>1. \A s \in Short : Spent(s)' <=> Spent(s)
      BY <2>0, <2>8 DEF Spent
    <3>2. phase'[t] = "void"
      <4>1. codes'[t] = None /\ t \in given' /\ ~Spent(t)' /\ ~HeldBy("offer", t)'
        BY <2>0, <2>1, <2>2, <2>3, <2>5, <3>1, Places
      <4> QED BY <2>0, <2>1, <2>4, <4>1, PhaseWillBe
    <3>3. \A s \in Short : s # t => phase'[s] = phase[s]
      BY <2>0, <2>2, <2>5, <3>1, PhaseIs, PhaseWillBe
    <3> QED BY <2>0, <2>7, <3>2, <3>3, SpoilMapped
  <2>9. CASE Spent(t)' /\ \A s \in Short : s # t => (Spent(s)' <=> Spent(s))
    <3>1. phase'[t] = "redeemed"
      BY <2>0, <2>1, <2>9, PhaseWillBe
    <3>2. \A s \in Short : s # t => phase'[s] = phase[s]
      BY <2>0, <2>2, <2>5, <2>9, PhaseIs, PhaseWillBe
    <3>3. Promise!Move(t, "taken", "redeemed")
      BY <2>0, <2>1, <2>7, <3>1, <3>2, MoveMapped
    <3> QED BY <2>0, <2>1, <3>3 DEF Promise!Next, Promise!Redeem
  <2> QED BY <2>0, <2>6, <2>8, <2>9
<1>9. ASSUME NEW p \in Calls, CreateEnroll(p) PROVE Promise!Next
  <2>1. Moves(p, "insertEnroll", None, now, FALSE)
    BY <1>9, CreateEnrollMoves DEF IInv
  <2>2. Quiet
    BY <1>9, <2>1, CredentialsAssumption
       DEF CreateEnroll, Quiet, At, HeldBy, Moves, columns
  <2> QED BY <2>2, QuietMapped
<1>10. ASSUME NEW p \in Calls, NEW t \in Enroll, InsertEnroll(p, t) PROVE Promise!Next
  <2>1. Moves(p, "idle", None, 0, FALSE)
    BY <1>10, InsertEnrollMoves DEF IInv
  <2>2. Quiet
    BY <1>10, <2>1, CredentialsAssumption
       DEF InsertEnroll, Insert, Quiet, At, HeldBy, Moves, columns
  <2> QED BY <2>2, QuietMapped
<1>11. ASSUME NEW p \in Calls, NEW t \in Enroll, Validate(p, t) PROVE Promise!Next
  <2>1. Moves(p, "confirm", t, 0, FALSE)
    BY <1>11, ValidateMoves DEF IInv
  <2>2. Quiet
    BY <1>11, <2>1, CredentialsAssumption
       DEF Validate, Quiet, At, HeldBy, Moves, columns
  <2> QED BY <2>2, QuietMapped
<1>12. ASSUME NEW p \in Calls, Confirm(p) PROVE Promise!Next
  <2>1. CASE Accepts(call[p].tok)
    <3>1. Moves(p, "consume", call[p].tok, 0, FALSE)
      BY <1>12, <2>1, ConfirmMoves DEF IInv
    <3>2. Quiet
      BY <1>12, <3>1 DEF Confirm, Quiet, At, HeldBy, Moves, columns
    <3> QED BY <3>2, QuietMapped
  <2>2. CASE ~Accepts(call[p].tok)
    <3>1. Moves(p, "idle", None, 0, FALSE)
      BY <1>12, <2>2, ConfirmIdles DEF IInv
    <3>2. Quiet
      BY <1>12, <3>1 DEF Confirm, Quiet, At, HeldBy, Moves, columns
    <3> QED BY <3>2, QuietMapped
  <2> QED BY <2>1, <2>2
<1>13. ASSUME NEW p \in Calls, Consume(p) PROVE Promise!Next
  <2>1. Moves(p, "idle", None, 0, FALSE)
    BY <1>13, ConsumeMoves DEF IInv
  <2>2. Quiet
    BY <1>13, <2>1, CredentialsAssumption
       DEF Consume, Quiet, At, HeldBy, Moves, columns
  <2> QED BY <2>2, QuietMapped
<1>14. ASSUME NEW t \in Tokens, Revoke(t) PROVE Promise!Next
  BY <1>14, QuietMapped DEF Revoke, columns, Quiet, HeldBy, At
<1>15. ASSUME Tick PROVE Promise!Next
  BY <1>15, QuietMapped DEF Tick, columns, Quiet, HeldBy, At
<1>16. ASSUME ClusterChanges PROVE Promise!Next
  BY <1>16, QuietMapped DEF ClusterChanges, columns, Quiet, HeldBy, At
<1>17. ASSUME Restart PROVE Promise!Next
  <2>1. /\ \A p \in Calls : call'[p].at = "idle"
        /\ \A t \in Short : codes'[t] = None
        /\ given' = given /\ delivered' = delivered
    BY <1>17, IdleType DEF Restart, columns
  <2>2. \A t \in Short : ~HeldBy("check", t)' /\ ~HeldBy("offer", t)'
    BY <2>1 DEF HeldBy, At
  <2>3. \A t \in Short : Spent(t)' <=> Spent(t)
    BY <2>1 DEF Spent
  <2>4. ASSUME NEW t \in Short
        PROVE  phase'[t] = phase[t] \/ (phase'[t] = "void" /\ phase[t] # "redeemed")
    BY <2>1, <2>2, <2>3, Places, PhaseIs, PhaseWillBe
  <2> QED BY <2>4, SpoilMapped
<1>18. ASSUME UNCHANGED vars PROVE Promise!Next
  BY <1>18, QuietMapped DEF vars, columns, Quiet, HeldBy, At
<1> QED BY <1>1, <1>2, <1>3, <1>4, <1>5, <1>6, <1>7, <1>8, <1>9, <1>10, <1>11,
     <1>12, <1>13, <1>14, <1>15, <1>16, <1>17, <1>18
   DEF Next

-------------------------------------------------------------------------------
(* Every variable keeps its type; in particular no lifetime that parseTTL    *)
(* computes is beyond the maximum.                                           *)
THEOREM TypeCorrect == Spec => []CredentialsTypeOK
BY Invariant, PTL DEF IInv

(* Whatever is revoked, expires or is cleaned away while downloads are under *)
(* way, no kubeconfig is delivered to one that began after that (Download).  *)
THEOREM NothingVoidIsDelivered == Spec => []NothingVoidDelivered
BY Invariant, PTL DEF IInv

(* A refused token stays refused: nothing brings back a row, a revocation or *)
(* a time that has passed (Consume, cleanupExpired, Revoke).                 *)
THEOREM RefusedForGood == Spec => RefusedStaysRefused
<1>1. IInv /\ [Next]_vars =>
        [\A t \in Tokens : t \in given /\ ~Accepts(t) => ~Accepts(t)']_vars
  <2> SUFFICES ASSUME IInv, [Next]_vars, NEW t \in Tokens, t \in given, ~Accepts(t)
               PROVE  ~Accepts(t)'
    OBVIOUS
  <2>1. RowsOnlyShrink
    BY RowsStep
  <2>2. now \in Int /\ exp[t] \in Int
    BY CredentialsAssumption DEF IInv, CredentialsTypeOK
  <2> QED BY <2>1, <2>2 DEF RowsOnlyShrink, Accepts, InForce
<1> QED BY <1>1, Invariant, PTL DEF Spec, RefusedStaysRefused

(* Codes are one-time: Issue, Download, the clean-up and the restarts of the *)
(* server, for any number of tokens and requests, take each code through the *)
(* life of a voucher.                                                        *)
THEOREM CodesImplementVouchers == Spec => CodesAreVouchers
<1>1. Init => Promise!Init
  <2> SUFFICES ASSUME Init PROVE Promise!Init
    OBVIOUS
  <2>1. \A t \in Short : ~Spent(t) /\ codes[t] = None /\ ~HeldBy("check", t) /\ t \notin given
    BY IdleType DEF Init, Spent, HeldBy, At
  <2>2. phase = [t \in Short |-> phase[t]]
    BY DEF phase
  <2> HIDE DEF phase
  <2>3. \A t \in Short : phase[t] = "unused"
    BY <2>1, PhaseIs
  <2> QED BY <2>2, <2>3 DEF Promise!Init
<1> QED BY <1>1, Mapped, Invariant, PTL DEF Spec, CodesAreVouchers, Promise!Spec
================================================================================
