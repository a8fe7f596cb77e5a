---------------------------- MODULE Accounts_proofs ----------------------------
(* Proofs about Accounts: for any ids, names, passwords, tokens and requests. *)
EXTENDS Accounts, TLAPS

RequestType ==
  [at : Steps, op : Ops \cup {None}, user : Ids \cup {None}, row : Row \cup {None},
   from : Tokens \cup {None}]

(* Users that have a row, a session or a request were created.               *)
Known ==
  /\ \A u \in Ids : Exists(u) => u \in created
  /\ \A t \in Tokens : owner[t] # None => owner[t] \in created
  /\ \A p \in Requests : req[p].at # "idle" => req[p].user \in created

(* A request that is going to issue tokens has read an enabled user, and one *)
(* that is going to save a row is no deletion.                               *)
Entitled ==
  \A p \in Requests :
    /\ req[p].at \in {"rotate", "issue"} => req[p].row \in Row /\ ~req[p].row.disabled
    /\ req[p].at = "save" => req[p].op # "delete"

(* A Refresh holds a token that is not recycled, and it issues another one   *)
(* only after it has revoked the one it was given.                           *)
Exchanged ==
  \A p \in Requests : req[p].from # None =>
    /\ refresh[req[p].from] # "free"
    /\ req[p].at = "issue" => refresh[req[p].from] = "revoked"

(* A token that was exchanged once is revoked and nobody holds it; one that  *)
(* two calls hold was marked when the second of them read it.                *)
Uses ==
  /\ \A t \in Tokens :
       /\ use[t] # "again"
       /\ use[t] = "once" => refresh[t] = "revoked" /\ \A p \in Requests : req[p].from # t
  /\ \A p, q \in Requests :
       p # q /\ req[p].from # None /\ req[q].from = req[p].from => use[req[p].from] = "shared"

IInv ==
  /\ AccountsTypeOK /\ Known /\ Entitled /\ Exchanged
  /\ SessionsFollowRow /\ Uses

-------------------------------------------------------------------------------
(* The request p moves on, no other does.                                    *)
Moves(p, a, o, u, x, f) ==
  /\ req' \in [Requests -> RequestType]
  /\ req'[p].at = a /\ req'[p].op = o /\ req'[p].user = u /\ req'[p].row = x
  /\ req'[p].from = f
  /\ \A q \in Requests : q # p => req'[q] = req[q]

LEMMA BusyMoves ==
  ASSUME req \in [Requests -> RequestType], NEW p \in Requests,
         NEW r \in RequestType, Busy(p, r)
  PROVE  Moves(p, r.at, r.op, r.user, r.row, r.from)
BY DEF Busy, Moves

LEMMA IdleFields ==
  /\ Idle \in RequestType
  /\ Idle.at = "idle" /\ Idle.op = None /\ Idle.user = None
  /\ Idle.row = None /\ Idle.from = None
BY DEF Idle, RequestType, Steps

LEMMA DoneMoves ==
  ASSUME req \in [Requests -> RequestType], NEW p \in Requests, Done(p)
  PROVE  Moves(p, "idle", None, None, None, None)
<1>1. req' \in [Requests -> RequestType] /\ req'[p] = Idle
      /\ \A q \in Requests : q # p => req'[q] = req[q]
  BY IdleFields DEF Done, Busy
<1> QED BY <1>1, IdleFields DEF Moves

LEMMA LoginMoves ==
  ASSUME AccountsTypeOK, NEW p \in Requests, NEW u \in Ids, NEW w \in Passwords, Login(p,
         u, w)
  PROVE  Moves(p, "issue", None, u, row[u], None)
<1> DEFINE r == [Idle EXCEPT !.at = "issue", !.user = u, !.row = row[u]]
<1>0. req \in [Requests -> RequestType] /\ req[p] \in RequestType
  BY DEF AccountsTypeOK, RequestType
<1>1. "issue" \in Steps /\ None \in Ops \cup {None} /\ u \in Ids \cup {None}
      /\ row[u] \in Row \cup {None} /\ None \in Tokens \cup {None}
  BY <1>0 DEF Login, Steps, Ops, AccountsTypeOK, RequestType
<1>2. r \in RequestType
  BY IdleFields, <1>1 DEF RequestType
<1>3. r.at = "issue" /\ r.op = None /\ r.user = u /\ r.row = row[u] /\ r.from = None
  BY IdleFields, <1>1 DEF RequestType
<1>4. Busy(p, r)
  BY DEF Login
<1> HIDE DEF r
<1> QED BY <1>0, <1>2, <1>3, <1>4, BusyMoves

LEMMA RefreshReadMoves ==
  ASSUME AccountsTypeOK, NEW p \in Requests, NEW t \in Tokens, RefreshRead(p, t)
  PROVE  Moves(p, "user", None, owner[t], None, t)
<1> DEFINE r == [Idle EXCEPT !.at = "user", !.user = owner[t], !.from = t]
<1>0. req \in [Requests -> RequestType] /\ req[p] \in RequestType
  BY DEF AccountsTypeOK, RequestType
<1>1. "user" \in Steps /\ None \in Ops \cup {None} /\ owner[t] \in Ids \cup {None}
      /\ None \in Row \cup {None} /\ t \in Tokens \cup {None}
  BY <1>0 DEF RefreshRead, Steps, Ops, AccountsTypeOK, RequestType
<1>2. r \in RequestType
  BY IdleFields, <1>1 DEF RequestType
<1>3. r.at = "user" /\ r.op = None /\ r.user = owner[t] /\ r.row = None /\ r.from = t
  BY IdleFields, <1>1 DEF RequestType
<1>4. Busy(p, r)
  BY DEF RefreshRead
<1> HIDE DEF r
<1> QED BY <1>0, <1>2, <1>3, <1>4, BusyMoves

LEMMA RotateMoves ==
  ASSUME AccountsTypeOK, NEW p \in Requests, RefreshUser(p), Admissible(req[p].user)
  PROVE  Moves(p, "rotate", req[p].op, req[p].user, row[req[p].user], req[p].from)
<1> DEFINE r == [req[p] EXCEPT !.at = "rotate", !.row = row[req[p].user]]
<1>0. req \in [Requests -> RequestType] /\ req[p] \in RequestType
  BY DEF AccountsTypeOK, RequestType
<1>1. "rotate" \in Steps /\ req[p].op \in Ops \cup {None} /\ req[p].user \in Ids \cup {None}
      /\ row[req[p].user] \in Row \cup {None} /\ req[p].from \in Tokens \cup {None}
  BY <1>0 DEF RefreshUser, Steps, Ops, AccountsTypeOK, RequestType
<1>2. r \in RequestType
  BY <1>0, <1>1 DEF RequestType
<1>3. r.at = "rotate" /\ r.op = req[p].op /\ r.user = req[p].user
      /\ r.row = row[req[p].user] /\ r.from = req[p].from
  BY <1>0, <1>1 DEF RequestType
<1>4. Busy(p, r)
  BY DEF RefreshUser
<1> HIDE DEF r
<1> QED BY <1>0, <1>2, <1>3, <1>4, BusyMoves

LEMMA IssueMoves ==
  ASSUME AccountsTypeOK, NEW p \in Requests, Rotate(p)
  PROVE  Moves(p, "issue", req[p].op, req[p].user, req[p].row, req[p].from)
<1> DEFINE r == [req[p] EXCEPT !.at = "issue"]
<1>0. req \in [Requests -> RequestType] /\ req[p] \in RequestType
  BY DEF AccountsTypeOK, RequestType
<1>1. "issue" \in Steps /\ req[p].op \in Ops \cup {None} /\ req[p].user \in Ids \cup {None}
      /\ req[p].row \in Row \cup {None} /\ req[p].from \in Tokens \cup {None}
  BY <1>0 DEF Rotate, Steps, Ops, AccountsTypeOK, RequestType
<1>2. r \in RequestType
  BY <1>0, <1>1 DEF RequestType
<1>3. r.at = "issue" /\ r.op = req[p].op /\ r.user = req[p].user /\ r.row = req[p].row
      /\ r.from = req[p].from
  BY <1>0, <1>1 DEF RequestType
<1>4. Busy(p, r)
  BY DEF Rotate
<1> HIDE DEF r
<1> QED BY <1>0, <1>2, <1>3, <1>4, BusyMoves

LEMMA ReadMoves ==
  ASSUME AccountsTypeOK, NEW p \in Requests, NEW op \in Ops, NEW u \in Ids, Read(p, op, u)
  PROVE  Moves(p, "save", op, u, row[u], None)
<1> DEFINE r == [Idle EXCEPT !.at = "save", !.op = op, !.user = u, !.row = row[u]]
<1>0. req \in [Requests -> RequestType] /\ req[p] \in RequestType
  BY DEF AccountsTypeOK, RequestType
<1>1. "save" \in Steps /\ op \in Ops \cup {None} /\ u \in Ids \cup {None}
      /\ row[u] \in Row \cup {None} /\ None \in Tokens \cup {None}
  BY <1>0 DEF Read, Steps, Ops, AccountsTypeOK, RequestType
<1>2. r \in RequestType
  BY IdleFields, <1>1 DEF RequestType
<1>3. r.at = "save" /\ r.op = op /\ r.user = u /\ r.row = row[u] /\ r.from = None
  BY IdleFields, <1>1 DEF RequestType
<1>4. Busy(p, r)
  BY DEF Read
<1> HIDE DEF r
<1> QED BY <1>0, <1>2, <1>3, <1>4, BusyMoves

LEMMA SaveMoves ==
  ASSUME AccountsTypeOK, NEW p \in Requests, NEW w \in Passwords, UpdateUser(p, w),
         req[p].op # "enable"
  PROVE  Moves(p, "revoke", req[p].op, req[p].user, None, req[p].from)
<1> DEFINE r == [req[p] EXCEPT !.at = "revoke", !.row = None]
<1>0. req \in [Requests -> RequestType] /\ req[p] \in RequestType
  BY DEF AccountsTypeOK, RequestType
<1>1. "revoke" \in Steps /\ req[p].op \in Ops \cup {None} /\ req[p].user \in Ids \cup {None}
      /\ None \in Row \cup {None} /\ req[p].from \in Tokens \cup {None}
  BY <1>0 DEF UpdateUser, AfterSave, Steps, Ops, AccountsTypeOK, RequestType
<1>2. r \in RequestType
  BY <1>0, <1>1 DEF RequestType
<1>3. r.at = "revoke" /\ r.op = req[p].op /\ r.user = req[p].user /\ r.row = None
      /\ r.from = req[p].from
  BY <1>0, <1>1 DEF RequestType
<1>4. Busy(p, r)
  BY DEF UpdateUser, AfterSave
<1> HIDE DEF r
<1> QED BY <1>0, <1>2, <1>3, <1>4, BusyMoves

LEMMA DropMoves ==
  ASSUME AccountsTypeOK, NEW p \in Requests, RevokeAllForUser(p), req[p].op = "delete"
  PROVE  Moves(p, "drop", req[p].op, req[p].user, req[p].row, req[p].from)
<1> DEFINE r == [req[p] EXCEPT !.at = "drop"]
<1>0. req \in [Requests -> RequestType] /\ req[p] \in RequestType
  BY DEF AccountsTypeOK, RequestType
<1>1. "drop" \in Steps /\ req[p].op \in Ops \cup {None} /\ req[p].user \in Ids \cup {None}
      /\ req[p].row \in Row \cup {None} /\ req[p].from \in Tokens \cup {None}
  BY <1>0 DEF RevokeAllForUser, Steps, Ops, AccountsTypeOK, RequestType
<1>2. r \in RequestType
  BY <1>0, <1>1 DEF RequestType
<1>3. r.at = "drop" /\ r.op = req[p].op /\ r.user = req[p].user /\ r.row = req[p].row
      /\ r.from = req[p].from
  BY <1>0, <1>1 DEF RequestType
<1>4. Busy(p, r)
  BY DEF RevokeAllForUser
<1> HIDE DEF r
<1> QED BY <1>0, <1>2, <1>3, <1>4, BusyMoves

LEMMA DeleteMoves ==
  ASSUME AccountsTypeOK, NEW p \in Requests, NEW u \in Ids, DeleteUser(p, u)
  PROVE  Moves(p, "revoke", "delete", u, None, None)
<1> DEFINE r == [Idle EXCEPT !.at = "revoke", !.op = "delete", !.user = u]
<1>0. req \in [Requests -> RequestType] /\ req[p] \in RequestType
  BY DEF AccountsTypeOK, RequestType
<1>1. "revoke" \in Steps /\ "delete" \in Ops \cup {None} /\ u \in Ids \cup {None}
      /\ None \in Row \cup {None} /\ None \in Tokens \cup {None}
  BY <1>0 DEF DeleteUser, Steps, Ops, AccountsTypeOK, RequestType
<1>2. r \in RequestType
  BY IdleFields, <1>1 DEF RequestType
<1>3. r.at = "revoke" /\ r.op = "delete" /\ r.user = u /\ r.row = None /\ r.from = None
  BY IdleFields, <1>1 DEF RequestType
<1>4. Busy(p, r)
  BY DEF DeleteUser
<1> HIDE DEF r
<1> QED BY <1>0, <1>2, <1>3, <1>4, BusyMoves

(* UpdateUser writes one row; enabling keeps the password.                   *)
LEMMA UpdateUserWrites ==
  ASSUME AccountsTypeOK, NEW p \in Requests, NEW w \in Passwords, UpdateUser(p, w)
  PROVE  /\ req[p].user \in Ids
         /\ row' \in [Ids -> Row \cup {None}]
         /\ \A u \in Ids : u # req[p].user => row'[u] = row[u]
         /\ row'[req[p].user] \in Row
         /\ req[p].op = "enable" => /\ row'[req[p].user].pass = req[p].row.pass
                                   /\ ~row'[req[p].user].disabled
<1>1. req[p].user \in Ids /\ req[p].row \in Row
  BY DEF UpdateUser, AccountsTypeOK
<1>2. /\ Written(req[p], w) \in Row
      /\ req[p].op = "enable" => /\ Written(req[p], w).pass = req[p].row.pass
                                /\ ~Written(req[p], w).disabled
  BY <1>1 DEF Written, Row
<1> QED BY <1>1, <1>2 DEF UpdateUser, AccountsTypeOK

(* Every step keeps the types.                                               *)
LEMMA TypeStep == IInv /\ [Next]_vars => AccountsTypeOK'
<1> SUFFICES ASSUME IInv, [Next]_vars PROVE AccountsTypeOK'
  OBVIOUS
<1>1. ASSUME NEW u \in Ids, NEW w \in Passwords, CreateUser(u, w) PROVE AccountsTypeOK'
  BY <1>1 DEF IInv, CreateUser, Row, tokenVars, AccountsTypeOK, Entitled, Exchanged, Steps
<1>2. ASSUME NEW p \in Requests, NEW u \in Ids, NEW w \in Passwords, Login(p, u, w)
      PROVE  AccountsTypeOK'
  <2>1. Moves(p, "issue", None, u, row[u], None)
    BY <1>2, LoginMoves DEF IInv
  <2> QED BY AccountsAssumption, <1>2, <2>1
     DEF IInv, Login, Exists, Moves, RequestType, tokenVars, AccountsTypeOK, Entitled,
         Exchanged, Row, Steps
<1>3. ASSUME NEW p \in Requests, NEW t \in Tokens, RefreshRead(p, t) PROVE AccountsTypeOK'
  <2>1. Moves(p, "user", None, owner[t], None, t)
    BY <1>3, RefreshReadMoves DEF IInv
  <2> QED BY AccountsAssumption, <1>3, <2>1
     DEF IInv, RefreshRead, Live, Moves, RequestType, tokenVars, AccountsTypeOK,
         Entitled, Exchanged, Row, Steps
<1>4. ASSUME NEW p \in Requests, RefreshUser(p) PROVE AccountsTypeOK'
  <2>1. CASE Admissible(req[p].user)
    <3>1. Moves(p, "rotate", req[p].op, req[p].user, row[req[p].user], req[p].from)
      BY <1>4, <2>1, RotateMoves DEF IInv
    <3> QED BY <1>4, <2>1, <3>1
       DEF IInv, RefreshUser, Admissible, Exists, Moves, RequestType, tokenVars,
           AccountsTypeOK, Entitled, Exchanged, Row, Steps
  <2>2. CASE ~Admissible(req[p].user)
    <3>1. Moves(p, "idle", None, None, None, None)
      BY <1>4, <2>2, DoneMoves DEF IInv, RefreshUser, AccountsTypeOK, RequestType
    <3> QED BY <1>4, <2>2, <3>1
       DEF IInv, RefreshUser, Admissible, Exists, Moves, RequestType, tokenVars,
           AccountsTypeOK, Entitled, Exchanged, Row, Steps
  <2> QED BY <2>1, <2>2
<1>5. ASSUME NEW p \in Requests, Rotate(p) PROVE AccountsTypeOK'
  <2>1. Moves(p, "issue", req[p].op, req[p].user, req[p].row, req[p].from)
    BY <1>5, IssueMoves DEF IInv
  <2> QED BY AccountsAssumption, <1>5, <2>1
     DEF IInv, Rotate, Moves, RequestType, tokenVars, AccountsTypeOK, Entitled,
         Exchanged, Row, Steps
<1>6. ASSUME NEW p \in Requests, NEW t \in Tokens, Issue(p, t) PROVE AccountsTypeOK'
  <2>1. Moves(p, "idle", None, None, None, None)
    BY <1>6, DoneMoves DEF IInv, Issue, AccountsTypeOK, RequestType
  <2>2. use' \in [Tokens -> {"never", "once", "again", "shared"}]
    BY <1>6 DEF IInv, AccountsTypeOK, Issue, Reused
  <2> QED BY AccountsAssumption, <1>6, <2>1, <2>2
     DEF IInv, Issue, Moves, RequestType, tokenVars, AccountsTypeOK, Entitled,
         Exchanged, Row, Steps
<1>7. ASSUME NEW p \in Requests, NEW t \in Tokens, Logout(p, t) PROVE AccountsTypeOK'
  BY <1>7 DEF IInv, Logout, tokenVars, AccountsTypeOK, Entitled, Exchanged, Row, Steps
<1>8. ASSUME NEW p \in Requests, NEW op \in Ops \ {"delete"}, NEW u \in Ids, Read(p, op, u)
      PROVE  AccountsTypeOK'
  <2>1. Moves(p, "save", op, u, row[u], None)
    BY <1>8, ReadMoves DEF IInv
  <2> QED BY AccountsAssumption, <1>8, <2>1
     DEF IInv, Read, Exists, Moves, RequestType, tokenVars, AccountsTypeOK, Entitled,
         Exchanged, Row, Steps
<1>9. ASSUME NEW p \in Requests, NEW w \in Passwords, UpdateUser(p, w) PROVE AccountsTypeOK'
  <2>1. CASE req[p].op # "enable"
    <3>1. Moves(p, "revoke", req[p].op, req[p].user, None, req[p].from)
      BY <1>9, <2>1, SaveMoves DEF IInv
    <3>2. /\ req[p].user \in Ids
          /\ row' \in [Ids -> Row \cup {None}]
          /\ \A u \in Ids : u # req[p].user => row'[u] = row[u]
          /\ row'[req[p].user] \in Row
          /\ req[p].op = "enable" => /\ row'[req[p].user].pass = req[p].row.pass
                                    /\ ~row'[req[p].user].disabled
      BY <1>9, UpdateUserWrites DEF IInv
    <3> QED BY <1>9, <2>1, <3>1, <3>2
       DEF IInv, UpdateUser, Exists, Moves, RequestType, tokenVars, AccountsTypeOK,
           Entitled, Exchanged, Row, Steps
  <2>2. CASE req[p].op = "enable"
    <3>1. Moves(p, "idle", None, None, None, None)
      BY <1>9, <2>2, DoneMoves
         DEF IInv, UpdateUser, AccountsTypeOK, RequestType, AfterSave, Done
    <3>2. /\ req[p].user \in Ids
          /\ row' \in [Ids -> Row \cup {None}]
          /\ \A u \in Ids : u # req[p].user => row'[u] = row[u]
          /\ row'[req[p].user] \in Row
          /\ req[p].op = "enable" => /\ row'[req[p].user].pass = req[p].row.pass
                                    /\ ~row'[req[p].user].disabled
      BY <1>9, UpdateUserWrites DEF IInv
    <3> QED BY <1>9, <2>2, <3>1, <3>2
       DEF IInv, UpdateUser, Exists, Moves, RequestType, tokenVars, AccountsTypeOK,
           Entitled, Exchanged, Row, Steps
  <2> QED BY <2>1, <2>2
<1>10. ASSUME NEW p \in Requests, RevokeAllForUser(p) PROVE AccountsTypeOK'
  <2>1. CASE req[p].op = "delete"
    <3>1. Moves(p, "drop", req[p].op, req[p].user, req[p].row, req[p].from)
      BY <1>10, <2>1, DropMoves DEF IInv
    <3> QED BY <1>10, <2>1, <3>1
       DEF IInv, RevokeAllForUser, RevokedFor, Moves, RequestType, tokenVars,
           AccountsTypeOK, Entitled, Exchanged, Row, Steps
  <2>2. CASE req[p].op # "delete"
    <3>1. Moves(p, "idle", None, None, None, None)
      BY <1>10, <2>2, DoneMoves DEF IInv, RevokeAllForUser, AccountsTypeOK, RequestType
    <3> QED BY <1>10, <2>2, <3>1
       DEF IInv, RevokeAllForUser, RevokedFor, Moves, RequestType, tokenVars,
           AccountsTypeOK, Entitled, Exchanged, Row, Steps
  <2> QED BY <2>1, <2>2
<1>11. ASSUME NEW p \in Requests, NEW u \in Ids, DeleteUser(p, u) PROVE AccountsTypeOK'
  <2>1. Moves(p, "revoke", "delete", u, None, None)
    BY <1>11, DeleteMoves DEF IInv
  <2> QED BY AccountsAssumption, <1>11, <2>1
     DEF IInv, DeleteUser, Exists, Moves, RequestType, tokenVars, AccountsTypeOK,
         Entitled, Exchanged, Row, Steps
<1>12. ASSUME NEW p \in Requests, DropUser(p) PROVE AccountsTypeOK'
  <2>1. Moves(p, "idle", None, None, None, None)
    BY <1>12, DoneMoves DEF IInv, DropUser, AccountsTypeOK, RequestType
  <2> QED BY AccountsAssumption, <1>12, <2>1
     DEF IInv, DropUser, Moves, RequestType, tokenVars, AccountsTypeOK, Entitled,
         Exchanged, Row, Steps
<1>13. ASSUME NEW p \in Requests, Fail(p) PROVE AccountsTypeOK'
  <2>1. Moves(p, "idle", None, None, None, None)
    BY <1>13, DoneMoves DEF IInv, Fail, AccountsTypeOK, RequestType
  <2> QED BY AccountsAssumption, <1>13, <2>1
     DEF IInv, Fail, Moves, RequestType, tokenVars, AccountsTypeOK, Entitled, Exchanged,
         Row, Steps
<1>14. ASSUME NEW t \in Tokens, ExpireAccess(t) PROVE AccountsTypeOK'
  BY <1>14
     DEF IInv, ExpireAccess, tokenVars, AccountsTypeOK, Entitled, Exchanged, Row, Steps
<1>15. ASSUME NEW t \in Tokens, ExpireRefresh(t) PROVE AccountsTypeOK'
  BY <1>15
     DEF IInv, ExpireRefresh, Live, tokenVars, AccountsTypeOK, Entitled, Exchanged, Row,
         Steps
<1>16. ASSUME NEW t \in Tokens, Recycle(t) PROVE AccountsTypeOK'
  BY <1>16 DEF IInv, Recycle, tokenVars, AccountsTypeOK, Entitled, Exchanged, Row, Steps
<1>17. ASSUME UNCHANGED vars PROVE AccountsTypeOK'
  BY <1>17 DEF IInv, AccountsTypeOK, Entitled, Exchanged, Row, Steps, vars, tokenVars
<1> QED BY <1>1, <1>2, <1>3, <1>4, <1>5, <1>6, <1>7, <1>8, <1>9, <1>10, <1>11,
     <1>12, <1>13, <1>14, <1>15, <1>16, <1>17
   DEF Next, Continue, DisableUser, EnableUser, ResetPassword, ChangePassword, Ops

(* Rows, sessions and requests stay those of created users.                  *)
LEMMA KnownStep == IInv /\ [Next]_vars => Known'
<1> SUFFICES ASSUME IInv, [Next]_vars PROVE Known'
  OBVIOUS
<1>1. ASSUME NEW u \in Ids, NEW w \in Passwords, CreateUser(u, w) PROVE Known'
  BY <1>1 DEF IInv, CreateUser, Row, tokenVars, AccountsTypeOK, Known, Exists
<1>2. ASSUME NEW p \in Requests, NEW u \in Ids, NEW w \in Passwords, Login(p, u, w)
      PROVE  Known'
  <2>1. Moves(p, "issue", None, u, row[u], None)
    BY <1>2, LoginMoves DEF IInv
  <2> QED BY AccountsAssumption, <1>2, <2>1
     DEF IInv, Login, Exists, Moves, RequestType, tokenVars, AccountsTypeOK, Known
<1>3. ASSUME NEW p \in Requests, NEW t \in Tokens, RefreshRead(p, t) PROVE Known'
  <2>1. Moves(p, "user", None, owner[t], None, t)
    BY <1>3, RefreshReadMoves DEF IInv
  <2> QED BY AccountsAssumption, <1>3, <2>1
     DEF IInv, RefreshRead, Live, Moves, RequestType, tokenVars, AccountsTypeOK, Known,
         Exists
<1>4. ASSUME NEW p \in Requests, RefreshUser(p) PROVE Known'
  <2>1. CASE Admissible(req[p].user)
    <3>1. Moves(p, "rotate", req[p].op, req[p].user, row[req[p].user], req[p].from)
      BY <1>4, <2>1, RotateMoves DEF IInv
    <3> QED BY <1>4, <2>1, <3>1
       DEF IInv, RefreshUser, Admissible, Exists, Moves, RequestType, tokenVars,
           AccountsTypeOK, Known
  <2>2. CASE ~Admissible(req[p].user)
    <3>1. Moves(p, "idle", None, None, None, None)
      BY <1>4, <2>2, DoneMoves DEF IInv, RefreshUser, AccountsTypeOK, RequestType
    <3> QED BY <1>4, <2>2, <3>1
       DEF IInv, RefreshUser, Admissible, Exists, Moves, RequestType, tokenVars,
           AccountsTypeOK, Known
  <2> QED BY <2>1, <2>2
<1>5. ASSUME NEW p \in Requests, Rotate(p) PROVE Known'
  <2>1. Moves(p, "issue", req[p].op, req[p].user, req[p].row, req[p].from)
    BY <1>5, IssueMoves DEF IInv
  <2> QED BY AccountsAssumption, <1>5, <2>1
     DEF IInv, Rotate, Moves, RequestType, tokenVars, AccountsTypeOK, Known, Exists
<1>6. ASSUME NEW p \in Requests, NEW t \in Tokens, Issue(p, t) PROVE Known'
  <2>1. Moves(p, "idle", None, None, None, None)
    BY <1>6, DoneMoves DEF IInv, Issue, AccountsTypeOK, RequestType
  <2> QED BY AccountsAssumption, <1>6, <2>1
     DEF IInv, Issue, Moves, RequestType, tokenVars, AccountsTypeOK, Known, Exists
<1>7. ASSUME NEW p \in Requests, NEW t \in Tokens, Logout(p, t) PROVE Known'
  BY <1>7 DEF IInv, Logout, tokenVars, AccountsTypeOK, Known, Exists
<1>8. ASSUME NEW p \in Requests, NEW op \in Ops \ {"delete"}, NEW u \in Ids, Read(p, op, u)
      PROVE  Known'
  <2>1. Moves(p, "save", op, u, row[u], None)
    BY <1>8, ReadMoves DEF IInv
  <2> QED BY AccountsAssumption, <1>8, <2>1
     DEF IInv, Read, Exists, Moves, RequestType, tokenVars, AccountsTypeOK, Known
<1>9. ASSUME NEW p \in Requests, NEW w \in Passwords, UpdateUser(p, w) PROVE Known'
  <2>1. CASE req[p].op # "enable"
    <3>1. Moves(p, "revoke", req[p].op, req[p].user, None, req[p].from)
      BY <1>9, <2>1, SaveMoves DEF IInv
    <3>2. /\ req[p].user \in Ids
          /\ row' \in [Ids -> Row \cup {None}]
          /\ \A u \in Ids : u # req[p].user => row'[u] = row[u]
          /\ row'[req[p].user] \in Row
          /\ req[p].op = "enable" => /\ row'[req[p].user].pass = req[p].row.pass
                                    /\ ~row'[req[p].user].disabled
      BY <1>9, UpdateUserWrites DEF IInv
    <3> QED BY <1>9, <2>1, <3>1, <3>2
       DEF IInv, UpdateUser, Exists, Moves, RequestType, tokenVars, AccountsTypeOK,
           Known
  <2>2. CASE req[p].op = "enable"
    <3>1. Moves(p, "idle", None, None, None, None)
      BY <1>9, <2>2, DoneMoves
         DEF IInv, UpdateUser, AccountsTypeOK, RequestType, AfterSave, Done
    <3>2. /\ req[p].user \in Ids
          /\ row' \in [Ids -> Row \cup {None}]
          /\ \A u \in Ids : u # req[p].user => row'[u] = row[u]
          /\ row'[req[p].user] \in Row
          /\ req[p].op = "enable" => /\ row'[req[p].user].pass = req[p].row.pass
                                    /\ ~row'[req[p].user].disabled
      BY <1>9, UpdateUserWrites DEF IInv
    <3> QED BY <1>9, <2>2, <3>1, <3>2
       DEF IInv, UpdateUser, Exists, Moves, RequestType, tokenVars, AccountsTypeOK,
           Known
  <2> QED BY <2>1, <2>2
<1>10. ASSUME NEW p \in Requests, RevokeAllForUser(p) PROVE Known'
  <2>1. CASE req[p].op = "delete"
    <3>1. Moves(p, "drop", req[p].op, req[p].user, req[p].row, req[p].from)
      BY <1>10, <2>1, DropMoves DEF IInv
    <3> QED BY <1>10, <2>1, <3>1
       DEF IInv, RevokeAllForUser, RevokedFor, Moves, RequestType, tokenVars,
           AccountsTypeOK, Known, Exists
  <2>2. CASE req[p].op # "delete"
    <3>1. Moves(p, "idle", None, None, None, None)
      BY <1>10, <2>2, DoneMoves DEF IInv, RevokeAllForUser, AccountsTypeOK, RequestType
    <3> QED BY <1>10, <2>2, <3>1
       DEF IInv, RevokeAllForUser, RevokedFor, Moves, RequestType, tokenVars,
           AccountsTypeOK, Known, Exists
  <2> QED BY <2>1, <2>2
<1>11. ASSUME NEW p \in Requests, NEW u \in Ids, DeleteUser(p, u) PROVE Known'
  <2>1. Moves(p, "revoke", "delete", u, None, None)
    BY <1>11, DeleteMoves DEF IInv
  <2> QED BY AccountsAssumption, <1>11, <2>1
     DEF IInv, DeleteUser, Exists, Moves, RequestType, tokenVars, AccountsTypeOK, Known
<1>12. ASSUME NEW p \in Requests, DropUser(p) PROVE Known'
  <2>1. Moves(p, "idle", None, None, None, None)
    BY <1>12, DoneMoves DEF IInv, DropUser, AccountsTypeOK, RequestType
  <2> QED BY AccountsAssumption, <1>12, <2>1
     DEF IInv, DropUser, Moves, RequestType, tokenVars, AccountsTypeOK, Known, Exists
<1>13. ASSUME NEW p \in Requests, Fail(p) PROVE Known'
  <2>1. Moves(p, "idle", None, None, None, None)
    BY <1>13, DoneMoves DEF IInv, Fail, AccountsTypeOK, RequestType
  <2> QED BY AccountsAssumption, <1>13, <2>1
     DEF IInv, Fail, Moves, RequestType, tokenVars, AccountsTypeOK, Known, Exists
<1>14. ASSUME NEW t \in Tokens, ExpireAccess(t) PROVE Known'
  BY <1>14 DEF IInv, ExpireAccess, tokenVars, AccountsTypeOK, Known, Exists
<1>15. ASSUME NEW t \in Tokens, ExpireRefresh(t) PROVE Known'
  BY <1>15 DEF IInv, ExpireRefresh, Live, tokenVars, AccountsTypeOK, Known, Exists
<1>16. ASSUME NEW t \in Tokens, Recycle(t) PROVE Known'
  BY <1>16 DEF IInv, Recycle, tokenVars, AccountsTypeOK, Known, Exists
<1>17. ASSUME UNCHANGED vars PROVE Known'
  BY <1>17 DEF IInv, AccountsTypeOK, Known, Exists, vars, tokenVars
<1> QED BY <1>1, <1>2, <1>3, <1>4, <1>5, <1>6, <1>7, <1>8, <1>9, <1>10, <1>11,
     <1>12, <1>13, <1>14, <1>15, <1>16, <1>17
   DEF Next, Continue, DisableUser, EnableUser, ResetPassword, ChangePassword, Ops

(* What a request has read still entitles it to go on.                       *)
LEMMA EntitledStep == IInv /\ [Next]_vars => Entitled'
<1> SUFFICES ASSUME IInv, [Next]_vars PROVE Entitled'
  OBVIOUS
<1>1. ASSUME NEW u \in Ids, NEW w \in Passwords, CreateUser(u, w) PROVE Entitled'
  BY <1>1 DEF IInv, CreateUser, Row, tokenVars, AccountsTypeOK, Entitled
<1>2. ASSUME NEW p \in Requests, NEW u \in Ids, NEW w \in Passwords, Login(p, u, w)
      PROVE  Entitled'
  <2>1. Moves(p, "issue", None, u, row[u], None)
    BY <1>2, LoginMoves DEF IInv
  <2> QED BY AccountsAssumption, <1>2, <2>1
     DEF IInv, Login, Exists, Moves, RequestType, tokenVars, AccountsTypeOK, Entitled,
         Row
<1>3. ASSUME NEW p \in Requests, NEW t \in Tokens, RefreshRead(p, t) PROVE Entitled'
  <2>1. Moves(p, "user", None, owner[t], None, t)
    BY <1>3, RefreshReadMoves DEF IInv
  <2> QED BY AccountsAssumption, <1>3, <2>1
     DEF IInv, RefreshRead, Live, Moves, RequestType, tokenVars, AccountsTypeOK,
         Entitled, Row
<1>4. ASSUME NEW p \in Requests, RefreshUser(p) PROVE Entitled'
  <2>1. CASE Admissible(req[p].user)
    <3>1. Moves(p, "rotate", req[p].op, req[p].user, row[req[p].user], req[p].from)
      BY <1>4, <2>1, RotateMoves DEF IInv
    <3> QED BY <1>4, <2>1, <3>1
       DEF IInv, RefreshUser, Admissible, Exists, Moves, RequestType, tokenVars,
           AccountsTypeOK, Entitled, Row
  <2>2. CASE ~Admissible(req[p].user)
    <3>1. Moves(p, "idle", None, None, None, None)
      BY <1>4, <2>2, DoneMoves DEF IInv, RefreshUser, AccountsTypeOK, RequestType
    <3> QED BY <1>4, <2>2, <3>1
       DEF IInv, RefreshUser, Admissible, Exists, Moves, RequestType, tokenVars,
           AccountsTypeOK, Entitled, Row
  <2> QED BY <2>1, <2>2
<1>5. ASSUME NEW p \in Requests, Rotate(p) PROVE Entitled'
  <2>1. Moves(p, "issue", req[p].op, req[p].user, req[p].row, req[p].from)
    BY <1>5, IssueMoves DEF IInv
  <2> QED BY AccountsAssumption, <1>5, <2>1
     DEF IInv, Rotate, Moves, RequestType, tokenVars, AccountsTypeOK, Entitled, Row
<1>6. ASSUME NEW p \in Requests, NEW t \in Tokens, Issue(p, t) PROVE Entitled'
  <2>1. Moves(p, "idle", None, None, None, None)
    BY <1>6, DoneMoves DEF IInv, Issue, AccountsTypeOK, RequestType
  <2> QED BY AccountsAssumption, <1>6, <2>1
     DEF IInv, Issue, Moves, RequestType, tokenVars, AccountsTypeOK, Entitled, Row
<1>7. ASSUME NEW p \in Requests, NEW t \in Tokens, Logout(p, t) PROVE Entitled'
  BY <1>7 DEF IInv, Logout, tokenVars, AccountsTypeOK, Entitled, Row
<1>8. ASSUME NEW p \in Requests, NEW op \in Ops \ {"delete"}, NEW u \in Ids, Read(p, op, u)
      PROVE  Entitled'
  <2>1. Moves(p, "save", op, u, row[u], None)
    BY <1>8, ReadMoves DEF IInv
  <2> QED BY AccountsAssumption, <1>8, <2>1
     DEF IInv, Read, Exists, Moves, RequestType, tokenVars, AccountsTypeOK, Entitled,
         Row
<1>9. ASSUME NEW p \in Requests, NEW w \in Passwords, UpdateUser(p, w) PROVE Entitled'
  <2>1. CASE req[p].op # "enable"
    <3>1. Moves(p, "revoke", req[p].op, req[p].user, None, req[p].from)
      BY <1>9, <2>1, SaveMoves DEF IInv
    <3>2. /\ req[p].user \in Ids
          /\ row' \in [Ids -> Row \cup {None}]
          /\ \A u \in Ids : u # req[p].user => row'[u] = row[u]
          /\ row'[req[p].user] \in Row
          /\ req[p].op = "enable" => /\ row'[req[p].user].pass = req[p].row.pass
                                    /\ ~row'[req[p].user].disabled
      BY <1>9, UpdateUserWrites DEF IInv
    <3> QED BY <1>9, <2>1, <3>1, <3>2
       DEF IInv, UpdateUser, Exists, Moves, RequestType, tokenVars, AccountsTypeOK,
           Entitled, Row
  <2>2. CASE req[p].op = "enable"
    <3>1. Moves(p, "idle", None, None, None, None)
      BY <1>9, <2>2, DoneMoves
         DEF IInv, UpdateUser, AccountsTypeOK, RequestType, AfterSave, Done
    <3>2. /\ req[p].user \in Ids
          /\ row' \in [Ids -> Row \cup {None}]
          /\ \A u \in Ids : u # req[p].user => row'[u] = row[u]
          /\ row'[req[p].user] \in Row
          /\ req[p].op = "enable" => /\ row'[req[p].user].pass = req[p].row.pass
                                    /\ ~row'[req[p].user].disabled
      BY <1>9, UpdateUserWrites DEF IInv
    <3> QED BY <1>9, <2>2, <3>1, <3>2
       DEF IInv, UpdateUser, Exists, Moves, RequestType, tokenVars, AccountsTypeOK,
           Entitled, Row
  <2> QED BY <2>1, <2>2
<1>10. ASSUME NEW p \in Requests, RevokeAllForUser(p) PROVE Entitled'
  <2>1. CASE req[p].op = "delete"
    <3>1. Moves(p, "drop", req[p].op, req[p].user, req[p].row, req[p].from)
      BY <1>10, <2>1, DropMoves DEF IInv
    <3> QED BY <1>10, <2>1, <3>1
       DEF IInv, RevokeAllForUser, RevokedFor, Moves, RequestType, tokenVars,
           AccountsTypeOK, Entitled, Row
  <2>2. CASE req[p].op # "delete"
    <3>1. Moves(p, "idle", None, None, None, None)
      BY <1>10, <2>2, DoneMoves DEF IInv, RevokeAllForUser, AccountsTypeOK, RequestType
    <3> QED BY <1>10, <2>2, <3>1
       DEF IInv, RevokeAllForUser, RevokedFor, Moves, RequestType, tokenVars,
           AccountsTypeOK, Entitled, Row
  <2> QED BY <2>1, <2>2
<1>11. ASSUME NEW p \in Requests, NEW u \in Ids, DeleteUser(p, u) PROVE Entitled'
  <2>1. Moves(p, "revoke", "delete", u, None, None)
    BY <1>11, DeleteMoves DEF IInv
  <2> QED BY AccountsAssumption, <1>11, <2>1
     DEF IInv, DeleteUser, Exists, Moves, RequestType, tokenVars, AccountsTypeOK,
         Entitled, Row
<1>12. ASSUME NEW p \in Requests, DropUser(p) PROVE Entitled'
  <2>1. Moves(p, "idle", None, None, None, None)
    BY <1>12, DoneMoves DEF IInv, DropUser, AccountsTypeOK, RequestType
  <2> QED BY AccountsAssumption, <1>12, <2>1
     DEF IInv, DropUser, Moves, RequestType, tokenVars, AccountsTypeOK, Entitled, Row
<1>13. ASSUME NEW p \in Requests, Fail(p) PROVE Entitled'
  <2>1. Moves(p, "idle", None, None, None, None)
    BY <1>13, DoneMoves DEF IInv, Fail, AccountsTypeOK, RequestType
  <2> QED BY AccountsAssumption, <1>13, <2>1
     DEF IInv, Fail, Moves, RequestType, tokenVars, AccountsTypeOK, Entitled, Row
<1>14. ASSUME NEW t \in Tokens, ExpireAccess(t) PROVE Entitled'
  BY <1>14 DEF IInv, ExpireAccess, tokenVars, AccountsTypeOK, Entitled, Row
<1>15. ASSUME NEW t \in Tokens, ExpireRefresh(t) PROVE Entitled'
  BY <1>15 DEF IInv, ExpireRefresh, Live, tokenVars, AccountsTypeOK, Entitled, Row
<1>16. ASSUME NEW t \in Tokens, Recycle(t) PROVE Entitled'
  BY <1>16 DEF IInv, Recycle, tokenVars, AccountsTypeOK, Entitled, Row
<1>17. ASSUME UNCHANGED vars PROVE Entitled'
  BY <1>17 DEF IInv, AccountsTypeOK, Entitled, Row, vars, tokenVars
<1> QED BY <1>1, <1>2, <1>3, <1>4, <1>5, <1>6, <1>7, <1>8, <1>9, <1>10, <1>11,
     <1>12, <1>13, <1>14, <1>15, <1>16, <1>17
   DEF Next, Continue, DisableUser, EnableUser, ResetPassword, ChangePassword, Ops

(* A Refresh keeps the token it was given until it is done.                  *)
LEMMA ExchangedStep == IInv /\ [Next]_vars => Exchanged'
<1> SUFFICES ASSUME IInv, [Next]_vars PROVE Exchanged'
  OBVIOUS
<1>1. ASSUME NEW u \in Ids, NEW w \in Passwords, CreateUser(u, w) PROVE Exchanged'
  BY <1>1 DEF IInv, CreateUser, Row, tokenVars, AccountsTypeOK, Exchanged
<1>2. ASSUME NEW p \in Requests, NEW u \in Ids, NEW w \in Passwords, Login(p, u, w)
      PROVE  Exchanged'
  <2>1. Moves(p, "issue", None, u, row[u], None)
    BY <1>2, LoginMoves DEF IInv
  <2> QED BY AccountsAssumption, <1>2, <2>1
     DEF IInv, Login, Exists, Moves, RequestType, tokenVars, AccountsTypeOK, Exchanged
<1>3. ASSUME NEW p \in Requests, NEW t \in Tokens, RefreshRead(p, t) PROVE Exchanged'
  <2>1. Moves(p, "user", None, owner[t], None, t)
    BY <1>3, RefreshReadMoves DEF IInv
  <2> QED BY AccountsAssumption, <1>3, <2>1
     DEF IInv, RefreshRead, Live, Moves, RequestType, tokenVars, AccountsTypeOK,
         Exchanged
<1>4. ASSUME NEW p \in Requests, RefreshUser(p) PROVE Exchanged'
  <2>1. CASE Admissible(req[p].user)
    <3>1. Moves(p, "rotate", req[p].op, req[p].user, row[req[p].user], req[p].from)
      BY <1>4, <2>1, RotateMoves DEF IInv
    <3> QED BY <1>4, <2>1, <3>1
       DEF IInv, RefreshUser, Admissible, Exists, Moves, RequestType, tokenVars,
           AccountsTypeOK, Exchanged
  <2>2. CASE ~Admissible(req[p].user)
    <3>1. Moves(p, "idle", None, None, None, None)
      BY <1>4, <2>2, DoneMoves DEF IInv, RefreshUser, AccountsTypeOK, RequestType
    <3> QED BY <1>4, <2>2, <3>1
       DEF IInv, RefreshUser, Admissible, Exists, Moves, RequestType, tokenVars,
           AccountsTypeOK, Exchanged
  <2> QED BY <2>1, <2>2
<1>5. ASSUME NEW p \in Requests, Rotate(p) PROVE Exchanged'
  <2>1. Moves(p, "issue", req[p].op, req[p].user, req[p].row, req[p].from)
    BY <1>5, IssueMoves DEF IInv
  <2> QED BY AccountsAssumption, <1>5, <2>1
     DEF IInv, Rotate, Moves, RequestType, tokenVars, AccountsTypeOK, Exchanged
<1>6. ASSUME NEW p \in Requests, NEW t \in Tokens, Issue(p, t) PROVE Exchanged'
  <2>1. Moves(p, "idle", None, None, None, None)
    BY <1>6, DoneMoves DEF IInv, Issue, AccountsTypeOK, RequestType
  <2> QED BY AccountsAssumption, <1>6, <2>1
     DEF IInv, Issue, Moves, RequestType, tokenVars, AccountsTypeOK, Exchanged
<1>7. ASSUME NEW p \in Requests, NEW t \in Tokens, Logout(p, t) PROVE Exchanged'
  BY <1>7 DEF IInv, Logout, tokenVars, AccountsTypeOK, Exchanged
<1>8. ASSUME NEW p \in Requests, NEW op \in Ops \ {"delete"}, NEW u \in Ids, Read(p, op, u)
      PROVE  Exchanged'
  <2>1. Moves(p, "save", op, u, row[u], None)
    BY <1>8, ReadMoves DEF IInv
  <2> QED BY AccountsAssumption, <1>8, <2>1
     DEF IInv, Read, Exists, Moves, RequestType, tokenVars, AccountsTypeOK, Exchanged
<1>9. ASSUME NEW p \in Requests, NEW w \in Passwords, UpdateUser(p, w) PROVE Exchanged'
  <2>1. CASE req[p].op # "enable"
    <3>1. Moves(p, "revoke", req[p].op, req[p].user, None, req[p].from)
      BY <1>9, <2>1, SaveMoves DEF IInv
    <3>2. /\ req[p].user \in Ids
          /\ row' \in [Ids -> Row \cup {None}]
          /\ \A u \in Ids : u # req[p].user => row'[u] = row[u]
          /\ row'[req[p].user] \in Row
          /\ req[p].op = "enable" => /\ row'[req[p].user].pass = req[p].row.pass
                                    /\ ~row'[req[p].user].disabled
      BY <1>9, UpdateUserWrites DEF IInv
    <3> QED BY <1>9, <2>1, <3>1, <3>2
       DEF IInv, UpdateUser, Exists, Moves, RequestType, tokenVars, AccountsTypeOK,
           Exchanged
  <2>2. CASE req[p].op = "enable"
    <3>1. Moves(p, "idle", None, None, None, None)
      BY <1>9, <2>2, DoneMoves
         DEF IInv, UpdateUser, AccountsTypeOK, RequestType, AfterSave, Done
    <3>2. /\ req[p].user \in Ids
          /\ row' \in [Ids -> Row \cup {None}]
          /\ \A u \in Ids : u # req[p].user => row'[u] = row[u]
          /\ row'[req[p].user] \in Row
          /\ req[p].op = "enable" => /\ row'[req[p].user].pass = req[p].row.pass
                                    /\ ~row'[req[p].user].disabled
      BY <1>9, UpdateUserWrites DEF IInv
    <3> QED BY <1>9, <2>2, <3>1, <3>2
       DEF IInv, UpdateUser, Exists, Moves, RequestType, tokenVars, AccountsTypeOK,
           Exchanged
  <2> QED BY <2>1, <2>2
<1>10. ASSUME NEW p \in Requests, RevokeAllForUser(p) PROVE Exchanged'
  <2>1. CASE req[p].op = "delete"
    <3>1. Moves(p, "drop", req[p].op, req[p].user, req[p].row, req[p].from)
      BY <1>10, <2>1, DropMoves DEF IInv
    <3> QED BY <1>10, <2>1, <3>1
       DEF IInv, RevokeAllForUser, RevokedFor, Moves, RequestType, tokenVars,
           AccountsTypeOK, Exchanged
  <2>2. CASE req[p].op # "delete"
    <3>1. Moves(p, "idle", None, None, None, None)
      BY <1>10, <2>2, DoneMoves DEF IInv, RevokeAllForUser, AccountsTypeOK, RequestType
    <3> QED BY <1>10, <2>2, <3>1
       DEF IInv, RevokeAllForUser, RevokedFor, Moves, RequestType, tokenVars,
           AccountsTypeOK, Exchanged
  <2> QED BY <2>1, <2>2
<1>11. ASSUME NEW p \in Requests, NEW u \in Ids, DeleteUser(p, u) PROVE Exchanged'
  <2>1. Moves(p, "revoke", "delete", u, None, None)
    BY <1>11, DeleteMoves DEF IInv
  <2> QED BY AccountsAssumption, <1>11, <2>1
     DEF IInv, DeleteUser, Exists, Moves, RequestType, tokenVars, AccountsTypeOK,
         Exchanged
<1>12. ASSUME NEW p \in Requests, DropUser(p) PROVE Exchanged'
  <2>1. Moves(p, "idle", None, None, None, None)
    BY <1>12, DoneMoves DEF IInv, DropUser, AccountsTypeOK, RequestType
  <2> QED BY AccountsAssumption, <1>12, <2>1
     DEF IInv, DropUser, Moves, RequestType, tokenVars, AccountsTypeOK, Exchanged
<1>13. ASSUME NEW p \in Requests, Fail(p) PROVE Exchanged'
  <2>1. Moves(p, "idle", None, None, None, None)
    BY <1>13, DoneMoves DEF IInv, Fail, AccountsTypeOK, RequestType
  <2> QED BY AccountsAssumption, <1>13, <2>1
     DEF IInv, Fail, Moves, RequestType, tokenVars, AccountsTypeOK, Exchanged
<1>14. ASSUME NEW t \in Tokens, ExpireAccess(t) PROVE Exchanged'
  BY <1>14 DEF IInv, ExpireAccess, tokenVars, AccountsTypeOK, Exchanged
<1>15. ASSUME NEW t \in Tokens, ExpireRefresh(t) PROVE Exchanged'
  BY <1>15 DEF IInv, ExpireRefresh, Live, tokenVars, AccountsTypeOK, Exchanged
<1>16. ASSUME NEW t \in Tokens, Recycle(t) PROVE Exchanged'
  BY <1>16 DEF IInv, Recycle, tokenVars, AccountsTypeOK, Exchanged
<1>17. ASSUME UNCHANGED vars PROVE Exchanged'
  BY <1>17 DEF IInv, AccountsTypeOK, Exchanged, vars, tokenVars
<1> QED BY <1>1, <1>2, <1>3, <1>4, <1>5, <1>6, <1>7, <1>8, <1>9, <1>10, <1>11,
     <1>12, <1>13, <1>14, <1>15, <1>16, <1>17
   DEF Next, Continue, DisableUser, EnableUser, ResetPassword, ChangePassword, Ops

(* A step that exchanges no token and by which nobody comes to hold one.     *)
LEMMA UsesStay ==
  ASSUME Uses, use' = use,
         \A t \in Tokens : refresh[t] = "revoked" => refresh'[t] = "revoked",
         \A q \in Requests : req'[q].from \in {req[q].from, None}
  PROVE  Uses'
BY AccountsAssumption DEF Uses

(* So does one request that goes on without another token.                   *)
LEMMA MovesStay ==
  ASSUME Uses, NEW p \in Requests, NEW a, NEW o, NEW u, NEW x,
         Moves(p, a, o, u, x, req[p].from) \/ Moves(p, a, o, u, x, None),
         use' = use,
         \A t \in Tokens : refresh[t] = "revoked" => refresh'[t] = "revoked"
  PROVE  Uses'
<1>1. \A q \in Requests : req'[q].from \in {req[q].from, None}
  BY DEF Moves
<1> QED BY <1>1, UsesStay

(* A token is exchanged by one who holds it, and by nobody after that.       *)
LEMMA UsesStep == IInv /\ [Next]_vars => Uses'
<1> SUFFICES ASSUME IInv, [Next]_vars PROVE Uses'
  OBVIOUS
<1>1. ASSUME NEW u \in Ids, NEW w \in Passwords, CreateUser(u, w) PROVE Uses'
  BY <1>1, UsesStay DEF IInv, CreateUser, tokenVars
<1>2. ASSUME NEW p \in Requests, NEW u \in Ids, NEW w \in Passwords, Login(p, u, w)
      PROVE  Uses'
  <2>1. Moves(p, "issue", None, u, row[u], None)
    BY <1>2, LoginMoves DEF IInv
  <2> QED BY <1>2, <2>1, MovesStay DEF IInv, Login, tokenVars
<1>3. ASSUME NEW p \in Requests, NEW t \in Tokens, RefreshRead(p, t) PROVE Uses'
  <2>1. Moves(p, "user", None, owner[t], None, t)
    BY <1>3, RefreshReadMoves DEF IInv
  <2> QED BY AccountsAssumption, <1>3, <2>1
     DEF IInv, RefreshRead, Live, Moves, RequestType, tokenVars, AccountsTypeOK,
         Exchanged, Uses
<1>4. ASSUME NEW p \in Requests, RefreshUser(p) PROVE Uses'
  <2>1. CASE Admissible(req[p].user)
    <3>1. Moves(p, "rotate", req[p].op, req[p].user, row[req[p].user], req[p].from)
      BY <1>4, <2>1, RotateMoves DEF IInv
    <3> QED BY <1>4, <3>1, MovesStay DEF IInv, RefreshUser, tokenVars
  <2>2. CASE ~Admissible(req[p].user)
    <3>1. Moves(p, "idle", None, None, None, None)
      BY <1>4, <2>2, DoneMoves DEF IInv, RefreshUser, AccountsTypeOK, RequestType
    <3> QED BY <1>4, <3>1, MovesStay DEF IInv, RefreshUser, tokenVars
  <2> QED BY <2>1, <2>2
<1>5. ASSUME NEW p \in Requests, Rotate(p) PROVE Uses'
  <2>1. Moves(p, "issue", req[p].op, req[p].user, req[p].row, req[p].from)
    BY <1>5, IssueMoves DEF IInv
  <2>2. \A t \in Tokens : refresh[t] = "revoked" => refresh'[t] = "revoked"
    BY <1>5 DEF IInv, AccountsTypeOK, Rotate
  <2> QED BY <1>5, <2>1, <2>2, MovesStay DEF IInv, Rotate
<1>6. ASSUME NEW p \in Requests, NEW t \in Tokens, Issue(p, t) PROVE Uses'
  <2>1. Moves(p, "idle", None, None, None, None)
    BY <1>6, DoneMoves DEF IInv, Issue, AccountsTypeOK, RequestType
  <2> DEFINE f == req[p].from
  <2>2. /\ req'[p].from = None
        /\ \A q \in Requests : q # p => req'[q].from = req[q].from
    BY <2>1 DEF Moves
  <2>3. /\ \A x \in Tokens : x # f => use'[x] = use[x]
        /\ f \in Tokens => use'[f] = Reused(use[f])
        /\ \A x \in Tokens : refresh[x] = "revoked" => refresh'[x] = "revoked"
    BY <1>6 DEF IInv, AccountsTypeOK, Issue
  <2>4. f \in Tokens => use[f] \in {"never", "shared"} /\ refresh[f] = "revoked"
    <3> SUFFICES ASSUME f \in Tokens PROVE use[f] \in {"never", "shared"} /\ refresh[f] = "revoked"
      OBVIOUS
    <3>1. refresh[f] = "revoked"
      BY <1>6, AccountsAssumption DEF IInv, Exchanged, Issue
    <3>2. use[f] \in {"never", "once", "again", "shared"}
      BY DEF IInv, AccountsTypeOK
    <3> QED BY <3>1, <3>2 DEF IInv, Uses
  <2>5. ASSUME NEW x \in Tokens
        PROVE  /\ use'[x] # "again"
               /\ use'[x] = "once" =>
                    refresh'[x] = "revoked" /\ \A q \in Requests : req'[q].from # x
    <3>1. CASE x # f
      BY <2>2, <2>3, <3>1, AccountsAssumption DEF IInv, Uses
    <3>2. CASE x = f
      BY <2>2, <2>3, <2>4, <3>2, AccountsAssumption DEF IInv, Uses, Reused
    <3> QED BY <3>1, <3>2
  <2>6. ASSUME NEW q \in Requests, NEW r \in Requests, q # r, req'[q].from # None,
               req'[r].from = req'[q].from
        PROVE  use'[req'[q].from] = "shared"
    <3>1. q # p /\ r # p /\ req[q].from # None /\ req[r].from = req[q].from
      BY <2>2, <2>6
    <3>2. use[req[q].from] = "shared"
      BY <2>6, <3>1 DEF IInv, Uses
    <3>3. req[q].from \in Tokens /\ req'[q].from = req[q].from
      <4>1. req[q].from \in Tokens \cup {None}
        BY DEF IInv, AccountsTypeOK
      <4> QED BY <2>2, <3>1, <4>1
    <3> QED BY <2>3, <3>2, <3>3 DEF Reused
  <2> QED BY <2>5, <2>6 DEF Uses
<1>7. ASSUME NEW p \in Requests, NEW t \in Tokens, Logout(p, t) PROVE Uses'
  BY <1>7, UsesStay DEF IInv, AccountsTypeOK, Logout
<1>8. ASSUME NEW p \in Requests, NEW op \in Ops \ {"delete"}, NEW u \in Ids, Read(p, op, u)
      PROVE  Uses'
  <2>1. Moves(p, "save", op, u, row[u], None)
    BY <1>8, ReadMoves DEF IInv
  <2> QED BY <1>8, <2>1, MovesStay DEF IInv, Read, tokenVars
<1>9. ASSUME NEW p \in Requests, NEW w \in Passwords, UpdateUser(p, w) PROVE Uses'
  <2>1. CASE req[p].op # "enable"
    <3>1. Moves(p, "revoke", req[p].op, req[p].user, None, req[p].from)
      BY <1>9, <2>1, SaveMoves DEF IInv
    <3> QED BY <1>9, <3>1, MovesStay DEF IInv, UpdateUser, tokenVars
  <2>2. CASE req[p].op = "enable"
    <3>1. Moves(p, "idle", None, None, None, None)
      BY <1>9, <2>2, DoneMoves
         DEF IInv, UpdateUser, AccountsTypeOK, RequestType, AfterSave, Done
    <3> QED BY <1>9, <3>1, MovesStay DEF IInv, UpdateUser, tokenVars
  <2> QED BY <2>1, <2>2
<1>10. ASSUME NEW p \in Requests, RevokeAllForUser(p) PROVE Uses'
  <2>1. \A t \in Tokens : refresh[t] = "revoked" => refresh'[t] = "revoked"
    BY <1>10 DEF RevokeAllForUser, RevokedFor
  <2>2. CASE req[p].op = "delete"
    <3>1. Moves(p, "drop", req[p].op, req[p].user, req[p].row, req[p].from)
      BY <1>10, <2>2, DropMoves DEF IInv
    <3> QED BY <1>10, <2>1, <3>1, MovesStay DEF IInv, RevokeAllForUser
  <2>3. CASE req[p].op # "delete"
    <3>1. Moves(p, "idle", None, None, None, None)
      BY <1>10, <2>3, DoneMoves DEF IInv, RevokeAllForUser, AccountsTypeOK, RequestType
    <3> QED BY <1>10, <2>1, <3>1, MovesStay DEF IInv, RevokeAllForUser
  <2> QED BY <2>2, <2>3
<1>11. ASSUME NEW p \in Requests, NEW u \in Ids, DeleteUser(p, u) PROVE Uses'
  <2>1. Moves(p, "revoke", "delete", u, None, None)
    BY <1>11, DeleteMoves DEF IInv
  <2> QED BY <1>11, <2>1, MovesStay DEF IInv, DeleteUser, tokenVars
<1>12. ASSUME NEW p \in Requests, DropUser(p) PROVE Uses'
  <2>1. Moves(p, "idle", None, None, None, None)
    BY <1>12, DoneMoves DEF IInv, DropUser, AccountsTypeOK, RequestType
  <2> QED BY <1>12, <2>1, MovesStay DEF IInv, DropUser, tokenVars
<1>13. ASSUME NEW p \in Requests, Fail(p) PROVE Uses'
  <2>1. Moves(p, "idle", None, None, None, None)
    BY <1>13, DoneMoves DEF IInv, Fail, AccountsTypeOK, RequestType
  <2> QED BY <1>13, <2>1, MovesStay DEF IInv, Fail, tokenVars
<1>14. ASSUME NEW t \in Tokens, ExpireAccess(t) PROVE Uses'
  BY <1>14, UsesStay DEF IInv, ExpireAccess
<1>15. ASSUME NEW t \in Tokens, ExpireRefresh(t) PROVE Uses'
  BY <1>15, UsesStay DEF IInv, AccountsTypeOK, ExpireRefresh, Live
<1>16. ASSUME NEW t \in Tokens, Recycle(t) PROVE Uses'
  BY <1>16 DEF IInv, Recycle, AccountsTypeOK, Uses
<1>17. ASSUME UNCHANGED vars PROVE Uses'
  BY <1>17, UsesStay DEF IInv, vars, tokenVars
<1> QED BY <1>1, <1>2, <1>3, <1>4, <1>5, <1>6, <1>7, <1>8, <1>9, <1>10, <1>11,
     <1>12, <1>13, <1>14, <1>15, <1>16, <1>17
   DEF Next, Continue, DisableUser, EnableUser, ResetPassword, ChangePassword, Ops

(* A session outlives no change of its row that is revoked in time.          *)
LEMMA SessionsStep == IInv /\ [Next]_vars => SessionsFollowRow'
<1> SUFFICES ASSUME IInv, [Next]_vars PROVE SessionsFollowRow'
  OBVIOUS
<1>1. ASSUME NEW u \in Ids, NEW w \in Passwords, CreateUser(u, w) PROVE SessionsFollowRow'
  <2> SUFFICES ASSUME NEW t \in Tokens, Live(t)', owner[t] \notin stray, ~Pending(owner[t]),
                      row'[owner[t]] # None
               PROVE  ~row'[owner[t]].disabled /\ row'[owner[t]].pass = key[t]
    BY <1>1 DEF CreateUser, tokenVars, SessionsFollowRow, Pending, Exists
  <2>1. Live(t) /\ owner[t] \in created /\ owner[t] \in Ids
    BY <1>1, AccountsAssumption DEF CreateUser, tokenVars, Live, IInv, AccountsTypeOK, Known
  <2>2. row'[owner[t]] = row[owner[t]]
    BY <1>1, <2>1 DEF CreateUser, IInv, AccountsTypeOK
  <2> QED BY <2>1, <2>2 DEF IInv, SessionsFollowRow, Exists
<1>2. ASSUME NEW p \in Requests, NEW u \in Ids, NEW w \in Passwords, Login(p, u, w)
      PROVE  SessionsFollowRow'
  <2>1. Moves(p, "issue", None, u, row[u], None)
    BY <1>2, LoginMoves DEF IInv
  <2> QED BY AccountsAssumption, <1>2, <2>1
     DEF IInv, Login, Exists, Moves, RequestType, tokenVars, AccountsTypeOK, Known,
         Entitled, SessionsFollowRow, Pending, Live, Row
<1>3. ASSUME NEW p \in Requests, NEW t \in Tokens, RefreshRead(p, t)
      PROVE  SessionsFollowRow'
  <2>1. Moves(p, "user", None, owner[t], None, t)
    BY <1>3, RefreshReadMoves DEF IInv
  <2> QED BY AccountsAssumption, <1>3, <2>1
     DEF IInv, RefreshRead, Live, Moves, RequestType, tokenVars, AccountsTypeOK, Known,
         Entitled, SessionsFollowRow, Pending, Exists, Row
<1>4. ASSUME NEW p \in Requests, RefreshUser(p) PROVE SessionsFollowRow'
  <2>1. CASE Admissible(req[p].user)
    <3>1. Moves(p, "rotate", req[p].op, req[p].user, row[req[p].user], req[p].from)
      BY <1>4, <2>1, RotateMoves DEF IInv
    <3> QED BY <1>4, <2>1, <3>1
       DEF IInv, RefreshUser, Admissible, Exists, Moves, RequestType, tokenVars,
           AccountsTypeOK, Known, Entitled, SessionsFollowRow, Pending, Live, Row
  <2>2. CASE ~Admissible(req[p].user)
    <3>1. Moves(p, "idle", None, None, None, None)
      BY <1>4, <2>2, DoneMoves DEF IInv, RefreshUser, AccountsTypeOK, RequestType
    <3> QED BY <1>4, <2>2, <3>1
       DEF IInv, RefreshUser, Admissible, Exists, Moves, RequestType, tokenVars,
           AccountsTypeOK, Known, Entitled, SessionsFollowRow, Pending, Live, Row
  <2> QED BY <2>1, <2>2
<1>5. ASSUME NEW p \in Requests, Rotate(p) PROVE SessionsFollowRow'
  <2>1. Moves(p, "issue", req[p].op, req[p].user, req[p].row, req[p].from)
    BY <1>5, IssueMoves DEF IInv
  <2> QED BY AccountsAssumption, <1>5, <2>1
     DEF IInv, Rotate, Moves, RequestType, tokenVars, AccountsTypeOK, Known, Entitled,
         SessionsFollowRow, Pending, Exists, Live, Row
<1>6. ASSUME NEW p \in Requests, NEW t \in Tokens, Issue(p, t) PROVE SessionsFollowRow'
  <2>1. Moves(p, "idle", None, None, None, None)
    BY <1>6, DoneMoves DEF IInv, Issue, AccountsTypeOK, RequestType
  <2> QED BY AccountsAssumption, <1>6, <2>1
     DEF IInv, Issue, Moves, RequestType, tokenVars, AccountsTypeOK, Known, Entitled,
         SessionsFollowRow, Pending, Exists, Live, Row
<1>7. ASSUME NEW p \in Requests, NEW t \in Tokens, Logout(p, t) PROVE SessionsFollowRow'
  BY <1>7
     DEF IInv, Logout, tokenVars, AccountsTypeOK, Known, Entitled, SessionsFollowRow,
         Pending, Exists, Live, Row
<1>8. ASSUME NEW p \in Requests, NEW op \in Ops \ {"delete"}, NEW u \in Ids, Read(p, op, u)
      PROVE  SessionsFollowRow'
  <2>1. Moves(p, "save", op, u, row[u], None)
    BY <1>8, ReadMoves DEF IInv
  <2> QED BY AccountsAssumption, <1>8, <2>1
     DEF IInv, Read, Exists, Moves, RequestType, tokenVars, AccountsTypeOK, Known,
         Entitled, SessionsFollowRow, Pending, Live, Row
<1>9. ASSUME NEW p \in Requests, NEW w \in Passwords, UpdateUser(p, w)
      PROVE  SessionsFollowRow'
  <2>1. /\ req[p].user \in Ids /\ req[p].at = "save" /\ req[p].op # "delete"
        /\ \A u \in Ids : u # req[p].user => row'[u] = row[u]
        /\ row'[req[p].user] \in Row
        /\ req[p].op = "enable" => /\ row'[req[p].user].pass = req[p].row.pass
                                  /\ ~row'[req[p].user].disabled
        /\ stray' = IF row[req[p].user] = req[p].row THEN stray
                    ELSE stray \cup {req[p].user}
        /\ refresh' = refresh /\ owner' = owner /\ key' = key
    <3>1. /\ req[p].at = "save"
          /\ stray' = IF row[req[p].user] = req[p].row THEN stray
                      ELSE stray \cup {req[p].user}
          /\ refresh' = refresh /\ owner' = owner /\ key' = key
      BY <1>9 DEF UpdateUser, tokenVars
    <3> QED BY <1>9, <3>1, UpdateUserWrites DEF IInv, Entitled
  <2>2. \/ Moves(p, "idle", None, None, None, None) /\ req[p].op = "enable"
        \/ Moves(p, "revoke", req[p].op, req[p].user, None, req[p].from)
    BY <1>9, SaveMoves, DoneMoves
       DEF IInv, UpdateUser, AccountsTypeOK, RequestType, AfterSave, Done
  <2> SUFFICES ASSUME NEW t \in Tokens, Live(t)', owner[t] \notin stray',
                      ~Pending(owner[t])', row'[owner[t]] # None
               PROVE  ~row'[owner[t]].disabled /\ row'[owner[t]].pass = key[t]
    BY <2>1 DEF SessionsFollowRow, Exists
  <2>3. Live(t) /\ owner[t] \in Ids /\ owner[t] \notin stray
    BY <2>1 DEF Live, IInv, AccountsTypeOK
  <2>4. ~Pending(owner[t])
    BY <2>1, <2>2 DEF Pending, Moves
  <2>5. CASE owner[t] # req[p].user
    BY <2>1, <2>3, <2>4, <2>5 DEF IInv, SessionsFollowRow, Exists
  <2>6. CASE owner[t] = req[p].user
    <3>1. row[owner[t]] = req[p].row /\ req[p].row \in Row
      BY <1>9, <2>1, <2>6 DEF UpdateUser, IInv, AccountsTypeOK
    <3>2. req[p].op = "enable"
      BY <2>1, <2>2, <2>6 DEF Moves, Pending
    <3>3. row[owner[t]].pass = key[t]
      BY AccountsAssumption, <2>3, <2>4, <3>1
         DEF IInv, SessionsFollowRow, Exists, AccountsTypeOK
    <3> QED BY <2>1, <2>6, <3>1, <3>2, <3>3
  <2> QED BY <2>5, <2>6
<1>10. ASSUME NEW p \in Requests, RevokeAllForUser(p) PROVE SessionsFollowRow'
  <2>1. \/ Moves(p, "idle", None, None, None, None)
        \/ Moves(p, "drop", req[p].op, req[p].user, req[p].row, req[p].from)
    BY <1>10, DropMoves, DoneMoves DEF IInv, RevokeAllForUser, AccountsTypeOK, RequestType
  <2>2. \A u : u # req[p].user => (Pending(u) => Pending(u)')
    BY <1>10, <2>1 DEF Moves, Pending
  <2>3. \A t \in Tokens : Live(t)' => Live(t) /\ owner[t] # req[p].user
    BY <1>10 DEF RevokeAllForUser, RevokedFor, Live, IInv, AccountsTypeOK
  <2>4. row' = row /\ owner' = owner /\ key' = key /\ stray' = stray \ {req[p].user}
    BY <1>10 DEF RevokeAllForUser
  <2> QED BY <2>2, <2>3, <2>4 DEF IInv, SessionsFollowRow, Exists
<1>11. ASSUME NEW p \in Requests, NEW u \in Ids, DeleteUser(p, u) PROVE SessionsFollowRow'
  <2>1. Moves(p, "revoke", "delete", u, None, None)
    BY <1>11, DeleteMoves DEF IInv
  <2> QED BY AccountsAssumption, <1>11, <2>1
     DEF IInv, DeleteUser, Exists, Moves, RequestType, tokenVars, AccountsTypeOK, Known,
         Entitled, SessionsFollowRow, Pending, Live, Row
<1>12. ASSUME NEW p \in Requests, DropUser(p) PROVE SessionsFollowRow'
  <2>1. Moves(p, "idle", None, None, None, None)
    BY <1>12, DoneMoves DEF IInv, DropUser, AccountsTypeOK, RequestType
  <2> QED BY AccountsAssumption, <1>12, <2>1
     DEF IInv, DropUser, Moves, RequestType, tokenVars, AccountsTypeOK, Known, Entitled,
         SessionsFollowRow, Pending, Exists, Live, Row
<1>13. ASSUME NEW p \in Requests, Fail(p) PROVE SessionsFollowRow'
  <2>1. Moves(p, "idle", None, None, None, None)
    BY <1>13, DoneMoves DEF IInv, Fail, AccountsTypeOK, RequestType
  <2>2. \A u : Pending(u) => Pending(u)' \/ u \in stray'
    BY <1>13, <2>1 DEF Fail, Moves, Pending
  <2>3. stray \subseteq stray'
    BY <1>13 DEF Fail
  <2> QED BY <1>13, <2>2, <2>3 DEF Fail, tokenVars, IInv, SessionsFollowRow, Exists, Live
<1>14. ASSUME NEW t \in Tokens, ExpireAccess(t) PROVE SessionsFollowRow'
  BY <1>14
     DEF IInv, ExpireAccess, tokenVars, AccountsTypeOK, Known, Entitled,
         SessionsFollowRow, Pending, Exists, Live, Row
<1>15. ASSUME NEW t \in Tokens, ExpireRefresh(t) PROVE SessionsFollowRow'
  BY <1>15
     DEF IInv, ExpireRefresh, Live, tokenVars, AccountsTypeOK, Known, Entitled,
         SessionsFollowRow, Pending, Exists, Row
<1>16. ASSUME NEW t \in Tokens, Recycle(t) PROVE SessionsFollowRow'
  BY <1>16
     DEF IInv, Recycle, tokenVars, AccountsTypeOK, Known, Entitled, SessionsFollowRow,
         Pending, Exists, Live, Row
<1>17. ASSUME UNCHANGED vars PROVE SessionsFollowRow'
  BY <1>17
     DEF IInv, AccountsTypeOK, Known, Entitled, SessionsFollowRow, Pending, Exists,
         Live, Row, vars, tokenVars
<1> QED BY <1>1, <1>2, <1>3, <1>4, <1>5, <1>6, <1>7, <1>8, <1>9, <1>10, <1>11,
     <1>12, <1>13, <1>14, <1>15, <1>16, <1>17
   DEF Next, Continue, DisableUser, EnableUser, ResetPassword, ChangePassword, Ops

(* The four facts that the theorems rest on.                                 *)
LEMMA Initially == Init => IInv
<1>1. Init => AccountsTypeOK
  BY IdleFields, AccountsAssumption DEF Init, AccountsTypeOK, RequestType
<1> QED BY <1>1, IdleFields
   DEF Init, IInv, Known, Entitled, Exchanged, SessionsFollowRow, Uses,
       Exists, Live

LEMMA Preserved == IInv /\ [Next]_vars => IInv'
BY TypeStep, KnownStep, EntitledStep, ExchangedStep, UsesStep, SessionsStep DEF IInv

LEMMA Invariant == Spec => []IInv
<1> QED BY Initially, Preserved, PTL DEF Spec

-------------------------------------------------------------------------------
(* Every variable keeps its type, whatever requests overlap or fail (Login,  *)
(* Refresh, CreateUser to DeleteUser).                                       *)
THEOREM TypeCorrect == Spec => []AccountsTypeOK
BY Invariant, PTL DEF IInv

(* However many requests overlap, fail or stop half-way, a session that can  *)
(* be refreshed is that of an enabled user with the password he has now,     *)
(* apart from the users the property names (DisableUser, ChangePassword,     *)
(* ResetPassword, DeleteUser, issuePair).                                    *)
THEOREM SessionsAlwaysFollow == Spec => []SessionsFollowRow
BY Invariant, PTL DEF IInv

(* However many requests overlap, fail, log out or revoke, a refresh token   *)
(* is exchanged twice only if two Refresh calls held it at the same time     *)
(* (Refresh, RevokeRefreshToken, issuePair).                                 *)
THEOREM AlwaysExchangedOnce == Spec => []ExchangedOnce
<1>1. IInv => ExchangedOnce
  BY DEF IInv, Uses, ExchangedOnce
<1> QED BY <1>1, Invariant, PTL
================================================================================
