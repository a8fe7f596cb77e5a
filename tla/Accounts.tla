------------------------------- MODULE Accounts -------------------------------
(* User rows and their sessions: service/auth.go, service/user.go and the    *)
(* users and refresh_tokens tables of store/repos.go. A step is one SQL      *)
(* statement. Requests interleave and may fail at any statement.             *)
EXTENDS Naturals

CONSTANTS
  Ids,        \* user ids, each given to one CreateUser
  NameOf,     \* the username of each id
  Admin,      \* the username "admin"
  Passwords,  \* password hashes
  Tokens,     \* rows of refresh_tokens, each with the access token issued with it
  Requests,   \* concurrent HTTP requests
  None

Row == [pass : Passwords, disabled : BOOLEAN]

ASSUME AccountsAssumption == None \notin Ids \cup Tokens \cup Row

(* row      : the users table, by id                                         *)
(* created  : ids that have been given out                                   *)
(* refresh  : what the refresh_tokens row says, "free" before the INSERT     *)
(* access   : tokens whose access token has not expired yet                  *)
(* owner, key : the user a token was issued to, the hash he had then         *)
(* use      : how often a Refresh has exchanged a token for another one, or  *)
(*            that two Refresh calls held it at the same time (history)      *)
(* req      : where each request stands and what it has read                 *)
(* stray    : users with sessions that an overlapping request or a failed    *)
(*            revocation has left behind since the last revocation (history) *)
VARIABLES row, created, refresh, access, owner, key, use, req, stray
tokenVars == <<refresh, access, owner, key, use>>
vars == <<row, created, tokenVars, req, stray>>

Idle == [at |-> "idle", op |-> None, user |-> None, row |-> None, from |-> None]
Ops == {"disable", "enable", "rekey", "delete"}
Steps == {"idle", "user", "rotate", "issue", "save", "revoke", "drop"}

Live(t) == refresh[t] = "live"
Exists(u) == row[u] # None
Holder(n) == {u \in Ids : NameOf[u] = n /\ Exists(u)}
Busy(p, r) == req' = [req EXCEPT ![p] = r]
Done(p) == Busy(p, Idle)

Init ==
  /\ row = [u \in Ids |-> None]
  /\ created = {}
  /\ refresh = [t \in Tokens |-> "free"]
  /\ access = {}
  /\ owner = [t \in Tokens |-> None]
  /\ key = [t \in Tokens |-> None]
  /\ use = [t \in Tokens |-> "never"]
  /\ req = [p \in Requests |-> Idle]
  /\ stray = {}

-------------------------------------------------------------------------------
(* CreateUser. The look-up by name before the INSERT decides nothing that    *)
(* the unique index on username does not decide again.                       *)
CreateUser(u, w) ==
  /\ u \notin created
  /\ Holder(NameOf[u]) = {}
  /\ row' = [row EXCEPT ![u] = [pass |-> w, disabled |-> FALSE]]
  /\ created' = created \cup {u}
  /\ UNCHANGED <<tokenVars, req, stray>>

(* Login: one read of the row decides; a wrong name, a disabled user or a    *)
(* wrong password ends the request.                                          *)
Login(p, u, w) ==
  /\ req[p].at = "idle"
  /\ Exists(u) /\ ~row[u].disabled /\ row[u].pass = w
  /\ Busy(p, [Idle EXCEPT !.at = "issue", !.user = u, !.row = row[u]])
  /\ UNCHANGED <<row, created, tokenVars, stray>>

(* Refresh reads the token row. *)
RefreshRead(p, t) ==
  /\ req[p].at = "idle"
  /\ Live(t)
  /\ Busy(p, [Idle EXCEPT !.at = "user", !.user = owner[t], !.from = t])
  /\ use' = IF \E q \in Requests : req[q].from = t THEN [use EXCEPT ![t] = "shared"] ELSE use
  /\ UNCHANGED <<row, created, refresh, access, owner, key, stray>>

(* Slips of Admissible: the flag is not looked at, nothing is looked at. *)
AdmissibleExisting(u) == Exists(u)
(* Refresh reads the user and refuses one that has gone or is disabled. *)
Admissible(u) == Exists(u) /\ ~row[u].disabled

RefreshUser(p) ==
  LET u == req[p].user IN
  /\ req[p].at = "user"
  /\ IF Admissible(u) THEN Busy(p, [req[p] EXCEPT !.at = "rotate", !.row = row[u]]) ELSE Done(p)
  /\ UNCHANGED <<row, created, tokenVars, stray>>

(* Slip of Rotate: the old token stays valid. *)
RotateKeepsOld(p) ==
  /\ req[p].at = "rotate"
  /\ Busy(p, [req[p] EXCEPT !.at = "issue"])
  /\ UNCHANGED <<row, created, tokenVars, stray>>

(* RevokeRefreshToken: an UPDATE that does not look at the old value. *)
Rotate(p) ==
  /\ req[p].at = "rotate"
  /\ refresh' = [refresh EXCEPT ![req[p].from] = "revoked"]
  /\ Busy(p, [req[p] EXCEPT !.at = "issue"])
  /\ UNCHANGED <<row, created, access, owner, key, use, stray>>

Reused(n) == CASE n = "never" -> "once" [] n = "shared" -> "shared" [] OTHER -> "again"

(* issuePair: signs an access token and inserts a refresh token for the user *)
(* that was read, whatever has become of the row since. *)
Issue(p, t) ==
  LET u == req[p].user IN
  /\ req[p].at = "issue"
  /\ refresh[t] = "free"
  /\ refresh' = [refresh EXCEPT ![t] = "live"]
  /\ access' = access \cup {t}
  /\ owner' = [owner EXCEPT ![t] = u]
  /\ key' = [key EXCEPT ![t] = req[p].row.pass]
  /\ use' = [x \in Tokens |-> IF x = req[p].from THEN Reused(use[x]) ELSE use[x]]
  /\ stray' = IF row[u] = req[p].row THEN stray ELSE stray \cup {u}
  /\ Done(p)
  /\ UNCHANGED <<row, created>>

(* Revoke: the logout of one session. *)
Logout(p, t) ==
  /\ req[p].at = "idle"
  /\ refresh[t] \in {"live", "expired"}
  /\ refresh' = [refresh EXCEPT ![t] = "revoked"]
  /\ UNCHANGED <<row, created, access, owner, key, use, req, stray>>

-------------------------------------------------------------------------------
(* DisableUser, ChangePassword and ResetPassword read the whole row ...      *)
Read(p, op, u) ==
  /\ req[p].at = "idle"
  /\ Exists(u)
  /\ Busy(p, [Idle EXCEPT !.at = "save", !.op = op, !.user = u, !.row = row[u]])
  /\ UNCHANGED <<row, created, tokenVars, stray>>

DisableUser(p, u) == Read(p, "disable", u)
EnableUser(p, u) == Read(p, "enable", u)

(* ... ResetPassword for the administrator, ChangePassword for an accepted   *)
(* access token of that name and the old password. *)
ResetPassword(p, u) == Read(p, "rekey", u)
ChangePassword(p, u, w) ==
  /\ \E t \in access : NameOf[owner[t]] = NameOf[u]
  /\ Exists(u) /\ row[u].pass = w
  /\ Read(p, "rekey", u)

(* ... and write the whole row back: what they read, with the column they    *)
(* are about. If the row has gone meanwhile, gorm's Save inserts it again,   *)
(* unless another row has the name now. *)
Written(r, w) ==
  CASE r.op = "disable" -> [r.row EXCEPT !.disabled = TRUE]
    [] r.op = "enable" -> [r.row EXCEPT !.disabled = FALSE]
    [] OTHER -> [r.row EXCEPT !.pass = w]

(* Slip of AfterSave: only a new password ends the sessions. *)
AfterSaveRekeyOnly(r) == IF r.op # "rekey" THEN Idle ELSE [r EXCEPT !.at = "revoke", !.row = None]

(* Only the enabling branch returns without revoking. *)
AfterSave(r) == IF r.op = "enable" THEN Idle ELSE [r EXCEPT !.at = "revoke", !.row = None]

UpdateUser(p, w) ==
  LET u == req[p].user IN
  /\ req[p].at = "save"
  /\ Holder(NameOf[u]) \subseteq {u}
  /\ row' = [row EXCEPT ![u] = Written(req[p], w)]
  /\ stray' = IF row[u] = req[p].row THEN stray ELSE stray \cup {u}
  /\ Busy(p, AfterSave(req[p]))
  /\ UNCHANGED <<created, tokenVars>>

(* RevokeAllForUser: one UPDATE over all tokens of the user id. *)
RevokedFor(u) ==
  [t \in Tokens |-> IF owner[t] = u /\ refresh[t] # "free" THEN "revoked" ELSE refresh[t]]

RevokeAllForUser(p) ==
  LET u == req[p].user IN
  /\ req[p].at = "revoke"
  /\ refresh' = RevokedFor(u)
  /\ stray' = stray \ {u}
  /\ IF req[p].op = "delete" THEN Busy(p, [req[p] EXCEPT !.at = "drop"]) ELSE Done(p)
  /\ UNCHANGED <<row, created, access, owner, key, use>>

(* DeleteUser, except of the operator himself and of admin: reads the row,   *)
(* revokes by id, deletes by name. *)
DeleteUser(p, u) ==
  /\ req[p].at = "idle"
  /\ Exists(u) /\ NameOf[u] # Admin
  /\ Busy(p, [Idle EXCEPT !.at = "revoke", !.op = "delete", !.user = u])
  /\ UNCHANGED <<row, created, tokenVars, stray>>

DropUser(p) ==
  LET n == NameOf[req[p].user] IN
  /\ req[p].at = "drop"
  /\ row' = [u \in Ids |-> IF NameOf[u] = n THEN None ELSE row[u]]
  /\ Done(p)
  /\ UNCHANGED <<created, tokenVars, stray>>

(* A statement fails, the name of the row to write is taken, or the server   *)
(* stops: what was written stays, what was to come does not happen. *)
Fail(p) ==
  /\ req[p].at # "idle"
  /\ stray' = IF req[p].at = "revoke" /\ req[p].op # "delete"
              THEN stray \cup {req[p].user} ELSE stray
  /\ Done(p)
  /\ UNCHANGED <<row, created, tokenVars>>

-------------------------------------------------------------------------------
(* AccessTokenTTL is 2 h, RefreshTokenTTL 7 d: the access token goes first. *)
ExpireAccess(t) ==
  /\ t \in access
  /\ access' = access \ {t}
  /\ UNCHANGED <<row, created, refresh, owner, key, use, req, stray>>

ExpireRefresh(t) ==
  /\ Live(t) /\ t \notin access
  /\ refresh' = [refresh EXCEPT ![t] = "expired"]
  /\ UNCHANGED <<row, created, access, owner, key, use, req, stray>>

(* Bound: a token that can do nothing any more lends its place to a new one. *)
Recycle(t) ==
  /\ refresh[t] \in {"revoked", "expired"} /\ t \notin access
  /\ \A p \in Requests : req[p].from # t
  /\ refresh' = [refresh EXCEPT ![t] = "free"]
  /\ use' = [use EXCEPT ![t] = "never"]
  /\ owner' = [owner EXCEPT ![t] = None]
  /\ key' = [key EXCEPT ![t] = None]
  /\ UNCHANGED <<row, created, access, req, stray>>

Continue(p) ==
  \/ RefreshUser(p)
  \/ Rotate(p)
  \/ \E t \in Tokens : Issue(p, t)
  \/ \E w \in Passwords : UpdateUser(p, w)
  \/ RevokeAllForUser(p)
  \/ DropUser(p)
  \/ Fail(p)

Next ==
  \/ \E u \in Ids, w \in Passwords : CreateUser(u, w)
  \/ \E p \in Requests, u \in Ids, w \in Passwords : Login(p, u, w) \/ ChangePassword(p, u, w)
  \/ \E p \in Requests, t \in Tokens : RefreshRead(p, t) \/ Logout(p, t)
  \/ \E p \in Requests, u \in Ids :
       DisableUser(p, u) \/ EnableUser(p, u) \/ ResetPassword(p, u) \/ DeleteUser(p, u)
  \/ \E p \in Requests : Continue(p)
  \/ \E t \in Tokens : ExpireAccess(t) \/ ExpireRefresh(t) \/ Recycle(t)

Spec == Init /\ [][Next]_vars

(* Requests go on, and time does too. *)
FairSpec ==
  /\ Spec
  /\ \A p \in Requests : WF_vars(Continue(p))
  /\ \A t \in Tokens : WF_vars(ExpireAccess(t))

-------------------------------------------------------------------------------
(* Every variable keeps its type; a request past its read knows its user and *)
(* row, and a token that is not free has an owner. *)
AccountsTypeOK ==
  /\ row \in [Ids -> Row \cup {None}]
  /\ created \subseteq Ids
  /\ refresh \in [Tokens -> {"free", "live", "revoked", "expired"}]
  /\ access \subseteq Tokens
  /\ owner \in [Tokens -> Ids \cup {None}]
  /\ key \in [Tokens -> Passwords \cup {None}]
  /\ use \in [Tokens -> {"never", "once", "again", "shared"}]
  /\ req \in [Requests -> [at : Steps, op : Ops \cup {None}, user : Ids \cup {None},
                           row : Row \cup {None}, from : Tokens \cup {None}]]
  /\ stray \subseteq Ids
  /\ \A p \in Requests : req[p].at # "idle" => req[p].user \in Ids
  /\ \A p \in Requests : req[p].at \in {"issue", "save"} => req[p].row \in Row
  /\ \A p \in Requests : req[p].at \in {"user", "rotate"} => req[p].from \in Tokens
  /\ \A t \in Tokens : refresh[t] # "free" \/ t \in access => owner[t] \in Ids

(* A revocation that is still to come after a write of the row. *)
Pending(u) ==
  \E p \in Requests : req[p].at = "revoke" /\ req[p].user = u /\ req[p].op # "delete"

(* DisableUser, ChangePassword and ResetPassword revoke "all sessions". A    *)
(* session that can still be refreshed belongs to an enabled user whose      *)
(* password is the one it was opened with, as soon as the revocation has     *)
(* been made. The only exceptions are users for whom two requests overlapped *)
(* or a revocation failed, and the next revocation removes those too. *)
SessionsFollowRow ==
  \A t \in Tokens : Live(t) =>
    LET u == owner[t] IN
    \/ u \in stray
    \/ Pending(u)
    \/ ~Exists(u)
    \/ ~row[u].disabled /\ row[u].pass = key[t]

(* Refresh rotation: one session does not become two. A refresh token is     *)
(* exchanged a second time only if two Refresh calls held it at the same     *)
(* time, whatever fails, logs out, expires or is revoked in between; calls   *)
(* that overlap both succeed, since Rotate does not look at the old value.   *)
ExchangedOnce == \A t \in Tokens : use[t] # "again"

(* A user who stays disabled or deleted ends up without any access token     *)
(* that VerifyAccessToken accepts, although it never reads his row. *)
LockedOut ==
  \A u \in Ids :
    <>[](Exists(u) => row[u].disabled) => <>[](\A t \in access : owner[t] # u)
===============================================================================
