------------------------------ MODULE Credentials ------------------------------
(* The tokens that the server gives out: short tokens of client kubeconfigs  *)
(* with their one-time download codes (service/kubeissue.go), and enrollment *)
(* tokens of agents (service/enroll.go). Both tables have rows that expire   *)
(* and can be revoked; codes are kept in memory only. A step is one          *)
(* statement or one section of KubeconfigService.mu. Requests read the clock *)
(* early and use what they have read.                                        *)
EXTENDS Integers

CONSTANTS
  Short, Enroll,       \* tokens of either sort, each given out at most once
  Calls,               \* concurrent requests
  None,
  MaxNow,              \* bound: the clock stops here
  CodeTTL, LinkTTL,    \* DownloadCodeTTL, DownloadLinkTTL
  DefaultTTL, MaxTTL, MinTTL,  \* IssuedDefaultTTL, IssuedMaxTTL, IssuedMinTTL
  TtlRequests,         \* what clients ask for, 0 for nothing
  EnrollDefault, EnrollMax,    \* EnrollTokenDefaultTTL, EnrollTokenMaxTTL
  Units,               \* the lengths of h, d, mo and y
  Numbers,             \* the numbers that precede a unit
  HalfRange            \* a Duration is in -HalfRange .. HalfRange - 1

Tokens == Short \cup Enroll

ASSUME CredentialsAssumption ==
  /\ Short \cap Enroll = {} /\ None \notin Tokens \cup 0..MaxNow
  /\ MaxNow \in Nat /\ HalfRange \in Nat \ {0}
  /\ {CodeTTL, LinkTTL, DefaultTTL, MaxTTL, MinTTL, EnrollDefault, EnrollMax} \subseteq Nat
  /\ DefaultTTL <= MaxTTL /\ MaxTTL <= EnrollMax /\ EnrollDefault <= EnrollMax
  /\ TtlRequests \subseteq Nat /\ Units \subseteq Nat /\ Numbers \subseteq Nat

(* now         : the clock                                                   *)
(* registered  : the cluster of all these tokens has its row                 *)
(* given       : tokens that were inserted once                              *)
(* rows        : tokens with a row; exp, never, revoked, used : its columns  *)
(* codes       : when the code of a token was put into memory, or None       *)
(* call        : where each request stands, its token, the time it has read, *)
(*               and whether its token was refused when it began (history)   *)
(* delivered   : downloads that were answered with a kubeconfig: the token   *)
(*               and that last field (history)                               *)
VARIABLES now, registered, given, rows, exp, never, revoked, used, codes, call, delivered
vars == <<now, registered, given, rows, exp, never, revoked, used, codes, call, delivered>>
columns == <<given, rows, exp, never, revoked, used>>

Idle == [at |-> "idle", tok |-> None, time |-> 0, void |-> FALSE]
Steps == {"idle", "clean", "cleanCodes", "insert", "offer", "take", "check",
          "insertEnroll", "confirm", "consume"}
At(p, l) == call[p].at = l
Goto(p, l, t, time, void) ==
  call' = [call EXCEPT ![p] = [at |-> l, tok |-> t, time |-> time, void |-> void]]
Done(p) == call' = [call EXCEPT ![p] = Idle]

(* VerifyShortToken, Check and Validate: the row is there, not revoked, and  *)
(* not expired; a permanent token does not expire. *)
InForce(t, time) == t \in rows /\ t \notin revoked /\ (t \in never \/ time <= exp[t])
Accepts(t) == InForce(t, now)

(* A row is inserted for a token that nobody has seen. *)
Insert(t, expiry, permanent) ==
  /\ t \notin given
  /\ given' = given \cup {t}
  /\ rows' = rows \cup {t}
  /\ exp' = [exp EXCEPT ![t] = expiry]
  /\ never' = IF permanent THEN never \cup {t} ELSE never
  /\ UNCHANGED <<revoked, used>>

-------------------------------------------------------------------------------
(* Issue: the cluster must have a row; expired rows and codes are cleaned    *)
(* away on the way; the time that row and code count from is read once.      *)
Issue(p) ==
  /\ At(p, "idle") /\ registered
  /\ Goto(p, "clean", None, 0, FALSE)
  /\ UNCHANGED <<now, registered, columns, codes, delivered>>

CleanRows(p) ==
  /\ At(p, "clean")
  /\ rows' = {t \in rows : t \in Enroll \/ exp[t] >= now}
  /\ Goto(p, "cleanCodes", None, 0, FALSE)
  /\ UNCHANGED <<now, registered, given, exp, never, revoked, used, codes, delivered>>

CleanCodes(p) ==
  /\ At(p, "cleanCodes")
  /\ codes' = [t \in Short |-> IF codes[t] # None /\ now > codes[t] + LinkTTL THEN None ELSE codes[t]]
  /\ Goto(p, "insert", None, now, FALSE)
  /\ UNCHANGED <<now, registered, columns, delivered>>

(* The lifetime that a request gets. *)
Lifetime(ttl) == IF ttl = 0 THEN DefaultTTL ELSE ttl
ValidTTL(ttl) == MinTTL <= Lifetime(ttl) /\ Lifetime(ttl) <= MaxTTL

InsertIssued(p, t, ttl) ==
  /\ At(p, "insert")
  /\ ValidTTL(ttl)
  /\ Insert(t, call[p].time + Lifetime(ttl), FALSE)
  /\ Goto(p, "offer", t, call[p].time, FALSE)
  /\ UNCHANGED <<now, registered, codes, delivered>>

OfferCode(p) ==
  /\ At(p, "offer")
  /\ codes' = [codes EXCEPT ![call[p].tok] = call[p].time]
  /\ Done(p)
  /\ UNCHANGED <<now, registered, columns, delivered>>

(* Download: reading the code consumes it, also when it turns out expired;   *)
(* then the row is looked up, since it may have been revoked meanwhile.      *)
Download(p, t) ==
  /\ At(p, "idle") /\ t \in given
  /\ Goto(p, "take", t, now, ~Accepts(t))
  /\ UNCHANGED <<now, registered, columns, codes, delivered>>

InTime(issuedAt, time) == time <= issuedAt + CodeTTL /\ time <= issuedAt + LinkTTL

TakeCodeKeeps(p) ==
  /\ At(p, "take")
  /\ IF codes[call[p].tok] # None /\ InTime(codes[call[p].tok], call[p].time)
     THEN Goto(p, "check", call[p].tok, call[p].time, call[p].void)
     ELSE Done(p)
  /\ UNCHANGED <<now, registered, columns, codes, delivered>>

TakeCode(p) ==
  /\ At(p, "take")
  /\ codes' = [codes EXCEPT ![call[p].tok] = None]
  /\ IF codes[call[p].tok] # None /\ InTime(codes[call[p].tok], call[p].time)
     THEN Goto(p, "check", call[p].tok, call[p].time, call[p].void)
     ELSE Done(p)
  /\ UNCHANGED <<now, registered, columns, delivered>>

Deliver(p) == delivered' = delivered \cup {[tok |-> call[p].tok, void |-> call[p].void]}

CheckRowSkipped(p) ==
  /\ At(p, "check")
  /\ Deliver(p)
  /\ Done(p)
  /\ UNCHANGED <<now, registered, columns, codes>>

CheckRow(p) ==
  /\ At(p, "check")
  /\ IF InForce(call[p].tok, call[p].time) THEN Deliver(p) ELSE UNCHANGED delivered
  /\ Done(p)
  /\ UNCHANGED <<now, registered, columns, codes>>

-------------------------------------------------------------------------------
(* parseTTL of enrollment tokens: nothing, permanent, or a number of units,  *)
(* whose product wraps before it is compared with the maximum.               *)
Wrap(x) == ((x + HalfRange) % (2 * HalfRange)) - HalfRange

ParseTTL ==
  {EnrollDefault} \cup {d \in {Wrap(n * u) : n \in Numbers \ {0}, u \in Units} : d <= EnrollMax}

CreateEnroll(p) ==
  /\ At(p, "idle") /\ registered
  /\ Goto(p, "insertEnroll", None, now, FALSE)
  /\ UNCHANGED <<now, registered, columns, codes, delivered>>

InsertEnroll(p, t) ==
  /\ At(p, "insertEnroll")
  /\ \/ \E d \in ParseTTL : Insert(t, call[p].time + d, FALSE)
     \/ Insert(t, call[p].time, TRUE)
  /\ Done(p)
  /\ UNCHANGED <<now, registered, codes, delivered>>

(* An agent registers: Validate, and once it has been answered Confirm,      *)
(* which looks again and then marks the row used by one conditional update.  *)
Validate(p, t) ==
  /\ At(p, "idle") /\ Accepts(t)
  /\ Goto(p, "confirm", t, 0, FALSE)
  /\ UNCHANGED <<now, registered, columns, codes, delivered>>

Confirm(p) ==
  /\ At(p, "confirm")
  /\ IF Accepts(call[p].tok) THEN Goto(p, "consume", call[p].tok, 0, FALSE) ELSE Done(p)
  /\ UNCHANGED <<now, registered, columns, codes, delivered>>

ConsumeSavesRow(p) ==
  /\ At(p, "consume")
  /\ rows' = rows \cup {call[p].tok}
  /\ used' = used \cup {call[p].tok}
  /\ revoked' = revoked \ {call[p].tok}
  /\ Done(p)
  /\ UNCHANGED <<now, registered, given, exp, never, codes, delivered>>

Consume(p) ==
  /\ At(p, "consume")
  /\ used' = used \cup ({call[p].tok} \cap rows)
  /\ Done(p)
  /\ UNCHANGED <<now, registered, given, rows, exp, never, revoked, codes, delivered>>

-------------------------------------------------------------------------------
(* Revoke of either sort: an update by id; the look-up before it only        *)
(* decides who may. *)
Revoke(t) ==
  /\ t \in rows
  /\ revoked' = revoked \cup {t}
  /\ UNCHANGED <<now, registered, given, rows, exp, never, used, codes, call, delivered>>

Tick ==
  /\ now < MaxNow
  /\ now' = now + 1
  /\ UNCHANGED <<registered, columns, codes, call, delivered>>

(* The cluster is registered or deleted; its tokens stay. *)
ClusterChanges ==
  /\ registered' = ~registered
  /\ UNCHANGED <<now, columns, codes, call, delivered>>

(* The server stops and starts again: what was in memory is gone. *)
Restart ==
  /\ codes' = [t \in Short |-> None]
  /\ call' = [p \in Calls |-> Idle]
  /\ UNCHANGED <<now, registered, columns, delivered>>

Init ==
  /\ now = 0 /\ registered \in BOOLEAN
  /\ given = {} /\ rows = {} /\ never = {} /\ revoked = {} /\ used = {}
  /\ exp = [t \in Tokens |-> 0]
  /\ codes = [t \in Short |-> None]
  /\ call = [p \in Calls |-> Idle]
  /\ delivered = {}

Next ==
  \/ \E p \in Calls :
       \/ Issue(p) \/ CleanRows(p) \/ CleanCodes(p) \/ OfferCode(p)
       \/ \E t \in Short, ttl \in TtlRequests : InsertIssued(p, t, ttl)
       \/ \E t \in Short : Download(p, t)
       \/ TakeCode(p) \/ CheckRow(p)
       \/ CreateEnroll(p)
       \/ \E t \in Enroll : InsertEnroll(p, t) \/ Validate(p, t)
       \/ Confirm(p) \/ Consume(p)
  \/ \E t \in Tokens : Revoke(t)
  \/ Tick \/ ClusterChanges \/ Restart

Spec == Init /\ [][Next]_vars

-------------------------------------------------------------------------------
(* Every variable keeps its type. No lifetime is beyond the maximum, whatever*)
(* overflowed: one that wrapped may only have ended before it began.         *)
CredentialsTypeOK ==
  /\ now \in 0..MaxNow /\ registered \in BOOLEAN
  /\ rows \subseteq given /\ never \subseteq given /\ revoked \subseteq given /\ used \subseteq given
  /\ given \subseteq Tokens
  /\ exp \in [Tokens -> -HalfRange..(MaxNow + EnrollMax)]
  /\ codes \in [Short -> 0..MaxNow \cup {None}]
  /\ call \in [Calls -> [at : Steps, tok : Tokens \cup {None}, time : 0..MaxNow, void : BOOLEAN]]
  /\ \A p \in Calls :
       /\ call[p].at \in {"offer", "take", "check"} => call[p].tok \in Short \cap given
       /\ call[p].at \in {"confirm", "consume"} => call[p].tok \in Enroll \cap given
  /\ delivered \subseteq [tok : Short, void : BOOLEAN]

(* A token that was refused once, because it was revoked, expired or cleaned *)
(* away, is refused for ever, whatever registrations, downloads and clean-ups*)
(* were under way: none of them writes back a row it has read before.        *)
RefusedStaysRefused ==
  [][\A t \in Tokens : t \in given /\ ~Accepts(t) => ~Accepts(t)']_vars

(* "code 有效但凭证已被撤销/过期时拒绝": no download that began after its      *)
(* token had been revoked or had expired is answered with a kubeconfig.      *)
NothingVoidDelivered == \A d \in delivered : ~d.void

(* "一次性下载 code": the life of each code is one of the abstract vouchers.  *)
HeldBy(l, t) == \E p \in Calls : At(p, l) /\ call[p].tok = t
phase ==
  [t \in Short |->
     IF \E d \in delivered : d.tok = t THEN "redeemed"
     ELSE IF codes[t] # None THEN "open"
     ELSE IF HeldBy("check", t) THEN "taken"
     ELSE IF t \in given /\ ~HeldBy("offer", t) THEN "void"
     ELSE "unused"]

Promise == INSTANCE Voucher WITH Vouchers <- Short
CodesAreVouchers == Promise!Spec
================================================================================
