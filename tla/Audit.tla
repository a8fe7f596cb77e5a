--------------------------------- MODULE Audit ---------------------------------
(***************************************************************************)
(* The audit trail: the Audit middleware of                                *)
(* backend/internal/api/middleware/audit.go, the AuditService of           *)
(* backend/internal/service/audit.go, and the audit feed of the watch hub  *)
(* (pumpAudit and the audit subscriptions in service/watchhub.go).         *)
(*                                                                         *)
(* A request is recorded after its handler; a row is committed and then    *)
(* broadcast, and the pump of the hub forwards it to the subscribers.      *)
(* Other handlers (Others) call AuditService.Record themselves; the module *)
(* that has them starts their records.                                     *)
(***************************************************************************)
EXTENDS Naturals, Sequences, FiniteSets

CONSTANTS Requests,   \* requests of the API, each handled once
          Others,     \* requests outside the API that record one row
          Users,
          Listeners,  \* watch connections
          FeedCap,    \* capacity of the channel SubscribeStream returns
          Nothing

(* A handled request: what it was, its true user, whether it succeeded.    *)
Call == [kind : {"login", "refresh", "write", "reveal"},
         user : Users \cup {Nothing}, ok : BOOLEAN]

ASSUME AuditAssumption ==
  /\ FeedCap \in Nat \ {0} /\ Requests \cap Others = {} /\ Nothing \notin Users
  /\ Nothing \notin Call

Recorders == Requests \cup Others

VARIABLES
  call,       \* how a request was handled
  rec,        \* progress of the record of a request
  entry,      \* the row being recorded: request, user name, result
  rows,       \* the table, in the order of the commits
  tapped,     \* the hub is subscribed to the service
  feed,       \* the buffer of the hub's channel
  pump,       \* pumpAudit: where it stands, its event, whom it still has to serve
  auditSubs,  \* WatchHub.auditSubs
  inbox,   \* what was sent to each listener
  hubStopped  \* WatchHub.stopped

recordVars == <<rec, entry, rows>>
feedVars == <<pump, auditSubs, inbox, hubStopped>>
auditVars == <<call, recordVars, tapped, feed, feedVars>>

Row == [req : Recorders, user : Users \cup {Nothing}, result : {"allow", "deny"}]

AuditTypeOK ==
  /\ call \in [Requests -> Call \cup {Nothing}]
  /\ rec \in [Recorders -> {"none", "create", "broadcast", "done", "lost"}]
  /\ entry \in [Recorders -> Row \cup {Nothing}]
  /\ rows \in Seq(Row)
  /\ tapped \in BOOLEAN
  /\ feed \in Seq(Row) /\ Len(feed) <= FeedCap
  /\ pump \in [at : {"recv", "send", "ended"}, event : Row \cup {Nothing},
               todo : SUBSET Listeners]
  /\ auditSubs \subseteq Listeners
  /\ inbox \in [Listeners -> Seq(Row)]
  /\ hubStopped \in BOOLEAN

Asleep == [at |-> "recv", event |-> Nothing, todo |-> {}]

AuditInit ==
  /\ call = [r \in Requests |-> Nothing]
  /\ rec = [r \in Recorders |-> "none"]
  /\ entry = [r \in Recorders |-> Nothing]
  /\ rows = <<>>
  /\ tapped = TRUE
  /\ feed = <<>>
  /\ pump = Asleep
  /\ auditSubs = {}
  /\ inbox = [c \in Listeners |-> <<>>]
  /\ hubStopped = FALSE

-----------------------------------------------------------------------------
(* AuditService                                                            *)

StartRecord(r, user, result) ==
  /\ rec' = [rec EXCEPT ![r] = "create"]
  /\ entry' = [entry EXCEPT ![r] = [req |-> r, user |-> user, result |-> result]]
  /\ UNCHANGED rows

Recorded(r) == rec[r] \in {"done", "lost"}

RefusedButSent(r) ==
  /\ rec' = [rec EXCEPT ![r] = "broadcast"]
  /\ UNCHANGED <<entry, rows>>

(* Record returns before the broadcast.                                    *)
RefusedRow(r) ==
  /\ rec' = [rec EXCEPT ![r] = "lost"]
  /\ entry' = [entry EXCEPT ![r] = Nothing]
  /\ UNCHANGED rows

(* CreateAuditLog runs under the context of the request, so it fails when  *)
(* the client has left as well as when the store refuses the row.  The     *)
(* callers log the error and go on.                                        *)
CreateRow(r) ==
  /\ rec[r] = "create"
  /\ \/ /\ rows' = Append(rows, entry[r])
        /\ rec' = [rec EXCEPT ![r] = "broadcast"]
        /\ UNCHANGED entry
     \/ RefusedRow(r)
  /\ UNCHANGED <<call, tapped, feed, feedVars>>

(* broadcast: into the buffer of the hub, dropped when it is full.         *)
Broadcast(r) ==
  /\ rec[r] = "broadcast"
  /\ rec' = [rec EXCEPT ![r] = "done"]
  /\ entry' = [entry EXCEPT ![r] = Nothing]
  /\ feed' = IF tapped /\ Len(feed) < FeedCap THEN Append(feed, entry[r]) ELSE feed
  /\ UNCHANGED <<call, rows, tapped, feedVars>>

-----------------------------------------------------------------------------
(* The middleware and the handlers it wraps                                *)

Handled(r, kind, user, ok) ==
  /\ call[r] = Nothing
  /\ call' = [call EXCEPT ![r] = [kind |-> kind, user |-> user, ok |-> ok]]
  /\ UNCHANGED <<tapped, feed, feedVars>>

(* The users a row may name.  The body of a login tells it, successful or  *)
(* not, unless the middleware cannot parse the whole body, of which the    *)
(* handler only needs the first value.  A refresh that succeeded tells it  *)
(* by the token it answers; else it is the identity of Auth.               *)
Usernames(kind, user, authenticated, ok) ==
  CASE kind = "login" -> {user, Nothing}
    [] kind = "refresh" -> IF ok THEN {user} ELSE {Nothing}
    [] OTHER -> IF authenticated THEN {user} ELSE {Nothing}

Result(ok) == IF ok THEN "allow" ELSE "deny"

(* A login, a refresh (both anonymous) or another write: Auth and the      *)
(* permission guards answer 401 or 403, the handler fails or succeeds, and *)
(* what follows c.Next() builds the entry.                                 *)
Handle(r) ==
  \E kind \in {"login", "refresh", "write"}, user \in Users \cup {Nothing},
     ok, authenticated \in BOOLEAN :
    /\ user = Nothing => kind = "login" /\ ~ok
    /\ ok \/ authenticated => user # Nothing
    /\ kind = "write" /\ ok => authenticated
    /\ authenticated => kind = "write"
    /\ Handled(r, kind, user, ok)
    /\ \E name \in Usernames(kind, user, authenticated, ok) :
         StartRecord(r, name, Result(ok))

(* Recovery is outside Audit: what follows c.Next() is skipped.            *)
Panic(r) ==
  \E kind \in {"login", "refresh", "write"}, user \in Users :
    Handled(r, kind, user, FALSE) /\ UNCHANGED recordVars

(* getResource with reveal=true, which the middleware ignores as a GET: an *)
(* operator's access is recorded as allowed before the read, which may     *)
(* still fail; others are refused.                                         *)
Reveal(r) ==
  \E user \in Users :
    \/ Handled(r, "reveal", user, FALSE) /\ UNCHANGED recordVars
    \/ \E ok \in BOOLEAN :
         Handled(r, "reveal", user, ok) /\ StartRecord(r, user, "allow")

-----------------------------------------------------------------------------
(* The audit feed of the watch hub                                         *)

SubscribeAudit(c) ==
  /\ c \notin auditSubs
  /\ auditSubs' = auditSubs \cup {c}
  /\ UNCHANGED <<call, recordVars, tapped, feed, pump, inbox, hubStopped>>

(* Unsubscribe or RemoveConn.                                              *)
UnsubscribeAudit(c) ==
  /\ c \in auditSubs
  /\ auditSubs' = auditSubs \ {c}
  /\ UNCHANGED <<call, recordVars, tapped, feed, pump, inbox, hubStopped>>

PumpWaitsForListeners ==
  /\ pump.at = "recv" /\ feed # <<>> /\ auditSubs # {}
  /\ feed' = Tail(feed)
  /\ pump' = [at |-> "send", event |-> Head(feed), todo |-> auditSubs]
  /\ UNCHANGED <<call, recordVars, tapped, auditSubs, inbox, hubStopped>>

(* pumpAudit takes an event and, under the lock, the subscribers; it ends  *)
(* when it sees stopped, which takes an event.                             *)
PumpTake ==
  /\ pump.at = "recv" /\ feed # <<>>
  /\ feed' = Tail(feed)
  /\ pump' = IF hubStopped THEN [pump EXCEPT !.at = "ended"]
                        ELSE [at |-> "send", event |-> Head(feed), todo |-> auditSubs]
  /\ UNCHANGED <<call, recordVars, tapped, auditSubs, inbox, hubStopped>>

(* WatchConn.Send outside the lock: dropped when the connection is slow or *)
(* already closed.                                                         *)
PumpSend(c) ==
  /\ pump.at = "send" /\ c \in pump.todo
  /\ pump' = [pump EXCEPT !.todo = @ \ {c}]
  /\ \/ inbox' = [inbox EXCEPT ![c] = Append(@, pump.event)]
     \/ inbox' = inbox
  /\ UNCHANGED <<call, recordVars, tapped, feed, auditSubs, hubStopped>>

PumpSent ==
  /\ pump.at = "send" /\ pump.todo = {}
  /\ pump' = Asleep
  /\ UNCHANGED <<call, recordVars, tapped, feed, auditSubs, inbox, hubStopped>>

(* WatchHub.Stop marks the hub and then leaves the service, which forgets  *)
(* the channel without closing it.                                         *)
StopFeed ==
  /\ ~hubStopped
  /\ hubStopped' = TRUE
  /\ UNCHANGED <<call, recordVars, tapped, feed, pump, auditSubs, inbox>>

Untap ==
  /\ hubStopped /\ tapped
  /\ tapped' = FALSE
  /\ UNCHANGED <<call, recordVars, feed, feedVars>>

-----------------------------------------------------------------------------
Record(r) == CreateRow(r) \/ Broadcast(r)
Pump == PumpTake \/ PumpSent \/ \E c \in Listeners : PumpSend(c)

AuditNext ==
  \/ \E r \in Requests : Handle(r) \/ Panic(r) \/ Reveal(r)
  \/ \E r \in Recorders : Record(r)
  \/ \E c \in Listeners : SubscribeAudit(c) \/ UnsubscribeAudit(c)
  \/ Pump \/ StopFeed \/ Untap

-----------------------------------------------------------------------------
(* Properties                                                              *)

Elements(s) == {s[i] : i \in 1..Len(s)}

(* A listener is never told of something the table does not hold, nor of   *)
(* the same row twice, however commits, broadcasts and deliveries          *)
(* interleave (Record broadcasts after CreateAuditLog succeeded).          *)
FeedIsStored ==
  \A c \in Listeners :
    /\ Elements(inbox[c]) \subseteq Elements(rows)
    /\ Cardinality(Elements(inbox[c])) = Len(inbox[c])

(* A buffered event does not stay behind: the pump drains the channel,     *)
(* listeners or not, until the hub is stopped.                             *)
FeedDrains == feed # <<>> ~> feed = <<>> \/ hubStopped

(* A request of the API that succeeded reaches the audit trail.  What is   *)
(* stored of a request is one row.  It says how the request ended, for a   *)
(* reveal that the access was granted, and names its user or nobody;       *)
(* nobody only for a login or a request that failed.                       *)
RequestRecorded(r) ==
  /\ call[r] # Nothing /\ call[r].ok => rec[r] # "none"
  /\ rec[r] \in {"broadcast", "done"} => \E i \in 1..Len(rows) : rows[i].req = r
  /\ \A i \in 1..Len(rows) :
       rows[i].req = r =>
         /\ rows[i].result = Result(call[r].kind = "reveal" \/ call[r].ok)
         /\ rows[i].user \in {call[r].user, Nothing}
         /\ call[r].ok /\ call[r].kind # "login" => rows[i].user = call[r].user
         /\ \A j \in 1..Len(rows) : rows[j].req = r => i = j
================================================================================
