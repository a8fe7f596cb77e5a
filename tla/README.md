# kubeUI: a TLA+ model of the control plane

kubeUI is a web console for many Kubernetes clusters: a Go server
(`src/backend`) that keeps one runtime per cluster, an agent that connects
clusters without inbound access (`src/backend/cmd/agent`), and a browser client
(`src/frontend`). This directory holds TLA+ modules of the server and the agent:
the parts where goroutines, connections and callbacks meet, and the services
that change the database in several statements; the TLC configurations that
check them; and theorems checked by TLAPS.

All paths below are relative to `src/backend/internal/` unless they start with
`src/`.

## 1. The system

| Component | State | Operations | Talks to |
|---|---|---|---|
| Agent tunnel hub (`agent/hub.go`, `tunnel.go`) | `Hub.sessions`, `Hub.pipes`, a goroutine per socket | register, evict, run, onExit, Close, DialContext, ServeData | tokens, manager (SetDialer, Register), OnConnect/OnDisconnect in `src/backend/cmd/server/main.go` |
| Agent client (`agent/client.go`) | one signaling session, backoff | connect, register, heartbeat, handleDial | hub, the cluster's apiserver |
| Cluster manager (`k8s/manager.go`, `runtime.go`, `health.go`) | `Manager.runtimes`, a health loop per runtime | Register, Unregister, Close, runHealth, notify | store (status column), watch hub (listener), pool |
| Informer pool (`k8s/informer.go`) | `entries`, handlers, idle times | Watch, Unwatch, EnsureEventInformer, Stop, reapLoop, dispatch | watch hub |
| Watch hub (`service/watchhub.go`, `api/handler/watch.go`) | `subs`, `conns`, `clusterSubs`, `auditSubs` | Subscribe, Unsubscribe, RemoveConn, Stop, deliver, followPodLogs, pumpAudit | manager, pool, audit, browser |
| Audit trail (`service/audit.go`, `api/middleware/audit.go`) | `audit_logs`, channels of subscribers | the middleware, Record, broadcast | store, watch hub |
| Cluster registration (`service/clusterreg.go`, `registry.go`) | cluster rows, memory registry | Register, RestoreClusters, Delete, RotateKubeconfig | manager (hook), store |
| Authentication, users (`service/auth.go`, `user.go`) | users, refresh tokens | Login, Refresh, Revoke, DisableUser, ChangePassword, ResetPassword, DeleteUser | store |
| Enrollment tokens (`service/enroll.go`) | token rows | Create, Validate, Confirm, Revoke | agent hub |
| Roles and grants (`service/role.go`, `store/rbac.go`) | roles, groups, members, grants, scopes | create, update, delete, grant, Authorize | store |
| Issued kubeconfigs (`service/kubeissue.go`) | rows, one-time codes in memory | Issue, Download, Revoke, VerifyShortToken | store |
| Terminal, log stream (`api/handler/terminal.go`, `logstream.go`) | a handler and a reading goroutine per socket | exec, pumps, closing | apiserver, audit |
| Kubernetes proxy (`api/handler/proxy.go`) | `proxyClients`, a client per configuration | k8sProxy, clientFor | manager, audit, apiserver |
| Resource browsing (`service/resource.go`, `manifest.go`) | none | list, get, apply | apiserver |
| Storage (`store/`) | the tables | one statement or transaction each | database |
| Browser client (`src/frontend/src/api/ws.ts`, `http.ts`) | shared socket, subscriptions, refresh in flight | connect, reconnect, subscribe, close, refresh | server |

What is hard here is concurrency, in memory and in the database. The hub and
the manager give up their lock in the middle of an operation (`hub.go:247`,
`manager.go:154`), the watch hub calls the pool outside its lock on a runtime
it looked up earlier (`watchhub.go:158,204,241`), callbacks of successive
sessions write the same row (`main.go:121-148`), time-outs race with answers
(`tunnel.go:157`), and objects are stopped while others still use them. The
services read a row in one statement and write it, whole, in a later one
(`user.go:49-57`, `repos.go:142-146`), check that a row is there before they
insert a reference to it (`role.go:408`), keep table, registry and manager in
step without a transaction (`clusterreg.go:122-134`), and any request may fail
or the server stop between two statements. `PROJECT.json` lists these hazards
line by line with the properties that cover them.

For each component, what makes it correct:

- **Agent hub**: a session removes only itself from the map; each dial gets the
  channel its own connId asked for, and leaves no pipe behind; the status of a
  cluster follows the sessions that serve it, as far as the store takes the
  writes; handlers of dead peers end.
- **Agent**: the backoff grows and is reset; a dead session is given up; a dial
  leaves no connection behind, however it ends, and ends with its session; after
  SIGTERM nothing runs on.
- **Manager**: the status follows the probes; a removed runtime is silent; a
  replaced one never writes the last word over its successor; every call
  returns.
- **Watch hub and pool**: both maps of the hub agree; an informer runs while a
  handler needs it and is reclaimed afterwards; nothing starts in a closed pool.
- **Pod logs**: each follower can be stopped and ends with its connection.
- **Registration**: table, registry and manager agree when nothing is in
  flight and what was torn has been repaired, also after a crash; only a
  kubeconfig that was probed makes a direct cluster.
- **Users**: sessions follow the row; one session does not become two by an
  exchange after an exchange; a disabled user ends up without access.
- **Roles**: cascades leave nothing behind, built-in roles are immutable, and
  Authorize decides what the tables say.
- **Tokens**: what was refused once stays refused; a download code serves once
  and never for a void token.
- **Terminal and logs**: an exec is audited from start to end, both goroutines
  end, a log that goes on is left once its client has gone.
- **Audit and proxy**: a row tells the outcome; the feed shows stored rows only
  and is drained; a request is served with the credentials of a runtime that
  was registered while it ran, and past the tunnel only by a client older than
  the tunnel.

## 2. Modules

| Module | Models | One step is |
|---|---|---|
| `AgentHub` | hub, tunnel, callbacks of `main.go`, the health loop as far as it publishes | one critical section of `Hub.mu`, one frame, one callback write, one wake-up |
| `AgentClient` | the agent: the loop of `Run`, a signaling session with its goroutines, the handlers of dials | one blocking call or one wake-up of a goroutine |
| `ClusterManager` | `Manager`, `runHealth`, `notify`, the clusters feed, for one cluster | one critical section of `Manager.mu`, one join, one probe with its `setStatus`, one callback |
| `InformerPool` | the operations of a pool, for every runtime of a cluster | one critical section of `InformerPool.mu` |
| `WatchHub` | the hub's resource subscriptions, driving `InformerPool` and the replacement of runtimes | one critical section of `WatchHub.mu`, one `Manager.Get`, one pool call |
| `PodLogs` | the hub's log subscriptions and their followers | one critical section, one cancel, one return of a blocking call |
| `ClusterReg` | registration over the clusters table, the memory registry, the runtime and the callbacks that write all three | one statement, one registry call, one critical section; a restart anywhere |
| `Accounts` | users and refresh tokens | one SQL statement |
| `Rbac` | roles, role groups, user groups, grants, scopes, seeding and migration; Authorize as operators | one SQL statement or transaction |
| `Credentials` | issued kubeconfigs with their codes, enrollment tokens | one statement or one section of `KubeconfigService.mu` |
| `Voucher` | what a one-time code promises: the abstract specification that `Credentials` implements for download codes and `AgentHub` for connIds | |
| `Streams` | `podTerminal` and `podLogStream` with the goroutine that reads their socket | one blocking call or frame of a goroutine |
| `Audit` | the audit middleware, `AuditService` and the hub's audit feed | one statement, one broadcast, one send |
| `Proxy` | `k8sProxy` with its client cache and the manager calls it depends on; extends `Audit` | one lookup, one critical section, one record |
| `Agent_proofs` | theorems about `AgentHub` and `AgentClient` | |
| `PodStreams_proofs` | theorems about `PodLogs` and `Streams` | |
| `WatchAudit_proofs` | theorems about `InformerPool` with `WatchHub` and about `Audit` with `Proxy` | |
| `ClusterManager_proofs`, `ClusterReg_proofs`, `Accounts_proofs`, `Credentials_proofs`, `Rbac_proofs` | theorems about the module of that name | |
| `MC*` | constants and symmetry for TLC | |

Who composes with whom: `WatchHub` extends `InformerPool` and drives it; `Proxy`
extends `Audit` and starts its records; `Credentials` and `AgentHub` instantiate
`Voucher`. The proof modules put two components side by side for their theorems
only; nothing is shared between them. `ClusterReg` has the runtime with an
abstract health loop, which `ClusterManager` has in detail; `AgentHub` has the
same callbacks from the side of the sessions. `AgentClient` and `AgentHub` are
the two ends of a session; each leaves the other end free to answer, stay silent
or go.

How they read: identities that the code takes from a random source, a sequence
or an address are elements of a constant set (`Conns`, `Dials`, `Runtimes`,
`Followers`, `Tokens`, ids of rows). Each is used once, which bounds how often
things happen. A program counter per goroutine or request (`pc`, `dpc`, `reg`,
`loop`, `at`, `stage`, `call`, `req`) says where it stands between two steps.
Each module names the code above every action. Variables marked *history* are
not in the code: they remember what a property is about.

Choices that a reader should know:

- `AgentHub`: a session is identified with its socket and so is its
  `sessionKey`, which `newSecret` never repeats. `ws = "lost"` is a peer that has
  gone and that the server has not noticed; a write may then succeed or fail.
  The status column and the memory registry are separate variables because
  every callback writes one after the other. A cluster starts with a runtime
  or without one; `AttachDialer` re-registers an existing one only, in the
  steps of `Manager.Register`, so that two attachments may overlap and leave a
  runtime running. A health loop is reduced to the status it publishes. Every
  write of the status column may fail, which `main.go:100,131,143` only log:
  the history variable `unsaved` remembers the clusters whose last write did.
- `AgentClient`: sessions are numbered in the order in which they register. A
  read ends when its socket is closed, when the server has gone, or by its
  deadline once nobody sends pings any more, which the server would answer
  (`Unreadable`). Bytes are left out: a copy between two connections ends when
  it reads the end of one or, with data to deliver, when it finds the other
  one gone.
- `ClusterManager`: failures are counted up to `MaxFails`. Waiting times are
  kept as the values the loop would hand to its timer; time itself is not
  modelled, so a timer may fire at any moment. `select` may prefer the timer to
  a closed `stopCh`, as in Go. `unsaved` is as in `AgentHub`.
- `InformerPool`: `aged` marks an informer not used for `informerIdleTTL`; any
  informer may age, and Watch or Unwatch makes it young again.
- `WatchHub`: one cluster; the runtime registry is the part of the manager that
  decides which pool a call reaches, with any number of registrations under way
  (`registering`). The initial list is data. `stale` remembers a Subscribe call
  that holds a `subState` which `Stop` has thrown away. Resolution of names
  cannot fail here, because every resource of `watchResources` with an informer
  is in `builtinResources`.
- `PodLogs`: a follower is one accepted subscription. The text itself is left
  out.
- `Accounts`: `use` is the history of the exchanges of a token: none, one, more
  than one, or one of a time when two Refresh calls held it. gorm's `Save`
  writes all columns of what was read and inserts the row again if it has gone;
  the model does so. Sessions that such a lost update or a failed revocation
  leaves behind belong to users in `stray`, until the next revocation:
  `SessionsFollowRow` names them rather than hiding them. `Recycle` gives the
  place of a token that can do nothing any more to a new one, so that behaviours
  do not end with the set of tokens.
- `Rbac`: references are plain ids; the only foreign key AutoMigrate makes is
  that of `grant_scopes.grant_id`. A transaction is one step: SQLite has one
  writer at a time, and on Postgres (READ COMMITTED) what others commit between
  its statements either survives it, as if it had come right after it, or is
  refused by that key, which fails the transaction (the header of the module).
  Look-ups by name that a unique index decides again are left out; `late`
  remembers references that were inserted after their end had gone. The built-in
  role of a user is a constant because no service operation changes it.
- `ClusterReg`: `torn` remembers that calls overlapped, that one failed
  half-way or that `RestoreClusters` did, at the listing, a hook or a status
  write. A call that runs alone to its end, or a restart whose
  `RestoreClusters` goes through, repairs that, and only then does
  `TablesAgree` say something: overlapping calls do leave the three apart
  (section 8). The status column is reduced to offline or not. FirstOrCreate
  is a SELECT and an INSERT or, for a row that is there, an UPDATE of its own,
  before the Save.
- `Credentials`: time is a clock; requests use the time they read early.
  Lifetimes of enrollment tokens are products in a ring of `2 * HalfRange`
  values, as Go's `Duration` is.
- `Streams`: gorilla/websocket's contract (a failed write or read is for good)
  and `io.Pipe`'s (a write blocks until it is read or the pipe is closed) are
  modelled; client-go's exec is a process that may take input and end.
- `Audit`, `Proxy`: a handled request is its kind, its user and whether it
  succeeded. A reveal is recorded as allowed before it is carried out, and may
  still fail; the body of a login that the handler accepts may be one that the
  middleware cannot parse. A `rest.Config` stands for its pointer, which is the
  cache's key, and for the credentials in it; its `Dial` is a field that
  `attachDialer` changes in place, and a cached client keeps the one it was
  built with.

## 3. Runs

| Run | Shows | Instance |
|---|---|---|
| `agent_hub` | `DegradedWhenGone`, `PipeHasDialer`, `ConnIdsAreVouchers`, `OnlyOwnEntryRemoved`, `GoneNotReadyForever`, `HandlerEnds` | 2 connections of one cluster, its first runtime and those of the 2 attachments, 1 dial; 228 394 states |
| `agent_client` | `HandlerLeavesNothing`, `AttemptsGoOn`, `SessionEndsWhole` | 1 dial, 2 sessions, backoff 1 to 3; 103 881 states |
| `watch_hub` | `SubsMirror`, `NeededInformersRun`, `NoHandlerLeak`, `InformersDrain` | 2 connections, 3 runtimes, 1 key; 416 442 states |
| `podlogs` | `FollowerAccounted`, `FollowersEndWithConn` | 2 connections, 1 pod, 3 followers; 88 776 states |
| `manager` | `HealthMatchesFailures`, `BackoffDoubles`, `RemovedIsSilent`, `StoreIsCurrent`, `CallsReturn` | 2 registrations, 1 removal, 1 subscriber of the feed, thresholds 2 and 3, 6 failures, backoff 1 to 3; 316 434 states |
| `accounts` | `SessionsFollowRow`, `ExchangedOnce`, `LockedOut` | 1 user id, 2 passwords, 2 tokens, 2 requests; 1 247 501 states |
| `rbac` | `ScopesHaveGrant`, `CascadeComplete`, `AuthorizeIsHolds`, `BuiltinImmutable` | a user, a group, a built-in and a custom role, a role group, 2 clusters and namespaces, at most 1 grant at a time, 2 requests; 1 724 916 states |
| `clusterreg` | `TablesAgree`, `ProbedBeforeStored` | 2 kubeconfigs (one with several contexts), 2 master keys, 2 calls; 4 353 364 states |
| `credentials` | `NothingVoidDelivered`, `RefusedStaysRefused`, `CodesAreVouchers` | 1 token of either sort, 2 requests, clock to 3; 820 512 states |
| `streams` | `SessionAudited`, `PumpEnds`, `ChattyLogEnds` | 1 terminal, 1 log session, queues of 1; 114 140 states |
| `gateway` | `FeedIsStored`, `OutcomeRecorded`, `ServedWithCurrentCredentials`, `FeedDrains` | 1 API and 1 proxy request, 1 listener, 2 configurations, 1 attachment, feed of 1; 1 131 672 states |

Why these bounds: clusters, keys, pods and sessions of the code share nothing
but maps indexed by them, so one of each is enough for the races inside one. The
exception is an informer that several watch ids share, which the theorem
`HandlersKeepInformer` covers for any `EntryOf`. Two connections are one that is
replaced and one that replaces it (hub), or one that leaves while another
subscribes (watch hub). A dial shares with other dials only the pipe table,
where each has its own connId. Three constraints of `MCAgentHub` keep apart what
does not read one another: tokens are revoked only beside connections
(`RevokedAlone`), since nothing but a registration reads them, and the session
that a refused confirmation leaves in the map is also left by a failed write; a
dial meets sessions and sockets, which neither runtimes nor lost writes change
(`DialedAlone`); and a write is lost without a shutdown or a revocation beside
it, which only end handlers (`LostAlone`). They cut off free actions and the
failing outcome of a write, never a step that fairness demands. At the agent
dials share nothing at all; the two sessions of `agent_client` let a handler of
the first meet the second, and its backoff passes the cap. Two runtimes are the
old and the new one; the third of `watch_hub` lets two registrations overlap
after a first, while one connection acts (`ThirdWithOne`; runtimes are built in
a fixed order, `Ordered`, because they are interchangeable). In `manager` a lost
write meets no subscriber of the feed (`LostUnwatched`), which neither reads nor
writes the column. Three followers let the late failure of the first meet the
third, with the second in between. Thresholds 2 and 3 with six failures stay
below, pass both and go on; the backoff reaches its cap and is reset. Two
requests are what it takes for one to change what the other has read; where
three would meet, the theorems of section 6 hold for any number. In `rbac` one
grant suffices for the cascades and for Authorize, which is a union over grants;
the theorems have no such bound. The clock of `credentials` passes both
lifetimes of a code and of a token. In `gateway` the client cache is also filled
by requests that the model does not follow (`Unfollowed`), so one followed
request meets every state of it; with one proxy request and one API request,
rows, feed and broadcast interleave. An agent attaches there without an API
request and without a listener (`GatewayAlone`), which read no runtime. Deadlock
is checked in `clusterreg` and `credentials`; the other models stop when their
connections, requests or registrations are used up.

`StoreIsCurrent` says something only while no Unregister has been called: a
Register that overlaps one does not wait for the old loop (section 8). It, and
`DegradedWhenGone` and `GoneNotReadyForever`, except a column whose last write
failed: nobody tries that again, and a loop publishes changes only, so such a
column stays wrong until the next change (section 8).

### A property that does not hold

| Run | Property | Said in | What happens |
|---|---|---|---|
| `watch_reregister` | `LiveHasHandler` | `src/docs/api/websocket.md:50` | a re-registration (every agent reconnect makes one) replaces the pool; subscriptions that exist are not carried over |

`LiveHasHandler` also fails without any re-registration: the Unwatch of the
last subscriber, called outside the lock, removes the handler that a new first
subscriber has just registered under the same id (`watchhub.go:204`).

## 4. Refinement

`Voucher` states what a thing that may be used once promises: it is offered
once, taken by one holder, redeemed at most once by that holder, and void for
ever once it is lost. Two components implement it, each under a mapping `phase`
of its own.

`Credentials`: the "一次性下载 code". `phase` reads the life of a code off the
memory map, the requests that hold it and the history of deliveries.
`CodesAreVouchers` is the abstract specification as a property of the run
`credentials`, and the theorem `CodesImplementVouchers` proves it for any number
of codes and requests: each step of `Credentials` that changes a phase is an
`Offer`, `Take`, `Redeem` or `Spoil`, the last one for a restart, which loses
all codes at once.

`AgentHub`: the connId of a dial. `takePipe` puts it into the pipe table
(`Offer`), the request of the agent that finds it there consumes it under the
lock (`Take`), the dial receives the channel of that request (`Redeem`).
A time-out voids it at once if the channel is already on its way, and otherwise
when its entry goes, whether `dropPipe` or a late request takes it; no later
step may then honour it. The property
`ConnIdsAreVouchers` is checked by `agent_hub` and proved for any number of
dials and sessions (`ConnIdsImplementVouchers`). `phase` looks at three
variables of three goroutines, and the mapping is only right because of the
invariant `DialInv`: a dial that receives has lost its pipe already.

## 5. Fairness

An enabled step of a goroutine needs nothing but the scheduler, a deadline or a
database answer, so goroutines and started requests are weakly fair; clients,
agents, administrators, pods and shutdown are free.

- `AgentHub`: the handler of each connection, the publication of a transition,
  and the health loop that finds a dead tunnel: probes have deadlines, and
  `DegradedThreshold` of them fail. That a probe fails although the tunnel
  works, or succeeds again, is free. `AttachInstall` is strongly fair for the
  same reason as `LoopStop` below: it waits for a loop that may publish first.
- `AgentClient`: the loop of `Run`, the watcher, the handlers, and copies that
  have an end to read. Dialling, the reply to a registration and reads all have
  deadlines. The server, both ends of a tunnel, the data on it and the signal to
  stop are free.
- `WatchHub`: a hub call that has begun goes on, a replacement completes, a
  pool that was told to stop does, reaper and clock advance.
- `PodLogs`: a stop about to be called is called, an open returns, a follower
  with a cancelled context ends; a log may be followed for ever.
- `ClusterManager`: calls and loops go on. `LoopStop` is strongly fair: Go's
  `select` chooses at random among ready cases, and after each `timer.Reset` the
  closed `stopCh` is the only ready one.
- `Accounts`: requests go on and access tokens expire (`AccessTokenTTL`).
- `Streams`: handlers go on, a read of a socket that either side has closed
  returns, a write to a closed pipe returns. Nothing is assumed of a silent
  pod; `ChattyLogEnds` is therefore conditional on the pod logging again and
  again.
- `Proxy` with `Audit`: `pumpAudit` runs when it has something to do.

## 6. Proofs

The theorems hold for every value of the constants under the named assumptions
of the modules: `None` and `Nothing` are not members of the sets they are used
with (for `Nothing` these include the outcomes a handler may leave to the audit
middleware), sets of different kinds are disjoint, functions between constants
have their domains and ranges, `0 < DegradedThreshold < ReconnectThreshold <=
MaxFails`, `0 < BackoffStart <= BackoffMax`, and the maximal lifetimes bound the
default ones. `AuthorizeDecides` needs that there is at least one cluster and
namespace, that the wildcard is none of them, and that no seeded role but admin
holds `*`, as in `BuiltinRoleSeeds`.

| Theorem | Argument |
|---|---|
| `Agent_proofs!TypeCorrect` | `TypeOK` is inductive; its conjunct on `publish` needs that `AttachInstall` waits for a loop in the middle of a publication |
| `PipeAlwaysHasDialer`, `ChannelAlwaysMatchesDial` | an invariant of the rendezvous that ties the program counter of a dial, its pipe, its frame and its channel together: without it a step of `ServeData` could meet a channel in any state |
| `ConnIdsImplementVouchers` | the same invariant: each step of a dial, of the agent's frame or of `ServeData` moves the phase of one connId, or none (`OneMoves`), and all other steps leave the tunnel alone (`TunnelStep`) |
| `OwnEntryRemoved` | an action property, from `TypeOK` and the test of `Deregister` |
| `LastHandlerDegrades` | per cluster, the last handler to run has gone through `OnDisconnect`: the invariant says where the two writes of each handler stand relative to those of all others; a write that failed leaves the cluster in `unsaved`, where only a write that succeeds takes it out |
| `ClientTypeCorrect`, `HandlersLeaveNothing`, `OneSessionServed` | `ClientInv`: `HandlerHolds` says which connections and copies a handler has at each of its stages (from the start of the copies both have run, a copy that ended has closed the connection it read from, and `join` is reached with both closed); a session after the current one is untouched, so no handler belongs to one |
| `ClusterManager_proofs!TypeCorrect` | inductive, with lemmas that a probe leads from a health record to a health record |
| `StatusFollowsFailures` | `LoopInv`: a loop runs only after its Register returned, and until then its record is that of a loop which has probed nothing; `ProbeMatches` says that a failure jumps over no threshold |
| `BackoffAlwaysDoubles` (from `WaitsDouble`) | `BackoffInv`: while a loop reconnects, the wait it has just set is the `k`-th term of the capped doubling sequence and its backoff the next one, where `k` counts the failures past the threshold; `CappedDoubles` says that doubling and capping a capped term gives the next capped term |
| `RemovedStaysSilent` | a runtime whose loop has ended stays ended (`EndedForGood`), and `UnregisterJoin` waits for that |
| `StoreStaysCurrent` | `StoreInv`: whoever has written the column after a runtime that is running is not finished; `StopsAwaited` hands that on, because a loop ends only while a call waits for it; a failed write of the last one sets `unsaved` |
| `WatchAudit_proofs!SubscriptionsMirror` | `Calls`: a call before or in its Watch belongs to a connection that has not left, and one that holds a thrown-away `subState` is no longer in the key's entry, so taking it back cannot touch another's subscription |
| `NeededKeepRunning` (from `HandlersKeepInformer`, `ResidentKeepsRunning`), `ClosedPoolStaysEmpty` | `PoolInv`, inductive with the types; `EntryOf` may be any function |
| `HandlersDoNotLeak` | see below |
| `FeedIsAlwaysStored` | `FeedInv`: the rows that have been broadcast, those that wait in the feed, the one `pumpAudit` is sending and those a listener has received are stored rows, no two alike, and the feed holds none that was already received |
| `OutcomeAlwaysRecorded` | `RecordInv` and `CallInv`: a request has at most one row, has it exactly when it is past its `Record`, and row and pending entry tell the outcome (`Tells`, `AnswerOf`) that its handler left |
| `AlwaysServedWithCurrentCredentials` | `CallInv`: a request that has passed its lookup carries a configuration out of those registered since it arrived, and the client it is given was built for that very one; a client without the tunnel was built from a configuration older than it, since every later one gets the dialer before it is registered |
| `PodStreams_proofs!FollowersAccounted`, `ConnKeysAlwaysMatch` | `Used`: an entry, a pending stop and a cancelled context belong to a started follower; Unsubscribe by the browser and by a failed follower share one lemma, `DropKeeps` |
| `SessionsAudited` | `AuditedSoFar`: the rows of a session follow from its stage, unless a write of the audit trail was lost, and before the exec starts there is no process |
| `ClusterReg_proofs!TypeCorrect`, `DirectIsProbed` | `Fit`: a call carries what its later steps use, and a direct registration past its probe has a probed kubeconfig |
| `TablesAlwaysAgree` | see below |
| `Accounts_proofs!SessionsAlwaysFollow` | `Known`: rows, sessions and requests are those of created users; `Entitled`: a request that is about to issue tokens has read an enabled user, and one that is to save a row deletes nobody. If the row has changed since it was read, the write puts the user in `stray` |
| `AlwaysExchangedOnce` | `Uses`: a token that was exchanged once is revoked and no request holds it, so nobody can read it again; one that two calls hold was marked when the second of them read it. `Exchanged`: the token a Refresh carries past its rotation is revoked, and only `Recycle` moves a revoked token, one that no request holds |
| `Credentials_proofs!NothingVoidIsDelivered`, `RefusedForGood` | `VoidStaysVoid`: a download that began with a refused token still finds it refused at the time it has read; a row once gone is not inserted again (`given`), and the clock does not go back |
| `CodesImplementVouchers` | a lemma per action on `phase`; `OneCode`: the one code of a token is with the call that issues it, in memory, with the download that took it, or spent |
| `Rbac_proofs!CascadesComplete` | per reference: either its ends are there, or it is in `late`; each cascade removes exactly the references to what it deletes, and each late insertion is recorded |
| `ScopesAlwaysHaveGrant` | scopes are inserted with their grant and deleted with it, in `Cascade` |
| `BuiltinNeverChanges` | a request that saves or deletes a role holds a custom one (`Informed`), and seeding fills only what is missing, which is nothing |
| `AuthorizeDecides` | a set argument: `ScopeMatches` is the meeting of two rectangles (`Region`), and the unions of `EffectivePermissions` are the chains of `Holds` |

`NoHandlerLeak` speaks of moments when no call about the key is under way, so
its invariant has to say what the calls under way still owe. `Guarded`: a
handler of the registered pool whose key has no subscriber, or has one that may
yet take its subscription back after a failed Watch on an older runtime
(`Behind`), is one that some call is going to Unwatch there (`Pending`). It is
inductive because the first subscriber stays in the key's entry until its Watch
has returned (`Calls`), because a subscriber that subscribes again
looked its runtime up no earlier than that first one (`Fresh`), and because a
runtime that is being published has not been seen by anyone (`Lookups`).

`TablesAgree` speaks of moments at rest, so its invariant says what each call has
established where it stands (`Staged`), in three grades: while nothing is torn
the tables agree before the first write and after the last (`Untorn`, `Rest`);
a registration that runs alone, even over what others tore, has row, entry and
runtime in step from its `Save` on (`Registering`); and any call that runs alone
knows which loops are left (`Stopping`). `Solitude` says that no other call is
under way then, and `LoopsKnown` that no loop runs but that of the runtime and
those a call waits for. Without `LoopsKnown` a loop that a torn registration
left behind could write the entry of a deleted cluster back. A loop's report
(`LoopKeeps`) and a restart (`RestartKeeps`) have a lemma each, the steps of a
call share `CallStepKeeps`.

`BackoffDoubles` is written with `2^k`, and the provers know nothing of
exponentiation: `^` of the standard modules is recursive. `WaitsDouble`
therefore speaks of any sequence that starts with 1 and doubles, without further
hypotheses, and `BackoffAlwaysDoubles` takes the law `2^(k+1) = 2 * 2^k` as the
hypothesis that the powers of two are such a sequence; nothing else is assumed
there.

The invariants above were first given to TLC on the instances of section 3.

Proved and not checked by a run besides: the type invariants (`TypeOK` of each
module, `ClientTypeOK`, `StreamsTypeOK`, `AuditTypeOK`, `ProxyTypeOK`),
`ChannelMatchesDial`, `ConnKeysMatch`, `ClosedPoolEmpty` and
`OneSessionAtATime`.

Every invariant and every refinement that a run checks is proved, and so are the
action properties. Only model-checked: the liveness properties
(`GoneNotReadyForever`, `HandlerEnds`, `AttemptsGoOn`, `SessionEndsWhole`,
`InformersDrain`, `FollowersEndWithConn`, `CallsReturn`, `LockedOut`,
`PumpEnds`, `ChattyLogEnds`, `FeedDrains`), which are out of the prover's reach.

## 7. Not modelled

Payloads, error codes, logging and the bytes of tunnels, logs and terminals.
Resource browsing and manifests (`service/resource.go`, `manifest.go`,
`api/handler/resource.go`) are stateless translations between Kubernetes objects
and view types: they keep nothing between two requests, so there is nothing for
a state machine to say. Read-only operations (lists, paging, queries) appear
only where what they read decides a later write. The bounded send buffer of a
watch connection is reduced to a send that may be dropped. The browser client
and the user interface are left out. Password hashing, signing and encryption
are what they promise: a hash is a value, a token cannot be guessed, a row
decrypts under its own key only.

## 8. Disagreements met while modelling

Besides `watch_reregister`, the code differs from what its documents, comments
or tests say in the following places. The modules follow the code.

- Agent hub: the exit of a replaced session marks the cluster degraded after its
  successor marked it ready, and nothing corrects it while the successor serves
  (`hub.go:333`; `src/docs/design/01-architecture.md:194` says "置 Ready"). A
  channel accepted for a dial that has timed out stays in its buffer
  (`tunnel.go:84-89`). A registration that fails after it was installed leaves a
  dead session in the map (`hub.go:261,266`). An agent that reconnects registers
  the kubeconfig of the runtime it finds, also over a newer one. A write of the
  status column that fails is logged and never tried again (`main.go:100-102`,
  `131`, `143-146`): after the last session of a cluster the column may go on
  saying ready, although `01-architecture.md:194` says "断开即置 Degraded".
- Agent: `serve` cancels its goroutines and waits for none of them, although
  `client.go:165` says "所有 goroutine 在本函数返回前 join". A copy of a tunnel that ends
  closes only the connection it has read from, so the tunnel stays half open
  until the other end speaks or the session ends (`client.go:251`;
  `client.go:245` says "任一方向结束即整体收敛"). A ping that cannot be sent ends the
  heartbeat and nothing else (`client.go:169` says "写失败经 ctx 传导退出"); the session
  notices at its read deadline.
- Watch hub: a second subscriber is not sent the full list
  (`src/docs/api/websocket.md:50`). A log stream that has ended still blocks its
  key (`watchhub.go:389,355`). `pumpAudit` ends after Stop only when an event
  arrives (`watchhub.go:85`). `websocket.md` lists `pvcs` and `namespaces` as
  resources to watch and `watchResources` does not contain them.
- Manager: Unregister removes the entry before it stops the runtime
  (`manager.go:174` says the opposite), so a registration after it does not wait
  for the old loop. Two overlapping registrations leave one of the new runtimes
  running and unregistered, with its loop and its pool, whose informers are
  never reclaimed (`manager.go:152-159`; `manager.go:130` says
  "幂等(同名先注销旧运行时)"): `InformersDrain` excepts it as `Overwritten`.
  The RESTMapper cache that the
  health loop resets is never read.
- Registration: a kubeconfig registered with an explicit context does not parse
  at the next start and goes offline. When the listing, a hook or a status
  write of `RestoreClusters` fails, the server starts without the runtime and
  the row keeps the status it had (`clusterreg.go:151-180`, `main.go:108`), so
  a cluster nobody probes may read as ready until it is rotated or the server
  restarts. Overlapping calls leave row, registry and runtime apart in the same
  way. The registry entry of a deleted cluster is
  created again by an agent's OnConnect or OnDisconnect.
- Users: two Refresh calls that have both read one token both succeed
  (`auth.go:88-104`; `src/docs/api/rest.md:110` says "旧 refresh 即刻失效"); that is
  the exception `ExchangedOnce` names. Lost updates of whole rows can enable a
  disabled user again, restore an old password, or insert a deleted row.
- Roles: deleting a user leaves his grants, and the list of all grants fails on
  them from then on. A membership inserted after its group was deleted still
  passes the group's grants on. `migrateLegacyRoleBindings` brings deleted grants
  back when the old table could not be dropped. Authorize reads in several
  statements; `Rbac` evaluates it on one state.
- Tokens: an enrollment token is called "一次性" and can be used again and again.
  Tokens of either sort outlive their cluster. `CleanupExpired` has no caller.
  The product in `parseTTL` may overflow (`enroll.go:56`).
- Terminal and logs: closing the socket does not end the exec, whose handler
  waits for the process to exit by itself
  (`websocket.md:114-115` says "客户端主动关闭 WS → 服务端终止 exec 会话并记审计").
  The frames `terminal:exit`, `error`, `pong` and `logstream:close` are put into a
  buffer that nobody writes. `terminalSizeQueue.done` is never closed. A silent
  log is followed on after its client has left (`logstream.go:43`). A terminal
  that receives no frame within `wsReadTimeout` goes on without its input. An
  exec that cannot be built leaves an open row without a close row.
- Audit and proxy: rows are written under the context of the request and lost
  when the client has gone. A panic leaves no row. A reveal is recorded as
  allowed before it is carried out and keeps that row when it fails
  (`resource.go:71-91`). A login whose body gin's decoder accepts and
  `json.Unmarshal` does not, a second value after the first, has a row without
  a user (`middleware/audit.go:224`). Accesses with a JWT are
  recorded without a user (`src/docs/test.md`, BUG-19), those that end in 502 not
  at all (`rest.md:259` "每次访问写审计"). Clients of replaced runtimes are never
  removed from the cache. `attachDialer` registers the config it finds once more
  (`hub.go:286-287`), so the cached client serves the new runtime too, with the
  dialer it was built with: requests of a cluster that has changed to the tunnel
  go on past it (`proxy.go:29-30` says "运行时重建(重注册)后自动换新键").

## 9. Plan

1. Done: `AgentHub`, `AgentClient`, `ClusterManager`, `InformerPool` with
   `WatchHub`, `PodLogs`, `ClusterReg`, `Accounts`, `Rbac`, `Credentials`,
   `Streams`, `Audit` with `Proxy`; `Voucher` with its two implementations;
   proofs of the safety of all of them.
2. Abstract specifications next: a subscription table that `WatchHub`
   implements; the runtime of `ClusterReg` as an abstraction of `ClusterManager`.
3. `WsClient`: the shared browser socket, reconnect and replay, against an
   abstract server; with the single-flight refresh of `http.ts`.
