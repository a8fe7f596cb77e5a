------------------------- MODULE ClusterManager_proofs -------------------------
(* Theorems about ClusterManager: type correctness, the status a health     *)
(* loop reports and the waits of its backoff for any sequence of probe      *)
(* results, the silence of a runtime that Unregister has removed, and the   *)
(* status column.                                                           *)
EXTENDS ClusterManager, TLAPS

USE NoneAssumption, ThresholdAssumption, BackoffAssumption

LEMMA NewHealthType ==
  ASSUME NEW st \in Status
  PROVE  NewHealth(st) \in HealthRecord
<1>1. "" \in Status BY DEF Status
<1>2. 0 \in 0..MaxFails /\ BackoffStart \in 1..BackoffMax /\ HealthInterval \in Nat
  OBVIOUS
<1> QED BY <1>1, <1>2 DEF NewHealth, HealthRecord

(* The two outcomes of a probe keep the record of the loop well formed.    *)
LEMMA ProbeType ==
  ASSUME NEW h \in HealthRecord
  PROVE  AfterSuccess(h) \in HealthRecord /\ AfterFailure(h) \in HealthRecord
<1>1. {"ready", "degraded", "reconnecting"} \subseteq Status BY DEF Status
<1>2. 0 \in 0..MaxFails /\ BackoffStart \in 1..BackoffMax /\ HealthInterval \in Nat
  OBVIOUS
<1>3. /\ h.status \in Status /\ h.local \in Status
      /\ h.msg \in 0..MaxFails /\ h.fails \in 0..MaxFails
      /\ h.backoff \in 1..BackoffMax /\ h.backoff \in Nat
  BY DEF HealthRecord
<1>4. AfterSuccess(h) \in HealthRecord
  BY <1>1, <1>2 DEF AfterSuccess, HealthRecord
<1>5. Least(2 * h.backoff, BackoffMax) \in 1..BackoffMax
  BY <1>3 DEF Least
<1>6. ASSUME NEW n \in 0..MaxFails
      PROVE  /\ Reconnecting(h, n) \in HealthRecord
             /\ Degraded(h, n) \in HealthRecord
             /\ Unsettled(h, n) \in HealthRecord
  <2>1. Reconnecting(h, n) \in HealthRecord
    BY <1>1, <1>3, <1>5 DEF Reconnecting, HealthRecord
  <2>2. Degraded(h, n) \in HealthRecord
    BY <1>1, <1>2, <1>3 DEF Degraded, HealthRecord
  <2>3. Unsettled(h, n) \in HealthRecord
    BY <1>2, <1>3 DEF Unsettled, HealthRecord
  <2> QED BY <2>1, <2>2, <2>3
<1>7. Least(h.fails + 1, MaxFails) \in 0..MaxFails
  BY <1>3 DEF Least
<1>8. AfterFailure(h) \in HealthRecord
  BY <1>6, <1>7 DEF AfterFailure
<1> QED BY <1>4, <1>8

(* Every variable keeps its type, and a call that stops a runtime has one: *)
(* Stop is never called on a nil runtime.                                  *)
THEOREM TypeCorrect == Spec => []TypeOK
<1>1. Init => TypeOK
  <2> SUFFICES ASSUME Init PROVE TypeOK
    OBVIOUS
  <2>1. "" \in Status BY DEF Status
  <2>2. NewHealth("") \in HealthRecord BY <2>1, NewHealthType
  <2>3. health \in [Runtimes -> HealthRecord] BY <2>2 DEF Init
  <2>4. db \in Status /\ snap \in [Subscribers -> Status] /\ last \in [Subscribers -> Status]
    BY <2>1 DEF Init
  <2>5. /\ reg \in [Runtimes -> RegState] /\ loop \in [Runtimes -> LoopState]
        /\ feed \in [Subscribers -> {"none", "subscribed", "read", "live"}]
    BY DEF Init, RegState, LoopState
  <2> QED BY <2>3, <2>4, <2>5 DEF Init, TypeOK
<1>2. TypeOK /\ [Next]_vars => TypeOK'
  <2> SUFFICES ASSUME TypeOK, [Next]_vars PROVE TypeOK'
    OBVIOUS
  <2> USE DEF TypeOK, RegState, LoopState, callVars, feedVars, column
  <2>1. ASSUME NEW r \in Runtimes, RegisterLookup(r) \/ Register(r) PROVE TypeOK'
    <3>1. CASE RegisterLookup(r) BY <3>1 DEF RegisterLookup, At
    <3>2. CASE RegisterStopOld(r) BY <3>2 DEF RegisterStopOld, At
    <3>3. CASE RegisterJoin(r) BY <3>3 DEF RegisterJoin, At
    <3>4. CASE RegisterInstall(r) BY <3>4 DEF RegisterInstall, At
    <3>5. CASE RegisterAnnounce(r)
      <4>1. health' \in [Runtimes -> HealthRecord]
        BY <3>5, NewHealthType DEF RegisterAnnounce, Status
      <4> QED BY <3>5, <4>1 DEF RegisterAnnounce, At
    <3>6. CASE RegisterStore(r) BY <3>6 DEF RegisterStore, WriteStatus, At, Status
    <3>7. CASE RegisterListen(r) BY <3>7 DEF RegisterListen, ToFeed, At, Status
    <3>8. CASE RegisterStart(r) BY <3>8 DEF RegisterStart, At
    <3> QED BY <2>1, <3>1, <3>2, <3>3, <3>4, <3>5, <3>6, <3>7, <3>8 DEF Register
  <2>2. ASSUME NEW r \in Runtimes, LoopStop(r) \/ HealthLoop(r)
        PROVE TypeOK'
    <3>1. CASE LoopStop(r) BY <3>1 DEF LoopStop, Loop
    <3>2. CASE TimerFires(r) BY <3>2 DEF TimerFires, Loop
    <3>3. CASE ProbeSucceeds(r)
      <4>1. health' \in [Runtimes -> HealthRecord]
        BY <3>3, ProbeType DEF ProbeSucceeds
      <4> QED BY <3>3, <4>1 DEF ProbeSucceeds, Loop
    <3>4. CASE ProbeFails(r)
      <4>1. health' \in [Runtimes -> HealthRecord]
        BY <3>4, ProbeType DEF ProbeFails
      <4> QED BY <3>4, <4>1 DEF ProbeFails, Loop
    <3>5. CASE LoopStore(r)
      <4>1. health[r].status \in Status
        BY DEF HealthRecord
      <4>2. db' \in Status /\ unsaved' \in BOOLEAN
        BY <3>5, <4>1 DEF LoopStore, WriteStatus
      <4> QED BY <3>5, <4>2 DEF LoopStore, Loop
    <3>6. CASE LoopListen(r) BY <3>6 DEF LoopListen, Loop, ToFeed, HealthRecord
    <3> QED BY <2>2, <3>1, <3>2, <3>3, <3>4, <3>5, <3>6 DEF HealthLoop
  <2>3. ASSUME NEW u \in Removals, UnregisterLookup(u) \/ Unregister(u) PROVE TypeOK'
    BY <2>3 DEF UnregisterLookup, Unregister, UnregisterStop, UnregisterJoin
  <2>4. ASSUME NEW w \in Subscribers, FeedSubscribe(w) \/ FeedRead(w) \/ FeedSend(w)
        PROVE TypeOK'
    BY <2>4 DEF FeedSubscribe, FeedRead, FeedSend, HealthRecord
  <2>5. CASE UNCHANGED vars BY <2>5 DEF vars
  <2> QED BY <2>1, <2>2, <2>3, <2>4, <2>5 DEF Next
<1> QED BY <1>1, <1>2, PTL DEF Spec

-----------------------------------------------------------------------------
(* A loop runs only for a registration that has returned, and until then   *)
(* its record is that of a loop which has probed nothing.                  *)
LoopInv ==
  \A r \in Runtimes :
    /\ loop[r] = "none" <=> reg[r] # "done"
    /\ loop[r] # "none" => Matches(health[r])
    /\ reg[r] \in {"store", "listen", "start"} => health[r] = NewHealth("ready")

(* Before the first probe the status fits the count of failures.           *)
LEMMA NewHealthMatches == Matches(NewHealth("ready"))
  BY DEF Matches, NewHealth

(* Every probe leads from a fitting record to a fitting one: a failure     *)
(* counts one further, so no threshold is jumped over.                     *)
LEMMA ProbeMatches ==
  ASSUME NEW h \in HealthRecord, Matches(h)
  PROVE  Matches(AfterSuccess(h)) /\ Matches(AfterFailure(h))
<1>1. Matches(AfterSuccess(h))
  BY DEF Matches, AfterSuccess
<1>2. h.fails \in 0..MaxFails /\ h.backoff \in 1..BackoffMax /\ h.backoff \in Nat
  BY DEF HealthRecord
<1> DEFINE n == Least(h.fails + 1, MaxFails)
<1>3. /\ n \in Nat
      /\ n < DegradedThreshold => h.fails < DegradedThreshold
      /\ n < ReconnectThreshold => h.fails < ReconnectThreshold
  BY <1>2 DEF Least
<1>4. CASE n >= ReconnectThreshold
  <2>1. AfterFailure(h) = Reconnecting(h, n)
    BY <1>4 DEF AfterFailure
  <2>2. h.backoff <= Least(2 * h.backoff, BackoffMax)
    BY <1>2 DEF Least
  <2> HIDE DEF n
  <2>3. Matches(Reconnecting(h, n))
    BY <1>3, <1>4, <2>2 DEF Matches, Reconnecting
  <2> QED BY <1>1, <2>1, <2>3
<1>5. CASE n < ReconnectThreshold /\ n >= DegradedThreshold
  <2>1. AfterFailure(h) = Degraded(h, n)
    BY <1>3, <1>5 DEF AfterFailure
  <2> HIDE DEF n
  <2>2. h.backoff = BackoffStart
    BY <1>2, <1>3, <1>5 DEF Matches
  <2>3. Matches(Degraded(h, n))
    BY <1>3, <1>5, <2>2 DEF Matches, Degraded
  <2> QED BY <1>1, <2>1, <2>3
<1>6. CASE n < DegradedThreshold
  <2>1. AfterFailure(h) = Unsettled(h, n)
    BY <1>3, <1>6 DEF AfterFailure
  <2> HIDE DEF n
  <2>2. h.backoff = BackoffStart /\ h.status = "ready"
    BY <1>2, <1>3, <1>6 DEF Matches
  <2>3. Matches(Unsettled(h, n))
    BY <1>3, <1>6, <2>2 DEF Matches, Unsettled
  <2> QED BY <1>1, <2>1, <2>3
<1> QED BY <1>3, <1>4, <1>5, <1>6

LEMMA LoopInvariant == Spec => []LoopInv
<1>1. Init => LoopInv
  BY DEF Init, LoopInv
<1>2. LoopInv /\ TypeOK /\ [Next]_vars => LoopInv'
  <2> SUFFICES ASSUME LoopInv, TypeOK, [Next]_vars PROVE LoopInv'
    OBVIOUS
  <2> USE DEF LoopInv, callVars, feedVars, column
  <2>0. reg \in [Runtimes -> RegState] /\ loop \in [Runtimes -> LoopState]
        /\ health \in [Runtimes -> HealthRecord]
    BY DEF TypeOK
  <2>1. ASSUME NEW r \in Runtimes, RegisterLookup(r) \/ Register(r) PROVE LoopInv'
    <3>1. CASE RegisterLookup(r) BY <2>0, <3>1 DEF RegisterLookup, At
    <3>2. CASE RegisterStopOld(r) BY <2>0, <3>2 DEF RegisterStopOld, At
    <3>3. CASE RegisterJoin(r) BY <2>0, <3>3 DEF RegisterJoin, At
    <3>4. CASE RegisterInstall(r) BY <2>0, <3>4 DEF RegisterInstall, At
    <3>5. CASE RegisterAnnounce(r) BY <2>0, <3>5 DEF RegisterAnnounce, At
    <3>6. CASE RegisterStore(r) BY <2>0, <3>6 DEF RegisterStore, At
    <3>7. CASE RegisterListen(r) BY <2>0, <3>7 DEF RegisterListen, At
    <3>8. CASE RegisterStart(r)
      BY <2>0, <3>8, NewHealthMatches DEF RegisterStart, At
    <3> QED BY <2>1, <3>1, <3>2, <3>3, <3>4, <3>5, <3>6, <3>7, <3>8 DEF Register
  <2>2. ASSUME NEW r \in Runtimes, LoopStop(r) \/ HealthLoop(r)
        PROVE LoopInv'
    <3>1. CASE LoopStop(r) BY <2>0, <3>1 DEF LoopStop, Loop
    <3>2. CASE TimerFires(r) BY <2>0, <3>2 DEF TimerFires, Loop
    <3>3. CASE ProbeSucceeds(r)
      <4>1. Matches(AfterSuccess(health[r]))
        BY <2>0, <3>3, ProbeMatches DEF ProbeSucceeds
      <4> QED BY <2>0, <3>3, <4>1 DEF ProbeSucceeds, Loop
    <3>4. CASE ProbeFails(r)
      <4>1. Matches(AfterFailure(health[r]))
        BY <2>0, <3>4, ProbeMatches DEF ProbeFails
      <4> QED BY <2>0, <3>4, <4>1 DEF ProbeFails, Loop
    <3>5. CASE LoopStore(r) BY <2>0, <3>5 DEF LoopStore, Loop
    <3>6. CASE LoopListen(r) BY <2>0, <3>6 DEF LoopListen, Loop
    <3> QED BY <2>2, <3>1, <3>2, <3>3, <3>4, <3>5, <3>6 DEF HealthLoop
  <2>3. ASSUME NEW u \in Removals, UnregisterLookup(u) \/ Unregister(u) PROVE LoopInv'
    BY <2>3 DEF UnregisterLookup, Unregister, UnregisterStop, UnregisterJoin
  <2>4. ASSUME NEW w \in Subscribers, FeedSubscribe(w) \/ FeedRead(w) \/ FeedSend(w)
        PROVE LoopInv'
    BY <2>4 DEF FeedSubscribe, FeedRead, FeedSend
  <2>5. CASE UNCHANGED vars BY <2>5 DEF vars
  <2> QED BY <2>1, <2>2, <2>3, <2>4, <2>5 DEF Next
<1> QED BY <1>1, <1>2, TypeCorrect, PTL DEF Spec

(* For every number of runtimes and all thresholds, a loop reports the     *)
(* status that its consecutive failures call for.                          *)
THEOREM StatusFollowsFailures == Spec => []HealthMatchesFailures
<1>1. LoopInv => HealthMatchesFailures
  BY DEF LoopInv, HealthMatchesFailures, Looping
<1> QED BY <1>1, LoopInvariant, PTL

-----------------------------------------------------------------------------
(* The backoff.  The provers know no law of 2^k, so the doubling sequence  *)
(* is a parameter: pow is 1 first and twice the previous element then.     *)
Doubling(pow) ==
  pow \in [Nat -> Nat] /\ pow[0] = 1 /\ \A k \in Nat : pow[k + 1] = 2 * pow[k]

Capped(n) == Least(BackoffStart * n, BackoffMax)

(* The wait of a loop that is reconnecting, and the next one.              *)
Growing(h, pow) ==
  h.fails \in ReconnectThreshold..(MaxFails - 1) =>
    LET k == h.fails - ReconnectThreshold
    IN  h.delay = Capped(pow[k]) /\ h.backoff = Capped(pow[k + 1])

BackoffInv(pow) == \A r \in Runtimes : loop[r] # "none" => Growing(health[r], pow)

LEMMA CappedDoubles ==
  ASSUME NEW n \in Nat
  PROVE  Least(2 * Capped(n), BackoffMax) = Capped(2 * n)
<1> DEFINE m == BackoffStart * n
<1>1. m \in Nat /\ BackoffStart * (2 * n) = 2 * m
  OBVIOUS
<1> HIDE DEF m
<1>2. Least(2 * Least(m, BackoffMax), BackoffMax) = Least(2 * m, BackoffMax)
  BY <1>1 DEF Least
<1> QED BY <1>1, <1>2 DEF Capped, m

(* One more failure: the wait is the backoff of the failure before, and    *)
(* the first wait of an outage is BackoffStart.                            *)
LEMMA FailureGrows ==
  ASSUME NEW pow, Doubling(pow), NEW h \in HealthRecord, Matches(h), Growing(h, pow)
  PROVE  Growing(AfterFailure(h), pow)
<1> DEFINE n == Least(h.fails + 1, MaxFails)
           g == AfterFailure(h)
<1>1. h.fails \in 0..MaxFails /\ h.backoff \in 1..BackoffMax
  BY DEF HealthRecord
<1>2. n \in Nat /\ g.fails = n
  BY <1>1 DEF Least, AfterFailure, Reconnecting, Degraded, Unsettled
<1> SUFFICES ASSUME n \in ReconnectThreshold..(MaxFails - 1)
             PROVE  LET k == n - ReconnectThreshold
                    IN  g.delay = Capped(pow[k]) /\ g.backoff = Capped(pow[k + 1])
  BY <1>2 DEF Growing
<1>3. h.fails = n - 1 /\ g = Reconnecting(h, n)
  BY <1>1 DEF Least, AfterFailure
<1> HIDE DEF n, g
<1>4. g.delay = h.backoff /\ g.backoff = Least(2 * h.backoff, BackoffMax)
  BY <1>3 DEF Reconnecting
<1> DEFINE k == n - ReconnectThreshold
<1>5. k \in Nat /\ pow[k] \in Nat /\ pow[k + 1] = 2 * pow[k]
  BY <1>2 DEF Doubling
<1>6. h.backoff = Capped(pow[k])
  <2>1. CASE n = ReconnectThreshold
    <3>1. h.backoff = BackoffStart /\ pow[k] = 1
      BY <1>1, <1>3, <2>1 DEF Matches, Doubling
    <3> QED BY <3>1 DEF Capped, Least
  <2>2. CASE n > ReconnectThreshold
    <3>1. /\ h.fails \in ReconnectThreshold..(MaxFails - 1)
          /\ (h.fails - ReconnectThreshold) + 1 = k
      BY <1>2, <1>3, <2>2
    <3> QED BY <3>1 DEF Growing
  <2> QED BY <1>2, <2>1, <2>2
<1>7. Least(2 * h.backoff, BackoffMax) = Capped(pow[k + 1])
  BY <1>5, <1>6, CappedDoubles
<1> QED BY <1>4, <1>6, <1>7

LEMMA BackoffInvariant ==
  ASSUME NEW pow, Doubling(pow)
  PROVE  Spec => []BackoffInv(pow)
<1>1. Init => BackoffInv(pow)
  BY DEF Init, BackoffInv
<1>2. BackoffInv(pow) /\ LoopInv /\ TypeOK /\ [Next]_vars => BackoffInv(pow)'
  <2> SUFFICES ASSUME BackoffInv(pow), LoopInv, TypeOK, [Next]_vars PROVE BackoffInv(pow)'
    OBVIOUS
  <2> USE DEF BackoffInv, callVars, feedVars, column
  <2>0. /\ reg \in [Runtimes -> RegState] /\ loop \in [Runtimes -> LoopState]
        /\ health \in [Runtimes -> HealthRecord]
    BY DEF TypeOK
  <2>1. ASSUME NEW r \in Runtimes, RegisterAnnounce(r) PROVE BackoffInv(pow)'
    BY <2>0, <2>1 DEF RegisterAnnounce, LoopInv
  <2>2. ASSUME NEW r \in Runtimes, RegisterStart(r) PROVE BackoffInv(pow)'
    <3>1. health[r] = NewHealth("ready")
      BY <2>2 DEF RegisterStart, LoopInv
    <3>2. NewHealth("ready").fails = 0
      BY DEF NewHealth
    <3>3. Growing(health[r], pow)
      BY <3>1, <3>2 DEF Growing
    <3> QED BY <2>0, <2>2, <3>3 DEF RegisterStart
  <2>3. ASSUME NEW r \in Runtimes, ProbeSucceeds(r) PROVE BackoffInv(pow)'
    <3>1. Growing(AfterSuccess(health[r]), pow)
      BY DEF AfterSuccess, Growing
    <3> QED BY <2>0, <2>3, <3>1 DEF ProbeSucceeds, Loop
  <2>4. ASSUME NEW r \in Runtimes, ProbeFails(r) PROVE BackoffInv(pow)'
    <3>1. Growing(AfterFailure(health[r]), pow)
      BY <2>0, <2>4, FailureGrows DEF ProbeFails, LoopInv
    <3> QED BY <2>0, <2>4, <3>1 DEF ProbeFails, Loop
  <2>5. ASSUME NEW r \in Runtimes, LoopStop(r) \/ TimerFires(r) \/ LoopStore(r) \/ LoopListen(r)
        PROVE  BackoffInv(pow)'
    BY <2>0, <2>5 DEF LoopStop, TimerFires, LoopStore, LoopListen, Loop
  <2>6. ASSUME UNCHANGED <<loop, health>> PROVE BackoffInv(pow)'
    BY <2>6
  <2>7. ASSUME NEW r \in Runtimes,
               \/ RegisterLookup(r) \/ RegisterStopOld(r) \/ RegisterJoin(r)
               \/ RegisterInstall(r) \/ RegisterStore(r) \/ RegisterListen(r)
        PROVE  UNCHANGED <<loop, health>>
    BY <2>7 DEF RegisterLookup, RegisterStopOld, RegisterJoin, RegisterInstall, RegisterStore,
                RegisterListen
  <2>8. ASSUME \/ \E u \in Removals : UnregisterLookup(u) \/ Unregister(u)
               \/ \E w \in Subscribers : FeedSubscribe(w) \/ FeedRead(w) \/ FeedSend(w)
               \/ UNCHANGED vars
        PROVE  UNCHANGED <<loop, health>>
    BY <2>8 DEF UnregisterLookup, Unregister, UnregisterStop, UnregisterJoin, FeedSubscribe,
                FeedRead, FeedSend, vars
  <2> QED BY <2>1, <2>2, <2>3, <2>4, <2>5, <2>6, <2>7, <2>8 DEF Next, Register, HealthLoop
<1> QED BY <1>1, <1>2, TypeCorrect, LoopInvariant, PTL DEF Spec

(* For all thresholds, any start and any maximum: while a loop of          *)
(* runHealth is reconnecting, its k-th wait is the start doubled k-1 times *)
(* or the maximum, however long the sequence of probes before it.          *)
THEOREM WaitsDouble ==
  ASSUME NEW pow, Doubling(pow)
  PROVE  Spec => [](\A r \in Runtimes :
                      LET h == health[r] IN
                      Looping(r) /\ h.fails \in ReconnectThreshold..(MaxFails - 1)
                        => h.delay = Capped(pow[h.fails - ReconnectThreshold]))
<1>1. BackoffInv(pow) => \A r \in Runtimes :
                           LET h == health[r] IN
                           Looping(r) /\ h.fails \in ReconnectThreshold..(MaxFails - 1)
                             => h.delay = Capped(pow[h.fails - ReconnectThreshold])
  BY DEF BackoffInv, Growing, Looping
<1> QED BY <1>1, BackoffInvariant, PTL

(* The same with the powers of two, of which 2^(k+1) = 2 * 2^k is all that *)
(* is assumed: the provers have no exponentiation.                         *)
THEOREM BackoffAlwaysDoubles ==
  ASSUME NEW pow, Doubling(pow), \A k \in Nat : pow[k] = 2 ^ k
  PROVE  Spec => []BackoffDoubles
<1>1. BackoffInv(pow) => BackoffDoubles
  <2> SUFFICES ASSUME BackoffInv(pow), NEW r \in Runtimes, Looping(r),
                      health[r].fails \in ReconnectThreshold..(MaxFails - 1)
               PROVE  health[r].delay =
                        Least(BackoffStart * 2 ^ (health[r].fails - ReconnectThreshold), BackoffMax)
    BY DEF BackoffDoubles
  <2>1. health[r].fails - ReconnectThreshold \in Nat
    OBVIOUS
  <2>2. health[r].delay = Capped(pow[health[r].fails - ReconnectThreshold])
    BY DEF BackoffInv, Growing, Looping
  <2> QED BY <2>1, <2>2 DEF Capped
<1> QED BY <1>1, BackoffInvariant, PTL

-----------------------------------------------------------------------------
(* Stop has joined the loop of every runtime whose removal has returned.   *)
SilentInv ==
  \A u \in Removals : rem[u] = "done" /\ target[u] # None => loop[target[u]] = "ended"

(* A loop that has ended stays ended, whatever any call does.              *)
LEMMA EndedForGood ==
  ASSUME TypeOK, LoopInv, [Next]_vars, NEW q \in Runtimes, loop[q] = "ended"
  PROVE  loop'[q] = "ended"
<1>0. loop \in [Runtimes -> LoopState] BY DEF TypeOK
<1> USE DEF callVars, feedVars, column
<1>1. ASSUME NEW r \in Runtimes, RegisterLookup(r) \/ Register(r) PROVE loop'[q] = "ended"
  <2>1. CASE RegisterStart(r)
    <3>1. loop[r] = "none" BY <2>1 DEF RegisterStart, LoopInv
    <3> QED BY <1>0, <2>1, <3>1 DEF RegisterStart
  <2>2. CASE RegisterLookup(r) \/ RegisterStopOld(r) \/ RegisterJoin(r)
             \/ RegisterInstall(r) \/ RegisterAnnounce(r)
    BY <2>2 DEF RegisterLookup, RegisterStopOld, RegisterJoin, RegisterInstall,
                RegisterAnnounce
  <2>3. CASE RegisterStore(r) \/ RegisterListen(r)
    BY <2>3 DEF RegisterStore, RegisterListen
  <2> QED BY <1>1, <2>1, <2>2, <2>3 DEF Register
<1>2. ASSUME NEW r \in Runtimes, LoopStop(r) \/ HealthLoop(r)
      PROVE loop'[q] = "ended"
  BY <1>0, <1>2 DEF LoopStop, HealthLoop, TimerFires, ProbeSucceeds,
                    ProbeFails, LoopStore, LoopListen, Loop
<1>3. ASSUME NEW u \in Removals, UnregisterLookup(u) \/ Unregister(u)
      PROVE loop'[q] = "ended"
  BY <1>3 DEF UnregisterLookup, Unregister, UnregisterStop, UnregisterJoin
<1>4. ASSUME NEW w \in Subscribers, FeedSubscribe(w) \/ FeedRead(w) \/ FeedSend(w)
      PROVE loop'[q] = "ended"
  BY <1>4 DEF FeedSubscribe, FeedRead, FeedSend
<1>5. CASE UNCHANGED vars BY <1>5 DEF vars
<1> QED BY <1>1, <1>2, <1>3, <1>4, <1>5 DEF Next

(* Once Unregister has returned, the runtime it removed publishes nothing  *)
(* any more, for any number of overlapping registrations and removals.     *)
THEOREM RemovedStaysSilent == Spec => []RemovedIsSilent
<1>1. Init => SilentInv
  BY DEF Init, SilentInv
<1>2. SilentInv /\ TypeOK /\ LoopInv /\ [Next]_vars => SilentInv'
  <2> SUFFICES ASSUME SilentInv, TypeOK, LoopInv, [Next]_vars,
                      NEW u \in Removals, rem'[u] = "done", target'[u] # None
               PROVE  loop'[target'[u]] = "ended"
    BY DEF SilentInv
  <2>0. /\ rem \in [Removals -> {"new", "stop", "join", "done"}]
        /\ target \in [Removals -> Runtimes \cup {None}]
        /\ current \in Runtimes \cup {None}
    BY DEF TypeOK
  <2> USE DEF callVars, feedVars, column
  <2>1. CASE rem[u] = "done" /\ target'[u] = target[u]
    <3>1. loop[target[u]] = "ended" BY <2>1 DEF SilentInv
    <3> QED BY <2>0, <2>1, <3>1, EndedForGood
  <2>2. CASE UnregisterLookup(u)
    BY <2>0, <2>2 DEF UnregisterLookup
  <2>3. CASE UnregisterJoin(u)
    BY <2>0, <2>3 DEF UnregisterJoin, Joined
  <2>4. CASE \E v \in Removals \ {u} : UnregisterLookup(v) \/ Unregister(v)
    <3>1. rem[u] = rem'[u] /\ target[u] = target'[u]
      BY <2>0, <2>4 DEF UnregisterLookup, Unregister, UnregisterStop, UnregisterJoin
    <3> QED BY <2>1, <3>1
  <2>5. CASE UnregisterStop(u)
    BY <2>0, <2>5 DEF UnregisterStop
  <2>6. CASE UNCHANGED <<rem, target>>
    BY <2>1, <2>6
  <2>7. \/ UNCHANGED <<rem, target>>
        \/ \E v \in Removals : UnregisterLookup(v) \/ Unregister(v)
    <3>1. ASSUME NEW r \in Runtimes, RegisterLookup(r) \/ Register(r)
          PROVE UNCHANGED <<rem, target>>
      BY <3>1 DEF RegisterLookup, Register, RegisterStopOld, RegisterJoin, RegisterInstall,
                  RegisterAnnounce, RegisterStore, RegisterListen, RegisterStart
    <3>2. ASSUME NEW r \in Runtimes, LoopStop(r) \/ HealthLoop(r)
          PROVE UNCHANGED <<rem, target>>
      BY <3>2 DEF LoopStop, HealthLoop, TimerFires, ProbeSucceeds,
                  ProbeFails, LoopStore, LoopListen
    <3>3. ASSUME NEW w \in Subscribers, FeedSubscribe(w) \/ FeedRead(w) \/ FeedSend(w)
          PROVE UNCHANGED <<rem, target>>
      BY <3>3 DEF FeedSubscribe, FeedRead, FeedSend
    <3>4. CASE UNCHANGED vars BY <3>4 DEF vars
    <3> QED BY <3>1, <3>2, <3>3, <3>4 DEF Next
  <2> QED BY <2>2, <2>3, <2>4, <2>5, <2>6, <2>7 DEF Unregister
<1>3. TypeOK /\ LoopInv /\ SilentInv => RemovedIsSilent
  BY DEF TypeOK, LoopInv, SilentInv, RemovedIsSilent
<1> QED BY <1>1, <1>2, <1>3, TypeCorrect, LoopInvariant, PTL DEF Spec
-----------------------------------------------------------------------------
(* While nothing was removed, a loop that is told to stop is waited for.   *)
Unfinished(q) == reg[q] \notin {"new", "done"} \/ Looping(q)

NoRemovals == \A u \in Removals : rem[u] = "new"

StopsAwaited ==
  NoRemovals => \A q \in stop :
    loop[q] = "ended" \/ \E p \in Runtimes : reg[p] = "join" /\ old[p] = q

(* A runtime that has stored its status is overwritten only by one that is *)
(* not finished: whoever stops that one is not finished then, and so on.   *)
Stored(r) == reg[r] \in {"listen", "start"} \/ loop[r] \in {"select", "probing", "listen"}

Held(r) == unsaved \/ db = health[r].status

StoreInv ==
  NoRemovals => \A r \in Runtimes :
    Stored(r) => Held(r) \/ \E q \in Runtimes \ {r} : Unfinished(q)

(* A call of Unregister ends the promise; nothing takes it back.           *)
LEMMA RemovalsStay ==
  ASSUME TypeOK, [Next]_vars, NoRemovals'
  PROVE  NoRemovals /\ \A u \in Removals : ~UnregisterLookup(u) /\ ~Unregister(u)
<1> USE DEF callVars, feedVars, column
<1>0. rem \in [Removals -> {"new", "stop", "join", "done"}]
  BY DEF TypeOK
<1>1. ASSUME NEW u \in Removals, UnregisterLookup(u) \/ Unregister(u) PROVE FALSE
  <2>1. rem'[u] # "new"
    BY <1>0, <1>1 DEF UnregisterLookup, Unregister, UnregisterStop, UnregisterJoin
  <2> QED BY <2>1 DEF NoRemovals
<1>2. rem' = rem
  <2>1. ASSUME NEW r \in Runtimes, RegisterLookup(r) \/ Register(r) PROVE rem' = rem
    BY <2>1 DEF RegisterLookup, Register, RegisterStopOld, RegisterJoin, RegisterInstall,
                RegisterAnnounce, RegisterStore, RegisterListen, RegisterStart
  <2>2. ASSUME NEW r \in Runtimes, LoopStop(r) \/ HealthLoop(r) PROVE rem' = rem
    BY <2>2 DEF LoopStop, HealthLoop, TimerFires, ProbeSucceeds, ProbeFails, LoopStore, LoopListen
  <2>3. ASSUME NEW w \in Subscribers, FeedSubscribe(w) \/ FeedRead(w) \/ FeedSend(w)
        PROVE rem' = rem
    BY <2>3 DEF FeedSubscribe, FeedRead, FeedSend
  <2>4. CASE UNCHANGED vars BY <2>4 DEF vars
  <2> QED BY <1>1, <2>1, <2>2, <2>3, <2>4 DEF Next
<1> QED BY <1>1, <1>2 DEF NoRemovals

(* What a step may do to the stops and to who is not finished.             *)
LEMMA StoreKept ==
  ASSUME TypeOK, LoopInv, StopsAwaited, StoreInv, [Next]_vars
  PROVE  StopsAwaited' /\ StoreInv'
<1> SUFFICES ASSUME NoRemovals'
             PROVE  StopsAwaited' /\ StoreInv'
  BY DEF StopsAwaited, StoreInv
<1>0. /\ reg \in [Runtimes -> RegState] /\ loop \in [Runtimes -> LoopState]
      /\ old \in [Runtimes -> Runtimes \cup {None}] /\ health \in [Runtimes -> HealthRecord]
      /\ stop \subseteq Runtimes
      /\ \A r \in Runtimes : reg[r] \in {"stopOld", "join"} => old[r] \in Runtimes
  BY DEF TypeOK
<1>1. /\ NoRemovals
      /\ \A q \in stop : loop[q] = "ended" \/ \E p \in Runtimes : reg[p] = "join" /\ old[p] = q
      /\ \A r \in Runtimes :
           Stored(r) => Held(r) \/ \E q \in Runtimes \ {r} : Unfinished(q)
  BY RemovalsStay DEF StopsAwaited, StoreInv
<1>2. ASSUME NEW r \in Runtimes, reg[r] # "done" PROVE loop[r] = "none"
  BY <1>2 DEF LoopInv
<1> USE DEF callVars, feedVars, column, Stored, Held, Unfinished, Looping, RegState, LoopState
<1>3. ASSUME NEW r \in Runtimes, RegisterLookup(r) \/ Register(r) PROVE StopsAwaited' /\ StoreInv'
  <2>1. CASE RegisterLookup(r)
    BY <1>0, <1>1, <1>2, <2>1 DEF RegisterLookup, At, StopsAwaited, StoreInv
  <2>2. CASE RegisterStopOld(r)
    BY <1>0, <1>1, <1>2, <2>2 DEF RegisterStopOld, At, StopsAwaited, StoreInv
  <2>3. CASE RegisterJoin(r)
    BY <1>0, <1>1, <1>2, <2>3 DEF RegisterJoin, Joined, At, StopsAwaited, StoreInv
  <2>4. CASE RegisterInstall(r)
    BY <1>0, <1>1, <1>2, <2>4 DEF RegisterInstall, At, StopsAwaited, StoreInv
  <2>5. CASE RegisterAnnounce(r)
    BY <1>0, <1>1, <1>2, <2>5 DEF RegisterAnnounce, At, StopsAwaited, StoreInv
  <2>6. CASE RegisterStore(r)
    <3>1. reg'[r] = "listen" /\ (unsaved' \/ db' = "ready") /\ health' = health
      BY <1>0, <2>6 DEF RegisterStore, WriteStatus, At
    <3>2. health[r] = NewHealth("ready")
      BY <2>6 DEF RegisterStore, LoopInv
    <3>3. health'[r].status = "ready"
      <4>1. NewHealth("ready").status = "ready"
        BY DEF NewHealth
      <4> QED BY <3>1, <3>2, <4>1
    <3>4. StoreInv'
      BY <3>1, <3>3 DEF StoreInv
    <3> QED BY <1>0, <1>1, <2>6, <3>4 DEF RegisterStore, At, StopsAwaited
  <2>7. CASE RegisterListen(r)
    BY <1>0, <1>1, <1>2, <2>7 DEF RegisterListen, At, StopsAwaited, StoreInv
  <2>8. CASE RegisterStart(r)
    BY <1>0, <1>1, <1>2, <2>8 DEF RegisterStart, At, StopsAwaited, StoreInv
  <2> QED BY <1>3, <2>1, <2>2, <2>3, <2>4, <2>5, <2>6, <2>7, <2>8 DEF Register
<1>4. ASSUME NEW r \in Runtimes, LoopStop(r) PROVE StopsAwaited' /\ StoreInv'
  <2>1. PICK p \in Runtimes : reg[p] = "join" /\ old[p] = r
    BY <1>1, <1>4 DEF LoopStop
  <2>2. p # r /\ Unfinished(p)'
    BY <1>2, <1>4, <2>1 DEF LoopStop
  <2> QED BY <1>0, <1>1, <1>2, <1>4, <2>1, <2>2 DEF LoopStop, Loop, StopsAwaited, StoreInv
<1>5. ASSUME NEW r \in Runtimes, HealthLoop(r) PROVE StopsAwaited' /\ StoreInv'
  <2>0. ASSUME NEW g, loop[r] = "probing", health' = [health EXCEPT ![r] = g],
               Loop(r, IF Changed(health[r], g) THEN "store" ELSE "select"),
               UNCHANGED <<callVars, column>>
        PROVE  StopsAwaited' /\ StoreInv'
    <3>1. Unfinished(r)' /\ loop'[r] \in {"store", "select"}
      BY <1>0, <2>0 DEF Loop
    <3>2. ASSUME NEW s \in Runtimes, s # r PROVE Unfinished(s)' = Unfinished(s)
      BY <1>0, <2>0, <3>2 DEF Loop
    <3>3. ASSUME Stored(r)' PROVE Held(r)' \/ \E q \in Runtimes \ {r} : Unfinished(q)'
      <4>1. loop'[r] = "select"
        BY <1>0, <1>2, <2>0, <3>1, <3>3 DEF LoopInv
      <4>2. health'[r].status = health[r].status
        BY <1>0, <2>0, <4>1 DEF Loop, Changed
      <4>3. Held(r) \/ \E q \in Runtimes \ {r} : Unfinished(q)
        BY <1>1, <2>0
      <4> QED BY <2>0, <3>2, <4>2, <4>3
    <3>4. StoreInv'
      BY <3>1, <3>3 DEF StoreInv
    <3> QED BY <1>0, <1>1, <2>0, <3>4 DEF Loop, StopsAwaited
  <2>1. CASE TimerFires(r)
    BY <1>0, <1>1, <2>1 DEF TimerFires, Loop, StopsAwaited, StoreInv
  <2>2. CASE ProbeSucceeds(r)
    BY <2>0, <2>2 DEF ProbeSucceeds
  <2>3. CASE ProbeFails(r)
    BY <2>0, <2>3 DEF ProbeFails
  <2>4. CASE LoopStore(r)
    BY <1>0, <1>1, <2>4 DEF LoopStore, WriteStatus, Loop, StopsAwaited, StoreInv
  <2>5. CASE LoopListen(r)
    BY <1>0, <1>1, <2>5 DEF LoopListen, Loop, StopsAwaited, StoreInv
  <2> QED BY <1>5, <2>1, <2>2, <2>3, <2>4, <2>5 DEF HealthLoop
<1>6. ASSUME NEW w \in Subscribers, FeedSubscribe(w) \/ FeedRead(w) \/ FeedSend(w)
      PROVE StopsAwaited' /\ StoreInv'
  BY <1>1, <1>6 DEF FeedSubscribe, FeedRead, FeedSend, StopsAwaited, StoreInv
<1>7. CASE UNCHANGED vars
  BY <1>1, <1>7 DEF vars, StopsAwaited, StoreInv
<1> QED BY <1>3, <1>4, <1>5, <1>6, <1>7, RemovalsStay DEF Next

(* However many registrations of one cluster replace one another, the      *)
(* status column holds in the end what the runtime that is left reports,   *)
(* unless the last write of the column failed (notify, the join of         *)
(* Register, and StatusUpdater, which does not retry).                     *)
THEOREM StoreStaysCurrent == Spec => []StoreIsCurrent
<1>1. Init => StopsAwaited /\ StoreInv
  BY DEF Init, StopsAwaited, StoreInv, Stored
<1>2. StoreInv => StoreIsCurrent
  BY DEF StoreInv, StoreIsCurrent, Stored, Held, Unfinished, NoRemovals
<1> QED BY <1>1, <1>2, StoreKept, TypeCorrect, LoopInvariant, PTL DEF Spec
===============================================================================
