----------------------- MODULE CircuitBreakerProofs -----------------------
(***************************************************************************)
(* Type correctness of the circuit breaker, and its safety properties,     *)
(* for any number of callers, any threshold, timeout and number of faults. *)
(***************************************************************************)
EXTENDS CircuitBreaker, TLAPS

-----------------------------------------------------------------------------
\* Type correctness.

LEMMA TypeInit == Init => TypeOK
<1> SUFFICES ASSUME Init PROVE TypeOK
  OBVIOUS
<1>1. torn \in BOOLEAN
  BY DEF Init
<1>2. failures \in 0 .. failure_threshold /\ recorded \in 0 .. failure_threshold /\ faults \in 0 .. MaxFaults
  BY ThresholdAssumption, FaultsAssumption DEF Init
<1>3. count \in [Callers -> 0 .. failure_threshold]
  BY ThresholdAssumption DEF Init
<1>. QED
  BY <1>1, <1>2, <1>3 DEF Init, TypeOK, CircuitState, PC

LEMMA TypeStep ==
  ASSUME TypeOK, NEW c \in Callers, Step(c)
  PROVE  TypeOK'
<1> USE ThresholdAssumption, TimeoutAssumption, NoneAssumption
        DEF TypeOK, CircuitState, PC, redis, Goto, End
<1>1. CASE GetState(c)
  BY <1>1 DEF GetState
<1>2. CASE GetOpenedAt(c)
  BY <1>2 DEF GetOpenedAt
<1>3. CASE SetHalfOpen(c)
  BY <1>3 DEF SetHalfOpen
<1>4. CASE Succeed(c)
  BY <1>4 DEF Succeed
<1>5. CASE Fail(c)
  BY <1>5 DEF Fail
<1>6. CASE DeleteState(c)
  BY <1>6 DEF DeleteState
<1>7. CASE DeleteFailures(c)
  BY <1>7 DEF DeleteFailures
<1>8. CASE DeleteOpenedAt(c)
  BY <1>8 DEF DeleteOpenedAt
<1>9. CASE Incr(c)
  <2>1. failures' \in 1 .. failure_threshold /\ recorded' \in 0 .. failure_threshold
    BY <1>9 DEF Incr, Capped
  <2>2. failures_ttl' = failures_ttl
    BY <1>9 DEF Incr
  <2>. QED
    BY <1>9, <2>1, <2>2 DEF Incr
<1>10. CASE Expire(c)
  <2>1. failures_ttl' \in 1 .. 2 * recovery_timeout \cup {None}
    BY <1>10 DEF Expire
  <2>. QED
    BY <1>10, <2>1 DEF Expire
<1>11. CASE SetOpen(c)
  BY <1>11 DEF SetOpen
<1>12. CASE SetOpenedAt(c)
  BY <1>12 DEF SetOpenedAt
<1>. QED
  BY <1>1, <1>2, <1>3, <1>4, <1>5, <1>6, <1>7, <1>8, <1>9, <1>10, <1>11, <1>12 DEF Step

LEMMA TypeTick ==
  ASSUME TypeOK, Tick
  PROVE  TypeOK'
<1>1. opened_age' \in 0 .. recovery_timeout + 1 \cup {None}
  BY TimeoutAssumption DEF TypeOK, Tick, Capped
<1>2. failures_ttl' \in 1 .. 2 * recovery_timeout \cup {None}
  BY TimeoutAssumption, NoneAssumption DEF TypeOK, Tick
<1>3. failures' \in 0 .. failure_threshold /\ (failures' = 0 => failures_ttl' = None)
  BY ThresholdAssumption, NoneAssumption DEF TypeOK, Tick
<1>. QED
  BY <1>1, <1>2, <1>3 DEF TypeOK, Tick

LEMMA TypeFault ==
  ASSUME TypeOK, NEW c \in Callers, RedisFails(c) \/ Crash(c)
  PROVE  TypeOK'
<1>1. faults' \in 0 .. MaxFaults
  BY FaultsAssumption DEF TypeOK, RedisFails, Crash
<1>2. torn' \in BOOLEAN
  BY DEF TypeOK, RedisFails, Crash, CutShort
<1>. QED
  BY <1>1, <1>2 DEF TypeOK, PC, redis, Goto, End, RedisFails, Crash

\* The keys in Redis and the callers' variables keep their ranges: no sequence
\* of commands of the breaker's callers leaves an expiry on an absent counter.
THEOREM TypeCorrect == Spec => []TypeOK
<1>1. TypeOK /\ [Next]_vars => TypeOK'
  <2> SUFFICES ASSUME TypeOK, [Next]_vars PROVE TypeOK'
    OBVIOUS
  <2>1. CASE UNCHANGED vars
    BY <2>1 DEF TypeOK, vars, redis
  <2>. QED
    BY <2>1, TypeTick, TypeStep, TypeFault DEF Next
<1>. QED
  BY <1>1, TypeInit, PTL DEF Spec

-----------------------------------------------------------------------------
\* The circuit trips only when enough failures have been counted.

Tripped == recorded >= failure_threshold

\* The counters never run ahead of the failures counted, and whoever opens the
\* circuit, or has found it open, does so after it was rightly tripped.
Earned ==
  /\ failures <= recorded
  /\ \A c \in Callers :
       /\ count[c] <= recorded
       /\ pc[c] = "set_open" => count[c] >= failure_threshold
       /\ pc[c] \in {"get_opened_at", "set_half_open"} => Tripped
       /\ result[c] = "rejected" => Tripped
  /\ state # "closed" => Tripped

LEMMA EarnedStep ==
  ASSUME TypeOK, Earned, NEW c \in Callers, Step(c)
  PROVE  Earned'
<1> USE ThresholdAssumption DEF TypeOK, CircuitState, Earned, Tripped, redis, Goto, End
<1>1. CASE GetState(c)
  BY <1>1 DEF GetState
<1>2. CASE GetOpenedAt(c)
  BY <1>2 DEF GetOpenedAt
<1>3. CASE SetHalfOpen(c)
  BY <1>3 DEF SetHalfOpen
<1>4. CASE Succeed(c)
  BY <1>4 DEF Succeed
<1>5. CASE Fail(c)
  BY <1>5 DEF Fail
<1>6. CASE DeleteState(c)
  BY <1>6 DEF DeleteState
<1>7. CASE DeleteFailures(c)
  BY <1>7 DEF DeleteFailures
<1>8. CASE DeleteOpenedAt(c)
  BY <1>8 DEF DeleteOpenedAt
<1>9. CASE Incr(c)
  <2>1. recorded' >= recorded /\ failures' <= recorded'
    BY <1>9 DEF Incr, Capped
  <2>. QED
    BY <1>9, <2>1 DEF Incr, Capped
<1>10. CASE Expire(c)
  BY <1>10 DEF Expire
<1>11. CASE SetOpen(c)
  BY <1>11 DEF SetOpen
<1>12. CASE SetOpenedAt(c)
  BY <1>12 DEF SetOpenedAt
<1>. QED
  BY <1>1, <1>2, <1>3, <1>4, <1>5, <1>6, <1>7, <1>8, <1>9, <1>10, <1>11, <1>12 DEF Step

\* While fewer failures than the threshold have been counted, no caller has been
\* rejected and the circuit is closed, for any number of interleaved callers.
THEOREM NoUnearnedTrip == Spec => []TrippedOnlyByFailures
<1>1. Init => Earned
  BY ThresholdAssumption DEF Init, Earned, Tripped
<1>2. TypeOK /\ Earned /\ [Next]_vars => Earned'
  <2> SUFFICES ASSUME TypeOK, Earned, [Next]_vars PROVE Earned'
    OBVIOUS
  <2>1. CASE UNCHANGED vars
    BY <2>1 DEF Earned, Tripped, vars, redis
  <2>2. CASE Tick
    BY <2>2 DEF Tick, TypeOK, Earned, Tripped
  <2>3. ASSUME NEW c \in Callers, RedisFails(c) \/ Crash(c) PROVE Earned'
    BY <2>3 DEF TypeOK, Earned, Tripped, redis, Goto, End, RedisFails, Crash
  <2>. QED
    BY <2>1, <2>2, <2>3, EarnedStep DEF Next
<1>3. TypeOK /\ Earned => TrippedOnlyByFailures
  BY ThresholdAssumption DEF TypeOK, Earned, Tripped, TrippedOnlyByFailures
<1>. QED
  BY <1>1, <1>2, <1>3, TypeCorrect, PTL DEF Spec

-----------------------------------------------------------------------------
\* The failure counter expires.

\* A caller that does not set the expiry leaves those alone that are about to.
LEMMA ExpiryPending ==
  ASSUME TypeOK, CounterExpires, NEW c \in Callers, pc[c] # "expire",
         NEW next, pc' = [pc EXCEPT ![c] = next],
         UNCHANGED <<failures, failures_ttl, faults>>
  PROVE  CounterExpires'
  BY DEF TypeOK, CounterExpires

LEMMA CounterStep ==
  ASSUME TypeOK, CounterExpires, NEW c \in Callers, Step(c)
  PROVE  CounterExpires'
<1>1. CASE Incr(c)
  BY <1>1 DEF Incr, Goto, TypeOK, CounterExpires
<1>2. CASE Expire(c)
  BY <1>2, TimeoutAssumption, NoneAssumption DEF Expire, CounterExpires
<1>3. CASE DeleteFailures(c)
  BY <1>3 DEF DeleteFailures, CounterExpires
<1>4. CASE GetState(c) \/ GetOpenedAt(c) \/ SetHalfOpen(c) \/ Succeed(c) \/ Fail(c)
  BY <1>4, ExpiryPending
     DEF GetState, GetOpenedAt, SetHalfOpen, Succeed, Fail, redis, Goto, End
<1>5. CASE DeleteState(c) \/ DeleteOpenedAt(c) \/ SetOpen(c) \/ SetOpenedAt(c)
  BY <1>5, ExpiryPending
     DEF DeleteState, DeleteOpenedAt, SetOpen, SetOpenedAt, Goto, End
<1>. QED
  BY <1>1, <1>2, <1>3, <1>4, <1>5 DEF Step

\* A failure counter that exists has an expiry, or a caller that is about to set
\* it, unless a fault has cut a caller short.
THEOREM CountersExpire == Spec => []CounterExpires
<1>1. Init => CounterExpires
  BY DEF Init, CounterExpires
<1>2. TypeOK /\ CounterExpires /\ [Next]_vars => CounterExpires'
  <2> SUFFICES ASSUME TypeOK, CounterExpires, [Next]_vars PROVE CounterExpires'
    OBVIOUS
  <2>1. CASE UNCHANGED vars
    BY <2>1 DEF CounterExpires, vars, redis
  <2>2. CASE Tick
    BY <2>2, TimeoutAssumption, NoneAssumption DEF Tick, TypeOK, CounterExpires
  <2>3. ASSUME NEW c \in Callers, RedisFails(c) \/ Crash(c) PROVE CounterExpires'
    BY <2>3, FaultsAssumption DEF RedisFails, Crash, TypeOK, CounterExpires
  <2>. QED
    BY <2>1, <2>2, <2>3, CounterStep DEF Next
<1>. QED
  BY <1>1, <1>2, TypeCorrect, PTL DEF Spec

-----------------------------------------------------------------------------
\* The time of an opening is lost for two causes only.

\* An open circuit that nothing has torn keeps its time, or is about to get it,
\* and nobody is left who could delete it without closing the circuit first.
Timed ==
  state = "open" /\ ~ torn =>
    /\ Resetting = {}
    /\ opened_age # None \/ \E c \in Callers : pc[c] = "set_opened_at"

\* A step that opens nothing, deletes nothing and leaves no opener behind.
LEMMA TimedFrame ==
  ASSUME TypeOK, Timed, NEW c \in Callers, NEW next,
         pc[c] # "set_opened_at", next \notin {"delete_failures", "delete_opened_at"},
         pc' = [pc EXCEPT ![c] = next],
         state' = state \/ state' # "open", opened_age' = opened_age, torn' = torn
  PROVE  Timed'
<1>1. Resetting' \subseteq Resetting
  BY DEF Resetting, TypeOK
<1>2. \A d \in Callers : pc[d] = "set_opened_at" => pc'[d] = "set_opened_at"
  BY DEF TypeOK
<1>. QED
  BY <1>1, <1>2 DEF Timed

LEMMA TimedStep ==
  ASSUME TypeOK, Timed, NEW c \in Callers, Step(c)
  PROVE  Timed'
<1>1. CASE GetState(c) \/ GetOpenedAt(c) \/ Succeed(c) \/ Fail(c) \/ Incr(c) \/ Expire(c)
  BY <1>1, TimedFrame
     DEF GetState, GetOpenedAt, Succeed, Fail, Incr, Expire, redis, Goto, End
<1>2. CASE SetHalfOpen(c)
  BY <1>2, TimedFrame DEF SetHalfOpen, Goto
<1>3. CASE DeleteState(c)
  BY <1>3 DEF DeleteState, Timed
<1>4. CASE DeleteFailures(c)
  BY <1>4 DEF DeleteFailures, Timed, Resetting
<1>5. CASE DeleteOpenedAt(c)
  BY <1>5 DEF DeleteOpenedAt, Timed, Resetting
<1>6. CASE SetOpen(c)
  <2>1. pc' = [pc EXCEPT ![c] = "set_opened_at"] /\ torn' = (Resetting # {})
    BY <1>6 DEF SetOpen, Goto
  <2>2. Resetting' \subseteq Resetting /\ pc'[c] = "set_opened_at"
    BY <2>1 DEF Resetting, TypeOK
  <2>. QED
    BY <2>1, <2>2 DEF Timed
<1>7. CASE SetOpenedAt(c)
  <2>1. /\ pc' = [pc EXCEPT ![c] = "ready"] /\ torn' = (Resetting # {})
        /\ opened_age' = 0
    BY <1>7 DEF SetOpenedAt, End, Goto
  <2>2. Resetting' \subseteq Resetting
    BY <2>1 DEF Resetting, TypeOK
  <2>3. opened_age' # None
    BY <2>1, NoneAssumption
  <2>4. ~ torn' => Resetting' = {}
    BY <2>1, <2>2
  <2>. QED
    BY <2>3, <2>4 DEF Timed
<1>. QED
  BY <1>1, <1>2, <1>3, <1>4, <1>5, <1>6, <1>7 DEF Step

LEMMA TimedFault ==
  ASSUME TypeOK, Timed, NEW c \in Callers, RedisFails(c) \/ Crash(c)
  PROVE  Timed'
<1>1. PICK next \in {"incr", "ready"} : pc' = [pc EXCEPT ![c] = next]
  BY DEF RedisFails, Crash, Goto, End
<1>2. torn' = (torn \/ pc[c] = "set_opened_at") /\ UNCHANGED <<state, opened_age>>
  BY DEF RedisFails, Crash, CutShort, redis
<1>3. CASE pc[c] = "set_opened_at"
  BY <1>2, <1>3 DEF Timed
<1>4. CASE pc[c] # "set_opened_at"
  BY <1>1, <1>2, <1>4, TimedFrame DEF TypeOK
<1>. QED
  BY <1>3, <1>4

\* The circuit is stranded only if an opening met a caller in the middle of
\* recording a success, or was cut off before its time was stored.
THEOREM StrandingHasACause == Spec => []StrandedOnlyForACause
<1>1. Init => Timed
  BY DEF Init, Timed
<1>2. TypeOK /\ Timed /\ [Next]_vars => Timed'
  <2> SUFFICES ASSUME TypeOK, Timed, [Next]_vars PROVE Timed'
    OBVIOUS
  <2>1. CASE UNCHANGED vars
    BY <2>1 DEF Timed, Resetting, vars, redis
  <2>2. CASE Tick
    <3>1. opened_age # None => opened_age' # None
      BY <2>2, TimeoutAssumption, NoneAssumption DEF Tick, TypeOK, Capped
    <3>. QED
      BY <2>2, <3>1 DEF Tick, Timed, Resetting
  <2>. QED
    BY <2>1, <2>2, TimedStep, TimedFault DEF Next
<1>3. Timed => StrandedOnlyForACause
  BY DEF Timed, StrandedOnlyForACause, Stranded
<1>. QED
  BY <1>1, <1>2, <1>3, TypeCorrect, PTL DEF Spec
=============================================================================
