--------------------------- MODULE CircuitBreaker ---------------------------
(***************************************************************************)
(* The circuit breaker around the exchange-rate provider.  Its state is    *)
(* three Redis keys that every replica shares, and each caller reads and   *)
(* writes them one command at a time: a step below is one Redis command,   *)
(* or the outcome of the guarded call.                                     *)
(*                                                                         *)
(* Time is relative: the model keeps how long ago the circuit opened and   *)
(* how long the failure counter has to live, both in ticks and both        *)
(* saturated where the code no longer tells values apart.                  *)
(***************************************************************************)
EXTENDS Integers, FiniteSets

CONSTANTS Callers,           \* requests and workers, each making one call after another
          failure_threshold, recovery_timeout,
          MaxFaults,         \* bound on faults: a lost Redis command, a caller that dies
          None               \* an absent key, a key without expiry

ASSUME ThresholdAssumption == failure_threshold \in Nat \ {0}
ASSUME TimeoutAssumption == recovery_timeout \in Nat \ {0}
ASSUME FaultsAssumption == MaxFaults \in Nat
ASSUME NoneAssumption == None \notin Int

CircuitState == {"closed", "open", "half_open"}

VARIABLES
  state,        \* the state key; an absent key is "closed"
  failures,     \* the failure key; an absent key is 0; it saturates at the threshold
  failures_ttl, \* ticks until the failure key expires, or None
  opened_age,   \* ticks since the time in the opened_at key, or None
  \* each caller: its next command, the state it saw, its local counter, and
  \* how its last call ended
  pc, seen, count, result,
  faults,       \* how many faults there have been
  recorded,     \* history: failures ever counted, saturating at the threshold
  torn          \* history: the time of the last opening may be lost, see SetOpen

redis == <<state, failures, failures_ttl, opened_age>>
vars == <<redis, pc, seen, count, result, faults, recorded, torn>>

PC == {"ready", "get_opened_at", "set_half_open", "call",
       "delete_state", "delete_failures", "delete_opened_at",
       "incr", "expire", "set_open", "set_opened_at"}

Init ==
  /\ state = "closed" /\ failures = 0 /\ failures_ttl = None /\ opened_age = None
  /\ pc = [c \in Callers |-> "ready"]
  /\ seen = [c \in Callers |-> "closed"]
  /\ count = [c \in Callers |-> 0]
  /\ result = [c \in Callers |-> "none"]
  /\ faults = 0 /\ recorded = 0 /\ torn = FALSE

Capped(n, limit) == IF n < limit THEN n ELSE limit

Goto(c, next) == pc' = [pc EXCEPT ![c] = next]

\* The call ends: c returns its result to its caller and may be called again.
End(c, code) ==
  /\ Goto(c, "ready")
  /\ result' = [result EXCEPT ![c] = code]

-----------------------------------------------------------------------------
\* get_state, 1: GET state.
GetState(c) ==
  /\ pc[c] = "ready"
  /\ seen' = [seen EXCEPT ![c] = state]
  /\ Goto(c, IF state = "open" THEN "get_opened_at" ELSE "call")
  /\ UNCHANGED <<redis, count, result, faults, recorded, torn>>

\* get_state, 2: GET opened_at.  Too early, or no time stored: CircuitOpenException.
GetOpenedAt(c) ==
  /\ pc[c] = "get_opened_at"
  /\ IF opened_age # None /\ opened_age > recovery_timeout
     THEN Goto(c, "set_half_open") /\ UNCHANGED result
     ELSE End(c, "rejected")
  /\ UNCHANGED <<redis, seen, count, faults, recorded, torn>>

\* get_state, 3: SET state half_open, whatever the state has become meanwhile.
SetHalfOpen(c) ==
  /\ pc[c] = "set_half_open"
  /\ state' = "half_open"
  /\ seen' = [seen EXCEPT ![c] = "half_open"]
  /\ Goto(c, "call")
  /\ UNCHANGED <<failures, failures_ttl, opened_age, count, result, faults, recorded, torn>>

\* Defective variant of Succeed: no success is recorded.
SucceedSilently(c) ==
  /\ pc[c] = "call"
  /\ End(c, "returned")
  /\ UNCHANGED <<redis, seen, count, faults, recorded, torn>>

\* The guarded call returns.  Only a call that saw the circuit half open
\* records its success.
Succeed(c) ==
  /\ pc[c] = "call"
  /\ IF seen[c] = "half_open"
     THEN Goto(c, "delete_state") /\ UNCHANGED result
     ELSE End(c, "returned")
  /\ UNCHANGED <<redis, seen, count, faults, recorded, torn>>

\* The guarded call raises.
Fail(c) ==
  /\ pc[c] = "call"
  /\ Goto(c, "incr")
  /\ UNCHANGED <<redis, seen, count, result, faults, recorded, torn>>

\* record_success: three DELs.
DeleteState(c) ==
  /\ pc[c] = "delete_state"
  /\ state' = "closed"
  /\ Goto(c, "delete_failures")
  /\ UNCHANGED <<failures, failures_ttl, opened_age, seen, count, result, faults, recorded, torn>>

DeleteFailures(c) ==
  /\ pc[c] = "delete_failures"
  /\ failures' = 0 /\ failures_ttl' = None
  /\ Goto(c, "delete_opened_at")
  /\ UNCHANGED <<state, opened_age, seen, count, result, faults, recorded, torn>>

DeleteOpenedAt(c) ==
  /\ pc[c] = "delete_opened_at"
  /\ opened_age' = None
  /\ End(c, "returned")
  /\ UNCHANGED <<state, failures, failures_ttl, seen, count, faults, recorded, torn>>

\* record_failure, 1: INCR failures, which creates the key without an expiry.
Incr(c) ==
  /\ pc[c] = "incr"
  /\ failures' = Capped(failures + 1, failure_threshold)
  /\ count' = [count EXCEPT ![c] = failures']
  /\ recorded' = Capped(recorded + 1, failure_threshold)
  /\ Goto(c, "expire")
  /\ UNCHANGED <<state, failures_ttl, opened_age, seen, result, faults, torn>>

\* Defective variants of Expire: a longer expiry, an off-by-one threshold, and
\* an expiry that is only set once the circuit trips.
ExpireLonger(c) ==
  /\ pc[c] = "expire"
  /\ failures_ttl' = IF failures = 0 THEN None ELSE 3 * recovery_timeout
  /\ IF count[c] >= failure_threshold
     THEN Goto(c, "set_open") /\ UNCHANGED result
     ELSE End(c, "raised")
  /\ UNCHANGED <<state, failures, opened_age, seen, count, faults, recorded, torn>>

ExpireTripsEarly(c) ==
  /\ pc[c] = "expire"
  /\ failures_ttl' = IF failures = 0 THEN None ELSE 2 * recovery_timeout
  /\ IF count[c] >= failure_threshold - 1
     THEN Goto(c, "set_open") /\ UNCHANGED result
     ELSE End(c, "raised")
  /\ UNCHANGED <<state, failures, opened_age, seen, count, faults, recorded, torn>>

ExpireWhenTripped(c) ==
  /\ pc[c] = "expire"
  /\ IF count[c] >= failure_threshold
     THEN /\ failures_ttl' = IF failures = 0 THEN None ELSE 2 * recovery_timeout
          /\ Goto(c, "set_open") /\ UNCHANGED result
     ELSE End(c, "raised") /\ UNCHANGED failures_ttl
  /\ UNCHANGED <<state, failures, opened_age, seen, count, faults, recorded, torn>>

\* record_failure, 2: EXPIRE failures, which does nothing to an absent key.
Expire(c) ==
  /\ pc[c] = "expire"
  /\ failures_ttl' = IF failures = 0 THEN None ELSE 2 * recovery_timeout
  /\ IF count[c] >= failure_threshold
     THEN Goto(c, "set_open") /\ UNCHANGED result
     ELSE End(c, "raised")
  /\ UNCHANGED <<state, failures, opened_age, seen, count, faults, recorded, torn>>

\* The callers that have deleted the state and not yet the time of opening.
Resetting == {c \in Callers : pc[c] \in {"delete_failures", "delete_opened_at"}}

\* Defective variant of SetOpen: the time of opening is forgotten.
SetOpenOnly(c) ==
  /\ pc[c] = "set_open"
  /\ state' = "open"
  /\ torn' = (Resetting # {})
  /\ End(c, "raised")
  /\ UNCHANGED <<failures, failures_ttl, opened_age, seen, count, faults, recorded>>

\* record_failure, 3 and 4: SET state open, then SET opened_at to the time.
\* History: whether somebody is about to delete the time of this opening.
SetOpen(c) ==
  /\ pc[c] = "set_open"
  /\ state' = "open"
  /\ torn' = (Resetting # {})
  /\ Goto(c, "set_opened_at")
  /\ UNCHANGED <<failures, failures_ttl, opened_age, seen, count, result, faults, recorded>>

SetOpenedAt(c) ==
  /\ pc[c] = "set_opened_at"
  /\ opened_age' = 0
  /\ torn' = (Resetting # {})
  /\ End(c, "raised")
  /\ UNCHANGED <<state, failures, failures_ttl, seen, count, faults, recorded>>

\* History: a caller was cut off before it could store the time.
CutShort(c) == torn' = (torn \/ pc[c] = "set_opened_at")

\* A Redis command raises.  In record_success the exception is caught by the
\* handler that records failures, anywhere else it leaves the breaker.
RedisFails(c) ==
  /\ pc[c] \notin {"ready", "call"}
  /\ faults < MaxFaults /\ faults' = faults + 1
  /\ IF pc[c] \in {"delete_state", "delete_failures", "delete_opened_at"}
     THEN Goto(c, "incr") /\ UNCHANGED result
     ELSE End(c, "raised")
  /\ CutShort(c)
  /\ UNCHANGED <<redis, seen, count, recorded>>

\* The caller's process dies, or its task is cancelled, which the breaker's
\* except clause does not catch.
Crash(c) ==
  /\ pc[c] # "ready"
  /\ faults < MaxFaults /\ faults' = faults + 1
  /\ End(c, "lost")
  /\ CutShort(c)
  /\ UNCHANGED <<redis, seen, count, recorded>>

\* Time passes: the circuit has been open for longer, the counter may expire.
Tick ==
  /\ opened_age' = IF opened_age = None THEN None
                   ELSE Capped(opened_age + 1, recovery_timeout + 1)
  /\ IF failures_ttl = 1
     THEN failures' = 0 /\ failures_ttl' = None
     ELSE /\ failures_ttl' = IF failures_ttl = None THEN None ELSE failures_ttl - 1
          /\ UNCHANGED failures
  /\ UNCHANGED <<state, pc, seen, count, result, faults, recorded, torn>>

Step(c) ==
  \/ GetState(c) \/ GetOpenedAt(c) \/ SetHalfOpen(c) \/ Succeed(c) \/ Fail(c)
  \/ DeleteState(c) \/ DeleteFailures(c) \/ DeleteOpenedAt(c)
  \/ Incr(c) \/ Expire(c) \/ SetOpen(c) \/ SetOpenedAt(c)

Next == Tick \/ \E c \in Callers : Step(c) \/ RedisFails(c) \/ Crash(c)

Spec == Init /\ [][Next]_vars

\* Time passes, a started call goes on, and there is always another call:
\* Celery Beat calls the provider through the breaker every hour.
FairSpec == Spec /\ WF_vars(Tick) /\ \A c \in Callers : WF_vars(Step(c))

-----------------------------------------------------------------------------
\* Properties.

\* The keys and local variables keep their ranges, and an absent counter has
\* no expiry.
TypeOK ==
  /\ state \in CircuitState
  /\ failures \in 0 .. failure_threshold
  /\ failures_ttl \in 1 .. 2 * recovery_timeout \cup {None}
  /\ failures = 0 => failures_ttl = None
  /\ opened_age \in 0 .. recovery_timeout + 1 \cup {None}
  /\ pc \in [Callers -> PC]
  /\ seen \in [Callers -> CircuitState]
  /\ count \in [Callers -> 0 .. failure_threshold]
  /\ result \in [Callers -> {"none", "returned", "rejected", "raised", "lost"}]
  /\ faults \in 0 .. MaxFaults
  /\ recorded \in 0 .. failure_threshold /\ torn \in BOOLEAN

\* While fewer failures than the threshold have been counted the provider is not
\* cut off, however its callers interleave, and no call has been rejected.
TrippedOnlyByFailures ==
  recorded < failure_threshold =>
    /\ state = "closed"
    /\ \A c \in Callers : result[c] # "rejected"

\* Old failures do not count for ever: while nobody is about to set its expiry
\* and no fault has cut a caller short, a counter that exists expires.
CounterExpires ==
  failures # 0 /\ failures_ttl = None =>
    \/ \E c \in Callers : pc[c] = "expire"
    \/ faults > 0

\* The circuit is open, and no time of opening is stored with which get_state
\* could ever let a probe through.
Stranded == state = "open" /\ opened_age = None

\* The circuit is stranded for two causes only: when it was last opened, or given
\* its time, another caller was in the middle of recording a success, or the
\* caller that opened it died or lost Redis before it could store the time.
StrandedOnlyForACause ==
  Stranded => torn \/ \E c \in Callers : pc[c] = "set_opened_at"

\* Once calls have stopped failing the circuit is closed again and again, and
\* the one thing that can prevent it is that it is stranded.
RecoversUnlessStranded ==
  \/ []<>(\E c \in Callers : pc[c] = "incr")
  \/ []<>(state = "closed")
  \/ <>[]Stranded

-----------------------------------------------------------------------------
\* What the repository's documents say, and the code does not keep.

\* circuit_breaker.py: "retries provider automatically after the recovery
\* window".  So when all calls have ended the circuit is not stranded.
RetriesAfterWindow == (\A c \in Callers : pc[c] = "ready") => ~Stranded

\* ARCHITECTURE.md, of the probe: "failure re-opens it".  Stated for a caller
\* that has the circuit to itself.
FailedProbeReopens ==
  \A c \in Callers :
    Callers = {c} /\ pc[c] = "ready" /\ seen[c] = "half_open" /\ result[c] = "raised"
      => state = "open"
=============================================================================
