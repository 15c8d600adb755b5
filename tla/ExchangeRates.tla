--------------------------- MODULE ExchangeRates ---------------------------
(***************************************************************************)
(* Exchange rates: the Redis cache, the table exchange_rates and the       *)
(* provider behind them, as ExchangeRateService uses them from requests    *)
(* (get_rate) and from the hourly Celery task (refresh_all_rates).  Every  *)
(* actor has a database session of its own and actors interleave at every  *)
(* await.                                                                  *)
(*                                                                         *)
(* A rate is the number of the market's version it was quoted in; 0 says   *)
(* that there is none.  Rows of the table are never deleted.               *)
(***************************************************************************)
EXTENDS Integers, FiniteSets

CONSTANTS Requests,    \* requests that need the rate of a pair, each served once
          Tasks,       \* refresh tasks: messages in the queue, which beat reuses
          Pairs,       \* (base, target) pairs of different currencies
          Asked,       \* those that requests ask for
          Refreshed,   \* the pairs from USD, which the task refreshes
          MaxMoves,    \* bound: how often the market moves
          MaxRetries,  \* retries of a task that failed
          None         \* no holder of a row

Actors == Requests \cup Tasks
Rate   == 1 .. MaxMoves + 1
Maybe  == 0 .. MaxMoves + 1   \* a rate, or none

PC == {"idle", "check_cache", "read_table", "fill_cache", "direct", "inverse", "cross",
       "queued", "put_cache", "find_row", "flush", "commit", "done"}
Answers == {"none", "ok", "unavailable", "error", "lost", "refreshed", "failed"}

\* The local variables of an actor: the pair it works on, whether a transfer asks
\* for it, the rate it has for it, the rate in the row it found, the pairs it has
\* yet to store, whether its session waits for a rollback, and how often its task
\* was retried.  The last three are history: what it stored, whether the table had
\* all of its pairs at the start, and whether a call to Redis, the
\* database or the provider failed it.
Job == [pair : Pairs \cup {None}, transfer : BOOLEAN, rate : Maybe, existing : Maybe,
        todo : SUBSET Pairs, broken : BOOLEAN, attempts : 0 .. MaxRetries,
        saved : SUBSET Pairs, known : BOOLEAN, faulted : BOOLEAN]
NewJob == [pair |-> None, transfer |-> FALSE, rate |-> 0, existing |-> 0, todo |-> {},
           broken |-> FALSE, attempts |-> 0, saved |-> {}, known |-> FALSE,
           faulted |-> FALSE]

ASSUME ActorAssumption == Requests \cap Tasks = {} /\ None \notin Actors
ASSUME PairAssumption  == /\ Asked \subseteq Pairs /\ Refreshed \subseteq Pairs
                          /\ Refreshed # {} /\ None \notin Pairs
ASSUME BoundAssumption == MaxMoves \in Nat /\ MaxRetries \in Nat

VARIABLES
  market,            \* the provider's current quotes
  calm,              \* its moves, all failures and all crashes are over, and so is
                     \* what they made the circuit breaker refuse
  stranded,          \* but the circuit stays open for ever (CircuitBreaker)
  cache, table,      \* the rate of each pair in Redis and in the committed table
  row_lock,          \* who has written a pair's row and not committed it
  pc, job, answer    \* where each actor is, its local variables, how it ended

store == <<cache, table, row_lock>>
outside == <<market, calm, stranded>>
vars == <<outside, store, pc, job, answer>>

Init ==
  /\ market = 1 /\ calm = FALSE /\ stranded = FALSE
  /\ cache = [p \in Pairs |-> 0]
  /\ table = [p \in Pairs |-> 0]
  /\ row_lock = [p \in Pairs |-> None]
  /\ pc = [a \in Actors |-> "idle"]
  /\ job = [a \in Actors |-> NewJob]
  /\ answer = [a \in Actors |-> "none"]

-----------------------------------------------------------------------------
Goto(a, next) == pc' = [pc EXCEPT ![a] = next]
Go(a, next)   == Goto(a, next) /\ UNCHANGED answer

\* The request is answered, or the task's message acknowledged: of the local
\* variables j only the history is kept.
Finish(a, code, j) ==
  /\ Goto(a, IF a \in Tasks THEN "idle" ELSE "done")
  /\ answer' = [answer EXCEPT ![a] = code]
  /\ job' = [job EXCEPT ![a] = [NewJob EXCEPT
       !.pair = j.pair, !.transfer = j.transfer,
       !.saved = j.saved, !.known = j.known, !.faulted = j.faulted]]

\* The task has dealt with a pair: on to the next one, or to the end.
NextPair(t, j) ==
  LET next == [j EXCEPT !.pair = None, !.existing = 0]
  IN IF j.todo = {} THEN Finish(t, "refreshed", next)
     ELSE job' = [job EXCEPT ![t] = next] /\ Go(t, "put_cache")

\* An exception while a rate is stored.  get_rate answers that there is no rate;
\* the loop of the task swallows it, without a rollback of the session.
StoreFails(a, j) ==
  IF a \in Tasks THEN NextPair(a, j) ELSE Finish(a, "unavailable", j)

\* Defective variant of Released: the transaction stays open.
KeptLocked(a) == row_lock' = row_lock

Released(a) == row_lock' = [p \in Pairs |-> IF row_lock[p] = a THEN None ELSE row_lock[p]]

-----------------------------------------------------------------------------
\* get_rate.

\* The rate is asked for by the endpoint, or by step 4 of a transfer.
Submit(r) ==
  /\ pc[r] = "idle"
  /\ \E p \in Asked, step4 \in BOOLEAN :
       job' = [job EXCEPT ![r] = [NewJob EXCEPT !.pair = p, !.transfer = step4, !.todo = {p},
                                                !.known = table[p] # 0]]
  /\ Go(r, "check_cache")
  /\ UNCHANGED <<outside, store>>

\* Defective variant of LookupFails: any failure is taken for a missing rate.
LookupFailsAsNoRate(r) ==
  ~ calm /\ Finish(r, "unavailable", [job[r] EXCEPT !.faulted = TRUE])

\* get_rate does not catch a failure of Redis or of the database before it turns to
\* the provider: the endpoint answers a 500, but a transfer makes a missing rate of
\* any exception.
LookupFails(r) ==
  /\ ~ calm
  /\ Finish(r, IF job[r].transfer THEN "unavailable" ELSE "error",
            [job[r] EXCEPT !.faulted = TRUE])

\* A rate in the cache is the answer.
CheckCache(r) ==
  LET cached == cache[job[r].pair]
  IN /\ pc[r] = "check_cache"
     /\ \/ cached # 0 /\ Finish(r, "ok", job[r])
        \/ cached = 0 /\ Go(r, "read_table") /\ UNCHANGED job
        \/ LookupFails(r)
     /\ UNCHANGED <<outside, store>>

ReadTable(r) ==
  LET row == table[job[r].pair]
  IN /\ pc[r] = "read_table"
     /\ \/ /\ job' = [job EXCEPT ![r].rate = row]
           /\ Go(r, IF row # 0 THEN "fill_cache" ELSE "direct")
        \/ LookupFails(r)
     /\ UNCHANGED <<outside, store>>

\* The row's rate is cached for another hour, however old the row is.
FillCache(r) ==
  /\ pc[r] = "fill_cache"
  /\ \/ cache' = [cache EXCEPT ![job[r].pair] = job[r].rate] /\ Finish(r, "ok", job[r])
     \/ LookupFails(r) /\ UNCHANGED cache
  /\ UNCHANGED <<outside, table, row_lock>>

\* The provider can be reached, and can fail or be refused by the breaker.
Reachable == ~ stranded
MayFail   == ~ calm \/ stranded

\* One call of get_rates, through the breaker: the provider quotes the pair as the
\* market is now, or the call is refused, fails, times out, or does not list it.
Ask(r, otherwise) ==
  /\ \/ Reachable /\ job' = [job EXCEPT ![r].rate = market] /\ Go(r, "put_cache")
     \/ MayFail /\ otherwise
  /\ UNCHANGED <<outside, store>>

NoRate(r) == Finish(r, "unavailable", [job[r] EXCEPT !.faulted = TRUE])

\* The direct rate.  The circuit breaker may refuse the call before it is made.
Direct(r)  == pc[r] = "direct"  /\ Ask(r, NoRate(r) \/ (Go(r, "inverse") /\ UNCHANGED job))
Inverse(r) == pc[r] = "inverse" /\ Ask(r, Go(r, "cross") /\ UNCHANGED job)
Cross(r)   == pc[r] = "cross"   /\ Ask(r, NoRate(r))

-----------------------------------------------------------------------------
\* refresh_exchange_rates_task and refresh_all_rates.

\* Celery beat, or an administrator's request, sends the message.
Enqueue(t) ==
  /\ pc[t] = "idle"
  /\ job' = [job EXCEPT ![t] = NewJob]
  /\ Goto(t, "queued")
  /\ answer' = [answer EXCEPT ![t] = "none"]
  /\ UNCHANGED <<outside, store>>

\* Defective variant of MayRetry: one retry too many.
MayRetryAgain(j) == j.attempts <= MaxRetries

MayRetry(j) == j.attempts < MaxRetries

\* A worker takes the message and asks the provider, through the breaker, for all
\* rates of USD.  On a failure or a refusal the task is sent again, MaxRetries times
\* at most, and then given up.
FetchAll(t) ==
  LET j == job[t]
  IN /\ pc[t] = "queued"
     /\ \/ /\ Reachable
           /\ job' = [job EXCEPT ![t] = [NewJob EXCEPT !.rate = market, !.todo = Refreshed,
                        !.attempts = j.attempts, !.known = \A p \in Refreshed : table[p] # 0]]
           /\ Go(t, "put_cache")
        \/ /\ MayFail /\ MayRetry(j)
           /\ job' = [job EXCEPT ![t].attempts = @ + 1]
           /\ UNCHANGED <<pc, answer>>
        \/ /\ MayFail /\ ~ MayRetry(j)
           /\ Finish(t, "failed", j)
     /\ UNCHANGED <<outside, store>>

-----------------------------------------------------------------------------
\* _persist_rate: the cache first, then the table, then the commit.

\* Defective variant of PutCache: a rate that is cached already is kept (NX).
PutCacheOnce(a) ==
  \E p \in job[a].todo :
    LET j == [job[a] EXCEPT !.pair = p, !.todo = @ \ {p}]
    IN /\ pc[a] = "put_cache"
       /\ cache' = [cache EXCEPT ![p] = IF @ = 0 THEN j.rate ELSE @]
       /\ job' = [job EXCEPT ![a] = j]
       /\ Go(a, "find_row")
       /\ UNCHANGED <<outside, table, row_lock>>

PutCache(a) ==
  \E p \in job[a].todo :
    LET j == [job[a] EXCEPT !.pair = p, !.todo = @ \ {p}]
    IN /\ pc[a] = "put_cache"
       /\ \/ /\ cache' = [cache EXCEPT ![p] = j.rate]
             /\ job' = [job EXCEPT ![a] = j]
             /\ Go(a, "find_row")
          \/ /\ ~ calm
             /\ StoreFails(a, [j EXCEPT !.faulted = TRUE])
             /\ UNCHANGED cache
       /\ UNCHANGED <<outside, table, row_lock>>

\* Defective variant of FindRow: every rate is inserted.
FindNoRow(a) ==
  /\ pc[a] = "find_row"
  /\ IF job[a].broken THEN StoreFails(a, job[a])
     ELSE Go(a, "flush") /\ job' = [job EXCEPT ![a].existing = 0]
  /\ UNCHANGED <<outside, store>>

\* The look-up of upsert_rate.  A session whose flush has failed refuses it.
FindRow(a) ==
  LET j == job[a]
  IN /\ pc[a] = "find_row"
     /\ IF j.broken THEN StoreFails(a, j)
        ELSE Go(a, "flush") /\ job' = [job EXCEPT ![a].existing = table[j.pair]]
     /\ UNCHANGED <<outside, store>>

\* The INSERT or UPDATE.  An unchanged rate is not written.  Both wait for an
\* uncommitted writer of the row, and an INSERT of a pair that has been committed
\* meanwhile violates the unique constraint.
Flush(a) ==
  LET j == job[a]
      written == row_lock' = [row_lock EXCEPT ![j.pair] = a]
  IN /\ pc[a] = "flush"
     /\ \/ /\ j.existing = j.rate
           /\ Go(a, "commit") /\ UNCHANGED <<row_lock, job>>
        \/ /\ j.existing \notin {0, j.rate} /\ row_lock[j.pair] = None
           /\ written /\ Go(a, "commit") /\ UNCHANGED job
        \/ /\ j.existing = 0 /\ row_lock[j.pair] = None /\ table[j.pair] = 0
           /\ written /\ Go(a, "commit") /\ UNCHANGED job
        \/ /\ j.existing = 0 /\ row_lock[j.pair] = None /\ table[j.pair] # 0
           /\ StoreFails(a, [j EXCEPT !.broken = TRUE]) /\ UNCHANGED row_lock
     /\ UNCHANGED <<outside, cache, table>>

Commit(a) ==
  LET j == job[a]
  IN /\ pc[a] = "commit"
     /\ table' = [p \in Pairs |-> IF row_lock[p] = a THEN j.rate ELSE table[p]]
     /\ Released(a)
     /\ IF a \in Tasks THEN NextPair(a, [j EXCEPT !.saved = @ \cup {j.pair}])
                        ELSE Finish(a, "ok", j)
     /\ UNCHANGED <<outside, cache>>

-----------------------------------------------------------------------------
\* Around them.

\* A process dies and PostgreSQL rolls its transaction back.  The client of a
\* request gets no answer; a task's message, which is acknowledged only after the
\* task (task_acks_late, task_reject_on_worker_lost), is delivered again.
Crash(a) ==
  /\ ~ calm /\ pc[a] \notin {"idle", "queued", "done"}
  /\ Released(a)
  /\ IF a \in Tasks
     THEN Go(a, "queued") /\ job' = [job EXCEPT ![a] = [NewJob EXCEPT !.attempts = job[a].attempts]]
     ELSE Finish(a, "lost", job[a])
  /\ UNCHANGED <<outside, cache, table>>

\* EXCHANGE_RATE_CACHE_TTL is over.
Expire(p) ==
  /\ cache[p] # 0
  /\ cache' = [cache EXCEPT ![p] = 0]
  /\ UNCHANGED <<outside, table, row_lock, pc, job, answer>>

Move ==
  /\ ~ calm /\ market <= MaxMoves
  /\ market' = market + 1
  /\ UNCHANGED <<calm, stranded, store, pc, job, answer>>

\* The environment rests.  The circuit has closed by then (CircuitBreaker shows
\* that it does), or was left without an opening time and never will.
Settle ==
  /\ ~ calm /\ calm' = TRUE
  /\ stranded' \in BOOLEAN
  /\ UNCHANGED <<market, store, pc, job, answer>>

Persist(a) == PutCache(a) \/ FindRow(a) \/ Flush(a) \/ Commit(a)
GetRate(r) == CheckCache(r) \/ ReadTable(r) \/ FillCache(r) \/ Direct(r) \/ Inverse(r) \/ Cross(r)

Next ==
  \/ \E r \in Requests : Submit(r) \/ GetRate(r)
  \/ \E t \in Tasks : Enqueue(t) \/ FetchAll(t)
  \/ \E a \in Actors : Persist(a) \/ Crash(a)
  \/ \E p \in Pairs : Expire(p)
  \/ Move \/ Settle

Spec == Init /\ [][Next]_vars

\* A ready coroutine runs, the worker takes its messages and beat sends one every
\* hour.  A row that is free again and again is granted to its waiter: PostgreSQL
\* queues them.  Nothing makes the environment calm.
FairSpec ==
  /\ Spec
  /\ \A r \in Requests : WF_vars(GetRate(r) \/ Persist(r)) /\ SF_vars(Flush(r))
  /\ \A t \in Tasks : WF_vars(Enqueue(t) \/ FetchAll(t) \/ Persist(t)) /\ SF_vars(Flush(t))

-----------------------------------------------------------------------------
\* Properties.

\* Every variable keeps the shape of the store or local variable it models.
TypeOK ==
  /\ market \in Rate /\ calm \in BOOLEAN /\ stranded \in BOOLEAN
  /\ cache \in [Pairs -> Maybe] /\ table \in [Pairs -> Maybe]
  /\ row_lock \in [Pairs -> Actors \cup {None}]
  /\ pc \in [Actors -> PC]
  /\ job \in [Actors -> Job]
  /\ answer \in [Actors -> Answers]

\* A pair whose row is in the table when a request comes in is refused for want of
\* a rate only to a transfer whose look-up failed, whatever the provider, the breaker
\* and other writers do; and a request that is refused although nothing outside
\* failed has lost a race whose winner has stored the pair, so that its repetition
\* is served.
RefusedOnlyForCause ==
  \A r \in Requests : answer[r] = "unavailable" =>
    /\ job[r].known => job[r].transfer /\ job[r].faulted
    /\ job[r].faulted \/ table[job[r].pair] # 0

\* A refresh that reports success has stored every pair, unless Redis failed it or
\* one of the pairs was not in the table yet when it began: only an INSERT can
\* fail for a reason inside the system, and take the rest of the loop with it.
RefreshIsComplete ==
  \A t \in Tasks :
    answer[t] = "refreshed" /\ job[t].known /\ ~ job[t].faulted => job[t].saved = Refreshed

\* Only one writer at a time is between a pair's flush and its commit, and it is
\* at its commit: no failure or crash leaves a row locked.
WritersHoldRows ==
  \A p \in Pairs : LET a == row_lock[p]
                   IN a # None => pc[a] = "commit" /\ job[a].pair = p

\* Every request ends, whatever fails.
EveryRequestEnds == \A r \in Requests : pc[r] # "idle" ~> pc[r] = "done"

\* Once the provider and Redis answer and the market rests, and unless the circuit
\* is stranded open, the refreshed pairs come to their current rates, in the table
\* and in the cache, and keep them, although slow writers may put older rates over
\* newer ones until then.
UsdRatesConverge ==
  <>(calm /\ ~ stranded) =>
    <>[](\A p \in Refreshed : table[p] = market /\ cache[p] \in {0, market})
=============================================================================
