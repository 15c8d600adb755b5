# Green Wheel: a verification project

Green Wheel is a multi-currency wallet: a FastAPI backend over PostgreSQL and
Redis, Celery workers, and a React page that is told of balance changes by
server-sent events.  This directory holds TLA+ models of its core, the TLC
configurations that check them on small instances, and proofs of their most
important properties for instances of every size, checked by TLAPS.

Paths below are relative to `src/`; `backend/app/` is left out where it is clear.

## 1. Inventory

| Component | State it keeps | Operations | Module |
|---|---|---|---|
| Wallet money operations (`services/wallet_service.py`, `repositories/wallet_repository.py`) | `wallets`, `transactions`, `transfers`, `idempotency_keys`; row and index locks; the SQLAlchemy session of each request | credit, debit, transfer | `WalletService`, `Money`; what they promise: `Ledger` |
| Wallet creation and history (same files) | `wallets` | create, list, page of history | create in `HttpApi`, list in `WalletEvents`; what accounts, wallets and profiles promise: `Accounts` |
| Circuit breaker (`adapters/circuit_breaker.py`) | three Redis keys: state, failures, opened_at | `call`, `get_state`, `record_failure`, `record_success` | `CircuitBreaker` |
| Exchange rates (`services/exchange_rate_service.py`, its repository, `adapters/exchange_rate.py`) | table `exchange_rates`, Redis cache with expiry | `get_rate`, `_persist_rate`, `refresh_all_rates` | `ExchangeRates` |
| Tasks (`workers/`) | Celery queues, retries | hourly refresh, notification, audit log, dead letter | the refresh in `ExchangeRates` |
| Live events (`utils/events.py`, `endpoints/events.py`, `useWalletSSE.ts`, `walletSlice.ts`, `DashboardPage.tsx`) | Redis pub/sub channel per user, one subscription per open page, the page's copy of balances | publish, stream, reconnect, fetch | `WalletEvents`; publishing also in `WalletService` |
| Authentication (`services/auth_service.py`, `core/security.py`, `dependencies/`) | `users`, `refresh_tokens` | register, login, refresh, logout | register, login, the user of a token in `HttpApi`; tokens and refresh as the page sees them in `ApiClient` |
| Browser API client (`apiClient.ts`, `authSlice.ts`) | tokens, `isRefreshing`, `failedQueue` | request and response interceptors, refresh, login, logout | `ApiClient` |
| Profile cache (`services/user_service.py`) | `users`, Redis `user_profile:*` | get, update, upload image | get, update in `HttpApi` |
| Rate limiter (`middleware/rate_limit.py`) | Redis counters with expiry | `dispatch` | `HttpApi` |
| Error answers, sessions, schemas | none of their own | map exceptions; `get_db` | the part that matters is in `WalletService` and `HttpApi` |
| Start-up, configuration, health, logging, pages, migrations, deployment | none that later requests depend on | | not modelled |

How they interact.  A request passes the rate limiter, then an endpoint calls one
service with a database session of its own; a service uses repositories on that
session, commits, and only then publishes to Redis.  `transfer` asks the rate
service for a rate, which asks the cache, then the table, then the provider
through the circuit breaker.  The breaker, the caches, the rate limiter and
pub/sub share one Redis, whose commands are single steps, through one pool of
connections per process, of which every open event stream holds one.  The
replicas share nothing else but PostgreSQL.

What is hard here: handlers that interleave at every `await`; values read before a
lock and used after it; two locks taken one after the other; retries of transfers
whose answer was lost; a worker that dies around a commit; several Redis keys
written one at a time; counters whose expiry is a second command; look-ups before
inserts; caches filled from rows that have changed since; events that overtake
each other or get lost; numbers that a column rounds.  `PROJECT.json` lists each
of these at its line, under `hazards`.

What makes each component correct:

- *Money operations*: no overdraft; balances move only with a ledger entry; direct
  updates of a wallet are serial; a key is spent once; the answer agrees with
  the ledger; no deadlock; every request ends; altogether, each commit is one
  posting of `Ledger`.
- *Circuit breaker*: only counted failures trip it; old failures are forgotten; a
  provider that has come back is used again; an open circuit knows when it was
  opened, unless one of two things went wrong.
- *Exchange rates*: a pair whose rate is in the table is refused only to a transfer
  whose look-up failed; a refresh that reports success is complete; nobody leaves a
  row locked; the refreshed pairs come to their current rates, unless the circuit
  is stranded open.
- *Live events*: once changes stop, the page shows the committed balance unless it
  missed an event or got one late; streams give their connection back unless Redis
  is lost; a page never stops trying to connect.
- *API client*: one refresh at a time; every waiting request is resolved or
  rejected; a good session is never sent to the login page; the tokens in the
  store belong together.
- *Accounts, limiter, profiles*: one row per address, token and wallet, and true
  answers about them; a limit is kept, and its counter ends unless the request that
  began it was cut off; an update lands unless another
  one overtakes it; a cached profile is current unless the change of it met one of
  three mishaps; altogether, each change is one step of `Accounts`.

## 2. Plan

Each component was modelled and checked first, then proved about.  In this order:
`Money` and `WalletService` (the money operations, the most important behaviour);
`WalletServiceProofs`; `CircuitBreaker` and `CircuitBreakerProofs`; `ApiClient` and
`ApiClientProofs`; `Ledger`, the abstract specification that `WalletService`
implements, with `WalletLedgerProofs` and `WalletWaitingProofs`; `ExchangeRates`,
`WalletEvents` and `HttpApi` (rate limiter, accounts, wallet creation, profile
cache), each with its proofs; then `Accounts`, which `HttpApi` implements.

What is left: server-side logout, and the image upload without its file.  No
module is needed to run them together: what one component takes from another is
in the taker's module (the breaker's refusal in `ExchangeRates`, the events of the
commit in `WalletEvents`, the server's answers in `ApiClient`).

## 3. The money operations: `Money`, `WalletService`

### State

| Variable | Code |
|---|---|
| `wallets` | balance and status of each row of `wallets`, committed |
| `transactions` | the ledger, as one sequence per wallet, in commit order |
| `transfers`, `idempotency_keys` | the two tables, committed |
| `row_lock` | `SELECT ... FOR UPDATE` and `UPDATE` locks on rows of `wallets` |
| `key_lock` | the wait of a second `INSERT` of a unique key |
| `pc`, `call`, `converted_amount`, `outcome` | where each handler is, its parameters, its local amount, how it ends |
| `identity_map` | the rows the handler's SQLAlchemy session holds |
| `channel` | what has been published to each user, in order |

Owner and currency of a wallet never change in the code, so they are constants.

### Actions

An action is the code between two awaits that another request could notice.

| Action | Code (`wallet_service.py`) |
|---|---|
| `Submit` | the endpoints, with the parameters the schemas let through |
| `Lock` | credit and debit: `get_by_id_with_lock` and every check after it |
| `CheckKey` | transfer, step 1 |
| `PeekSender`, `PeekRecipient` | transfer, steps 2 and 3: reads without a lock, checks |
| `GetRate` | transfer, step 4 |
| `LockFirst`, `LockSecond` | transfer, step 5, lower id first; then the funds check of step 6 |
| `Apply`, `Insert` | the flushes: UPDATE of the balances, entries, transfer row, key |
| `Commit` | `db.commit()` |
| `Refresh` | `db.refresh(...)` after the commit: the wallet of credit and debit, the transfer row; nothing catches its failure, so the answer is a 500 although the money has moved, and nothing is published |
| `Publish`, `PublishRecipient` | `utils/events.py`, a failure of Redis swallowed |
| `Rollback` | `get_db` when an exception passes through |
| `Crash` | the worker dies; PostgreSQL rolls back |
| `Suspend` | an operator's UPDATE of a wallet's status; the code checks the status and never sets it |

**The identity map.**  A SQLAlchemy session that has loaded a row hands out the
same object again and does not overwrite its attributes, unless the query says
`populate_existing`; `with_for_update()` alone does not.  `transfer` loads both
wallets without a lock and then selects them `FOR UPDATE` in the same session,
so the lock is real and the balances are those of the first read.  `Loaded` says
exactly this.  Credit and debit load the row only under its lock.

**Flushed data.**  What a transaction has flushed is invisible to others until its
commit (READ COMMITTED), so the writes of `Apply` and `Insert` take effect in
`Commit`.  An UPDATE that leaves the balance as it was writes nothing, because
the ORM emits no statement for an unchanged attribute.

**After the commit.**  `Refresh` may fail because the database can, and stands as
well for a COMMIT that takes effect and whose reply is lost.  The answer is then a
500 for a posted request, and a client that takes it for a refusal and repeats a
credit or debit, which have no key, posts it twice.

**Amounts** are integers, `Scale` ticks to a unit of Numeric(18, 8): with
`Scale = 2` a request can name half a unit, which the schemas allow.  `Stored` is
the rounding of the column, `Converted` the product with a rate as Python's
`quantize` rounds it.

### Properties

`TypeOK` apart, in the words of the code's users:

- `LocksCoverWrites`: who is about to write holds all locks it needs, and no
  refusal, error or crash leaves a wallet locked.
- `BalancesInRange`: no wallet is overdrawn or beyond its column.  That transfers
  check a stale balance does not break this: they also *write* from the stale
  balance, which loses an update, but never goes below zero.
- `AtMostOncePerKey`, `KeysMatchTransfers`: a key is spent by at most one
  transfer, and a refusal as a duplicate is always due to a committed one.
- `AnswerMatchesLedger`: "ok" means posted once to each wallet, a refusal by a 4xx
  or as a duplicate means not posted at all, a 500 or a lost answer means all or
  nothing.
- `NoDirtyRead`, `EventsShowPostedBalances`: nobody starts from, and nobody is told
  of, a balance that was never committed.
- `NoWaitCycle`: no deadlock over row locks and unique keys.
- `BalanceMovesOnlyWithEntry`, `CreditsAndDebitsAreSerial`: what a step may never
  do.  The second one is what "no lost update" means where it holds.  Both follow
  from `ImplementsLedger` and, like `NoDirtyRead`, are proved and take no run.
- `OnlyTransfersLoseUpdates`: how far the lost update of section 11 reaches.  Where
  the history of a wallet is broken, one of the two entries at the break is a
  transfer's: credits and debits among themselves overwrite nobody.
- `TransfersMoveMoney`: the commit of a transfer moves both wallets at once and no
  other, and within a currency it changes the sum of the two by exactly what it
  overwrites: the committed balance of each, less the one the handler had read.
  Without a lost update the sum stays.  It is an action property over the wallets
  themselves, and true of whole storable units, as in `wallet_concurrency`.
- `TransfersConserve` looks at the two *entries* of a transfer only, and `half_unit`
  shows that half a unit breaks even that.
- `SuspensionStopsLaterTransfers`: a transfer that is under way when a wallet is
  suspended may still go through, since the row is not read again under the
  lock; one that looked at the wallet afterwards may not.
- `EveryRequestEnds`: liveness.

### What they promise: `Ledger`

`Ledger` has no locks, sessions, crashes or retries: a balance per wallet, its
history, the active wallets and the keys spent.  `PostSingle` (a credit or
debit) starts from the balance of that moment; `PostTransfer` starts from any
balances its wallets *have had*, covers its amount and spends its key; a request
posts at most once.  That is as strong as the code allows: the stale read is in
the promise, a dirty read, a second spending or half a transfer are not.

`WalletService!ImplementsLedger` is the refinement: `balance`, `active` and
`history` are read off the committed tables, `spent` is the set of keys in
`transfers`.  `Commit` is the posting, `Suspend` the closing of a wallet, every
other step a stutter.  `wallet_concurrency` checks it, and `WalletLedgerProofs`
proves it for every instance.

## 4. The circuit breaker: `CircuitBreaker`

`state`, `failures` and `opened_at` are the three Redis keys; an absent state key
is "closed".  A step is one Redis command, or the outcome of the guarded call;
`pc`, `seen`, `count` and `result` are a caller's position and locals, and a
caller makes one call after another for ever.  Time is kept as two distances:
`opened_age`, since the time in `opened_at`, and `failures_ttl`, until the
counter expires.  Both saturate, and `failures` saturates at the threshold,
since the code only compares: the state space is finite without a bound on
time or on the number of calls.  Only faults are bounded (`MaxFaults`).

`RedisFails` and `Crash` cut a caller short between any two commands.  The
`except` clause of `call` also covers `record_success`, so a Redis error there
counts as a failure of the provider; cancellation is not an `Exception` and
counts as nothing.

- `TrippedOnlyByFailures`: fewer counted failures than the threshold, and nobody
  has been rejected, in any interleaving.  `recorded` is a history variable.
- `CounterExpires`: a counter without an expiry has somebody about to set it.
- `StrandedOnlyForACause`: open without an opening time, only because the last SET
  of the opening came while another caller was between the DELs of
  `record_success`, or because the opener was cut off between its two SETs.
  `torn` is the history variable that remembers either.
- `RecoversUnlessStranded`: once calls stop failing, the circuit closes again and
  again; the only way out is `Stranded`, open without an opening time.

## 5. The browser's API client: `ApiClient`

| Variable | Code |
|---|---|
| `access_token`, `refresh_token` | `localStorage`; 0 is no token |
| `isRefreshing`, `leaving` | the module's flag; `window.location` has been set |
| `pc`, `sent_token`, `status`, `retry`, `rt` | a request: where it is (in `failedQueue` when "queued"), its header, the answer on its way, `_retry`, the refresh token its refresh sends |
| `issued`, `valid_from`, `revoked`, `active` | the server: access tokens numbered as issued, the first one accepted, refresh tokens refused, the account |
| `expiries`, `logins`, `logouts`, `faults` | how often each has happened; all but `logouts` are bounded |

JavaScript runs one callback at a time, so an action is one callback.  `Serve` is
the server's answer, which arrives later; `Enqueue`, `StartRefresh`, `GiveUp` and
`ReceiveFinal` are the branches of the response interceptor; `RefreshOk` and
`RefreshFails` are what follows the answer to the refresh, with the whole queue
settled or resent in the same step, as `processQueue` does.  A request that was
queued is resent without `_retry`, so it may refresh again; the one that
refreshed may not.  The refresh endpoint does not look at `is_active` and does
not replace the refresh token.  A request without a token is answered with 403,
which the interceptor does not handle.  Only the page calls these; the server's
endpoint for logging out is not called by any page.

- `WaitersHaveRefresher`: `isRefreshing` is exactly "one request is refreshing",
  and nobody waits in the queue without it.
- `SessionSurvives`: the page goes to the login page only after a revocation, a
  logout or a failed refresh, whatever expires and in whatever order.
- `OneExpiryIsHidden`: no request of a live session is rejected for one expiry, even
  one that was sent before a refresh and answered after it.
- `TokensOfOneSession`: the access token in the store was issued for the refresh
  token next to it, and a refresh under way is one of that session, except after
  a logout or login in the middle of a refresh (`crossed`): the code does not tell
  the refresh, so its answer then lands in the next session's store.  `bearer`, the
  refresh token that the stored access token goes with, and `crossed` are history.
- `EveryRequestSettles`: liveness, also against a server that refuses every token of
  a deactivated account.

## 6. Exchange rates: `ExchangeRates`

| Variable | Code |
|---|---|
| `market`, `calm` | the provider's quotes; the outside is at rest |
| `stranded` | the circuit was left open without an opening time (section 4) |
| `cache`, `table` | the rate of each pair in Redis and, committed, in PostgreSQL |
| `row_lock` | the pair an open transaction has written |
| `pc`, `job`, `answer` | where a request or task is, its local variables, how it ended |

A rate is the version of the market it was quoted in, so "older" and "current"
can be told; products, inverses and rounding are abstracted.  Requests run
`CheckCache`, `ReadTable`, `FillCache` or the provider's three attempts
`Direct`, `Inverse`, `Cross`, and then `_persist_rate`, which the hourly task runs
for every refreshed pair: `PutCache`, `FindRow`, `Flush`, `Commit`.  The order of
the pairs is arbitrary.  `Flush` waits for an uncommitted writer of the row, and
fails when it would insert a pair that has been committed since `FindRow`; the
task swallows that without a rollback, so that the rest of its session is broken
(`broken`).

A request is the endpoint's or step 4 of a transfer, and that makes a difference to
a look-up that fails (`LookupFails`): `get_rate` lets the exception of Redis or of
the database through, the endpoint answers a 500, and the transfer turns it, like
every exception, into "rate unavailable", though the pair may have a row.  A call
of the provider may fail or be refused by the breaker before the calm; when a
stranded circuit is what the calm leaves behind, every call is refused for ever
(`Reachable`, `MayFail`).

`Crash` redelivers a task (`task_acks_late`, `task_reject_on_worker_lost`); a
failed provider call is retried `MaxRetries` times.

- `RefusedOnlyForCause`: a pair in the table when a request comes in is refused only
  to a transfer whose look-up failed; and a request refused without a failed call
  has lost the race of two inserts, so that the winner's row is there.
- `RefreshIsComplete`: only the first insertion of a pair can make a successful
  refresh incomplete, or Redis.
- `WritersHoldRows`: no failure leaves a row locked (proved, no run of its own);
  `EveryRequestEnds`: nobody waits for one for ever.
- `UsdRatesConverge`: after the last fault, and unless the circuit is stranded, the
  refreshed pairs become current in table and cache, although slow writers put
  older rates over newer ones first.

## 7. Live events: `WalletEvents`

One wallet, and one page that shows it.  Balances are numbered by commits.  The
other pages and commands that share the Redis pool, and the limiter in front of the
stream, are an environment that may do anything: a connection, a stream or a
publish may be refused to this page at any moment.

| Variable | Code |
|---|---|
| `op`, `told` | operations from their commit on, and the balance each will tell |
| `conn`, `inbox` | the connections of the Redis pool, and what a stream has yet to send |
| `es`, `token` | the page's EventSource and timer; the stored access token |
| `mounted`, `shown`, `list`, `listed` | the dashboard, the balance in its store, its list request |
| `newest`, `overtaken`, `missed` | history, for `WrongOnlyForACause` |

`Commit`, `Refresh` and `Publish` are three steps, so that publishers overtake each
other; transfers tell the balance they computed, credits the row read back.
`Accept` checks the token once and takes a connection, `Greet` is the yield before
the `try`, `Send` the loop, `Leave` the end of a generator: before the `try` its
connection is lost, inside it is given back.  `Refuse` is the 429 of the limiter,
the 401 of a token, or a pool without a connection; it and `Timer` are the retry
every four seconds with the token stored by then.  `LoseRedis` ends a loop from
the server's side; since the `finally` then talks to the same Redis, its
`unsubscribe` may raise, `aclose` is skipped, and the connection is lost from
inside the loop as well.  While Redis is there, `Leave` is assumed to succeed.

- `WrongOnlyForACause`: when nothing is under way, a wrong balance means a missed
  event since the last list, or an older balance told after a newer one.
- `ClosedStreamsEnd`: a loop whose browser has gone ends, and gives its connection
  back unless a fault makes it keep it.
- `PageReconnects`: a page that stays, with a token that stays valid, has a stream
  for good in the end, or it is refused again and again and asks again after each
  refusal, whatever was broken or leaked.

## 8. Accounts, limiter and profiles: `HttpApi`

Every request passes `Incr` (and `Expire`, if it is the first of its window), is
authenticated by `Load`, and then runs its handler.  `register`, `login` and
`create_wallet` share `Exists`, `Insert` and `Commit`: the row is named by its
unique key, and two refresh tokens of a user signed in one second are equal
because `create_refresh_token` signs only user, second and type.  `get_profile`
and `update_profile` work on the row that authentication has loaded into their
session (`loaded`).  All requests come from one address.

After its commit a request may still be answered by a 500: the reply to the COMMIT
is lost, or `create_wallet` or `update_profile` cannot read the row back.  `Commit`
and `Refresh` have that outcome.  A database that fails before the commit looks
like `Crash`.

- `StuckOnlyWhenCut` (in `HttpApiProofs`, without a run): a counter that has begun has
  an expiry, or the request that gives it one is on its way, unless a death or a
  failure of Redis came between its INCR and its EXPIRE.  The exception is real, and
  section 11 says what it does and what the limiter says of itself.
- `AdmittedWithinLimit`: a window admits no more counted requests than the limit.
- `CreatedOnce`: of those who race for one key, at most one is told "created" or
  fails after creating, and the row is there then; who is told that the row exists,
  by a 409 or by a 500, is told the truth; and no row is there without its maker.
- `StaleOnlyForACause`: the cached profile is behind the committed one only while
  an update is on its way to the cache, or after one that met a reader holding
  the old row, lost Redis, or died.
- `UpdatesLandOrAreOvertaken`: from its commit to its answer an update is what is
  stored.  The ORM writes no column whose value equals the one authentication
  loaded, so an update can be dropped, but only if another one was committed
  since (`overtaken`, history).

### What they promise: `Accounts`

`Accounts` has no locks, sessions, caches, limits or crashes: what each request
asks, what its client has been told, the rows that exist by unique key, the
profiles, and the updates that are saved and not answered.  `Create` makes one
row that was not there, for a user that exists, and tells its client in the same
step or never; `Save` makes one change of a profile, once; `Tell` is any other
answer, and `Truthful` says when each may be given: "conflict" and "duplicate" only
when the row exists, "unauthorized" only when the user does not, "limited" only
before anything was saved, "ok" and "error" (Redis failed after the commit) of an
update only when it was saved.

`HttpApi!ImplementsAccounts` is the refinement: `rows` and `profile` are the
committed tables, `asks` and `told` are `call` and `answer`, and `saved` are the updates
past their commit.  The commit of a registration, login or wallet is the `Create`,
`Write` the `Save`, an answer the `Tell`, and counting, loading, inserting, caching
and expiry are stutters.

## 9. Runs

| Run | Instance | Shows |
|---|---|---|
| `wallet_concurrency` | three requests, each one of four calls that meet on the same two rows; crashes; one wallet may be suspended; symmetry in the requests | locking, funds, lost updates, what a transfer moves, ledger and events, all safety; `ImplementsLedger` |
| `wallet_retries` | two requests out of ten calls: a key reused by its user and by another, the empty key, conversions (one rounds to 0), overflow, every refusal | keys, answers, every request ends |
| `circuit_breaker` | two callers, threshold 2, timeout 1 tick, one fault | the properties of section 4 |
| `api_client` | two requests, two expiries, one more login, one failing refresh | the properties of section 5 |
| `exchange_rates` | one request for one pair, the task over two, one move of the market, one retry | the properties of section 6 |
| `wallet_events` | a transfer and an own credit, two connections, one fault (a broken stream, a loss of Redis, a restart) | the properties of section 7 |
| `http_api` | three requests out of six calls, two of them updates of one profile to different names, two users (one registered), limits 1 and 2, two seconds; symmetry in the requests and the names | the properties of section 8, all safety; `ImplementsAccounts` |
| `lost_update` | one transfer and one credit | **violated**: `HistoryIsChained` |
| `replay_refused` | one transfer, sent twice | **violated**: `ReplayIsAnswered` |
| `half_unit` | a transfer of half a unit | **violated**: `TransfersConserve` |
| `circuit_stranded` | two callers, no fault | **violated**: `RetriesAfterWindow` |
| `circuit_failed_probe` | one caller, no fault | **violated**: `FailedProbeReopens` |

Every property of a passing run is also checked against a defective variant of
the definition that could break it (`mutants`; the variants stand in the modules
before the definition they replace).

**Why the bounds are enough.**  Two wallets and two opposite transfers are what a
deadlock and a lost update need; the third request is the one that comes between
the unlocked read and the lock, or between a commit and its event.  Retries need
two requests with one key, and each of them may crash at each step.  Balances of
four ticks, requests of two to four, and a column that ends at eight make
insufficient funds and overflow reachable, and a unit of two ticks makes every
rounding reachable.  For the breaker, threshold 2 is the smallest that
distinguishes a failure from a trip, two callers are what its races need, and the
expiry of the counter (two ticks) and the window (one) can end in either order.
For the rates, a request and a task are two writers of one row (requests differ
from each other in nothing that a task does not do as well), two pairs are what
the loop needs to break its session for a later one (they are alike, so the request may
ask for the same one each time), one move makes an older and
a newer quote, and one retry separates "again" from "given up".  For the events,
two connections (of 20) can be used up by one leak and one stream, two operations
can be published in the other order, and one fault breaks a stream or loses its
connection while they are; refusals and lost publishes are not counted among the
faults, and one list request is under way at a time.  `CHECK_DEADLOCK FALSE` there
and in `http_api`: when every operation is done nothing has to happen.  For the
requests, three make two racing writers and a third that meets what they left, a
limit of one or two is passed by them, two updates to two names can overtake each
other in either order, and two seconds tell equal tokens from
different ones.  For the client, two requests are what a queue needs, a second expiry is what makes
a resent request fail again, a second login is what gives the store other tokens
than the refresh under way; its safety properties are proved for all bounds.
The safety properties named in section 10 do not depend on these bounds.

**Deadlock** is checked in every other run.  `Terminated` marks where the wallet model and
the client's may stop: all requests served.

**Fairness.**  `WalletService!FairSpec` has weak fairness of each handler's own
steps: the event loop runs every ready coroutine, and PostgreSQL grants a free
lock to a waiter.  Weak is enough because the locks are held by handlers that
themselves go on.  Arrival of requests, crashes and suspensions are not fair.
`CircuitBreaker!FairSpec` has weak fairness of time and of each caller; that a
caller always calls again is Celery Beat, which asks the provider every hour
through the breaker without looking at the cache.  That rests on `tasks.py:28-34`,
which runs each task in an event loop of its own over the module's one Redis client:
the fairness assumes that such tasks keep reaching the breaker.
`ApiClient!FairSpec` has weak fairness of the steps of each request: the client
gives up a request after 15 s; the refresh itself has no timeout, and the browser
ends its connection at last.  Expiry, revocation, logins, logouts and reloads are
not fair.
`ExchangeRates!FairSpec` has weak fairness of each actor's steps, of beat and of
the worker, and strong fairness of `Flush`, which waits for a row that others
take again and again: PostgreSQL queues the waiters.  Faults, moves, expiry and
the calm are not fair; `UsdRatesConverge` is about behaviours in which calm comes
with a circuit that is not stranded.
`WalletEvents!Spec` has weak fairness of operations, generators, the acceptance
of connections, the browser's timer and the answers to lists.  Nobody has to
come, leave, renew a token or lose a connection.  `HttpApi` states safety only.

## 10. Proofs

`WalletServiceProofs` proves, for any sets of requests, users, wallets, keys and
calls, and any rates, balances and scale that satisfy the named assumptions of
`Money` and `WalletService`:

| Theorem | Property |
|---|---|
| `TypeCorrect` | `TypeOK` |
| `LockDiscipline` | `LocksCoverWrites` |
| `NoOverdraft` | `BalancesInRange` |
| `KeySpentOnce` | `AtMostOncePerKey` |
| `DuplicatesAreReal` | `KeysMatchTransfers` |
| `DirectOperationsSerial` | `CreditsAndDebitsAreSerial` |
| `MoneyMovesWithEntry` | `BalanceMovesOnlyWithEntry` |

`WalletLedgerProofs` goes on from there:

| Theorem | Property |
|---|---|
| `ServiceImplementsLedger` | `ImplementsLedger` |
| `NeverDirty` | `NoDirtyRead` |
| `LaterTransfersStopped` | `SuspensionStopsLaterTransfers` |
| `AnswersAreTrue` | `AnswerMatchesLedger` |
| `EventsAreTrue` | `EventsShowPostedBalances` |
| `DirectUpdatesAreNeverLost` | `OnlyTransfersLoseUpdates` |
| `WholeTransfersMoveMoney`, if `WholeTransfers` | `TransfersMoveMoney` |
| `ConversionIsNearest` | a converted amount is within half a storable unit of the exact product |

and `WalletWaitingProofs` proves `NoDeadlock` (`NoWaitCycle`) for finitely many
requests.

The argument is a tower of invariants, each inductive given those below it:

1. `Typed` = `TypeOK` and `ControlOf(r)`: what a handler must have loaded to be
   where it is.  Types alone are not inductive, because `Apply` and `Commit` read
   rows of the identity map that have to be there.
2. `Locked`: a handler that is past its locks holds them, and nobody else does.
3. `Funded`: a handler past the funds check holds a row from which the amount can
   be taken, whatever the committed row has become meanwhile.  This is why the
   stale check still protects against overdraft.
4. `Spent`: `key_lock` names the one handler that may commit a key which no
   committed transfer carries.
5. `Fresh`: a credit or debit that holds its lock holds the committed row.  It is
   false for transfers, which is the lost update.
6. `Checked`: what the checks before the locks have established, and how the
   converted amount came about.
7. `Recorded`: every balance that a session holds was once committed.
8. `PostedAll`: which requests have posted, from where they are; once.
9. `Announced`: what was published, or is about to be, was committed.
10. `Chained`: a wallet whose last entry is a credit's or debit's holds the balance
    of that entry (`UpToDate`), so the next direct operation, which by 5 starts from the
    committed balance, starts from the recorded one.
11. `Held`: a handler on its way to its second row holds its first and no other,
    and a key is held only by a handler that has nothing to do but commit.

The refinement maps `Commit` to a posting, which 3, 4, 6 and 7 justify, `Suspend` to
the closing of a wallet, and every other step to a stutter.  Its arithmetic is
that of the columns: a rounded balance stays in range, and rounding twice is
rounding once.  The deadlock proof follows a circle of waiters:
the holder of a key waits for nothing, so everyone in the circle waits for a second
row with a first one in hand, and the first ids grow along it, which a finite
circle cannot do.

The assumptions are those TLC evaluates on every run: `ScaleAssumption`,
`RateScaleAssumption`, `WalletAssumption` (opening balances in range, ids ordered),
`CallAssumption` (amounts positive, as `gt=0` demands), `NullAssumption`,
`RatesAssumption`.  `WholeTransfersMoveMoney` alone has a hypothesis of its own,
`WholeTransfers`: every transfer asks for an amount that the column stores as it
is.  The schemas do not enforce it, and the half unit of `half_unit` makes the
conclusion false.  Its proof needs no layer of its own: the lemma `TransferMoves`
computes the two new balances from the rows in the session, and because sums of
whole units are whole (`StoredSum`) the columns round nothing away.

`CircuitBreakerProofs` proves `TypeCorrect`, `NoUnearnedTrip`
(`TrippedOnlyByFailures`), `CountersExpire` (`CounterExpires`) and
`StrandingHasACause` (`StrandedOnlyForACause`) for any number
of callers and faults and any threshold and timeout.  `Earned` is the
strengthening of the second: no counter, shared or local, is ahead of the number
of failures counted, and whoever is on the way from an open circuit found it
open when it was rightly tripped.  `Timed` is that of the last: while the circuit is
open and nothing has torn its opening, nobody is between the DELs of a success,
and the time is stored or its opener is about to store it.

`ApiClientProofs` proves `TypeCorrect`, `OneRefresher` (`WaitersHaveRefresher`),
`GoodSessionSurvives` (`SessionSurvives`), `ExpiryHidden` (`OneExpiryIsHidden`) and
`OneSessionStored` (`TokensOfOneSession`) for any set of requests and any bounds; the assumption is `BoundsAssumption`.
`WaitersHaveRefresher` is inductive as it stands, and `TokensOfOneSession` with it:
the one refresh that runs is the one whose answer may be stored.  The other two
need more: `Kept`
says that the tokens leave the store only when the session has ended, and
`OnCourse` follows each request of a live session: only the expiry leads to a 401,
and a request that is marked carries a token issued since.

`ExchangeRatesProofs` proves `TypeCorrect`, `RowsAreReleased` (`WritersHoldRows`),
`RefusalsHaveACause` (`RefusedOnlyForCause`) and `SuccessIsComplete`
(`RefreshIsComplete`) for any requests, tasks, pairs, moves and retries.  Every step
of an actor is first shown to leave it at one of a few places (`At`), and the
layers argue about those.  `WritersHoldRows` is inductive with the types.
`Caused` adds that the table only grows and that whoever asks the provider
has found no row when it looked; `Complete` that every pair of a refresh has been
stored, is being stored or is yet to be (`Accounted`), and that its look-up finds
the row, so that no INSERT can break the session.

`WalletEventsProofs` proves `TypeCorrect`, for finitely many operations, and
`PageIsRight` (`WrongOnlyForACause`).  `Shapes` bounds every balance that is stored or
on its way by the committed one.  `Informed` is the strengthening: unless something was
missed, the page has been told the committed balance, or it is on its way: in an
operation that has yet to publish, in the stream or in a list; and the page
shows the newest balance it was told unless it was overtaken.

`HttpApiProofs` proves `TypeCorrect`, `CountersDoEnd` (`StuckOnlyWhenCut`), `LimitKept`
(`AdmittedWithinLimit`), `RowsCreatedOnce` (`CreatedOnce`), `CacheStaleForACause`
(`StaleOnlyForACause`), `UpdatesLand` (`UpdatesLandOrAreOvertaken`) and
`AccountsImplemented` (`ImplementsAccounts`) for any requests, users, profiles and limits, from
`CallsAssumption`, `LimitAssumption`, `SecondsAssumption` and `NoneAssumption`.
`WindowOf` keeps a place of the window for its first request while that sets the
expiry; `RowOf` says that whoever is about to commit holds the key and the row does
not exist yet, and that a row has a maker; `Conflicts` that rows stay, so that a 409 stays
true; `Fresh` that what a reader is about to cache is the committed
profile, unless an update has met it; `Landing` the same of an update that is
about to be written or has been.  For the refinement, `Auth` adds that a handler
past authentication serves a user that exists, and that the row it is about to
make is one that its call may make; each action is then one step of `Accounts`
or a stutter, and two answers in one step cannot happen because each handler
answers from a place where it has not (`TellStep`).

**Model-checked only**: the liveness properties `EveryRequestEnds` (of
`WalletService` and of `ExchangeRates`), `RecoversUnlessStranded`,
`EveryRequestSettles`, `UsdRatesConverge`, `ClosedStreamsEnd` and `PageReconnects`:
liveness under fairness is beyond the prover.  Every safety property of every
passing run is proved.

**Proved, without a run**: `CreditsAndDebitsAreSerial`, `BalanceMovesOnlyWithEntry` and
`NoDirtyRead`, which are near to what `ImplementsLedger` says as a whole, and
`WritersHoldRows`, whose breach `EveryRequestEnds` would show; `StuckOnlyWhenCut`, the
part of the limiter's claim that is true; `ConversionIsNearest`, which is about an operator
and not about behaviours.

## 11. Where the code and its documents disagree

- **A transfer can overwrite a concurrent update** (`lost_update`): the identity
  map keeps the balances of the unlocked read.  `populate_existing`, or a
  `refresh` after the lock, would mend it.
- **A repeated transfer is refused, not answered** (`replay_refused`): a 409, or a
  500 when the repeat races the original.  The stored response is never read.
- **Half a unit costs nothing and arrives as one** (`half_unit`): the columns round
  each side on its own.
- **The circuit can stay open for ever** (`circuit_stranded`), and **a failed
  probe may not re-open it** (`circuit_failed_probe`).

Seen in the models, without a run of their own:

- A counter of the limiter can last for ever.  INCR and EXPIRE are two commands
  (`rate_limit.py:47-49`), where `rate_limit.py:8` says "Atomic INCR + EXPIRE
  operations prevent race conditions" and `rate_limit.py:10` calls the expiry
  automatic.  When the process dies or Redis fails in between (`Expire`, `Crash` in
  `HttpApi`), no later request sets an expiry, since only the one that counts to 1
  does: the counter goes on growing, and the address is refused until somebody
  deletes the key.  `CountersDoEnd` proves that nothing else leaves one behind.
- A credit, debit or transfer whose `db.refresh` fails answers 500 after the money
  has moved (`wallet_service.py:106`, `:154`, `:298`), and publishes nothing.
- `exchange_rate_service.py:41` calls the look-up a fallback chain from Redis to the
  database to the provider.  A missing key is fallen back from, a failing Redis is
  not: the endpoint answers 500, a transfer "rate unavailable".
- A stranded circuit also ends the hourly refresh: every task is refused.
- A stream that loses Redis may leak its connection: `events.py:88` raises before
  `aclose`.  Twenty leaks or twenty open pages use up the pool of `redis.py:34`.
- Half open admits every caller, where `ARCHITECTURE.md:67` speaks of one probe.
- A pair not from USD keeps the first rate it was stored with: `FillCache` renews
  the cache from the table, and nothing renews the table.  `ARCHITECTURE.md:108`
  says rates are valid for one hour.
- The limiter's window is fixed, where `rate_limit.py:4` calls it sliding.
- A page that misses an event shows the old balance until it is loaded again.
- The races of `CreatedOnce` and of two first writers of a pair end in a 500 or
  a refusal, not in the 409 or the rate that a slower caller gets.

## 12. Not modelled

Cryptography, formatting, logging, metrics and pages, because nothing here depends
on them.  Pool sizes and statement timeouts of PostgreSQL: the model waits for a
lock for ever, the database may give up earlier, which looks like `Crash` to the
ledger.  The wording of answers: `outcome` keeps their kind.  Eviction of Redis
keys under memory pressure.  A Redis command that takes effect and whose reply is
lost is a step followed by `Crash`, except for the last DEL of `record_success`,
after which the code would count one more failure.  The notification, audit and dead-letter tasks, which keep no state; whether
the handler of `MaxRetriesExceededError` (`tasks.py:70`) is ever reached hinges on
Celery's wrapper.  Two releases with different provider settings, which could store
a pair twice (`exchange_rate_repository.py:28`).  The pages of the transaction
history and the synthetic rows of the dashboard.  Image upload and the
server-side logout, which no page calls.  Start-up, health, migrations.
