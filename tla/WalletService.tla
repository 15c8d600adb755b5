--------------------------- MODULE WalletService ---------------------------
(***************************************************************************)
(* Credits, debits and transfers between wallets, as WalletService runs    *)
(* them: one HTTP request is one handler with a database session of its    *)
(* own, and handlers interleave at every await.  An action below is the    *)
(* code between two awaits that another request could observe.             *)
(*                                                                         *)
(* The session keeps an identity map: a row it has loaded is not loaded    *)
(* again, not even by SELECT ... FOR UPDATE, so a transfer computes with   *)
(* the balances it read before it held any lock (see Loaded).              *)
(***************************************************************************)
EXTENDS Money, Sequences, FiniteSets

CONSTANTS Requests,    \* HTTP requests, each served once
          Users,
          WalletId,    \* wallet ids a request may name, ordered as the UUIDs are
          Wallet,      \* the ids that have a row in the table wallets
          Keys,        \* Idempotency-Key header values
          EmptyKey,    \* the empty header value, which is falsy in Python
          None,        \* no holder, no key, not loaded
          Calls,       \* what a request may ask for
          owner, currency, Opening,   \* columns of the wallets, by id
          Rates,       \* what get_rate may answer, in 1/RateScale
          MaxBalance,  \* the largest value of a Numeric(18, 8) column
          Suspendable  \* wallets an operator may suspend meanwhile

Status == {"active", "suspended"}
Row == [balance : Int, status : Status]

Call == [op : {"credit", "debit", "transfer"}, user : Users, src : WalletId,
         dst : WalletId, amount : Nat \ {0}, key : Keys \cup {None}]

\* Why a handler stops early, "none" when it does not.
Refusals == {"not_found", "forbidden", "suspended", "conflict", "duplicate",
             "insufficient", "rate_unavailable", "error"}
Outcomes == Refusals \cup {"none", "ok", "lost"}

Entry == [req : Requests, kind : {"credit", "debit", "transfer"},
          amount : Nat, before : Int, after : Int]
Transfer == [req : Requests, src : Wallet, dst : Wallet, amount : Nat,
             converted : Nat, key : Keys \cup {None}]
Event == [req : Requests, wallet : Wallet, balance : Int]

PC == {"idle", "check_key", "peek_sender", "peek_recipient", "get_rate",
       "lock_first", "lock_second", "lock", "apply", "insert", "commit",
       "refresh", "publish", "publish_recipient", "rollback", "done"}

ASSUME WalletAssumption ==
  /\ WalletId \subseteq Nat /\ Wallet \subseteq WalletId
  /\ owner \in [Wallet -> Users]
  /\ Opening \in [Wallet -> Nat]
  /\ \A w \in Wallet : Opening[w] <= MaxBalance /\ Stored(Opening[w]) = Opening[w]
  /\ MaxBalance \in Nat
  /\ Suspendable \subseteq Wallet

\* A credit or a debit names one wallet, as both src and dst.
ASSUME CallAssumption ==
  /\ Calls \subseteq Call
  /\ \A c \in Calls : c.op # "transfer" => c.src = c.dst /\ c.key = None

ASSUME NullAssumption ==
  None \notin Requests \cup Keys \cup Row \cup Call

ASSUME RatesAssumption == Rates \subseteq Nat \ {0}

VARIABLES
  \* the database: committed rows, and the locks of open transactions
  wallets, transactions, transfers, idempotency_keys, row_lock, key_lock,
  \* the handlers: where each is, and its local variables
  pc, call, identity_map, converted_amount, outcome,
  \* Redis pub/sub: what has been published to each user, in order
  channel

db == <<wallets, transactions, transfers, idempotency_keys>>
locks == <<row_lock, key_lock>>
vars == <<db, locks, pc, call, identity_map, converted_amount, outcome, channel>>

Init ==
  /\ wallets = [w \in Wallet |-> [balance |-> Opening[w], status |-> "active"]]
  /\ transactions = [w \in Wallet |-> << >>]
  /\ transfers = {}
  /\ idempotency_keys = {}
  /\ row_lock = [w \in Wallet |-> None]
  /\ key_lock = [k \in Keys |-> None]
  /\ pc = [r \in Requests |-> "idle"]
  /\ call = [r \in Requests |-> None]
  /\ identity_map = [r \in Requests |-> [w \in Wallet |-> None]]
  /\ converted_amount = [r \in Requests |-> 0]
  /\ outcome = [r \in Requests |-> "none"]
  /\ channel = [u \in Users |-> << >>]

-----------------------------------------------------------------------------
\* What a handler computes from its own session.

\* Defective variant of Touched: the recipient's half of a transfer is forgotten.
TouchedBySender(r) == {call[r].src}

Touched(r) == {call[r].src, call[r].dst}

SenderFirst(r) == call[r].src   \* defective variant of First: no order on the ids

First(r)  == IF call[r].src < call[r].dst THEN call[r].src ELSE call[r].dst
Second(r) == IF First(r) = call[r].src THEN call[r].dst ELSE call[r].src

\* The wallet loses the amount (a debit, or the sending leg), or gains it.
Loses(r, w)    == call[r].op # "credit" /\ w = call[r].src
AmountAt(r, w) == IF Loses(r, w) THEN call[r].amount ELSE converted_amount[r]
Before(r, w)   == identity_map[r][w].balance
After(r, w)    == IF Loses(r, w) THEN Before(r, w) - AmountAt(r, w)
                                 ELSE Before(r, w) + AmountAt(r, w)

\* Defective variant of Loaded: a read that sees what a writer has not committed.
LoadedDirty(r, w) ==
  IF identity_map[r][w] # None THEN identity_map[r][w]
  ELSE IF row_lock[w] # None /\ pc[row_lock[w]] = "commit"
       THEN [wallets[w] EXCEPT !.balance = Stored(After(row_lock[w], w))]
       ELSE wallets[w]

\* The row as the session sees it once it has selected w: the one it already
\* holds if there is one, otherwise the committed one.
Loaded(r, w) == IF identity_map[r][w] = None THEN wallets[w] ELSE identity_map[r][w]

Load(r, w) == identity_map' = [identity_map EXCEPT ![r][w] = Loaded(r, w)]
Forget(r)  == identity_map' = [identity_map EXCEPT ![r] = [w \in Wallet |-> None]]

\* Defective variant of EntryOf: a signed amount.
EntrySigned(r, w) ==
  [req |-> r, kind |-> call[r].op, amount |-> After(r, w) - Before(r, w),
   before |-> Before(r, w), after |-> Stored(After(r, w))]

\* balance_before was loaded from the column, the other two are rounded into it.
EntryOf(r, w) ==
  [req |-> r, kind |-> call[r].op, amount |-> Stored(AmountAt(r, w)),
   before |-> Before(r, w), after |-> Stored(After(r, w))]

TransferOf(r) ==
  [req |-> r, src |-> call[r].src, dst |-> call[r].dst, key |-> call[r].key,
   amount |-> Stored(call[r].amount), converted |-> converted_amount[r]]

\* The checks on the wallet a caller spends from or pays into.
OwnRefusal(r, row) ==
  IF owner[call[r].src] # call[r].user THEN "forbidden"
  ELSE IF row.status # "active" THEN "suspended" ELSE "none"

\* Defective variant of FundsRefusal: transfers are not checked.
FundsRefusalDebit(r, row) ==
  IF call[r].op = "debit" /\ row.balance < call[r].amount THEN "insufficient" ELSE "none"

FundsRefusal(r, row) ==
  IF call[r].op # "credit" /\ row.balance < call[r].amount THEN "insufficient" ELSE "none"

\* Raise the refusal, or go on to the next step.  get_db rolls back after a raise.
Proceed(r, refusal, next) ==
  /\ pc' = [pc EXCEPT ![r] = IF refusal = "none" THEN next ELSE "rollback"]
  /\ outcome' = [outcome EXCEPT ![r] = refusal]

Unlocked(r) ==
  /\ row_lock' = [w \in Wallet |-> IF row_lock[w] = r THEN None ELSE row_lock[w]]
  /\ key_lock' = [k \in Keys |-> IF key_lock[k] = r THEN None ELSE key_lock[k]]

-----------------------------------------------------------------------------
\* A request arrives: the handler is entered with its parameters.
Submit(r) ==
  /\ pc[r] = "idle"
  /\ \E c \in Calls :
       /\ call' = [call EXCEPT ![r] = c]
       /\ converted_amount' = [converted_amount EXCEPT ![r] = c.amount]
       /\ pc' = [pc EXCEPT ![r] = IF c.op = "transfer" THEN "check_key" ELSE "lock"]
  /\ UNCHANGED <<db, locks, identity_map, outcome, channel>>

\* Defective variant of Lock: a plain SELECT.
LockWithoutForUpdate(r) ==
  LET w == call[r].src
  IN /\ pc[r] = "lock" /\ w \in Wallet
     /\ Load(r, w)
     /\ Proceed(r, FundsRefusal(r, Loaded(r, w)), "apply")
     /\ UNCHANGED <<db, locks, call, converted_amount, channel>>

\* credit_wallet and debit_wallet: SELECT ... FOR UPDATE, then every check on
\* the row just read.  A wallet that does not exist locks nothing.
Lock(r) ==
  LET w == call[r].src
      row == Loaded(r, w)
      own == OwnRefusal(r, row)
  IN /\ pc[r] = "lock"
     /\ \/ /\ w \notin Wallet
           /\ Proceed(r, "not_found", "apply")
           /\ UNCHANGED <<row_lock, identity_map>>
        \/ /\ w \in Wallet
           /\ row_lock[w] = None
           /\ row_lock' = [row_lock EXCEPT ![w] = r]
           /\ Load(r, w)
           /\ Proceed(r, IF own = "none" THEN FundsRefusal(r, row) ELSE own, "apply")
     /\ UNCHANGED <<db, key_lock, call, converted_amount, channel>>

\* Defective variant of CheckKey: the key is stored before the transfer is made.
CheckKeyStoresIt(r) ==
  /\ pc[r] = "check_key"
  /\ Proceed(r, IF call[r].key \in idempotency_keys \ {EmptyKey}
                THEN "duplicate" ELSE "none", "peek_sender")
  /\ idempotency_keys' = idempotency_keys \cup ({call[r].key} \ {None, EmptyKey})
  /\ UNCHANGED <<wallets, transactions, transfers, locks, call, identity_map,
                 converted_amount, channel>>

\* transfer, 1: a key that is already stored is refused.
CheckKey(r) ==
  /\ pc[r] = "check_key"
  /\ Proceed(r, IF call[r].key \in idempotency_keys \ {EmptyKey}
                THEN "duplicate" ELSE "none", "peek_sender")
  /\ UNCHANGED <<db, locks, call, identity_map, converted_amount, channel>>

\* transfer, 2: the sender's wallet is read without a lock and checked; then,
\* with no await between, the two ids are compared.
PeekSender(r) ==
  LET w == call[r].src
      own == OwnRefusal(r, Loaded(r, w))
      same == IF w = call[r].dst THEN "conflict" ELSE "none"
  IN /\ pc[r] = "peek_sender"
     /\ \/ /\ w \notin Wallet
           /\ Proceed(r, "not_found", "peek_recipient")
           /\ UNCHANGED identity_map
        \/ /\ w \in Wallet
           /\ Load(r, w)
           /\ Proceed(r, IF own = "none" THEN same ELSE own, "peek_recipient")
     /\ UNCHANGED <<db, locks, call, converted_amount, channel>>

\* Defective variant of PeekRecipient: the status of the wallet is not looked at.
PeekRecipientAnyStatus(r) ==
  LET w == call[r].dst
  IN /\ pc[r] = "peek_recipient" /\ w \in Wallet
     /\ Load(r, w)
     /\ Proceed(r, "none", "lock_first")
     /\ UNCHANGED <<db, locks, call, converted_amount, channel>>

\* transfer, 3: the recipient's wallet is read without a lock and checked; one
\* currency on both sides needs no rate.
PeekRecipient(r) ==
  LET w == call[r].dst
      active == Loaded(r, w).status = "active"
      next == IF currency[call[r].src] = currency[w] THEN "lock_first" ELSE "get_rate"
  IN /\ pc[r] = "peek_recipient"
     /\ \/ /\ w \notin Wallet
           /\ Proceed(r, "not_found", next)
           /\ UNCHANGED identity_map
        \/ /\ w \in Wallet
           /\ Load(r, w)
           /\ Proceed(r, IF active THEN "none" ELSE "suspended", next)
     /\ UNCHANGED <<db, locks, call, converted_amount, channel>>

\* transfer, 4: a rate from the cache, the table or the provider, or none.
GetRate(r) ==
  /\ pc[r] = "get_rate"
  /\ \/ /\ Proceed(r, "rate_unavailable", "lock_first")
        /\ UNCHANGED converted_amount
     \/ \E rate \in Rates :
          /\ converted_amount' = [converted_amount EXCEPT ![r] = Converted(call[r].amount, rate)]
          /\ Proceed(r, "none", "lock_first")
  /\ UNCHANGED <<db, locks, call, identity_map, channel>>

\* transfer, 5: both rows are locked, the lower id first.
LockFirst(r) ==
  /\ pc[r] = "lock_first"
  /\ row_lock[First(r)] = None
  /\ row_lock' = [row_lock EXCEPT ![First(r)] = r]
  /\ Load(r, First(r))
  /\ Proceed(r, "none", "lock_second")
  /\ UNCHANGED <<db, key_lock, call, converted_amount, channel>>

\* transfer, 5 and 6: the second lock, and the funds check on the balance the
\* session holds.
LockSecond(r) ==
  /\ pc[r] = "lock_second"
  /\ row_lock[Second(r)] = None
  /\ row_lock' = [row_lock EXCEPT ![Second(r)] = r]
  /\ Load(r, Second(r))
  /\ Proceed(r, FundsRefusal(r, Loaded(r, call[r].src)), "apply")
  /\ UNCHANGED <<db, key_lock, call, converted_amount, channel>>

\* The UPDATEs and INSERTs are flushed to the open transaction.  A balance that
\* no longer fits its column is an error of the database, answered as a 500.
Apply(r) ==
  LET overflow == \E w \in Touched(r) : Stored(After(r, w)) > MaxBalance
  IN /\ pc[r] = "apply"
     /\ Proceed(r, IF overflow THEN "error" ELSE "none",
                IF call[r].op = "transfer" THEN "insert" ELSE "commit")
     /\ UNCHANGED <<db, locks, call, identity_map, converted_amount, channel>>

\* The keys of the committed transfers, which the unique index covers.
TransferKeys == {t.key : t \in transfers} \ {None}

\* Defective variant of Insert: the key's column is not unique.
InsertNotUnique(r) ==
  /\ pc[r] = "insert"
  /\ Proceed(r, "none", "commit")
  /\ UNCHANGED <<db, locks, call, identity_map, converted_amount, channel>>

\* transfer, 9 and 10: the row with the unique key.  PostgreSQL makes a second
\* INSERT of the key wait for the transaction that holds it, and refuses it when
\* that one has committed (IntegrityError, a 500).
Insert(r) ==
  LET k == call[r].key
  IN /\ pc[r] = "insert"
     /\ \/ k = None /\ Proceed(r, "none", "commit") /\ UNCHANGED key_lock
        \/ /\ k # None
           /\ key_lock[k] = None
           /\ IF k \in TransferKeys
              THEN Proceed(r, "error", "commit") /\ UNCHANGED key_lock
              ELSE /\ Proceed(r, "none", "commit")
                   /\ key_lock' = [key_lock EXCEPT ![k] = r]
     /\ UNCHANGED <<db, row_lock, call, identity_map, converted_amount, channel>>

\* Everything the transaction wrote becomes visible at once and its locks go.
\* Only the balance column is written, and not even that when the amount is 0.
Commit(r) ==
  /\ pc[r] = "commit"
  /\ wallets' = [w \in Wallet |->
       IF w \in Touched(r) /\ AmountAt(r, w) # 0
       THEN [wallets[w] EXCEPT !.balance = Stored(After(r, w))] ELSE wallets[w]]
  /\ transactions' = [w \in Wallet |->
       IF w \in Touched(r) THEN Append(transactions[w], EntryOf(r, w)) ELSE transactions[w]]
  /\ IF call[r].op = "transfer"
     THEN /\ transfers' = transfers \cup {TransferOf(r)}
          /\ idempotency_keys' = idempotency_keys \cup ({call[r].key} \ {None, EmptyKey})
     ELSE UNCHANGED <<transfers, idempotency_keys>>
  /\ pc' = [pc EXCEPT ![r] = "refresh"]
  /\ Unlocked(r)
  /\ UNCHANGED <<call, identity_map, converted_amount, outcome, channel>>

\* The row is read back in a new transaction and without a lock: the wallet's by
\* credit and debit, its own by a transfer.  A database that fails now, or that
\* failed to acknowledge the COMMIT, is not caught: a 500 although the money has
\* moved, and nothing is published.
Refresh(r) ==
  /\ pc[r] = "refresh"
  /\ \/ /\ Proceed(r, "none", "publish")
        /\ identity_map' = IF call[r].op = "transfer" THEN identity_map
             ELSE [identity_map EXCEPT ![r][call[r].src] = wallets[call[r].src]]
     \/ Proceed(r, "error", "publish") /\ UNCHANGED identity_map
  /\ UNCHANGED <<db, locks, call, converted_amount, channel>>

\* Defective variant of EventOf: the balance of before the change.
EventOfBefore(r, w) == [req |-> r, wallet |-> w, balance |-> Before(r, w)]

\* A transfer publishes the balances it computed, the others the one read back.
EventOf(r, w) ==
  [req |-> r, wallet |-> w,
   balance |-> IF call[r].op = "transfer" THEN After(r, w) ELSE Before(r, w)]

Answer(r, code) ==
  /\ pc' = [pc EXCEPT ![r] = "done"]
  /\ outcome' = [outcome EXCEPT ![r] = code]
  /\ Forget(r)

\* Tell the caller's own channel.  A failure of Redis is logged and swallowed,
\* and then the recipient of a transfer is not told either.
Publish(r) ==
  /\ pc[r] = "publish"
  /\ \/ /\ channel' = [channel EXCEPT ![call[r].user] = Append(@, EventOf(r, call[r].src))]
        /\ IF call[r].op = "transfer"
           THEN /\ pc' = [pc EXCEPT ![r] = "publish_recipient"]
                /\ UNCHANGED <<outcome, identity_map>>
           ELSE Answer(r, "ok")
     \/ Answer(r, "ok") /\ UNCHANGED channel
  /\ UNCHANGED <<db, locks, call, converted_amount>>

PublishRecipient(r) ==
  /\ pc[r] = "publish_recipient"
  /\ \/ channel' = [channel EXCEPT ![owner[call[r].dst]] = Append(@, EventOf(r, call[r].dst))]
     \/ UNCHANGED channel
  /\ Answer(r, "ok")
  /\ UNCHANGED <<db, locks, call, converted_amount>>

\* Defective variant of Rollback: the transaction is left open.
RollbackKeepsLocks(r) ==
  /\ pc[r] = "rollback"
  /\ Answer(r, outcome[r])
  /\ UNCHANGED <<db, locks, call, converted_amount, channel>>

\* Defective variant of Rollback: the exception is swallowed, the client told ok.
RollbackAnswersOk(r) ==
  /\ pc[r] = "rollback"
  /\ Unlocked(r)
  /\ Answer(r, "ok")
  /\ UNCHANGED <<db, call, converted_amount, channel>>

\* get_db: the exception passes through, the transaction is rolled back.
Rollback(r) ==
  /\ pc[r] = "rollback"
  /\ Unlocked(r)
  /\ Answer(r, outcome[r])
  /\ UNCHANGED <<db, call, converted_amount, channel>>

\* The worker process serving r dies: PostgreSQL rolls back what is not
\* committed, and the client gets no answer.
Crash(r) ==
  /\ pc[r] \notin {"idle", "done"}
  /\ Unlocked(r)
  /\ Answer(r, "lost")
  /\ UNCHANGED <<db, call, converted_amount, channel>>

\* An operator suspends a wallet with an UPDATE of its own.
Suspend(w) ==
  /\ row_lock[w] = None
  /\ wallets[w].status = "active"
  /\ wallets' = [wallets EXCEPT ![w].status = "suspended"]
  /\ UNCHANGED <<transactions, transfers, idempotency_keys, locks, pc, call,
                 identity_map, converted_amount, outcome, channel>>

\* Every request has been served.
Terminated == (\A r \in Requests : pc[r] = "done") /\ UNCHANGED vars

Step(r) ==
  \/ Lock(r) \/ CheckKey(r) \/ PeekSender(r) \/ PeekRecipient(r) \/ GetRate(r)
  \/ LockFirst(r) \/ LockSecond(r) \/ Apply(r) \/ Insert(r) \/ Commit(r)
  \/ Refresh(r) \/ Publish(r) \/ PublishRecipient(r) \/ Rollback(r)

Next ==
  \/ \E r \in Requests : Submit(r) \/ Step(r) \/ Crash(r)
  \/ \E w \in Suspendable : Suspend(w)
  \/ Terminated

Spec == Init /\ [][Next]_vars

\* A handler that can take its next step takes it: the event loop runs every
\* ready coroutine, and a lock that is free is granted to a waiter.
FairSpec == Spec /\ \A r \in Requests : WF_vars(Step(r))

-----------------------------------------------------------------------------
\* Properties.

\* Every variable keeps the shape of the table or local variable it models.
TypeOK ==
  /\ wallets \in [Wallet -> Row]
  /\ transactions \in [Wallet -> Seq(Entry)]
  /\ transfers \in SUBSET Transfer
  /\ idempotency_keys \in SUBSET Keys
  /\ row_lock \in [Wallet -> Requests \cup {None}]
  /\ key_lock \in [Keys -> Requests \cup {None}]
  /\ pc \in [Requests -> PC]
  /\ call \in [Requests -> Calls \cup {None}]
  /\ identity_map \in [Requests -> [Wallet -> Row \cup {None}]]
  /\ converted_amount \in [Requests -> Nat]
  /\ outcome \in [Requests -> Outcomes]
  /\ channel \in [Users -> Seq(Event)]

\* A handler about to write holds the lock of every row it writes, and a lock is
\* only ever held by a handler that is between its first lock and its end: no
\* refusal, error or crash leaves a wallet locked.
LocksCoverWrites ==
  \A r \in Requests, w \in Wallet :
    /\ pc[r] \in {"apply", "insert", "commit"} /\ w \in Touched(r) => row_lock[w] = r
    /\ row_lock[w] = r => pc[r] \in {"lock_second", "apply", "insert", "commit", "rollback"}

\* However requests interleave, no wallet is overdrawn and none holds more than
\* its column can: the funds check holds until the commit, although a transfer
\* makes it on a balance read before the lock.
BalancesInRange == \A w \in Wallet : wallets[w].balance \in 0 .. MaxBalance

\* A transfer's key is spent once: whatever retries, crashes and races there
\* are, no two committed transfers carry the same Idempotency-Key.
AtMostOncePerKey ==
  \A t1, t2 \in transfers : t1.key = t2.key /\ t1.key # None => t1 = t2

\* The stored keys are exactly those of the committed transfers, and a request
\* refused as a duplicate has had its key spent by one of them: no retry is
\* turned away because of an attempt that never committed.
KeysMatchTransfers ==
  /\ idempotency_keys = TransferKeys \ {EmptyKey}
  /\ \A r \in Requests : outcome[r] = "duplicate" => call[r].key \in TransferKeys

\* The entries of request r in the history of wallet w.
EntriesOf(r, w) == {i \in DOMAIN transactions[w] : transactions[w][i].req = r}

\* What the client is told agrees with the ledger: after "ok" every wallet of the
\* request has one entry of it, and after a refusal none has.  A request whose
\* answer is lost, or is a 500, may have been posted (the database can fail right
\* after the commit), but then to all of its wallets, and otherwise to none.
AnswerMatchesLedger ==
  \A r \in Requests : pc[r] = "done" =>
    LET posted == {w \in Wallet : Cardinality(EntriesOf(r, w)) = 1}
        unposted == {w \in Wallet : EntriesOf(r, w) = {}}
    IN /\ outcome[r] = "ok" => Touched(r) \subseteq posted
       /\ outcome[r] \in Refusals \ {"error"} => Touched(r) \cap Wallet \subseteq unposted
       /\ Touched(r) \subseteq posted \/ Touched(r) \cap Wallet \subseteq unposted

\* The balance a handler records as the one before its change was committed at
\* some time, although it may be stale: no handler reads what another has not
\* committed.
NoDirtyRead ==
  \A w \in Wallet : \A i \in DOMAIN transactions[w] :
    \/ transactions[w][i].before = Opening[w]
    \/ \E j \in 1 .. i - 1 : transactions[w][i].before = transactions[w][j].after

\* A user is only told of balances that some entry of that wallet has recorded:
\* events follow the commit they announce.
EventsShowPostedBalances ==
  \A u \in Users : \A i \in DOMAIN channel[u] :
    LET e == channel[u][i]
    IN /\ EntriesOf(e.req, e.wallet) # {}
       /\ \E j \in DOMAIN transactions[e.wallet] :
            Stored(e.balance) = transactions[e.wallet][j].after

\* The requests whose locks r is waiting for.
WaitsFor(r) ==
  {s \in Requests \ {r} :
    \/ /\ pc[r] = "lock" /\ call[r].src \in Wallet
       /\ row_lock[call[r].src] = s
    \/ pc[r] = "lock_first" /\ row_lock[First(r)] = s
    \/ pc[r] = "lock_second" /\ row_lock[Second(r)] = s
    \/ pc[r] = "insert" /\ call[r].key # None /\ key_lock[call[r].key] = s}

\* No set of handlers waits in a circle for each other's row and key locks.
NoWaitCycle ==
  \A S \in (SUBSET Requests) \ {{}} : \E r \in S : WaitsFor(r) \cap S = {}

\* A wallet's entry that step [Next]_vars appends, if it appends one.
Posts(w) == Len(transactions'[w]) = Len(transactions[w]) + 1
Posted(w) == transactions'[w][Len(transactions'[w])]

\* A balance changes only together with a new entry that records the new value:
\* no refused, failed or crashed request moves money.
BalanceMovesOnlyWithEntry ==
  [][\A w \in Wallet : wallets'[w].balance # wallets[w].balance =>
       Posts(w) /\ Posted(w).after = wallets'[w].balance]_vars

\* Credits and debits are serial: the balance such an entry starts from is the
\* committed one at the moment of the commit, the balance it ends with becomes
\* the committed one, and the wallet is active then.
CreditsAndDebitsAreSerial ==
  [][\A w \in Wallet : Posts(w) /\ Posted(w).kind # "transfer" =>
       /\ Posted(w).before = wallets[w].balance
       /\ Posted(w).after = wallets'[w].balance
       /\ wallets[w].status = "active"]_vars

\* The balance recorded before entry i of w: an unbroken history has each entry
\* start from it.
Previous(w, i) == IF i = 1 THEN Opening[w] ELSE transactions[w][i - 1].after

\* Updates are lost to transfers only: where an entry of a wallet does not start
\* from the balance that the one before it ended with, one of the two is a
\* transfer's.  Credits and debits, by themselves, overwrite nobody.
OnlyTransfersLoseUpdates ==
  \A w \in Wallet : \A i \in DOMAIN transactions[w] :
    transactions[w][i].before # Previous(w, i) =>
      \/ transactions[w][i].kind = "transfer"
      \/ i > 1 /\ transactions[w][i - 1].kind = "transfer"

\* The ledger as an observer of the committed tables sees it.
L == INSTANCE Ledger WITH
       balance <- [w \in Wallet |-> wallets[w].balance],
       active  <- {w \in Wallet : wallets[w].status = "active"},
       history <- transactions,
       spent   <- TransferKeys

\* The handlers with their locks, stale reads, crashes and retries implement the
\* abstract ledger: whatever the interleaving, each commit is one atomic posting,
\* by the wallet's owner, from balances the wallet has had and that covered it.
ImplementsLedger == L!LedgerSpec

\* A suspension that meets a transfer on its way lets it through (the row is not
\* read again under the lock), but no transfer that looked at the wallet after
\* the suspension moves its money.
SuspensionStopsLaterTransfers ==
  [][\A w \in Wallet : Posts(w) =>
       identity_map[Posted(w).req][w].status = "active"]_vars

\* What step [Next]_vars overwrites in w: updates committed since the handler
\* that posts now has read the row.
Overwritten(w) == wallets[w].balance - Posted(w).before

\* A transfer moves both of its wallets in one step, and no other wallet.  Inside
\* one currency, and if its amount is a whole number of units, the two together
\* lose exactly the updates it overwrites, so one that overwrites nothing leaves
\* their sum as it was: no half transfer, nor anything else, makes money.
TransfersMoveMoney ==
  [][\A t \in transfers' \ transfers :
       /\ Posts(t.src) /\ Posts(t.dst)
       /\ currency[t.src] = currency[t.dst] =>
            wallets'[t.src].balance + wallets'[t.dst].balance =
              wallets[t.src].balance + wallets[t.dst].balance
                - Overwritten(t.src) - Overwritten(t.dst)
       /\ \A w \in Wallet \ {t.src, t.dst} :
            wallets'[w].balance = wallets[w].balance]_vars

\* Every request that has been accepted ends, with an answer or with its worker.
EveryRequestEnds == \A r \in Requests : pc[r] # "idle" ~> pc[r] = "done"

-----------------------------------------------------------------------------
\* What the repository's documents say, and the code does not keep.

\* wallet_repository.py: "concurrent updates to the same wallet row must be
\* serialised".  Serial updates leave a history in which every entry starts
\* where the one before it ended.
HistoryIsChained ==
  \A w \in Wallet : \A i \in DOMAIN transactions[w] :
    transactions[w][i].before = Previous(w, i)

\* README.md: "Duplicate requests with the same key return the original response
\* without reprocessing."  So a user who repeats a transfer that has been
\* committed under the key is not refused.
ReplayIsAnswered ==
  \A r \in Requests : \A t \in transfers :
    pc[r] = "done" /\ call[r].op = "transfer" /\ call[r].key = t.key /\ t.key # None
      /\ t.req # r /\ call[t.req] = call[r]
    => outcome[r] \notin {"duplicate", "error"}

\* ARCHITECTURE.md: Decimal amounts are exact.  By its two entries, a transfer
\* inside one currency takes from the one wallet what it gives to the other.
\* Each column is rounded by itself, so an amount of half a unit breaks this.
TransfersConserve ==
  \A t \in transfers : currency[t.src] = currency[t.dst] =>
    \A i \in EntriesOf(t.req, t.src), j \in EntriesOf(t.req, t.dst) :
      LET sent == transactions[t.src][i]
          received == transactions[t.dst][j]
      IN sent.before - sent.after = received.after - received.before
=============================================================================
