------------------------- MODULE WalletLedgerProofs -------------------------
(***************************************************************************)
(* WalletService implements Ledger, for every set of requests, wallets,    *)
(* keys and calls; which updates transfers lose, and that they lose no     *)
(* other money.  Five more layers of the inductive invariant:              *)
(*   Checked   what the checks before the locks have established;          *)
(*   Recorded  every balance a session holds was once committed;           *)
(*   PostedAll which requests have posted, and that they posted once;      *)
(*   Announced what was published, or is about to be, was committed;       *)
(*   Chained   where the history of a wallet is unbroken.                  *)
(* And two facts about rounding: to the column, and of a conversion.       *)
(***************************************************************************)
EXTENDS WalletServiceProofs, FiniteSetTheorems

-----------------------------------------------------------------------------
\* Arithmetic of the columns.

LEMMA DivBounds ==
  ASSUME NEW a \in Int, NEW d \in Nat \ {0}
  PROVE  a \div d \in Int /\ d * (a \div d) <= a /\ a < d * (a \div d) + d
  BY SMT

LEMMA DivUnique ==
  ASSUME NEW a \in Int, NEW d \in Nat \ {0}, NEW q \in Int, d * q <= a, a < d * q + d
  PROVE  a \div d = q
<1> DEFINE p == a \div d
<1>1. p \in Int /\ d * p <= a /\ a < d * p + d
  BY DivBounds
<1> HIDE DEF p
<1>2. d * (p - q) < d /\ d * (q - p) < d
  BY <1>1
<1>3. ~ (p - q >= 1) /\ ~ (q - p >= 1)
  BY <1>1, <1>2
<1>. QED
  BY <1>1, <1>3 DEF p

LEMMA DivMonotone ==
  ASSUME NEW a \in Int, NEW b \in Int, NEW d \in Nat \ {0}, a <= b
  PROVE  a \div d <= b \div d
<1> DEFINE p == a \div d
           q == b \div d
<1>1. p \in Int /\ d * p <= a /\ q \in Int /\ b < d * q + d
  BY DivBounds
<1> HIDE DEF p, q
<1>2. d * (p - q) < d
  BY <1>1
<1>3. ~ (p - q >= 1)
  BY <1>1, <1>2
<1>. QED
  BY <1>1, <1>3 DEF p, q

\* A column keeps a whole number of its units as it is.
LEMMA StoredUnits ==
  ASSUME NEW n \in Int
  PROVE  Stored(Scale * n) = Scale * n
<1>1. Scale * n \in Int /\ 2 * Scale \in Nat \ {0} /\ (2 * Scale) * n = 2 * (Scale * n)
  BY ScaleAssumption
<1>2. (2 * (Scale * n) + Scale) \div (2 * Scale) = n
  BY <1>1, DivUnique, ScaleAssumption
<1>. QED
  BY <1>2 DEF Stored

\* What has been rounded into a column is not changed by a second rounding.
LEMMA StoredTwice ==
  ASSUME NEW x \in Int
  PROVE  Stored(Stored(x)) = Stored(x)
<1>1. 2 * x + Scale \in Int /\ 2 * Scale \in Nat \ {0}
  BY ScaleAssumption
<1>2. (2 * x + Scale) \div (2 * Scale) \in Int
  BY <1>1, DivBounds
<1>. QED
  BY <1>2, StoredUnits DEF Stored

LEMMA StoredMonotone ==
  ASSUME NEW x \in Int, NEW y \in Int, x <= y
  PROVE  Stored(x) <= Stored(y)
<1> DEFINE p == (2 * x + Scale) \div (2 * Scale)
           q == (2 * y + Scale) \div (2 * Scale)
<1>1. 2 * x + Scale \in Int /\ 2 * y + Scale \in Int /\ 2 * Scale \in Nat \ {0}
      /\ 2 * x + Scale <= 2 * y + Scale
  BY ScaleAssumption
<1>2. p \in Int /\ q \in Int /\ p <= q
  BY <1>1, DivBounds, DivMonotone
<1> HIDE DEF p, q
<1>3. Scale * p <= Scale * q
  BY <1>2, ScaleAssumption
<1>. QED
  BY <1>3 DEF Stored, p, q

\* A conversion gives a whole number of units.
LEMMA ConvertedUnits ==
  ASSUME NEW amount \in Nat, NEW rate \in Nat
  PROVE  \E n \in Nat : Converted(amount, rate) = Scale * n
<1>1. amount * rate \in Nat /\ RateScale * Scale \in Nat \ {0}
  BY TimesNat, TimesPos, ScaleAssumption, RateScaleAssumption
<1>2. HalfEven(amount * rate, RateScale * Scale) \in Nat
  BY <1>1, HalfEvenNat
<1>. QED
  BY <1>2 DEF Converted

-----------------------------------------------------------------------------
\* Layer 6: what a transfer has checked.

Converting == {"lock_first", "lock_second", "apply", "insert", "commit"}
Committing == Converting \cup {"get_rate"}

\* From its check on, the caller owns the source, and the copies the session holds
\* of both wallets are active; the recipient's amount is the amount inside one
\* currency, and a whole number of units otherwise.
CheckedOf(r) ==
  /\ pc[r] \in Committing \cup {"peek_recipient"} =>
       /\ owner[call[r].src] = call[r].user
       /\ identity_map[r][call[r].src].status = "active"
  /\ pc[r] \in Committing => identity_map[r][call[r].dst].status = "active"
  /\ pc[r] \in {"check_key", "peek_sender", "peek_recipient"} =>
       converted_amount[r] = call[r].amount
  /\ pc[r] = "get_rate" => currency[call[r].src] # currency[call[r].dst]
  /\ pc[r] \in Converting /\ call[r].op = "transfer" =>
       IF currency[call[r].src] = currency[call[r].dst]
       THEN converted_amount[r] = call[r].amount
       ELSE \E n \in Nat : converted_amount[r] = Scale * n

Checked == \A r \in Requests : CheckedOf(r)

LEMMA CheckedFrame ==
  ASSUME NEW q, CheckedOf(q), pc'[q] = pc[q], call'[q] = call[q],
         identity_map'[q] = identity_map[q], converted_amount'[q] = converted_amount[q]
  PROVE  CheckedOf(q)'
  BY DEF CheckedOf

LEMMA CheckedStart ==
  ASSUME Typed, Checked, NEW r \in Requests, Submit(r) \/ CheckKey(r)
  PROVE  CheckedOf(r)'
<1> USE DEF Typed, TypeOK, CheckedOf, Committing, Converting
<1>1. CASE Submit(r)
  BY <1>1 DEF Submit
<1>2. CASE CheckKey(r)
  BY <1>2 DEF CheckKey, Proceed, Checked
<1>. QED
  BY <1>1, <1>2

LEMMA CheckedLock ==
  ASSUME Typed, Checked, NEW r \in Requests, Lock(r)
  PROVE  CheckedOf(r)'
<1> DEFINE w == call[r].src
<1>1. /\ call' = call /\ call[r].op # "transfer" /\ call[r].dst = w
      /\ pc'[r] \in {"apply", "rollback"}
  BY CallAssumption DEF Lock, Proceed, Typed, TypeOK, ControlOf
<1>2. CASE pc'[r] = "rollback"
  BY <1>2 DEF CheckedOf, Committing, Converting
<1>3. CASE pc'[r] = "apply"
  <2>1. w \in Wallet /\ Load(r, w) /\ OwnRefusal(r, Loaded(r, w)) = "none"
    BY <1>3 DEF Lock, Proceed, Typed, TypeOK
  <2>2. identity_map'[r][w] = Loaded(r, w)
    BY <2>1, LoadEffect DEF Typed
  <2>. QED
    BY <1>1, <1>3, <2>1, <2>2 DEF CheckedOf, Committing, Converting, OwnRefusal
<1>. QED
  BY <1>1, <1>2, <1>3

LEMMA CheckedPeeks ==
  ASSUME Typed, Checked, NEW r \in Requests, PeekSender(r) \/ PeekRecipient(r)
  PROVE  CheckedOf(r)'
<1>1. call' = call /\ converted_amount' = converted_amount /\ CheckedOf(r)
  BY DEF PeekSender, PeekRecipient, Checked
<1>2. CASE pc'[r] = "rollback"
  BY <1>2 DEF CheckedOf, Committing, Converting
<1>3. CASE PeekSender(r) /\ pc'[r] # "rollback"
  <2> DEFINE w == call[r].src
  <2>1. w \in Wallet /\ Load(r, w) /\ OwnRefusal(r, Loaded(r, w)) = "none"
        /\ pc'[r] = "peek_recipient" /\ pc[r] = "peek_sender"
    BY <1>3 DEF PeekSender, Proceed, Typed, TypeOK
  <2>2. identity_map'[r][w] = Loaded(r, w)
    BY <2>1, LoadEffect DEF Typed
  <2>. QED
    BY <1>1, <2>1, <2>2 DEF CheckedOf, Committing, Converting, OwnRefusal
<1>4. CASE PeekRecipient(r) /\ pc'[r] # "rollback"
  <2> DEFINE w == call[r].dst
             s == call[r].src
  <2>1. /\ w \in Wallet /\ Load(r, w) /\ Loaded(r, w).status = "active"
        /\ pc[r] = "peek_recipient"
        /\ pc'[r] = IF currency[s] = currency[w] THEN "lock_first" ELSE "get_rate"
    BY <1>4 DEF PeekRecipient, Proceed, Typed, TypeOK
  <2>2. s \in Wallet /\ s # w
    BY <2>1 DEF Typed, ControlOf, Has
  <2>3. identity_map'[r][w] = Loaded(r, w) /\ identity_map'[r][s] = identity_map[r][s]
    BY <2>1, <2>2, LoadEffect DEF Typed
  <2>. QED
    BY <1>1, <2>1, <2>2, <2>3 DEF CheckedOf, Committing, Converting
<1>. QED
  BY <1>2, <1>3, <1>4

LEMMA CheckedGetRate ==
  ASSUME Typed, Checked, NEW r \in Requests, GetRate(r)
  PROVE  CheckedOf(r)'
<1>1. /\ call' = call /\ identity_map' = identity_map /\ CheckedOf(r) /\ pc[r] = "get_rate"
      /\ pc'[r] \in {"lock_first", "rollback"}
  BY DEF GetRate, Proceed, Checked, Typed, TypeOK
<1>2. pc'[r] = "lock_first" => \E n \in Nat : converted_amount'[r] = Scale * n
  <2> SUFFICES ASSUME pc'[r] = "lock_first"
               PROVE  \E n \in Nat : converted_amount'[r] = Scale * n
    OBVIOUS
  <2>1. PICK rate \in Rates :
          converted_amount' = [converted_amount EXCEPT ![r] = Converted(call[r].amount, rate)]
    BY DEF GetRate, Proceed, Typed, TypeOK
  <2>2. call[r].amount \in Nat /\ rate \in Nat
    BY <1>1, CallAssumption, RatesAssumption DEF Typed, ControlOf, TransferSteps, Call
  <2>3. converted_amount'[r] = Converted(call[r].amount, rate)
    BY <2>1 DEF Typed, TypeOK
  <2>4. PICK n \in Nat : Converted(call[r].amount, rate) = Scale * n
    BY <2>2, ConvertedUnits
  <2>. QED
    BY <2>3, <2>4
<1>. QED
  BY <1>1, <1>2 DEF CheckedOf, Committing, Converting

LEMMA CheckedLocks ==
  ASSUME Typed, Checked, NEW r \in Requests,
         LockFirst(r) \/ LockSecond(r) \/ Apply(r) \/ Insert(r)
  PROVE  CheckedOf(r)'
<1>1. /\ call' = call /\ converted_amount' = converted_amount /\ CheckedOf(r)
      /\ pc[r] \in Converting /\ pc'[r] \in Converting \cup {"rollback"}
  BY DEF LockFirst, LockSecond, Apply, Insert, Proceed, Checked, Converting, Typed, TypeOK
<1>2. \A w \in Touched(r) : identity_map'[r][w] = identity_map[r][w]
  <2>1. pc[r] \in LoadedSteps /\ \A w \in Touched(r) : Has(r, w)
    BY <1>1 DEF Converting, LoadedSteps, Typed, ControlOf, Touched
  <2>2. CASE Apply(r) \/ Insert(r)
    BY <2>2 DEF Apply, Insert
  <2>3. CASE LockFirst(r) \/ LockSecond(r)
    <3>1. PICK w \in Touched(r) : Load(r, w)
      BY <2>3 DEF LockFirst, LockSecond, First, Second, Touched
    <3>2. Loaded(r, w) = identity_map[r][w] /\ w \in Wallet
      BY <2>1, <3>1 DEF Loaded, Has
    <3>. QED
      BY <2>1, <3>1, <3>2, LoadEffect DEF Has, Typed
  <2>. QED
    BY <2>2, <2>3
<1>. QED
  BY <1>1, <1>2 DEF CheckedOf, Committing, Converting, Touched

LEMMA CheckedNext == Typed /\ Checked /\ [Next]_vars => Checked'
<1> SUFFICES ASSUME Typed, Checked, [Next]_vars PROVE Checked'
  OBVIOUS
<1>1. ASSUME NEW r \in Requests, Submit(r) \/ Step(r) \/ Crash(r) PROVE Checked'
  <2>1. CheckedOf(r)'
    <3>1. CASE Commit(r) \/ Refresh(r) \/ Publish(r) \/ PublishRecipient(r) \/ Rollback(r)
                 \/ Crash(r)
      <4>1. pc'[r] \in {"refresh", "publish", "publish_recipient", "rollback", "done"}
        BY <3>1, RefreshEffect DEF Commit, Publish, PublishRecipient, Rollback, Crash, Answer,
                                   Typed, TypeOK
      <4>. QED
        BY <4>1 DEF CheckedOf, Committing, Converting
    <3>. QED
      BY <1>1, <3>1, CheckedStart, CheckedLock, CheckedPeeks, CheckedGetRate, CheckedLocks
         DEF Step
  <2>2. \A q \in Requests \ {r} : CheckedOf(q)'
    BY <1>1, OthersStay, CheckedFrame DEF Checked
  <2>. QED
    BY <2>1, <2>2 DEF Checked
<1>2. CASE UNCHANGED vars \/ \E w \in Suspendable : Suspend(w)
  <2>1. UNCHANGED <<pc, call, identity_map, converted_amount>>
    BY <1>2 DEF vars, Suspend
  <2>. QED
    BY <2>1, CheckedFrame DEF Checked
<1>. QED
  BY <1>1, <1>2 DEF Next, Terminated

LEMMA CheckedInit == Init => Checked
  BY DEF Init, Checked, CheckedOf, Committing, Converting

-----------------------------------------------------------------------------
\* Layer 7: where the balances a session holds come from.

\* The balances entries of wallet w have recorded, and those w has had.
Afters(w) == {transactions[w][i].after : i \in DOMAIN transactions[w]}
Past(w) == {Opening[w]} \cup Afters(w)

Recorded ==
  /\ \A w \in Wallet : wallets[w].balance \in Past(w)
  /\ \A r \in Requests, w \in Wallet :
       identity_map[r][w] # None => identity_map[r][w].balance \in Past(w)
  /\ NoDirtyRead

\* Only a commit changes a history.
LEMMA NoPosting ==
  ASSUME [Next]_vars, \A r \in Requests : ~ Commit(r)
  PROVE  transactions' = transactions /\ transfers' = transfers
         /\ (wallets' = wallets \/ \E w \in Suspendable : Suspend(w))
<1>1. ASSUME NEW r \in Requests, Submit(r) \/ Step(r) \/ Crash(r)
      PROVE  UNCHANGED <<transactions, transfers, wallets>>
  BY <1>1 DEF Step, Submit, Crash, Lock, CheckKey, PeekSender, PeekRecipient, GetRate,
              LockFirst, LockSecond, Apply, Insert, Refresh, Publish, PublishRecipient,
              Rollback, db
<1>. QED
  BY <1>1 DEF Next, Suspend, Terminated, vars, db

\* A suspension moves no money.
LEMMA SuspendEffect ==
  ASSUME Typed, NEW w \in Suspendable, Suspend(w)
  PROVE  \A v \in Wallet :
           /\ wallets'[v].balance = wallets[v].balance
           /\ wallets'[v].status = IF v = w THEN "suspended" ELSE wallets[v].status
<1> SUFFICES ASSUME NEW v \in Wallet
             PROVE  /\ wallets'[v].balance = wallets[v].balance
                    /\ wallets'[v].status = IF v = w THEN "suspended" ELSE wallets[v].status
  OBVIOUS
<1>1. wallets' = [wallets EXCEPT ![w].status = "suspended"] /\ wallets[v] \in Row
  BY DEF Suspend, Typed, TypeOK
<1>2. CASE v = w
  BY <1>1, <1>2 DEF Typed, TypeOK, Row
<1>3. CASE v # w
  BY <1>1, <1>3 DEF Typed, TypeOK
<1>. QED
  BY <1>2, <1>3

\* A session drops a row, keeps it, or reads the committed one.
LEMMA CopiesCommitted ==
  ASSUME Typed, [Next]_vars, NEW q \in Requests, NEW w \in Wallet
  PROVE  identity_map'[q][w] \in {None, identity_map[q][w], wallets[w]}
<1> USE DEF Typed, TypeOK
<1>1. ASSUME NEW r \in Requests, NEW v \in Wallet, Load(r, v)
      PROVE  identity_map'[q][w] \in {None, identity_map[q][w], wallets[w]}
  BY <1>1, LoadEffect DEF Loaded
<1>2. ASSUME NEW r \in Requests, Submit(r) \/ Step(r) \/ Crash(r)
      PROVE  identity_map'[q][w] \in {None, identity_map[q][w], wallets[w]}
  <2>1. CASE Lock(r) \/ PeekSender(r) \/ PeekRecipient(r)
    BY <1>1, <2>1 DEF Lock, PeekSender, PeekRecipient
  <2>2. CASE LockFirst(r) \/ LockSecond(r)
    <3>1. First(r) \in Wallet /\ Second(r) \in Wallet
      BY <2>2, LockOrder DEF LockFirst, LockSecond, LoadedSteps
    <3>. QED
      BY <1>1, <2>2, <3>1 DEF LockFirst, LockSecond
  <2>3. CASE Refresh(r)
    BY <2>3, RefreshEffect
  <2>4. CASE Publish(r) \/ PublishRecipient(r) \/ Rollback(r) \/ Crash(r)
    BY <2>4 DEF Publish, PublishRecipient, Rollback, Crash, Answer, Forget
  <2>5. CASE Submit(r) \/ CheckKey(r) \/ GetRate(r) \/ Apply(r) \/ Insert(r) \/ Commit(r)
    BY <2>5 DEF Submit, CheckKey, GetRate, Apply, Insert, Commit
  <2>. QED
    BY <1>2, <2>1, <2>2, <2>3, <2>4, <2>5 DEF Step
<1>. QED
  BY <1>2 DEF Next, Suspend, Terminated, vars

\* The history of each wallet after a commit.
LEMMA CommitHistory ==
  ASSUME Typed, NEW r \in Requests, Commit(r), NEW w \in Wallet
  PROVE  /\ w \in Touched(r) => transactions'[w] = Append(transactions[w], EntryOf(r, w))
         /\ w \notin Touched(r) => transactions'[w] = transactions[w] /\ wallets'[w] = wallets[w]
         /\ Past(w) \subseteq Past(w)'
         /\ Afters(w)' = IF w \in Touched(r) THEN Afters(w) \cup {Stored(After(r, w))}
                                             ELSE Afters(w)
         /\ w \in Touched(r) => Stored(After(r, w)) \in Past(w)'
<1>1. /\ w \in Touched(r) => transactions'[w] = Append(transactions[w], EntryOf(r, w))
      /\ w \notin Touched(r) => transactions'[w] = transactions[w] /\ wallets'[w] = wallets[w]
  BY DEF Commit
<1>2. transactions[w] \in Seq(Entry)
  BY DEF Typed, TypeOK
<1>3. w \in Touched(r) =>
        /\ DOMAIN transactions'[w] = 1 .. Len(transactions[w]) + 1
        /\ \A i \in DOMAIN transactions[w] : transactions'[w][i] = transactions[w][i]
        /\ transactions'[w][Len(transactions[w]) + 1] = EntryOf(r, w)
  <2>1. w \in Touched(r) => EntryOf(r, w) \in Entry
    BY CommitTypes DEF Commit
  <2>. QED
    BY <1>1, <1>2, <2>1
<1>4. DOMAIN transactions[w] = 1 .. Len(transactions[w]) /\ Len(transactions[w]) \in Nat
  BY <1>2
<1>5. Afters(w)' = IF w \in Touched(r) THEN Afters(w) \cup {Stored(After(r, w))} ELSE Afters(w)
  <2>1. EntryOf(r, w).after = Stored(After(r, w))
    BY DEF EntryOf
  <2> DEFINE e == EntryOf(r, w)
             n == Len(transactions[w])
  <2>2. w \in Touched(r) => transactions'[w][n + 1].after = Stored(After(r, w))
    BY <1>3, <2>1
  <2>. QED
    BY <1>1, <1>3, <1>4, <2>2 DEF Afters
<1>. QED
  BY <1>1, <1>5 DEF Past

LEMMA RecordedCommit ==
  ASSUME Typed, Recorded, NEW r \in Requests, Commit(r)
  PROVE  Recorded'
<1>1. \A w \in Wallet : wallets'[w].balance \in Past(w)'
  <2> SUFFICES ASSUME NEW w \in Wallet PROVE wallets'[w].balance \in Past(w)'
    OBVIOUS
  <2>1. CASE w \in Touched(r)
    <3>1. wallets'[w].balance \in {Stored(After(r, w)), wallets[w].balance}
      BY <2>1, CommitPosts
    <3>. QED
      BY <2>1, <3>1, CommitHistory DEF Recorded
  <2>2. CASE w \notin Touched(r)
    BY <2>2, CommitHistory DEF Recorded
  <2>. QED
    BY <2>1, <2>2
<1>2. \A q \in Requests, w \in Wallet :
        identity_map'[q][w] # None => identity_map'[q][w].balance \in Past(w)'
  BY CommitHistory DEF Commit, Recorded
<1>3. NoDirtyRead'
  <2> SUFFICES ASSUME NEW w \in Wallet, NEW i \in DOMAIN transactions'[w]
               PROVE  \/ transactions'[w][i].before = Opening[w]
                      \/ \E j \in 1 .. i - 1 : transactions'[w][i].before = transactions'[w][j].after
    BY DEF NoDirtyRead
  <2>1. transactions[w] \in Seq(Entry)
    BY DEF Typed, TypeOK
  <2>2. CASE w \notin Touched(r)
    BY <2>2, CommitHistory DEF Recorded, NoDirtyRead
  <2>3. CASE w \in Touched(r)
    <3> DEFINE n == Len(transactions[w])
               e == EntryOf(r, w)
    <3>1. /\ DOMAIN transactions'[w] = 1 .. n + 1 /\ n \in Nat /\ DOMAIN transactions[w] = 1 .. n
          /\ \A j \in 1 .. n : transactions'[w][j] = transactions[w][j]
          /\ transactions'[w][n + 1] = e
      <4>1. e \in Entry /\ transactions'[w] = Append(transactions[w], e)
        BY <2>3, CommitHistory, CommitTypes DEF Commit
      <4> HIDE DEF e
      <4>. QED
        BY <2>1, <4>1
    <3>2. CASE i \in 1 .. n
      <4>1. \/ transactions[w][i].before = Opening[w]
            \/ \E j \in 1 .. i - 1 : transactions[w][i].before = transactions[w][j].after
        BY <3>1, <3>2 DEF Recorded, NoDirtyRead
      <4>2. transactions'[w][i] = transactions[w][i]
            /\ \A j \in 1 .. i - 1 : transactions'[w][j] = transactions[w][j]
        BY <3>1, <3>2
      <4>. QED
        BY <4>1, <4>2
    <3>3. CASE i = n + 1
      <4>1. identity_map[r][w] # None
        BY <2>3 DEF Commit, Typed, ControlOf, LoadedSteps, Has, Touched
      <4>2. e.before = identity_map[r][w].balance
        BY DEF EntryOf, Before
      <4>3. e.before \in Past(w)
        BY <4>1, <4>2 DEF Recorded
      <4>4. e.before = Opening[w] \/ \E j \in 1 .. n : e.before = transactions[w][j].after
        BY <3>1, <4>3 DEF Past, Afters
      <4> HIDE DEF e
      <4>. QED
        BY <3>1, <3>3, <4>4
    <3>. QED
      BY <3>1, <3>2, <3>3
  <2>. QED
    BY <2>2, <2>3
<1>. QED
  BY <1>1, <1>2, <1>3 DEF Recorded

LEMMA RecordedNext == Typed /\ Recorded /\ [Next]_vars => Recorded'
<1> SUFFICES ASSUME Typed, Recorded, [Next]_vars PROVE Recorded'
  OBVIOUS
<1>1. CASE \A r \in Requests : ~ Commit(r)
  <2>1. transactions' = transactions /\ \A w \in Wallet : wallets'[w].balance = wallets[w].balance
    BY <1>1, NoPosting, SuspendEffect
  <2>2. \A w \in Wallet : Past(w)' = Past(w)
    BY <2>1 DEF Past, Afters
  <2>3. \A q \in Requests, w \in Wallet :
          identity_map'[q][w] # None => identity_map'[q][w].balance \in Past(w)'
    BY <2>2, CopiesCommitted DEF Recorded
  <2>. QED
    BY <2>1, <2>2, <2>3 DEF Recorded, NoDirtyRead
<1>. QED
  BY <1>1, RecordedCommit

LEMMA RecordedInit == Init => Recorded
  BY DEF Init, Recorded, Past, Afters, NoDirtyRead

\* No handler records a balance that had not been committed before: reads are
\* stale, never dirty.
THEOREM NeverDirty == Spec => []NoDirtyRead
<1>1. Recorded => NoDirtyRead
  BY DEF Recorded
<1>. QED
  BY TypedInit, TypedNext, RecordedInit, RecordedNext, <1>1, PTL DEF Spec

-----------------------------------------------------------------------------
\* Suspensions.

\* Whatever a commit posts to was active when its request looked at it.
THEOREM LaterTransfersStopped == Spec => SuspensionStopsLaterTransfers
<1> DEFINE Looked == \A w \in Wallet : Posts(w) =>
                       identity_map[Posted(w).req][w].status = "active"
<1>1. Typed /\ Checked /\ [Next]_vars => Looked
  <2> SUFFICES ASSUME Typed, Checked, [Next]_vars, NEW w \in Wallet, Posts(w)
               PROVE  identity_map[Posted(w).req][w].status = "active"
    OBVIOUS
  <2>1. transactions'[w] # transactions[w]
    BY DEF Posts, Typed, TypeOK
  <2>2. PICK r \in Requests : Commit(r) /\ w \in Touched(r)
    BY <2>1, OnlyCommitPosts
  <2>3. pc[r] = "commit" /\ Posted(w) = EntryOf(r, w)
    BY <2>2, CommitPosts
  <2>4. identity_map[r][w].status = "active"
    BY <2>2, <2>3 DEF Checked, CheckedOf, Committing, Converting, Touched
  <2>. QED
    BY <2>3, <2>4 DEF EntryOf
<1>2. Typed /\ Checked /\ [Next]_vars => [Looked]_vars
  BY <1>1
<1>3. Spec => [][Looked]_vars
  BY TypedInit, TypedNext, CheckedInit, CheckedNext, <1>2, PTL DEF Spec
<1>. QED
  BY <1>3 DEF SuspensionStopsLaterTransfers

-----------------------------------------------------------------------------
\* Layer 8: who has posted.

Unposted(r) == \A w \in Wallet : EntriesOf(r, w) = {}
PostedOnce(r) == \A w \in Touched(r) : w \in Wallet /\ \E i : EntriesOf(r, w) = {i}

PostedOf(r) ==
  /\ pc[r] \in {"refresh", "publish", "publish_recipient"} => PostedOnce(r)
  /\ pc[r] \notin {"refresh", "publish", "publish_recipient", "rollback", "done"} => Unposted(r)
  /\ pc[r] = "rollback" => /\ outcome[r] \in Refusals
                           /\ Unposted(r) \/ (outcome[r] = "error" /\ PostedOnce(r))
  /\ pc[r] = "done" => /\ outcome[r] = "ok" => PostedOnce(r)
                       /\ outcome[r] \in Refusals \ {"error"} => Unposted(r)
                       /\ PostedOnce(r) \/ Unposted(r)

PostedAll == \A r \in Requests : PostedOf(r)

\* A commit adds one entry of its request to each wallet it touches.
LEMMA CommitEntries ==
  ASSUME Typed, NEW r \in Requests, Commit(r), NEW q \in Requests, NEW w \in Wallet
  PROVE  EntriesOf(q, w)' = IF q = r /\ w \in Touched(r)
                            THEN EntriesOf(q, w) \cup {Len(transactions[w]) + 1}
                            ELSE EntriesOf(q, w)
<1>1. CASE w \notin Touched(r)
  BY <1>1, CommitHistory DEF EntriesOf
<1>2. CASE w \in Touched(r)
  <2> DEFINE n == Len(transactions[w])
             e == EntryOf(r, w)
  <2>1. e \in Entry /\ transactions'[w] = Append(transactions[w], e) /\ e.req = r
    BY <1>2, CommitHistory, CommitTypes DEF Commit, EntryOf
  <2> HIDE DEF e
  <2>2. /\ DOMAIN transactions'[w] = 1 .. n + 1 /\ n \in Nat /\ DOMAIN transactions[w] = 1 .. n
        /\ \A j \in 1 .. n : transactions'[w][j] = transactions[w][j]
        /\ transactions'[w][n + 1] = e
    BY <2>1 DEF Typed, TypeOK
  <2>. QED
    BY <1>2, <2>1, <2>2 DEF EntriesOf
<1>. QED
  BY <1>1, <1>2

LEMMA PostedFrame ==
  ASSUME NEW q \in Requests, PostedOf(q), pc'[q] = pc[q], call'[q] = call[q],
         outcome'[q] = outcome[q], \A w \in Wallet : EntriesOf(q, w)' = EntriesOf(q, w)
  PROVE  PostedOf(q)'
<1>1. Unposted(q)' <=> Unposted(q)
  BY DEF Unposted
<1>2. PostedOnce(q)' <=> PostedOnce(q)
  BY DEF PostedOnce, Touched
<1>. QED
  BY <1>1, <1>2 DEF PostedOf

LEMMA PostedCommit ==
  ASSUME Typed, PostedAll, NEW r \in Requests, Commit(r)
  PROVE  PostedAll'
<1>1. ASSUME NEW q \in Requests \ {r} PROVE PostedOf(q)'
  BY OthersStay, CommitEntries, PostedFrame DEF PostedAll, Step
<1>2. PostedOf(r)'
  <2>1. /\ pc[r] = "commit" /\ pc'[r] = "refresh" /\ Touched(r)' = Touched(r)
        /\ Touched(r) \subseteq Wallet
    BY DEF Commit, Typed, TypeOK, Touched, ControlOf, LoadedSteps, Has
  <2>2. \A w \in Touched(r) : EntriesOf(r, w) = {}
    BY <2>1 DEF PostedAll, PostedOf, Unposted
  <2>3. \A w \in Touched(r) : EntriesOf(r, w)' = {Len(transactions[w]) + 1}
    BY <2>1, <2>2, CommitEntries
  <2>. QED
    BY <2>1, <2>3 DEF PostedOf, PostedOnce
<1>. QED
  BY <1>1, <1>2 DEF PostedAll

\* How every other step moves its handler: it goes on before the commit, refuses,
\* goes on after the commit or fails there, or ends.
LEMMA PostedMoves ==
  ASSUME Typed, PostedAll, NEW r \in Requests, Submit(r) \/ Step(r) \/ Crash(r), ~ Commit(r)
  PROVE  \/ /\ pc[r] \notin {"refresh", "publish", "publish_recipient", "done", "rollback"}
            /\ pc'[r] \notin {"refresh", "publish", "publish_recipient", "done", "rollback"}
         \/ /\ pc[r] \notin {"refresh", "publish", "publish_recipient", "done", "rollback"}
            /\ pc'[r] = "rollback" /\ outcome'[r] \in Refusals
         \/ /\ pc[r] \in {"refresh", "publish", "publish_recipient"} /\ call'[r] = call[r]
            /\ \/ pc'[r] \in {"publish", "publish_recipient"}
               \/ pc'[r] = "done" /\ outcome'[r] = "ok"
               \/ pc'[r] = "rollback" /\ outcome'[r] = "error"
         \/ /\ pc[r] = "rollback" /\ pc'[r] = "done" /\ outcome'[r] = outcome[r]
            /\ call'[r] = call[r]
         \/ /\ pc[r] \notin {"idle", "done"} /\ pc'[r] = "done" /\ outcome'[r] = "lost"
            /\ call'[r] = call[r]
<1> USE DEF Typed, TypeOK, Proceed, Answer, Refusals
<1>1. CASE Submit(r)
  BY <1>1 DEF Submit
<1>2. CASE Lock(r)
  BY <1>2 DEF Lock, OwnRefusal, FundsRefusal
<1>3. CASE CheckKey(r) \/ GetRate(r)
  BY <1>3 DEF CheckKey, GetRate
<1>4. CASE PeekSender(r) \/ PeekRecipient(r)
  BY <1>4 DEF PeekSender, PeekRecipient, OwnRefusal
<1>5. CASE LockFirst(r) \/ LockSecond(r)
  BY <1>5 DEF LockFirst, LockSecond, FundsRefusal
<1>6. CASE Apply(r) \/ Insert(r)
  BY <1>6 DEF Apply, Insert
<1>7. CASE Refresh(r) \/ Publish(r) \/ PublishRecipient(r)
  BY <1>7, RefreshEffect DEF Publish, PublishRecipient
<1>8. CASE Rollback(r) \/ Crash(r)
  BY <1>8 DEF Rollback, Crash
<1>. QED
  BY <1>1, <1>2, <1>3, <1>4, <1>5, <1>6, <1>7, <1>8 DEF Step

LEMMA PostedNext == Typed /\ PostedAll /\ [Next]_vars => PostedAll'
<1> SUFFICES ASSUME Typed, PostedAll, [Next]_vars PROVE PostedAll'
  OBVIOUS
<1>1. CASE \A r \in Requests : ~ Commit(r)
  <2>1. \A q \in Requests, w \in Wallet : EntriesOf(q, w)' = EntriesOf(q, w)
    BY <1>1, NoPosting DEF EntriesOf
  <2>2. ASSUME NEW r \in Requests, Submit(r) \/ Step(r) \/ Crash(r) PROVE PostedAll'
    <3>1. \A q \in Requests \ {r} : PostedOf(q)'
      BY <2>1, <2>2, OthersStay, PostedFrame DEF PostedAll
    <3>2. PostedOf(r)'
      <4>1. Unposted(r)' <=> Unposted(r)
        BY <2>1 DEF Unposted
      <4>2. call'[r] = call[r] => (PostedOnce(r)' <=> PostedOnce(r))
        BY <2>1 DEF PostedOnce, Touched
      <4>3. PostedOf(r)
        BY DEF PostedAll
      <4>4. "ok" \notin Refusals /\ "lost" \notin Refusals /\ "error" \in Refusals
        BY DEF Refusals
      <4> DEFINE after == {"refresh", "publish", "publish_recipient"}
                 ends == {"rollback", "done"}
      <4>5. CASE /\ pc[r] \notin after \cup ends
                 /\ \/ pc'[r] \notin after \cup ends
                    \/ pc'[r] = "rollback" /\ outcome'[r] \in Refusals
        BY <4>1, <4>3, <4>5 DEF PostedOf
      <4>6. CASE /\ pc[r] \in after /\ call'[r] = call[r]
                 /\ \/ pc'[r] \in {"publish", "publish_recipient"}
                    \/ pc'[r] = "done" /\ outcome'[r] = "ok"
                    \/ pc'[r] = "rollback" /\ outcome'[r] = "error"
        BY <4>2, <4>3, <4>4, <4>6 DEF PostedOf
      <4>7. CASE /\ pc[r] = "rollback" /\ pc'[r] = "done" /\ outcome'[r] = outcome[r]
                 /\ call'[r] = call[r]
        BY <4>1, <4>2, <4>3, <4>4, <4>7 DEF PostedOf
      <4>8. CASE /\ pc[r] \notin {"idle", "done"} /\ pc'[r] = "done" /\ outcome'[r] = "lost"
                 /\ call'[r] = call[r]
        BY <4>1, <4>2, <4>3, <4>4, <4>8 DEF PostedOf
      <4>. QED
        BY <1>1, <2>2, <4>5, <4>6, <4>7, <4>8, PostedMoves
    <3>. QED
      BY <3>1, <3>2 DEF PostedAll
  <2>3. CASE UNCHANGED vars \/ \E w \in Suspendable : Suspend(w)
    <3>1. UNCHANGED <<pc, call, outcome>>
      BY <2>3 DEF vars, Suspend
    <3>. QED
      BY <2>1, <3>1, PostedFrame DEF PostedAll
  <2>. QED
    BY <2>2, <2>3 DEF Next, Terminated
<1>. QED
  BY <1>1, PostedCommit

LEMMA PostedInit == Init => PostedAll
  BY DEF Init, PostedAll, PostedOf, Unposted, EntriesOf

\* The answers are true: after "ok" each wallet of the request has one entry of it,
\* after a refusal none has, and a lost answer or a 500 stands for all or none.
THEOREM AnswersAreTrue == Spec => []AnswerMatchesLedger
<1>1. PostedAll => AnswerMatchesLedger
  <2> SUFFICES ASSUME PostedAll, NEW r \in Requests, pc[r] = "done"
               PROVE  LET posted == {w \in Wallet : Cardinality(EntriesOf(r, w)) = 1}
                          unposted == {w \in Wallet : EntriesOf(r, w) = {}}
                      IN /\ outcome[r] = "ok" => Touched(r) \subseteq posted
                         /\ outcome[r] \in Refusals \ {"error"} =>
                              Touched(r) \cap Wallet \subseteq unposted
                         /\ \/ Touched(r) \subseteq posted
                            \/ Touched(r) \cap Wallet \subseteq unposted
    BY DEF AnswerMatchesLedger
  <2>1. PostedOnce(r) => Touched(r) \subseteq {w \in Wallet : Cardinality(EntriesOf(r, w)) = 1}
    BY FS_Singleton DEF PostedOnce
  <2>2. Unposted(r) => Touched(r) \cap Wallet \subseteq {w \in Wallet : EntriesOf(r, w) = {}}
    BY DEF Unposted
  <2>. QED
    BY <2>1, <2>2 DEF PostedAll, PostedOf
<1>. QED
  BY TypedInit, TypedNext, PostedInit, PostedNext, <1>1, PTL DEF Spec

-----------------------------------------------------------------------------
\* The refinement.

LEMMA SameRounding ==
  ASSUME NEW x
  PROVE  L!Stored(x) = Stored(x)
  BY DEF L!Stored, Stored

LEMMA LedgerStarts == Init => L!LedgerInit
<1> SUFFICES ASSUME Init PROVE L!LedgerInit
  OBVIOUS
<1>1. [w \in Wallet |-> wallets[w].balance] = Opening
  BY WalletAssumption DEF Init
<1>2. {w \in Wallet : wallets[w].status = "active"} = Wallet
  BY DEF Init
<1>. QED
  BY <1>1, <1>2 DEF Init, L!LedgerInit, TransferKeys

\* A request that is about to commit has posted nothing.
LEMMA CommitIsFirst ==
  ASSUME PostedAll, NEW r \in Requests, Commit(r)
  PROVE  ~ L!HasPosted(r)
  BY DEF Commit, PostedAll, PostedOf, Unposted, EntriesOf, L!HasPosted

\* What a commit does to the tables, in the ledger's terms.
LEMMA CommitTables ==
  ASSUME Typed, Funded, NEW r \in Requests, Commit(r)
  PROVE  /\ [w \in Wallet |-> wallets[w].balance]' =
              [w \in Wallet |->
                 IF w \in Touched(r) /\ AmountAt(r, w) # 0
                 THEN Stored(After(r, w)) ELSE wallets[w].balance]
         /\ {w \in Wallet : wallets[w].status = "active"}' =
              {w \in Wallet : wallets[w].status = "active"}
         /\ transactions' = [w \in Wallet |->
              IF w \in Touched(r) THEN Append(transactions[w], EntryOf(r, w))
                                  ELSE transactions[w]]
         /\ transactions' # transactions
<1>1. \A w \in Wallet :
        wallets'[w].balance = (IF w \in Touched(r) /\ AmountAt(r, w) # 0
                               THEN Stored(After(r, w)) ELSE wallets[w].balance)
        /\ wallets'[w].status = wallets[w].status
  <2> SUFFICES ASSUME NEW w \in Wallet
      PROVE  wallets'[w].balance = (IF w \in Touched(r) /\ AmountAt(r, w) # 0
                                    THEN Stored(After(r, w)) ELSE wallets[w].balance)
             /\ wallets'[w].status = wallets[w].status
    OBVIOUS
  <2>1. CASE w \in Touched(r)
    BY <2>1, CommitPosts
  <2>2. CASE w \notin Touched(r)
    BY <2>2, CommitHistory
  <2>. QED
    BY <2>1, <2>2
<1>2. call[r].src \in Wallet /\ call[r].src \in Touched(r)
  BY DEF Commit, Typed, ControlOf, LoadedSteps, Has, Touched
<1>3. transactions'[call[r].src] # transactions[call[r].src]
  BY <1>2, CommitPosts DEF Posts, Typed, TypeOK
<1>. QED
  BY <1>1, <1>3 DEF Commit

\* The commit of a credit or a debit is a posting from the balance of that moment.
LEMMA CommitSingle ==
  ASSUME Typed, Funded, Fresh, Checked, NEW r \in Requests, Commit(r), call[r].op # "transfer"
  PROVE  call[r].src \in Wallet /\ L!PostSingle(r, call[r])
<1> DEFINE c == call[r]
           w == call[r].src
           from == wallets[w].balance
           to == IF c.op = "credit" THEN from + c.amount ELSE from - c.amount
<1>1. /\ c \in Call /\ c.src = c.dst /\ w \in Wallet /\ pc[r] = "commit"
      /\ Touched(r) = {w} /\ c.amount \in Nat \ {0} /\ c.op \in {"credit", "debit"}
  BY CallAssumption DEF Commit, Typed, ControlOf, LoadedSteps, Has, Touched, Call
<1>2. /\ identity_map[r][w] = wallets[w] /\ wallets[w].status = "active"
      /\ converted_amount[r] = c.amount
  BY <1>1 DEF Fresh, FreshOf
<1>3. owner[w] = c.user
  BY <1>1 DEF Checked, CheckedOf, Committing, Converting
<1>4. Before(r, w) = from /\ AmountAt(r, w) = c.amount /\ After(r, w) = to
  BY <1>1, <1>2 DEF Before, AmountAt, After, Loses
<1>5. to \in Nat /\ Stored(to) \in 0 .. MaxBalance
  BY <1>1, <1>4, CommitInRange
<1>6. EntryOf(r, w) = L!Record(r, c.op, c.amount, from, to)
  BY <1>4, SameRounding DEF EntryOf, L!Record
<1>7. [v \in Wallet |-> wallets[v].balance]' =
        [[v \in Wallet |-> wallets[v].balance] EXCEPT ![w] = L!Stored(to)]
  <2>1. [v \in Wallet |-> wallets[v].balance]' =
          [v \in Wallet |-> IF v \in Touched(r) /\ AmountAt(r, v) # 0
                            THEN Stored(After(r, v)) ELSE wallets[v].balance]
    BY CommitTables
  <2>2. \A v \in Wallet : (v \in Touched(r) /\ AmountAt(r, v) # 0) <=> v = w
    BY <1>1, <1>4
  <2>. QED
    BY <1>1, <1>4, <2>1, <2>2, SameRounding
<1>8. transactions' = [transactions EXCEPT
        ![w] = Append(@, L!Record(r, c.op, c.amount, from, to))]
  BY <1>1, <1>6, CommitTables DEF Typed, TypeOK
<1>9. {v \in Wallet : wallets[v].status = "active"}' = {v \in Wallet : wallets[v].status = "active"}
  BY CommitTables
<1>10. TransferKeys' = TransferKeys
  BY DEF Commit, TransferKeys
<1>11. w \in {v \in Wallet : wallets[v].status = "active"}
       /\ [v \in Wallet |-> wallets[v].balance][w] = from
  BY <1>1, <1>2
<1>12. to >= 0 /\ L!Stored(to) <= MaxBalance
  BY <1>5, SameRounding
<1> HIDE DEF to
<1>. QED
  BY <1>1, <1>3, <1>7, <1>8, <1>9, <1>10, <1>11, <1>12 DEF L!PostSingle, to

\* A converted amount that fits into the recipient's column is a column's value.
LEMMA GainFits ==
  ASSUME NEW gain \in Nat, NEW into \in Nat, Stored(into + gain) <= MaxBalance,
         \E n \in Nat : gain = Scale * n
  PROVE  gain \in 0 .. MaxBalance
<1>1. Stored(gain) = gain
  BY StoredUnits
<1>2. Stored(gain) <= Stored(into + gain)
  BY StoredMonotone
<1>3. Stored(into + gain) \in Int
  BY StoredInt
<1>. QED
  BY <1>1, <1>2, <1>3, WalletAssumption

\* The commit of a transfer is a posting from balances its wallets have had.
LEMMA CommitTransfer ==
  ASSUME Typed, Funded, Checked, Recorded, Spent, NEW r \in Requests, Commit(r),
         call[r].op = "transfer"
  PROVE  /\ {call[r].src, call[r].dst} \subseteq Wallet
         /\ \E from \in L!Had(call[r].src), into \in L!Had(call[r].dst), gain \in L!Gains(call[r]) :
              L!PostTransfer(r, call[r], from, into, gain)
<1> DEFINE c == call[r]
           s == call[r].src
           d == call[r].dst
           from == Before(r, s)
           into == Before(r, d)
           gain == converted_amount[r]
<1>1. /\ c \in Call /\ s \in Wallet /\ d \in Wallet /\ s # d /\ pc[r] = "commit"
      /\ Touched(r) = {s, d} /\ c.amount \in Nat \ {0} /\ gain \in Nat
      /\ identity_map[r][s] # None /\ identity_map[r][d] # None
  BY CallAssumption DEF Commit, Typed, TypeOK, ControlOf, LoadedSteps, Has, Touched, Call
<1>2. /\ AmountAt(r, s) = c.amount /\ After(r, s) = from - c.amount
      /\ AmountAt(r, d) = gain /\ After(r, d) = into + gain
  BY <1>1 DEF AmountAt, After, Loses
<1>3. from \in Int /\ into \in Int
  BY <1>1, AmountTypes DEF LoadedSteps
<1>4. /\ from - c.amount \in Nat /\ Stored(from - c.amount) \in 0 .. MaxBalance
      /\ into + gain \in Nat /\ Stored(into + gain) \in 0 .. MaxBalance
  BY <1>1, <1>2, CommitInRange
<1>5. from >= c.amount /\ into >= 0
  BY <1>1 DEF Funded, FundedOf, Writing, Before
<1>6. owner[s] = c.user
  BY <1>1 DEF Checked, CheckedOf, Committing, Converting
<1>7. from \in L!Had(s) /\ into \in L!Had(d)
  BY <1>1 DEF Recorded, Past, Afters, Before, L!Had
<1>8. gain \in L!Gains(c)
  <2>1. IF currency[s] = currency[d] THEN gain = c.amount
        ELSE \E n \in Nat : gain = Scale * n
    BY <1>1 DEF Checked, CheckedOf, Committing, Converting
  <2>2. into \in Nat /\ Stored(into + gain) <= MaxBalance
    BY <1>3, <1>4, <1>5, WalletAssumption
  <2>. QED
    BY <1>1, <2>1, <2>2, GainFits DEF L!Gains
<1>9. c.key \notin TransferKeys
  BY <1>1 DEF Spent, SpentOf, TransferKeys
<1>10. /\ EntryOf(r, s) = L!Record(r, c.op, c.amount, from, from - c.amount)
       /\ EntryOf(r, d) = L!Record(r, c.op, gain, into, into + gain)
  BY <1>2, SameRounding DEF EntryOf, L!Record
<1>11. transactions' = [transactions EXCEPT
         ![s] = Append(@, L!Record(r, c.op, c.amount, from, from - c.amount)),
         ![d] = Append(@, L!Record(r, c.op, gain, into, into + gain))]
  <2>1. transactions' = [w \in Wallet |->
          IF w \in Touched(r) THEN Append(transactions[w], EntryOf(r, w)) ELSE transactions[w]]
    BY CommitTables
  <2>2. transactions = [w \in Wallet |-> transactions[w]]
    BY DEF Typed, TypeOK
  <2> DEFINE e1 == EntryOf(r, s)
             e2 == EntryOf(r, d)
  <2>3. transactions' = [transactions EXCEPT ![s] = Append(@, e1), ![d] = Append(@, e2)]
    BY <1>1, <2>1, <2>2
  <2>. QED
    BY <1>10, <2>3
<1>12. [v \in Wallet |-> wallets[v].balance]' =
         [[v \in Wallet |-> wallets[v].balance] EXCEPT
            ![s] = L!Stored(from - c.amount),
            ![d] = IF gain = 0 THEN [v \in Wallet |-> wallets[v].balance][d]
                               ELSE L!Stored(into + gain)]
  <2>1. [v \in Wallet |-> wallets[v].balance]' =
          [v \in Wallet |-> IF v \in Touched(r) /\ AmountAt(r, v) # 0
                            THEN Stored(After(r, v)) ELSE wallets[v].balance]
    BY CommitTables
  <2>. QED
    BY <1>1, <1>2, <2>1, SameRounding
<1>13. {v \in Wallet : wallets[v].status = "active"}' = {v \in Wallet : wallets[v].status = "active"}
  BY CommitTables
<1>14. TransferKeys' = TransferKeys \cup ({c.key} \ {None})
  <2>1. transfers' = transfers \cup {TransferOf(r)} /\ TransferOf(r).key = c.key
    BY DEF Commit, TransferOf
  <2>. QED
    BY <2>1 DEF TransferKeys
<1>15. L!Stored(from - c.amount) <= MaxBalance /\ L!Stored(into + gain) <= MaxBalance
  BY <1>4, SameRounding
<1>16. L!PostTransfer(r, c, from, into, gain)
  <2> HIDE DEF from, into, gain
  <2>. QED
    BY <1>1, <1>5, <1>6, <1>9, <1>11, <1>12, <1>13, <1>14, <1>15 DEF L!PostTransfer
<1>17. {call[r].src, call[r].dst} \subseteq Wallet
  BY <1>1
<1> HIDE DEF from, into, gain
<1>18. \E f \in L!Had(s), i \in L!Had(d), g \in L!Gains(c) : L!PostTransfer(r, c, f, i, g)
  BY <1>7, <1>8, <1>16 DEF L!PostTransfer
<1>. QED
  BY <1>17, <1>18

Inv == Typed /\ Funded /\ Fresh /\ Spent /\ Checked /\ Recorded /\ PostedAll

\* Every step of the handlers is a step of the ledger or changes nothing in it.
LEMMA LedgerFollows == Inv /\ [Next]_vars => [L!LedgerNext]_(L!ledger)
<1> SUFFICES ASSUME Inv, [Next]_vars PROVE [L!LedgerNext]_(L!ledger)
  OBVIOUS
<1> USE DEF Inv
<1>1. ASSUME NEW r \in Requests, Commit(r) PROVE L!LedgerNext
  <2>1. call[r] \in Calls
    BY <1>1 DEF Commit, Typed, ControlOf
  <2>2. transactions' # transactions
    BY <1>1, CommitTables
  <2>3. L!Post(r, call[r])
    BY <1>1, CommitIsFirst, CommitSingle, CommitTransfer DEF L!Post
  <2>. QED
    BY <2>1, <2>2, <2>3 DEF L!LedgerNext
<1>2. CASE (\A r \in Requests : ~ Commit(r)) /\ wallets' = wallets
  <2>1. transactions' = transactions /\ TransferKeys' = TransferKeys
    BY <1>2, NoPosting DEF TransferKeys
  <2>. QED
    BY <1>2, <2>1 DEF L!ledger
<1>3. ASSUME NEW w \in Suspendable, Suspend(w) PROVE L!LedgerNext
  <2>1. \A v \in Wallet : /\ wallets'[v].balance = wallets[v].balance
                          /\ wallets'[v].status = IF v = w THEN "suspended" ELSE wallets[v].status
    BY <1>3, SuspendEffect
  <2>2. [v \in Wallet |-> wallets[v].balance]' = [v \in Wallet |-> wallets[v].balance]
    BY <2>1
  <2>3. {v \in Wallet : wallets[v].status = "active"}' =
          {v \in Wallet : wallets[v].status = "active"} \ {w}
    BY <2>1
  <2>4. transactions' = transactions /\ TransferKeys' = TransferKeys
    BY <1>3 DEF Suspend, TransferKeys
  <2>5. L!Close(w)
    BY <2>2, <2>3, <2>4 DEF L!Close
  <2>. QED
    BY <2>5 DEF L!LedgerNext
<1>. QED
  BY <1>1, <1>2, <1>3, NoPosting

\* Whatever the handlers interleave, retry, fail and lose, what an observer of the
\* committed tables sees is a behaviour of the abstract ledger.
THEOREM ServiceImplementsLedger == Spec => ImplementsLedger
<1>1. Init => L!LedgerInit
  BY LedgerStarts
<1>2. Inv /\ [Next]_vars => [L!LedgerNext]_(L!ledger)
  BY LedgerFollows
<1>3. Spec => []Inv
  <2>1. Typed /\ Locked /\ Funded /\ Fresh /\ Spent /\ Checked /\ Recorded /\ PostedAll => Inv
    BY DEF Inv
  <2>. QED
    BY <2>1, TypedInit, TypedNext, LockedInit, LockedNext, FundedInit, FundedNext,
       FreshInit, FreshNext, SpentInit, SpentNext, CheckedInit, CheckedNext,
       RecordedInit, RecordedNext, PostedInit, PostedNext, PTL DEF Spec
<1>. QED
  BY <1>1, <1>2, <1>3, PTL DEF Spec, ImplementsLedger, L!LedgerSpec

-----------------------------------------------------------------------------
\* Layer 9: events.

\* Between its commit and its events a handler knows balances that are recorded.
AnnouncedOf(r) ==
  /\ pc[r] \in {"refresh", "publish", "publish_recipient"} /\ call[r].op = "transfer" =>
       \A w \in Touched(r) : Stored(After(r, w)) \in Afters(w)
  /\ pc[r] = "refresh" /\ call[r].op # "transfer" =>
       wallets[call[r].src].balance \in Afters(call[r].src)
  /\ pc[r] = "publish" /\ call[r].op # "transfer" =>
       identity_map[r][call[r].src].balance \in Afters(call[r].src)

Shown(e) == EntriesOf(e.req, e.wallet) # {} /\ Stored(e.balance) \in Afters(e.wallet)

AllShown == \A u \in Users : \A i \in DOMAIN channel[u] : Shown(channel[u][i])

Announced ==
  /\ AllShown
  /\ \A w \in Wallet : \A x \in Afters(w) : Stored(x) = x
  /\ \A r \in Requests : AnnouncedOf(r)

LEMMA AnnouncedCommit ==
  ASSUME Typed, Fresh, Announced, NEW r \in Requests, Commit(r)
  PROVE  Announced'
<1>1. \A w \in Wallet : Afters(w) \subseteq Afters(w)'
  BY CommitHistory
<1>2. \A q \in Requests, w \in Wallet : EntriesOf(q, w) \subseteq EntriesOf(q, w)'
  BY CommitEntries
<1>3. AllShown'
  <2> SUFFICES ASSUME NEW u \in Users, NEW i \in DOMAIN channel'[u]
               PROVE  Shown(channel[u][i])'
    BY DEF AllShown
  <2>1. channel[u][i] \in Event /\ channel' = channel
    BY DEF Typed, TypeOK, Commit
  <2>2. channel[u][i].req \in Requests /\ channel[u][i].wallet \in Wallet
    BY <2>1 DEF Event
  <2>3. Shown(channel[u][i])
    BY <2>1 DEF Announced, AllShown
  <2>. QED
    BY <1>1, <1>2, <2>1, <2>2, <2>3 DEF Shown, Stored
<1>4. \A w \in Wallet : \A x \in Afters(w)' : Stored(x) = x
  <2> SUFFICES ASSUME NEW w \in Wallet, NEW x \in Afters(w)' PROVE Stored(x) = x
    OBVIOUS
  <2>1. CASE x \in Afters(w)
    BY <2>1 DEF Announced
  <2>2. CASE w \in Touched(r) /\ x = Stored(After(r, w))
    <3>1. After(r, w) \in Int
      BY <2>2, AmountTypes DEF Commit, LoadedSteps
    <3>. QED
      BY <2>2, <3>1, StoredTwice
  <2>. QED
    BY <2>1, <2>2, CommitHistory
<1>5. \A q \in Requests \ {r} : AnnouncedOf(q)'
  <2> SUFFICES ASSUME NEW q \in Requests \ {r} PROVE AnnouncedOf(q)'
    OBVIOUS
  <2>1. pc'[q] = pc[q] /\ UNCHANGED <<call, identity_map, converted_amount>>
    BY DEF Commit, Typed, TypeOK
  <2>2. \A w \in Touched(q) : Stored(After(q, w))' = Stored(After(q, w))
    BY <2>1 DEF Touched, Before, After, AmountAt, Loses, Stored
  <2>3. pc[q] \in {"refresh", "publish", "publish_recipient"} => Touched(q) \subseteq Wallet
    BY DEF Typed, ControlOf, LoadedSteps, Has, Touched
  <2>4. \A w \in Wallet : wallets[w].balance \in Afters(w) => wallets'[w].balance \in Afters(w)'
    <3> SUFFICES ASSUME NEW w \in Wallet, wallets[w].balance \in Afters(w)
                 PROVE  wallets'[w].balance \in Afters(w)'
      OBVIOUS
    <3>1. CASE w \in Touched(r)
      <4>1. wallets'[w].balance \in {Stored(After(r, w)), wallets[w].balance}
        BY <3>1, CommitPosts
      <4>. QED
        BY <3>1, <4>1, CommitHistory
    <3>2. CASE w \notin Touched(r)
      BY <3>2, CommitHistory
    <3>. QED
      BY <3>1, <3>2
  <2>5. AnnouncedOf(q)
    BY DEF Announced
  <2>. QED
    BY <1>1, <2>1, <2>2, <2>3, <2>4, <2>5 DEF AnnouncedOf, Touched
<1>6. AnnouncedOf(r)'
  <2>1. /\ UNCHANGED <<call, identity_map, converted_amount>> /\ pc[r] = "commit"
        /\ pc'[r] = "refresh"
        /\ call[r] \in Calls /\ Touched(r) \subseteq Wallet
    BY DEF Commit, Typed, TypeOK, ControlOf, LoadedSteps, Has, Touched
  <2>2. \A w \in Touched(r) : Stored(After(r, w)) \in Afters(w)'
    BY <2>1, CommitHistory
  <2>3. CASE call[r].op = "transfer"
    <3>1. \A w \in Touched(r) : Stored(After(r, w))' = Stored(After(r, w))
      BY <2>1 DEF Touched, Before, After, AmountAt, Loses, Stored
    <3>. QED
      BY <2>1, <2>2, <2>3, <3>1 DEF AnnouncedOf, Touched
  <2>4. CASE call[r].op # "transfer"
    <3> DEFINE w == call[r].src
    <3>1. AmountAt(r, w) # 0 /\ w \in Touched(r)
      BY <2>1, <2>4, CallAssumption DEF Fresh, FreshOf, AmountAt, Touched, Call
    <3>2. wallets'[w].balance = Stored(After(r, w))
      BY <3>1, CommitPosts
    <3>. QED
      BY <2>1, <2>2, <2>4, <3>1, <3>2 DEF AnnouncedOf
  <2>. QED
    BY <2>3, <2>4
<1>. QED
  BY <1>3, <1>4, <1>5, <1>6 DEF Announced

\* An event that is published tells a balance that has been posted.
LEMMA AnnouncedPublish ==
  ASSUME Typed, PostedAll, Announced, NEW r \in Requests, Publish(r) \/ PublishRecipient(r)
  PROVE  \A u \in Users : \A i \in DOMAIN channel'[u] : Shown(channel'[u][i])
<1>1. /\ call[r] \in Call /\ pc[r] \in {"publish", "publish_recipient"}
      /\ call[r].src \in Wallet /\ call[r].dst \in Wallet
      /\ pc[r] = "publish_recipient" => call[r].op = "transfer"
      /\ call[r].user \in Users /\ owner[call[r].dst] \in Users
  BY CallAssumption, WalletAssumption
     DEF Publish, PublishRecipient, Typed, ControlOf, LoadedSteps, Has, TransferSteps, Call
<1>2. \A w \in Touched(r) : EventOf(r, w) \in Event
  BY <1>1, EventType DEF LoadedSteps
<1>3. \A w \in Touched(r) : EntriesOf(r, w) # {}
  BY <1>1 DEF PostedAll, PostedOf, PostedOnce
<1>4. Shown(EventOf(r, call[r].src))
      /\ (call[r].op = "transfer" => Shown(EventOf(r, call[r].dst)))
  <2>1. call[r].src \in Touched(r) /\ call[r].dst \in Touched(r) /\ AnnouncedOf(r)
    BY DEF Touched, Announced
  <2>2. CASE call[r].op = "transfer"
    BY <1>1, <1>3, <2>1, <2>2 DEF AnnouncedOf, Shown, EventOf
  <2>3. CASE call[r].op # "transfer"
    <3>1. identity_map[r][call[r].src].balance \in Afters(call[r].src)
      BY <1>1, <2>1, <2>3 DEF AnnouncedOf
    <3>2. Stored(identity_map[r][call[r].src].balance) = identity_map[r][call[r].src].balance
      BY <1>1, <3>1 DEF Announced
    <3>. QED
      BY <1>3, <2>1, <2>3, <3>1, <3>2 DEF Shown, EventOf, Before
  <2>. QED
    BY <2>2, <2>3
<1>5. PICK v \in Users, w \in Touched(r) :
        /\ Shown(EventOf(r, w))
        /\ channel' \in {channel, [channel EXCEPT ![v] = Append(@, EventOf(r, w))]}
  BY <1>1, <1>4 DEF Publish, PublishRecipient, Touched
<1> DEFINE e == EventOf(r, w)
<1>6. e \in Event
  BY <1>2
<1>7. Shown(e) /\ channel' \in {channel, [channel EXCEPT ![v] = Append(@, e)]}
  BY <1>5
<1> HIDE DEF e
<1> SUFFICES ASSUME NEW u \in Users, NEW i \in DOMAIN channel'[u]
             PROVE  Shown(channel'[u][i])
  OBVIOUS
<1>8. channel[u] \in Seq(Event)
  BY DEF Typed, TypeOK
<1>9. CASE channel'[u] = channel[u]
  BY <1>9 DEF Announced, AllShown
<1>10. CASE channel'[u] = Append(channel[u], e)
  <2>1. /\ DOMAIN channel'[u] = 1 .. Len(channel[u]) + 1 /\ Len(channel[u]) \in Nat
        /\ DOMAIN channel[u] = 1 .. Len(channel[u])
        /\ \A j \in 1 .. Len(channel[u]) : channel'[u][j] = channel[u][j]
        /\ channel'[u][Len(channel[u]) + 1] = e
    BY <1>6, <1>8, <1>10
  <2>2. CASE i \in DOMAIN channel[u]
    BY <2>1, <2>2 DEF Announced, AllShown
  <2>3. CASE i = Len(channel[u]) + 1
    BY <1>7, <2>1, <2>3
  <2>. QED
    BY <2>1, <2>2, <2>3
<1>. QED
  BY <1>7, <1>9, <1>10 DEF Typed, TypeOK

LEMMA AnnouncedNext == Typed /\ Fresh /\ PostedAll /\ Announced /\ [Next]_vars => Announced'
<1> SUFFICES ASSUME Typed, Fresh, PostedAll, Announced, [Next]_vars PROVE Announced'
  OBVIOUS
<1>1. CASE \A r \in Requests : ~ Commit(r)
  <2>1. transactions' = transactions /\ \A w \in Wallet : wallets'[w].balance = wallets[w].balance
    BY <1>1, NoPosting, SuspendEffect
  <2>2. /\ \A w : Afters(w)' = Afters(w)
        /\ \A q, w : EntriesOf(q, w)' = EntriesOf(q, w)
    BY <2>1 DEF Afters, EntriesOf
  <2>3. \A e : Shown(e)' <=> Shown(e)
    BY <2>2 DEF Shown, Stored
  <2>4. \A u \in Users : \A i \in DOMAIN channel'[u] : Shown(channel'[u][i])
    <3>1. CASE channel' = channel
      BY <3>1 DEF Announced, AllShown
    <3>2. CASE \E r \in Requests : Publish(r) \/ PublishRecipient(r)
      BY <3>2, AnnouncedPublish
    <3>3. channel' = channel \/ \E r \in Requests : Publish(r) \/ PublishRecipient(r)
      BY DEF Next, Step, Submit, Crash, Lock, CheckKey, PeekSender, PeekRecipient, GetRate,
             LockFirst, LockSecond, Apply, Insert, Commit, Refresh, Rollback, Suspend,
             Terminated, vars
    <3>. QED
      BY <3>1, <3>2, <3>3
  <2>a. AllShown'
    BY <2>3, <2>4 DEF AllShown, Shown, Stored
  <2>5. ASSUME NEW r \in Requests, Submit(r) \/ Step(r) \/ Crash(r)
        PROVE  \A q \in Requests : AnnouncedOf(q)'
    <3>1. ASSUME NEW q \in Requests, pc'[q] = pc[q], call'[q] = call[q],
                 identity_map'[q] = identity_map[q], converted_amount'[q] = converted_amount[q]
          PROVE  AnnouncedOf(q)'
      <4>1. \A w \in Touched(q) : Stored(After(q, w))' = Stored(After(q, w))
        BY <3>1 DEF Touched, Before, After, AmountAt, Loses, Stored
      <4>2. pc[q] = "refresh" => call[q].src \in Wallet
        BY DEF Typed, ControlOf, LoadedSteps, Has
      <4>3. AnnouncedOf(q)
        BY DEF Announced
      <4>. QED
        BY <2>1, <2>2, <3>1, <4>1, <4>2, <4>3 DEF AnnouncedOf, Touched
    <3>2. \A q \in Requests \ {r} : AnnouncedOf(q)'
      BY <2>5, <3>1, OthersStay
    <3>3. AnnouncedOf(r)'
      <4>1. CASE Refresh(r)
        <5>1. call' = call /\ converted_amount' = converted_amount /\ pc[r] = "refresh"
          BY <4>1, RefreshEffect
        <5>2. Touched(r) \subseteq Wallet /\ call[r].src \in Touched(r)
          BY <5>1 DEF Typed, ControlOf, LoadedSteps, Has, Touched
        <5>3. CASE call[r].op = "transfer"
          <6>1. identity_map' = identity_map
            BY <4>1, <5>3 DEF Refresh
          <6>2. \A w \in Touched(r) : Stored(After(r, w))' = Stored(After(r, w))
            BY <5>1, <6>1 DEF Touched, Before, After, AmountAt, Loses, Stored
          <6>3. pc'[r] \in {"publish", "rollback"}
            BY <4>1, RefreshEffect
          <6>. QED
            BY <2>2, <5>1, <5>3, <6>2, <6>3 DEF Announced, AnnouncedOf, Touched
        <5>4. CASE call[r].op # "transfer" /\ pc'[r] = "rollback"
          BY <5>1, <5>4 DEF AnnouncedOf
        <5>5. CASE call[r].op # "transfer" /\ pc'[r] = "publish"
          <6>1. identity_map'[r][call[r].src] = wallets[call[r].src]
            BY <4>1, <5>2, <5>5 DEF Refresh, Proceed, Typed, TypeOK
          <6>. QED
            BY <2>2, <5>1, <5>5, <6>1 DEF Announced, AnnouncedOf
        <5>. QED
          BY <4>1, <5>3, <5>4, <5>5, RefreshEffect
      <4>2. CASE Publish(r)
        <5>1. CASE pc'[r] = "done"
          BY <5>1 DEF AnnouncedOf
        <5>2. CASE pc'[r] # "done"
          <6>1. /\ pc[r] = "publish" /\ pc'[r] = "publish_recipient" /\ call[r].op = "transfer"
                /\ UNCHANGED <<call, identity_map, converted_amount>>
            BY <4>2, <5>2 DEF Publish, Answer, Typed, TypeOK
          <6>2. \A w \in Touched(r) : Stored(After(r, w))' = Stored(After(r, w))
            BY <6>1 DEF Touched, Before, After, AmountAt, Loses, Stored
          <6>. QED
            BY <2>2, <6>1, <6>2 DEF Announced, AnnouncedOf, Touched
        <5>. QED
          BY <5>1, <5>2
      <4>3. CASE ~ Refresh(r) /\ ~ Publish(r)
        <5>1. pc'[r] \notin {"refresh", "publish", "publish_recipient"}
          BY <1>1, <2>5, <4>3
             DEF Step, Submit, Crash, Lock, CheckKey, PeekSender, PeekRecipient, GetRate,
                 LockFirst, LockSecond, Apply, Insert, PublishRecipient, Rollback, Proceed,
                 Answer, Typed, TypeOK
        <5>. QED
          BY <5>1 DEF AnnouncedOf
      <4>. QED
        BY <4>1, <4>2, <4>3
    <3>. QED
      BY <3>2, <3>3
  <2>6. CASE UNCHANGED vars \/ \E w \in Suspendable : Suspend(w)
    <3>1. UNCHANGED <<pc, call, identity_map, converted_amount>>
      BY <2>6 DEF vars, Suspend
    <3>2. \A q \in Requests : AnnouncedOf(q)'
      <4> SUFFICES ASSUME NEW q \in Requests PROVE AnnouncedOf(q)'
        OBVIOUS
      <4>1. \A w \in Touched(q) : Stored(After(q, w))' = Stored(After(q, w))
        BY <3>1 DEF Touched, Before, After, AmountAt, Loses, Stored
      <4>2. pc[q] = "refresh" => call[q].src \in Wallet
        BY DEF Typed, ControlOf, LoadedSteps, Has
      <4>3. AnnouncedOf(q)
        BY DEF Announced
      <4>. QED
        BY <2>1, <2>2, <3>1, <4>1, <4>2, <4>3 DEF AnnouncedOf, Touched
    <3>. QED
      BY <2>2, <2>a, <3>2 DEF Announced
  <2>. QED
    BY <2>2, <2>a, <2>5, <2>6 DEF Announced, Next, Terminated
<1>. QED
  BY <1>1, AnnouncedCommit

LEMMA AnnouncedInit == Init => Announced
  BY DEF Init, Announced, AllShown, AnnouncedOf, Afters

\* A user is only told of balances that an entry of that wallet has recorded.
THEOREM EventsAreTrue == Spec => []EventsShowPostedBalances
<1>1. Announced => EventsShowPostedBalances
  BY DEF Announced, AllShown, Shown, Afters, EventsShowPostedBalances
<1>. QED
  BY TypedInit, TypedNext, LockedInit, LockedNext, FreshInit, FreshNext, PostedInit,
     PostedNext, AnnouncedInit, AnnouncedNext, <1>1, PTL DEF Spec

-----------------------------------------------------------------------------
\* Layer 10: who overwrites whom.

\* A wallet whose last entry is a credit's or a debit's, or that has none, holds
\* the balance recorded last.
UpToDate(w) ==
  LET n == Len(transactions[w])
  IN (n = 0 \/ transactions[w][n].kind # "transfer") => wallets[w].balance = Previous(w, n + 1)

Chained == OnlyTransfersLoseUpdates /\ \A w \in Wallet : UpToDate(w)

\* A credit or debit commits the balance it records, computed from the committed one.
LEMMA DirectCommit ==
  ASSUME Typed, Fresh, NEW r \in Requests, Commit(r), NEW w \in Touched(r),
         call[r].op # "transfer"
  PROVE  EntryOf(r, w).before = wallets[w].balance /\ wallets'[w].balance = EntryOf(r, w).after
<1>1. pc[r] = "commit" /\ call[r] \in Calls /\ call[r] \in Call
  BY CommitPosts, CallAssumption DEF Typed, ControlOf
<1>2. w = call[r].src
  BY <1>1, CallAssumption DEF Touched
<1>3. identity_map[r][w] = wallets[w] /\ converted_amount[r] = call[r].amount
  BY <1>1, <1>2 DEF Fresh, FreshOf
<1>4. AmountAt(r, w) # 0
  BY <1>1, <1>3 DEF AmountAt, Call
<1>. QED
  BY <1>3, <1>4, CommitPosts DEF EntryOf, Before

LEMMA ChainedCommit ==
  ASSUME Typed, Fresh, Chained, NEW r \in Requests, Commit(r)
  PROVE  Chained'
<1> DEFINE Joined(w, i) == transactions[w][i].before # Previous(w, i) =>
                             \/ transactions[w][i].kind = "transfer"
                             \/ i > 1 /\ transactions[w][i - 1].kind = "transfer"
<1>1. ASSUME NEW w \in Wallet, w \notin Touched(r)
      PROVE  UpToDate(w)' /\ \A i \in DOMAIN transactions'[w] : Joined(w, i)'
  <2>1. transactions'[w] = transactions[w] /\ wallets'[w] = wallets[w]
    BY <1>1, CommitHistory
  <2>. QED
    BY <2>1 DEF Chained, OnlyTransfersLoseUpdates, UpToDate, Previous
<1>2. ASSUME NEW w \in Wallet, w \in Touched(r)
      PROVE  UpToDate(w)' /\ \A i \in DOMAIN transactions'[w] : Joined(w, i)'
  <2> DEFINE n == Len(transactions[w])
             e == EntryOf(r, w)
  <2>1. e \in Entry /\ transactions'[w] = Append(transactions[w], e)
    BY <1>2, CommitHistory, CommitTypes DEF Commit
  <2>2. e.kind = call[r].op
    BY DEF EntryOf
  <2>3. call[r].op # "transfer" =>
          e.before = wallets[w].balance /\ wallets'[w].balance = e.after
    BY <1>2, DirectCommit
  <2> HIDE DEF e
  <2>4. /\ n \in Nat /\ DOMAIN transactions[w] = 1 .. n /\ DOMAIN transactions'[w] = 1 .. n + 1
        /\ Len(transactions'[w]) = n + 1 /\ transactions'[w][n + 1] = e
        /\ \A j \in 1 .. n : transactions'[w][j] = transactions[w][j]
    BY <2>1 DEF Typed, TypeOK
  <2> HIDE DEF n
  <2>5. \A i \in 1 .. n + 1 : Previous(w, i)' = Previous(w, i)
    <3>1. \A i \in 1 .. n + 1 : i # 1 => i - 1 \in 1 .. n
      BY <2>4
    <3>. QED
      BY <2>4, <3>1 DEF Previous
  <2>6. UpToDate(w)'
    <3>1. e.kind # "transfer" => wallets'[w].balance = e.after
      BY <2>2, <2>3
    <3>2. n + 1 # 0 /\ (n + 1) + 1 # 1 /\ (n + 1) + 1 - 1 = n + 1
      BY <2>4
    <3>. QED
      BY <2>4, <3>1, <3>2 DEF UpToDate, Previous
  <2>7. ASSUME NEW i \in 1 .. n + 1 PROVE Joined(w, i)'
    <3>1. CASE i \in 1 .. n
      <4>1. Joined(w, i)
        BY <2>4, <3>1 DEF Chained, OnlyTransfersLoseUpdates
      <4>2. i > 1 => i - 1 \in 1 .. n
        BY <2>4, <3>1
      <4>. QED
        BY <2>4, <2>5, <3>1, <4>1, <4>2
    <3>2. CASE i = n + 1 /\ e.kind # "transfer"
      <4>1. e.before = wallets[w].balance
        BY <2>2, <2>3, <3>2
      <4>2. n = 0 \/ transactions[w][n].kind # "transfer" =>
              wallets[w].balance = Previous(w, n + 1)
        BY DEF Chained, UpToDate, n
      <4>. QED
        BY <2>4, <2>5, <3>2, <4>1, <4>2
    <3>. QED
      BY <2>4, <3>1, <3>2
  <2>. QED
    BY <2>4, <2>6, <2>7
<1>. QED
  BY <1>1, <1>2 DEF Chained, OnlyTransfersLoseUpdates

LEMMA ChainedNext == Typed /\ Fresh /\ Chained /\ [Next]_vars => Chained'
<1> SUFFICES ASSUME Typed, Fresh, Chained, [Next]_vars PROVE Chained'
  OBVIOUS
<1>1. CASE \A r \in Requests : ~ Commit(r)
  <2>1. transactions' = transactions /\ \A w \in Wallet : wallets'[w].balance = wallets[w].balance
    BY <1>1, NoPosting, SuspendEffect
  <2>. QED
    BY <2>1 DEF Chained, OnlyTransfersLoseUpdates, UpToDate, Previous
<1>. QED
  BY <1>1, ChainedCommit

LEMMA ChainedInit == Init => Chained
  BY DEF Init, Chained, OnlyTransfersLoseUpdates, UpToDate, Previous

\* An update is only ever lost to a transfer, or by one: two credits or debits in a
\* row start where the other ended, whatever runs beside them.
THEOREM DirectUpdatesAreNeverLost == Spec => []OnlyTransfersLoseUpdates
<1>1. Chained => OnlyTransfersLoseUpdates
  BY DEF Chained
<1>. QED
  BY TypedInit, TypedNext, LockedInit, LockedNext, FreshInit, FreshNext, ChainedInit,
     ChainedNext, <1>1, PTL DEF Spec

-----------------------------------------------------------------------------
\* What transfers move.

\* No transfer asks for a fraction of a column's unit.
WholeTransfers == \A c \in Calls : c.op = "transfer" => Stored(c.amount) = c.amount

\* Adding or taking whole units leaves whole units.
LEMMA StoredSum ==
  ASSUME NEW x \in Int, NEW y \in Int, Stored(x) = x, Stored(y) = y
  PROVE  Stored(x + y) = x + y /\ Stored(x - y) = x - y
<1> DEFINE p == (2 * x + Scale) \div (2 * Scale)
           q == (2 * y + Scale) \div (2 * Scale)
<1>1. 2 * x + Scale \in Int /\ 2 * y + Scale \in Int /\ 2 * Scale \in Nat \ {0}
  BY ScaleAssumption
<1>2. p \in Int /\ q \in Int /\ x = Scale * p /\ y = Scale * q
  BY <1>1, DivBounds DEF Stored
<1> HIDE DEF p, q
<1>3. x + y = Scale * (p + q) /\ x - y = Scale * (p - q) /\ p + q \in Int /\ p - q \in Int
  BY <1>2, ScaleAssumption
<1>. QED
  BY <1>3, StoredUnits

\* A whole amount inside one currency is taken from, and added to, the balances
\* the session holds, without rounding.
LEMMA TransferMoves ==
  ASSUME WholeTransfers, Typed, Checked, Recorded, Announced, NEW r \in Requests, Commit(r),
         call[r].op = "transfer", currency[call[r].src] = currency[call[r].dst]
  PROVE  /\ wallets'[call[r].src].balance = Before(r, call[r].src) - call[r].amount
         /\ wallets'[call[r].dst].balance = Before(r, call[r].dst) + call[r].amount
<1> DEFINE a == call[r].amount
<1>1. /\ pc[r] = "commit" /\ call[r] \in Calls /\ call[r] \in Call
      /\ call[r].src # call[r].dst /\ Touched(r) \subseteq Wallet
  BY CallAssumption DEF Commit, Typed, ControlOf, LoadedSteps, Has, Touched
<1>2. a \in Nat \ {0} /\ Stored(a) = a /\ converted_amount[r] = a
  BY <1>1 DEF Call, WholeTransfers, Checked, CheckedOf, Converting
<1>3. ASSUME NEW w \in Touched(r)
      PROVE  wallets'[w].balance = IF w = call[r].src THEN Before(r, w) - a ELSE Before(r, w) + a
  <2> DEFINE b == Before(r, w)
  <2>1. b \in Int
    BY <1>1, AmountTypes DEF LoadedSteps
  <2>2. Stored(b) = b
    <3>1. w \in Wallet /\ identity_map[r][w] # None
      BY <1>1 DEF Typed, ControlOf, LoadedSteps, Has, Touched
    <3>2. b \in Past(w)
      BY <3>1 DEF Recorded, Before
    <3>. QED
      BY <3>1, <3>2, WalletAssumption DEF Past, Announced
  <2>3. Stored(b + a) = b + a /\ Stored(b - a) = b - a
    <3>1. a \in Int /\ Stored(a) = a
      BY <1>2
    <3> HIDE DEF a, b
    <3>. QED
      BY <2>1, <2>2, <3>1, StoredSum
  <2>4. AmountAt(r, w) = a /\ After(r, w) = IF w = call[r].src THEN b - a ELSE b + a
    BY <1>2 DEF AmountAt, After, Loses
  <2>5. wallets'[w].balance = Stored(After(r, w))
    BY <1>2, <2>4, CommitPosts
  <2> HIDE DEF b
  <2>. QED
    BY <2>3, <2>4, <2>5 DEF b
<1>. QED
  BY <1>1, <1>3 DEF Touched

\* When no transfer asks for a fraction of a unit, a transfer inside one currency
\* makes and destroys no money but the updates it overwrites, and moves no third
\* wallet.
THEOREM WholeTransfersMoveMoney ==
  ASSUME WholeTransfers
  PROVE  Spec => TransfersMoveMoney
<1> DEFINE Moved == \A t \in transfers' \ transfers :
             /\ Posts(t.src) /\ Posts(t.dst)
             /\ currency[t.src] = currency[t.dst] =>
                  wallets'[t.src].balance + wallets'[t.dst].balance =
                    wallets[t.src].balance + wallets[t.dst].balance
                      - Overwritten(t.src) - Overwritten(t.dst)
             /\ \A w \in Wallet \ {t.src, t.dst} : wallets'[w].balance = wallets[w].balance
<1>1. Typed /\ Checked /\ Recorded /\ Announced /\ [Next]_vars => Moved
  <2> SUFFICES ASSUME Typed, Checked, Recorded, Announced, [Next]_vars,
                      NEW t \in transfers' \ transfers
               PROVE  /\ Posts(t.src) /\ Posts(t.dst)
                      /\ currency[t.src] = currency[t.dst] =>
                           wallets'[t.src].balance + wallets'[t.dst].balance =
                             wallets[t.src].balance + wallets[t.dst].balance
                               - Overwritten(t.src) - Overwritten(t.dst)
                      /\ \A w \in Wallet \ {t.src, t.dst} :
                           wallets'[w].balance = wallets[w].balance
    OBVIOUS
  <2>1. PICK r \in Requests : Commit(r)
    BY NoPosting
  <2>2. /\ call[r].op = "transfer" /\ t.src = call[r].src /\ t.dst = call[r].dst
        /\ Touched(r) = {t.src, t.dst}
    BY <2>1 DEF Commit, TransferOf, Touched
  <2>3. \A w \in {t.src, t.dst} : Posts(w) /\ Posted(w).before = Before(r, w)
    BY <2>1, <2>2, CommitPosts DEF EntryOf
  <2>4. \A w \in Wallet \ {t.src, t.dst} : wallets'[w].balance = wallets[w].balance
    BY <2>1, <2>2, CommitHistory
  <2>5. ASSUME currency[t.src] = currency[t.dst]
        PROVE  wallets'[t.src].balance + wallets'[t.dst].balance =
                 wallets[t.src].balance + wallets[t.dst].balance
                   - Overwritten(t.src) - Overwritten(t.dst)
    <3> DEFINE a == call[r].amount
               b == Before(r, t.src)
               c == Before(r, t.dst)
               x == wallets[t.src].balance
               y == wallets[t.dst].balance
    <3>1. /\ pc[r] = "commit" /\ call[r] \in Call /\ t.src \in Touched(r) /\ t.dst \in Touched(r)
          /\ t.src \in Wallet /\ t.dst \in Wallet
      BY <2>1, <2>2, CommitPosts, AmountTypes DEF Commit, LoadedSteps
    <3>2. a \in Int /\ b \in Int /\ c \in Int /\ x \in Int /\ y \in Int
      <4>1. b \in Int /\ c \in Int
        BY <3>1, AmountTypes DEF LoadedSteps
      <4>2. x \in Int /\ y \in Int
        BY <3>1 DEF Typed, TypeOK, Row
      <4>3. a \in Int
        BY <3>1 DEF Call
      <4>. QED
        BY <4>1, <4>2, <4>3
    <3>3. wallets'[t.src].balance = b - a /\ wallets'[t.dst].balance = c + a
      BY <2>1, <2>2, <2>5, TransferMoves
    <3>4. Overwritten(t.src) = x - b /\ Overwritten(t.dst) = y - c
      BY <2>3 DEF Overwritten
    <3> HIDE DEF a, b, c, x, y
    <3>5. (b - a) + (c + a) = x + y - (x - b) - (y - c)
      BY <3>2
    <3>. QED
      BY <3>3, <3>4, <3>5 DEF x, y
  <2>. QED
    BY <2>2, <2>3, <2>4, <2>5
<1>2. Typed /\ Checked /\ Recorded /\ Announced /\ [Next]_vars => [Moved]_vars
  BY <1>1
<1>3. Spec => [][Moved]_vars
  BY TypedInit, TypedNext, LockedInit, LockedNext, FreshInit, FreshNext, CheckedInit,
     CheckedNext, RecordedInit, RecordedNext, PostedInit, PostedNext, AnnouncedInit,
     AnnouncedNext, <1>2, PTL DEF Spec
<1>. QED
  BY <1>3 DEF TransfersMoveMoney

-----------------------------------------------------------------------------
\* What rounding costs.

LEMMA Remainder ==
  ASSUME NEW n \in Int, NEW d \in Nat \ {0}
  PROVE  n % d = n - d * (n \div d)
  BY SMT

\* HalfEven answers a nearest integer to n/d, and the even one of two.
LEMMA HalfEvenNearest ==
  ASSUME NEW n \in Nat, NEW d \in Nat \ {0}
  PROVE  LET h == HalfEven(n, d)
         IN /\ h \in Int /\ 2 * (d * h - n) <= d /\ 2 * (n - d * h) <= d
            /\ 2 * (d * h - n) = d \/ 2 * (n - d * h) = d => h % 2 = 0
<1> DEFINE q == n \div d
           r == n % d
<1>1. q \in Int /\ d * q <= n /\ n < d * q + d /\ r = n - d * q
  BY DivBounds, Remainder
<1> HIDE DEF q, r
<1>2. d * (q + 1) = d * q + d
  BY <1>1
<1>3. q % 2 \in {0, 1} /\ (q % 2 = 1 => (q + 1) % 2 = 0)
  BY <1>1
<1> DEFINE up == 2 * r > d \/ (2 * r = d /\ q % 2 = 1)
<1>4. HalfEven(n, d) = IF up THEN q + 1 ELSE q
  BY DEF HalfEven, q, r
<1>5. CASE up
  BY <1>1, <1>2, <1>3, <1>4, <1>5
<1>6. CASE ~ up
  BY <1>1, <1>3, <1>4, <1>6
<1>. QED
  BY <1>5, <1>6

\* A conversion loses or makes at most half a unit of the recipient's column,
\* whatever the amount and the rate.
THEOREM ConversionIsNearest ==
  ASSUME NEW amount \in Nat, NEW rate \in Nat
  PROVE  /\ 2 * (RateScale * Converted(amount, rate) - amount * rate) <= RateScale * Scale
         /\ 2 * (amount * rate - RateScale * Converted(amount, rate)) <= RateScale * Scale
<1> DEFINE n == amount * rate
           d == RateScale * Scale
           h == HalfEven(n, d)
<1>1. n \in Nat /\ d \in Nat \ {0}
  BY TimesNat, TimesPos, ScaleAssumption, RateScaleAssumption
<1>2. h \in Int /\ 2 * (d * h - n) <= d /\ 2 * (n - d * h) <= d
  BY <1>1, HalfEvenNearest
<1>3. RateScale * Converted(amount, rate) = d * h
  <2>1. h \in Int /\ Converted(amount, rate) = Scale * h
    BY <1>2 DEF Converted
  <2> HIDE DEF h
  <2>2. RateScale * (Scale * h) = (RateScale * Scale) * h
    BY <2>1, ScaleAssumption, RateScaleAssumption
  <2>. QED
    BY <2>1, <2>2
<1>. QED
  BY <1>2, <1>3
=============================================================================
