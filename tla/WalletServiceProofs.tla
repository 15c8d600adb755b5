------------------------ MODULE WalletServiceProofs ------------------------
(***************************************************************************)
(* Theorems about WalletService for every set of requests, wallets, keys   *)
(* and calls.  The inductive invariant is built in layers, each of which   *)
(* may use the ones before it:                                             *)
(*   Typed   TypeOK, and Control: what a handler has loaded at each step;  *)
(*   Locked  which handler holds which row lock;                           *)
(*   Funded  loaded balances are in range and cover what will be spent;    *)
(*   Spent   who holds a key, and that its key is not spent yet;           *)
(*   Fresh   the row a credit or debit works on is the committed one.      *)
(***************************************************************************)
EXTENDS WalletService, TLAPS

-----------------------------------------------------------------------------
\* Arithmetic.

\* Dividing a natural number by a positive one gives a natural number.
LEMMA DivNat ==
  ASSUME NEW n \in Nat, NEW d \in Nat \ {0}
  PROVE  n \div d \in Nat
  BY SMT

\* The product of two natural numbers is one.
LEMMA TimesNat ==
  ASSUME NEW m \in Nat, NEW n \in Nat
  PROVE  m * n \in Nat
  BY SMT

\* The product of two positive numbers is positive.
LEMMA TimesPos ==
  ASSUME NEW m \in Nat \ {0}, NEW n \in Nat \ {0}
  PROVE  m * n \in Nat \ {0}
  BY SMT

\* A Numeric(18, 8) column keeps an amount that is not negative as one.
LEMMA StoredNat ==
  ASSUME NEW x \in Nat
  PROVE  Stored(x) \in Nat
<1>1. 2 * x + Scale \in Nat /\ 2 * Scale \in Nat \ {0}
  BY ScaleAssumption
<1>2. (2 * x + Scale) \div (2 * Scale) \in Nat
  BY <1>1, DivNat
<1>. QED
  BY <1>2, TimesNat, ScaleAssumption DEF Stored

\* Rounding to an integer does not make a quantity negative.
LEMMA HalfEvenNat ==
  ASSUME NEW n \in Nat, NEW d \in Nat \ {0}
  PROVE  HalfEven(n, d) \in Nat
  BY DivNat DEF HalfEven

\* A conversion never credits a negative amount.
LEMMA ConvertedNat ==
  ASSUME NEW amount \in Nat, NEW rate \in Nat
  PROVE  Converted(amount, rate) \in Nat
<1>1. amount * rate \in Nat /\ RateScale * Scale \in Nat \ {0}
  BY TimesNat, TimesPos, ScaleAssumption, RateScaleAssumption
<1>2. HalfEven(amount * rate, RateScale * Scale) \in Nat
  BY <1>1, HalfEvenNat
<1>. QED
  BY <1>2, TimesNat, ScaleAssumption DEF Converted

-----------------------------------------------------------------------------
\* Layer 1: types, and what a handler has loaded.

\* The steps of transfer, of the other two operations, and of a handler that has
\* loaded every wallet it touches.
TransferSteps == {"check_key", "peek_sender", "peek_recipient", "get_rate", "lock_first",
                  "lock_second", "insert", "publish_recipient"}
LoadedSteps == {"get_rate", "lock_first", "lock_second", "apply", "insert", "commit",
                "refresh", "publish", "publish_recipient"}

Has(r, w) == w \in Wallet /\ identity_map[r][w] # None

ControlOf(r) ==
  /\ pc[r] # "idle" => call[r] \in Calls
  /\ pc[r] \in TransferSteps => call[r].op = "transfer"
  /\ pc[r] = "lock" => call[r].op # "transfer"
  /\ pc[r] \in LoadedSteps \cup {"peek_recipient"} => Has(r, call[r].src)
  /\ pc[r] \in LoadedSteps => Has(r, call[r].dst)
  /\ pc[r] \in LoadedSteps /\ call[r].op = "transfer" => call[r].src # call[r].dst
  /\ pc[r] = "peek_recipient" => call[r].src # call[r].dst

Typed == TypeOK /\ \A r \in Requests : ControlOf(r)

\* A committed row is a row.
LEMMA LoadedIsRow ==
  ASSUME TypeOK, NEW r \in Requests, NEW w \in Wallet
  PROVE  Loaded(r, w) \in Row
  BY DEF TypeOK, Loaded

\* Loading a wallet changes nothing but this handler's copy of that wallet.
LEMMA LoadEffect ==
  ASSUME TypeOK, NEW r \in Requests, NEW w \in Wallet, Load(r, w)
  PROVE  /\ identity_map' \in [Requests -> [Wallet -> Row \cup {None}]]
         /\ identity_map'[r][w] = Loaded(r, w) /\ identity_map'[r][w] # None
         /\ \A v \in Wallet \ {w} : identity_map'[r][v] = identity_map[r][v]
         /\ \A q \in Requests \ {r} : identity_map'[q] = identity_map[q]
<1>1. Loaded(r, w) \in Row
  BY LoadedIsRow
<1>2. identity_map \in [Requests -> [Wallet -> Row \cup {None}]]
  BY DEF TypeOK
<1>. QED
  BY <1>1, <1>2, NullAssumption DEF Load

\* Going on or raising moves one handler's pc and sets its outcome.
LEMMA ProceedEffect ==
  ASSUME TypeOK, NEW r \in Requests, NEW refusal \in Refusals \cup {"none"},
         NEW next \in PC, Proceed(r, refusal, next)
  PROVE  /\ pc' \in [Requests -> PC] /\ outcome' \in [Requests -> Outcomes]
         /\ pc'[r] = IF refusal = "none" THEN next ELSE "rollback"
         /\ outcome'[r] = refusal
         /\ \A q \in Requests \ {r} : pc'[q] = pc[q] /\ outcome'[q] = outcome[q]
<1>1. "rollback" \in PC /\ refusal \in Outcomes
  BY DEF PC, Outcomes
<1>2. pc \in [Requests -> PC] /\ outcome \in [Requests -> Outcomes]
  BY DEF TypeOK
<1>. QED
  BY <1>1, <1>2 DEF Proceed

\* Answering ends one handler and empties its session.
LEMMA AnswerEffect ==
  ASSUME TypeOK, NEW r \in Requests, NEW code \in Outcomes, Answer(r, code)
  PROVE  /\ pc' \in [Requests -> PC] /\ outcome' \in [Requests -> Outcomes]
         /\ identity_map' \in [Requests -> [Wallet -> Row \cup {None}]]
         /\ pc'[r] = "done" /\ outcome'[r] = code
         /\ \A q \in Requests \ {r} : /\ pc'[q] = pc[q] /\ outcome'[q] = outcome[q]
                                      /\ identity_map'[q] = identity_map[q]
<1>1. "done" \in PC
  BY DEF PC
<1>2. /\ pc \in [Requests -> PC] /\ outcome \in [Requests -> Outcomes]
      /\ identity_map \in [Requests -> [Wallet -> Row \cup {None}]]
  BY DEF TypeOK
<1>. QED
  BY <1>1, <1>2 DEF Answer, Forget

\* The balance a loaded handler assigns is an integer, its amounts are natural.
LEMMA AmountTypes ==
  ASSUME Typed, NEW r \in Requests, pc[r] \in LoadedSteps, NEW w \in Touched(r)
  PROVE  /\ w \in Wallet /\ identity_map[r][w] \in Row
         /\ Before(r, w) \in Int /\ AmountAt(r, w) \in Nat /\ After(r, w) \in Int
         /\ call[r] \in Call
<1>1. call[r] \in Calls /\ call[r] \in Call
  BY CallAssumption DEF Typed, ControlOf, LoadedSteps
<1>2. w \in Wallet /\ identity_map[r][w] \in Row
  BY DEF Typed, ControlOf, Has, Touched, TypeOK
<1>3. call[r].amount \in Nat /\ converted_amount[r] \in Nat
  BY <1>1 DEF Call, Typed, TypeOK
<1>4. Before(r, w) \in Int /\ AmountAt(r, w) \in Nat
  BY <1>2, <1>3 DEF Before, AmountAt, Row
<1>. QED
  BY <1>1, <1>2, <1>4 DEF After

\* Rounding into a column gives an integer.
LEMMA StoredInt ==
  ASSUME NEW x \in Int
  PROVE  Stored(x) \in Int
  BY ScaleAssumption DEF Stored

\* A handler that is left alone stays under control.
LEMMA ControlFrame ==
  ASSUME NEW q, ControlOf(q), pc'[q] = pc[q], call'[q] = call[q],
         identity_map'[q] = identity_map[q]
  PROVE  ControlOf(q)'
  BY DEF ControlOf, Has

LEMMA TypedInit == Init => Typed
<1> SUFFICES ASSUME Init PROVE Typed
  OBVIOUS
<1>1. wallets \in [Wallet -> Row]
  BY WalletAssumption DEF Init, Row, Status
<1>2. TypeOK
  BY <1>1 DEF Init, TypeOK, PC, Outcomes
<1>. QED
  BY <1>2 DEF Init, Typed, ControlOf, TransferSteps, LoadedSteps

LEMMA TypedSubmit ==
  ASSUME Typed, NEW r \in Requests, Submit(r)
  PROVE  Typed'
<1>1. PICK c \in Calls :
        /\ call' = [call EXCEPT ![r] = c]
        /\ converted_amount' = [converted_amount EXCEPT ![r] = c.amount]
        /\ pc' = [pc EXCEPT ![r] = IF c.op = "transfer" THEN "check_key" ELSE "lock"]
  BY DEF Submit
<1>2. c \in Call /\ c.amount \in Nat
  BY CallAssumption DEF Call
<1>3. TypeOK'
  BY <1>1, <1>2 DEF Typed, TypeOK, Submit, db, locks, PC
<1>4. ControlOf(r)'
  BY <1>1 DEF Typed, TypeOK, ControlOf, TransferSteps, LoadedSteps
<1>5. \A q \in Requests \ {r} : ControlOf(q)'
  BY <1>1, ControlFrame DEF Typed, TypeOK, Submit
<1>. QED
  BY <1>3, <1>4, <1>5 DEF Typed

LEMMA TypedLock ==
  ASSUME Typed, NEW r \in Requests, Lock(r)
  PROVE  Typed'
<1> DEFINE w == call[r].src
           row == Loaded(r, w)
           verdict == IF OwnRefusal(r, row) = "none" THEN FundsRefusal(r, row)
                                                     ELSE OwnRefusal(r, row)
<1>1. call[r] \in Calls /\ call[r].op # "transfer" /\ call[r].src = call[r].dst
  BY CallAssumption DEF Lock, Typed, ControlOf
<1>2. verdict \in Refusals \cup {"none"}
  BY DEF OwnRefusal, FundsRefusal, Refusals
<1>3. "apply" \in PC /\ "not_found" \in Refusals
  BY DEF PC, Refusals
<1>4. CASE w \notin Wallet
  <2>1. Proceed(r, "not_found", "apply") /\ UNCHANGED <<row_lock, identity_map>>
    BY <1>4 DEF Lock
  <2>2. TypeOK'
    BY <1>3, <2>1, ProceedEffect DEF Lock, Typed, TypeOK, db
  <2>3. ControlOf(r)'
    BY <1>1, <1>3, <2>1, ProceedEffect
       DEF Lock, Typed, ControlOf, TransferSteps, LoadedSteps
  <2>4. \A q \in Requests \ {r} : ControlOf(q)'
    BY <1>3, <2>1, ProceedEffect, ControlFrame DEF Lock, Typed
  <2>. QED
    BY <2>2, <2>3, <2>4 DEF Typed
<1>5. CASE w \in Wallet
  <2>1. /\ row_lock' = [row_lock EXCEPT ![w] = r]
        /\ Load(r, w) /\ Proceed(r, verdict, "apply")
    BY <1>5 DEF Lock
  <2>2. TypeOK'
    BY <1>2, <1>3, <1>5, <2>1, ProceedEffect, LoadEffect DEF Lock, Typed, TypeOK, db
  <2>3. pc'[r] \in {"apply", "rollback"} /\ call' = call
    BY <1>2, <1>3, <2>1, ProceedEffect DEF Lock, Typed
  <2>4. Has(r, w)'
    BY <1>5, <2>1, <2>3, LoadEffect DEF Typed, Has
  <2>5. ControlOf(r)'
    BY <1>1, <2>3, <2>4 DEF ControlOf, TransferSteps, LoadedSteps
  <2>6. \A q \in Requests \ {r} : ControlOf(q)'
    <3>1. \A q \in Requests \ {r} : pc'[q] = pc[q] /\ identity_map'[q] = identity_map[q]
      BY <1>2, <1>3, <1>5, <2>1, ProceedEffect, LoadEffect DEF Typed
    <3>. QED
      BY <2>3, <3>1, ControlFrame DEF Typed
  <2>. QED
    BY <2>2, <2>5, <2>6 DEF Typed
<1>. QED
  BY <1>4, <1>5

LEMMA TypedCheckKey ==
  ASSUME Typed, NEW r \in Requests, CheckKey(r)
  PROVE  Typed'
<1> DEFINE refusal == IF call[r].key \in idempotency_keys \ {EmptyKey}
                      THEN "duplicate" ELSE "none"
<1>1. refusal \in Refusals \cup {"none"} /\ "peek_sender" \in PC
  BY DEF Refusals, PC
<1>2. Proceed(r, refusal, "peek_sender")
  BY DEF CheckKey
<1>3. TypeOK'
  BY <1>1, <1>2, ProceedEffect DEF CheckKey, Typed, TypeOK, db, locks
<1>4. pc'[r] \in {"peek_sender", "rollback"}
  BY <1>1, <1>2, ProceedEffect DEF Typed
<1>5. ControlOf(r)'
  BY <1>4 DEF CheckKey, Typed, ControlOf, TransferSteps, LoadedSteps
<1>6. \A q \in Requests \ {r} : ControlOf(q)'
  BY <1>1, <1>2, ProceedEffect, ControlFrame DEF CheckKey, Typed
<1>. QED
  BY <1>3, <1>5, <1>6 DEF Typed

LEMMA TypedPeekSender ==
  ASSUME Typed, NEW r \in Requests, PeekSender(r)
  PROVE  Typed'
<1> DEFINE w == call[r].src
           own == OwnRefusal(r, Loaded(r, w))
           same == IF w = call[r].dst THEN "conflict" ELSE "none"
           verdict == IF own = "none" THEN same ELSE own
<1>1. call[r] \in Calls /\ call[r].op = "transfer"
  BY DEF PeekSender, Typed, ControlOf, TransferSteps
<1>2. verdict \in Refusals \cup {"none"}
  BY DEF OwnRefusal, Refusals
<1>3. "peek_recipient" \in PC /\ "not_found" \in Refusals
  BY DEF PC, Refusals
<1>4. CASE w \notin Wallet
  <2>1. Proceed(r, "not_found", "peek_recipient") /\ UNCHANGED identity_map
    BY <1>4 DEF PeekSender
  <2>2. TypeOK'
    BY <1>3, <2>1, ProceedEffect DEF PeekSender, Typed, TypeOK, db, locks
  <2>3. ControlOf(r)'
    BY <1>1, <1>3, <2>1, ProceedEffect
       DEF PeekSender, Typed, ControlOf, TransferSteps, LoadedSteps
  <2>4. \A q \in Requests \ {r} : ControlOf(q)'
    BY <1>3, <2>1, ProceedEffect, ControlFrame DEF PeekSender, Typed
  <2>. QED
    BY <2>2, <2>3, <2>4 DEF Typed
<1>5. CASE w \in Wallet
  <2>1. Load(r, w) /\ Proceed(r, verdict, "peek_recipient")
    BY <1>5 DEF PeekSender
  <2>2. TypeOK'
    BY <1>2, <1>3, <1>5, <2>1, ProceedEffect, LoadEffect
       DEF PeekSender, Typed, TypeOK, db, locks
  <2>3. /\ pc'[r] \in {"peek_recipient", "rollback"} /\ call' = call
        /\ pc'[r] = "peek_recipient" => call[r].src # call[r].dst
    BY <1>2, <1>3, <2>1, ProceedEffect DEF PeekSender, Typed
  <2>4. Has(r, w)'
    BY <1>5, <2>1, <2>3, LoadEffect DEF Typed, Has
  <2>5. ControlOf(r)'
    BY <1>1, <2>3, <2>4 DEF ControlOf, TransferSteps, LoadedSteps
  <2>6. \A q \in Requests \ {r} : ControlOf(q)'
    <3>1. \A q \in Requests \ {r} : pc'[q] = pc[q] /\ identity_map'[q] = identity_map[q]
      BY <1>2, <1>3, <1>5, <2>1, ProceedEffect, LoadEffect DEF Typed
    <3>. QED
      BY <2>3, <3>1, ControlFrame DEF Typed
  <2>. QED
    BY <2>2, <2>5, <2>6 DEF Typed
<1>. QED
  BY <1>4, <1>5

LEMMA TypedPeekRecipient ==
  ASSUME Typed, NEW r \in Requests, PeekRecipient(r)
  PROVE  Typed'
<1> DEFINE w == call[r].dst
           next == IF currency[call[r].src] = currency[w] THEN "lock_first" ELSE "get_rate"
           verdict == IF Loaded(r, w).status = "active" THEN "none" ELSE "suspended"
<1>1. /\ call[r] \in Calls /\ call[r].op = "transfer"
      /\ Has(r, call[r].src) /\ call[r].src # call[r].dst
  BY DEF PeekRecipient, Typed, ControlOf, TransferSteps
<1>2. verdict \in Refusals \cup {"none"} /\ "not_found" \in Refusals
  BY DEF Refusals
<1>3. next \in PC
  BY DEF PC
<1>4. CASE w \notin Wallet
  <2>1. Proceed(r, "not_found", next) /\ UNCHANGED identity_map
    BY <1>4 DEF PeekRecipient
  <2>2. TypeOK'
    BY <1>2, <1>3, <2>1, ProceedEffect DEF PeekRecipient, Typed, TypeOK, db, locks
  <2>3. pc'[r] = "rollback" /\ call' = call
    BY <1>2, <1>3, <2>1, ProceedEffect DEF PeekRecipient, Typed
  <2>4. ControlOf(r)'
    BY <1>1, <2>3 DEF ControlOf, TransferSteps, LoadedSteps
  <2>5. \A q \in Requests \ {r} : ControlOf(q)'
    BY <1>2, <1>3, <2>1, ProceedEffect, ControlFrame DEF PeekRecipient, Typed
  <2>. QED
    BY <2>2, <2>4, <2>5 DEF Typed
<1>5. CASE w \in Wallet
  <2>1. Load(r, w) /\ Proceed(r, verdict, next)
    BY <1>5 DEF PeekRecipient
  <2>2. TypeOK'
    BY <1>2, <1>3, <1>5, <2>1, ProceedEffect, LoadEffect
       DEF PeekRecipient, Typed, TypeOK, db, locks
  <2>3. pc'[r] \in {"lock_first", "get_rate", "rollback"} /\ call' = call
    BY <1>2, <1>3, <2>1, ProceedEffect DEF PeekRecipient, Typed
  <2>4. Has(r, w)' /\ Has(r, call[r].src)'
    BY <1>1, <1>5, <2>1, <2>3, LoadEffect DEF Typed, Has
  <2>5. ControlOf(r)'
    BY <1>1, <2>3, <2>4 DEF ControlOf, TransferSteps, LoadedSteps
  <2>6. \A q \in Requests \ {r} : ControlOf(q)'
    <3>1. \A q \in Requests \ {r} : pc'[q] = pc[q] /\ identity_map'[q] = identity_map[q]
      BY <1>2, <1>3, <1>5, <2>1, ProceedEffect, LoadEffect DEF Typed
    <3>. QED
      BY <2>3, <3>1, ControlFrame DEF Typed
  <2>. QED
    BY <2>2, <2>5, <2>6 DEF Typed
<1>. QED
  BY <1>4, <1>5

LEMMA TypedGetRate ==
  ASSUME Typed, NEW r \in Requests, GetRate(r)
  PROVE  Typed'
<1>1. /\ call[r] \in Calls /\ call[r].op = "transfer" /\ call[r].amount \in Nat
      /\ Has(r, call[r].src) /\ Has(r, call[r].dst) /\ call[r].src # call[r].dst
  BY CallAssumption DEF GetRate, Typed, ControlOf, TransferSteps, LoadedSteps, Call
<1>2. "rate_unavailable" \in Refusals /\ "lock_first" \in PC
  BY DEF Refusals, PC
<1>3. PICK refusal \in Refusals \cup {"none"} : Proceed(r, refusal, "lock_first")
  BY <1>2 DEF GetRate
<1>4. converted_amount' \in [Requests -> Nat]
  <2>1. CASE UNCHANGED converted_amount
    BY <2>1 DEF Typed, TypeOK
  <2>2. CASE \E rate \in Rates :
          converted_amount' =
            [converted_amount EXCEPT ![r] = Converted(call[r].amount, rate)]
    <3>1. PICK rate \in Rates : converted_amount' =
            [converted_amount EXCEPT ![r] = Converted(call[r].amount, rate)]
      BY <2>2
    <3>2. Converted(call[r].amount, rate) \in Nat
      BY <1>1, RatesAssumption, ConvertedNat
    <3>. QED
      BY <3>1, <3>2 DEF Typed, TypeOK
  <2>. QED
    BY <2>1, <2>2 DEF GetRate
<1>5. TypeOK'
  BY <1>2, <1>3, <1>4, ProceedEffect DEF GetRate, Typed, TypeOK, db, locks
<1>6. pc'[r] \in {"lock_first", "rollback"} /\ call' = call /\ identity_map' = identity_map
  BY <1>2, <1>3, ProceedEffect DEF GetRate, Typed
<1>7. ControlOf(r)'
  BY <1>1, <1>6 DEF ControlOf, Has, TransferSteps, LoadedSteps
<1>8. \A q \in Requests \ {r} : ControlOf(q)'
  BY <1>2, <1>3, <1>6, ProceedEffect, ControlFrame DEF Typed
<1>. QED
  BY <1>5, <1>7, <1>8 DEF Typed

\* First and Second are the two wallets of a transfer.
LEMMA LockOrder ==
  ASSUME Typed, NEW r \in Requests, pc[r] \in LoadedSteps
  PROVE  /\ First(r) \in Wallet /\ Second(r) \in Wallet
         /\ Touched(r) = {First(r), Second(r)}
         /\ call[r].op = "transfer" => First(r) < Second(r)
<1>1. /\ call[r].src \in Wallet /\ call[r].dst \in Wallet
      /\ call[r].op = "transfer" => call[r].src # call[r].dst
  BY DEF Typed, ControlOf, Has
<1>2. call[r].src \in Nat /\ call[r].dst \in Nat
  BY <1>1, WalletAssumption
<1>. QED
  BY <1>1, <1>2 DEF First, Second, Touched

LEMMA TypedLockFirst ==
  ASSUME Typed, NEW r \in Requests, LockFirst(r)
  PROVE  Typed'
<1>1. /\ call[r] \in Calls /\ call[r].op = "transfer"
      /\ Has(r, call[r].src) /\ Has(r, call[r].dst) /\ call[r].src # call[r].dst
  BY DEF LockFirst, Typed, ControlOf, TransferSteps, LoadedSteps
<1>2. First(r) \in Wallet
  BY LockOrder DEF LockFirst, LoadedSteps
<1>3. "none" \in Refusals \cup {"none"} /\ "lock_second" \in PC
  BY DEF PC
<1>4. Load(r, First(r)) /\ Proceed(r, "none", "lock_second") /\ call' = call
  BY DEF LockFirst
<1>5. TypeOK'
  BY <1>2, <1>3, <1>4, ProceedEffect, LoadEffect DEF LockFirst, Typed, TypeOK, db
<1>6. pc'[r] = "lock_second"
  BY <1>3, <1>4, ProceedEffect DEF Typed
<1>7. Has(r, call[r].src)' /\ Has(r, call[r].dst)'
  BY <1>1, <1>2, <1>4, LoadEffect DEF Typed, Has
<1>8. ControlOf(r)'
  BY <1>1, <1>4, <1>6, <1>7 DEF ControlOf, TransferSteps, LoadedSteps
<1>9. \A q \in Requests \ {r} : pc'[q] = pc[q] /\ identity_map'[q] = identity_map[q]
  BY <1>2, <1>3, <1>4, ProceedEffect, LoadEffect DEF Typed
<1>10. \A q \in Requests \ {r} : ControlOf(q)'
  BY <1>4, <1>9, ControlFrame DEF Typed
<1>. QED
  BY <1>5, <1>8, <1>10 DEF Typed

LEMMA TypedLockSecond ==
  ASSUME Typed, NEW r \in Requests, LockSecond(r)
  PROVE  Typed'
<1> DEFINE verdict == FundsRefusal(r, Loaded(r, call[r].src))
<1>1. /\ call[r] \in Calls /\ call[r].op = "transfer"
      /\ Has(r, call[r].src) /\ Has(r, call[r].dst) /\ call[r].src # call[r].dst
  BY DEF LockSecond, Typed, ControlOf, TransferSteps, LoadedSteps
<1>2. Second(r) \in Wallet
  BY LockOrder DEF LockSecond, LoadedSteps
<1>3. verdict \in Refusals \cup {"none"} /\ "apply" \in PC
  BY DEF FundsRefusal, Refusals, PC
<1>4. Load(r, Second(r)) /\ Proceed(r, verdict, "apply") /\ call' = call
  BY DEF LockSecond
<1>5. TypeOK'
  BY <1>2, <1>3, <1>4, ProceedEffect, LoadEffect DEF LockSecond, Typed, TypeOK, db
<1>6. pc'[r] \in {"apply", "rollback"}
  BY <1>3, <1>4, ProceedEffect DEF Typed
<1>7. Has(r, call[r].src)' /\ Has(r, call[r].dst)'
  BY <1>1, <1>2, <1>4, LoadEffect DEF Typed, Has
<1>8. ControlOf(r)'
  BY <1>1, <1>4, <1>6, <1>7 DEF ControlOf, TransferSteps, LoadedSteps
<1>9. \A q \in Requests \ {r} : pc'[q] = pc[q] /\ identity_map'[q] = identity_map[q]
  BY <1>2, <1>3, <1>4, ProceedEffect, LoadEffect DEF Typed
<1>10. \A q \in Requests \ {r} : ControlOf(q)'
  BY <1>4, <1>9, ControlFrame DEF Typed
<1>. QED
  BY <1>5, <1>8, <1>10 DEF Typed

LEMMA TypedApply ==
  ASSUME Typed, NEW r \in Requests, Apply(r)
  PROVE  Typed'
<1> DEFINE overflow == \E w \in Touched(r) : Stored(After(r, w)) > MaxBalance
           next == IF call[r].op = "transfer" THEN "insert" ELSE "commit"
<1>1. /\ call[r] \in Calls
      /\ Has(r, call[r].src) /\ Has(r, call[r].dst)
      /\ call[r].op = "transfer" => call[r].src # call[r].dst
  BY DEF Apply, Typed, ControlOf, LoadedSteps
<1>2. PICK refusal \in {"none", "error"} : Proceed(r, refusal, next)
  BY DEF Apply
<1>3. refusal \in Refusals \cup {"none"} /\ next \in PC
  BY DEF Refusals, PC
<1>4. TypeOK'
  BY <1>2, <1>3, ProceedEffect DEF Apply, Typed, TypeOK, db, locks
<1>5. /\ pc'[r] \in {next, "rollback"}
      /\ call' = call /\ identity_map' = identity_map
      /\ \A q \in Requests \ {r} : pc'[q] = pc[q]
  BY <1>2, <1>3, ProceedEffect DEF Apply, Typed
<1>6. ControlOf(r)'
  BY <1>1, <1>5 DEF ControlOf, Has, TransferSteps, LoadedSteps
<1>7. \A q \in Requests \ {r} : ControlOf(q)'
  BY <1>5, ControlFrame DEF Typed
<1>. QED
  BY <1>4, <1>6, <1>7 DEF Typed

LEMMA TypedInsert ==
  ASSUME Typed, NEW r \in Requests, Insert(r)
  PROVE  Typed'
<1>1. /\ call[r] \in Calls /\ call[r].op = "transfer" /\ call[r] \in Call
      /\ Has(r, call[r].src) /\ Has(r, call[r].dst) /\ call[r].src # call[r].dst
  BY CallAssumption DEF Insert, Typed, ControlOf, TransferSteps, LoadedSteps
<1>2. PICK refusal \in {"none", "error"} : Proceed(r, refusal, "commit")
  BY DEF Insert
<1>3. refusal \in Refusals \cup {"none"} /\ "commit" \in PC
  BY DEF Refusals, PC
<1>4. key_lock' \in [Keys -> Requests \cup {None}]
  BY <1>1 DEF Insert, Typed, TypeOK, Call
<1>5. TypeOK'
  BY <1>2, <1>3, <1>4, ProceedEffect DEF Insert, Typed, TypeOK, db
<1>6. /\ pc'[r] \in {"commit", "rollback"}
      /\ call' = call /\ identity_map' = identity_map
      /\ \A q \in Requests \ {r} : pc'[q] = pc[q]
  BY <1>2, <1>3, ProceedEffect DEF Insert, Typed
<1>7. ControlOf(r)'
  BY <1>1, <1>6 DEF ControlOf, Has, TransferSteps, LoadedSteps
<1>8. \A q \in Requests \ {r} : ControlOf(q)'
  BY <1>6, ControlFrame DEF Typed
<1>. QED
  BY <1>5, <1>7, <1>8 DEF Typed

\* What a handler at its commit writes is an entry and, for a transfer, a transfer.
LEMMA CommitTypes ==
  ASSUME Typed, NEW r \in Requests, pc[r] = "commit"
  PROVE  /\ \A w \in Touched(r) : EntryOf(r, w) \in Entry /\ Stored(After(r, w)) \in Int
         /\ call[r].op = "transfer" => TransferOf(r) \in Transfer
<1>1. /\ call[r] \in Call /\ call[r].src \in Wallet /\ call[r].dst \in Wallet
      /\ converted_amount[r] \in Nat
  BY CallAssumption DEF Typed, TypeOK, ControlOf, LoadedSteps, Has
<1>2. ASSUME NEW w \in Touched(r)
      PROVE  EntryOf(r, w) \in Entry /\ Stored(After(r, w)) \in Int
  <2>1. Before(r, w) \in Int /\ AmountAt(r, w) \in Nat /\ After(r, w) \in Int
    BY AmountTypes DEF LoadedSteps
  <2>2. Stored(AmountAt(r, w)) \in Nat /\ Stored(After(r, w)) \in Int
    BY <2>1, StoredNat, StoredInt
  <2>3. call[r].op \in {"credit", "debit", "transfer"}
    BY <1>1 DEF Call
  <2>. QED
    BY <2>1, <2>2, <2>3 DEF EntryOf, Entry
<1>3. Stored(call[r].amount) \in Nat /\ call[r].key \in Keys \cup {None}
  BY <1>1, StoredNat DEF Call
<1>. QED
  BY <1>1, <1>2, <1>3 DEF TransferOf, Transfer

\* Releasing locks leaves a lock table.
LEMMA UnlockedTypes ==
  ASSUME TypeOK, NEW r \in Requests, Unlocked(r)
  PROVE  /\ row_lock' \in [Wallet -> Requests \cup {None}]
         /\ key_lock' \in [Keys -> Requests \cup {None}]
  BY DEF TypeOK, Unlocked

LEMMA TypedCommit ==
  ASSUME Typed, NEW r \in Requests, Commit(r)
  PROVE  Typed'
<1>1. /\ call[r] \in Calls /\ call[r] \in Call
      /\ Has(r, call[r].src) /\ Has(r, call[r].dst)
      /\ call[r].op = "transfer" => call[r].src # call[r].dst
  BY CallAssumption DEF Commit, Typed, ControlOf, LoadedSteps
<1>2. wallets' \in [Wallet -> Row]
  BY CommitTypes DEF Commit, Typed, TypeOK, Row
<1>3. transactions' \in [Wallet -> Seq(Entry)]
  <2>1. ASSUME NEW w \in Wallet
        PROVE  (IF w \in Touched(r) THEN Append(transactions[w], EntryOf(r, w))
                ELSE transactions[w]) \in Seq(Entry)
    BY CommitTypes DEF Commit, Typed, TypeOK
  <2>. QED
    BY <2>1 DEF Commit
<1>4. transfers' \in SUBSET Transfer
  BY CommitTypes DEF Commit, Typed, TypeOK
<1>5. idempotency_keys' \in SUBSET Keys
  BY <1>1 DEF Commit, Typed, TypeOK, Call
<1>6. /\ pc' \in [Requests -> PC]
      /\ pc'[r] = "refresh"
      /\ \A q \in Requests \ {r} : pc'[q] = pc[q]
  BY DEF Commit, Typed, TypeOK, PC
<1>7. TypeOK'
  BY <1>2, <1>3, <1>4, <1>5, <1>6, UnlockedTypes DEF Commit, Typed, TypeOK
<1>8. call' = call /\ identity_map' = identity_map
  BY DEF Commit
<1>9. ControlOf(r)'
  BY <1>1, <1>6, <1>8 DEF ControlOf, Has, TransferSteps, LoadedSteps
<1>10. \A q \in Requests \ {r} : ControlOf(q)'
  BY <1>6, <1>8, ControlFrame DEF Typed
<1>. QED
  BY <1>7, <1>9, <1>10 DEF Typed

\* Reading the row back replaces at most one copy, by the committed row, and ends
\* in a 500 when it fails.
LEMMA RefreshEffect ==
  ASSUME Typed, NEW r \in Requests, Refresh(r)
  PROVE  /\ UNCHANGED <<db, locks, call, converted_amount, channel>> /\ pc[r] = "refresh"
         /\ pc' \in [Requests -> PC] /\ outcome' \in [Requests -> Outcomes]
         /\ \/ pc'[r] = "publish" /\ outcome'[r] = "none"
            \/ pc'[r] = "rollback" /\ outcome'[r] = "error"
         /\ \A q \in Requests \ {r} : /\ pc'[q] = pc[q] /\ outcome'[q] = outcome[q]
                                      /\ identity_map'[q] = identity_map[q]
         /\ identity_map' \in [Requests -> [Wallet -> Row \cup {None}]]
         /\ \A w \in Wallet : \/ identity_map'[r][w] = identity_map[r][w]
                              \/ identity_map'[r][w] = wallets[w] /\ w = call[r].src
                                   /\ call[r].op # "transfer" /\ pc'[r] = "publish"
<1>1. UNCHANGED <<db, locks, call, converted_amount, channel>> /\ pc[r] = "refresh"
  BY DEF Refresh
<1>2. TypeOK /\ "publish" \in PC /\ {"none", "error"} \subseteq Refusals \cup {"none"}
  BY DEF Typed, PC, Refusals
<1>3. PICK code \in {"none", "error"} : Proceed(r, code, "publish")
  BY DEF Refresh
<1>4. /\ pc' \in [Requests -> PC] /\ outcome' \in [Requests -> Outcomes]
      /\ \/ pc'[r] = "publish" /\ outcome'[r] = "none"
         \/ pc'[r] = "rollback" /\ outcome'[r] = "error"
      /\ \A q \in Requests \ {r} : pc'[q] = pc[q] /\ outcome'[q] = outcome[q]
  BY <1>2, <1>3, ProceedEffect
<1>5. Has(r, call[r].src) /\ wallets[call[r].src] \in Row
  BY <1>1 DEF Typed, TypeOK, ControlOf, LoadedSteps, Has
<1>6. CASE identity_map' = identity_map
  BY <1>1, <1>4, <1>6 DEF Typed, TypeOK
<1>7. CASE /\ call[r].op # "transfer" /\ Proceed(r, "none", "publish")
           /\ identity_map' = [identity_map EXCEPT ![r][call[r].src] = wallets[call[r].src]]
  <2>1. pc'[r] = "publish"
    BY <1>2, <1>7, ProceedEffect
  <2>2. /\ identity_map' \in [Requests -> [Wallet -> Row \cup {None}]]
        /\ identity_map'[r][call[r].src] = wallets[call[r].src]
        /\ \A w \in Wallet \ {call[r].src} : identity_map'[r][w] = identity_map[r][w]
        /\ \A q \in Requests \ {r} : identity_map'[q] = identity_map[q]
    BY <1>5, <1>7 DEF Typed, TypeOK, Has
  <2>. QED
    BY <1>1, <1>4, <1>7, <2>1, <2>2
<1>. QED
  BY <1>6, <1>7 DEF Refresh

LEMMA TypedRefresh ==
  ASSUME Typed, NEW r \in Requests, Refresh(r)
  PROVE  Typed'
<1>1. /\ call[r] \in Calls /\ Has(r, call[r].src) /\ Has(r, call[r].dst)
      /\ call[r].op = "transfer" => call[r].src # call[r].dst
  BY DEF Refresh, Typed, ControlOf, LoadedSteps
<1>2. Has(r, call[r].src)' /\ Has(r, call[r].dst)'
  <2>1. \A w \in Wallet : wallets[w] # None
    BY NullAssumption DEF Typed, TypeOK
  <2>. QED
    BY <1>1, <2>1, RefreshEffect DEF Has
<1>3. TypeOK'
  BY RefreshEffect DEF Typed, TypeOK, db, locks
<1>4. ControlOf(r)'
  BY <1>1, <1>2, RefreshEffect DEF ControlOf, TransferSteps, LoadedSteps
<1>5. \A q \in Requests \ {r} : ControlOf(q)'
  BY RefreshEffect, ControlFrame DEF Typed
<1>. QED
  BY <1>3, <1>4, <1>5 DEF Typed

\* A handler that has answered is under control, whatever happened before.
LEMMA ControlAnswered ==
  ASSUME Typed, NEW r \in Requests, pc[r] # "idle", NEW code \in Outcomes,
         Answer(r, code), call' = call
  PROVE  \A q \in Requests : ControlOf(q)'
<1>1. pc'[r] = "done" /\ call[r] \in Calls
  BY AnswerEffect DEF Typed, ControlOf
<1>2. ControlOf(r)'
  BY <1>1 DEF ControlOf, TransferSteps, LoadedSteps
<1>3. \A q \in Requests \ {r} : ControlOf(q)'
  BY AnswerEffect, ControlFrame DEF Typed
<1>. QED
  BY <1>2, <1>3

\* An event carries an integer balance.
LEMMA EventType ==
  ASSUME Typed, NEW r \in Requests, pc[r] \in LoadedSteps, NEW w \in Touched(r)
  PROVE  EventOf(r, w) \in Event
  BY AmountTypes DEF EventOf, Event

LEMMA TypedPublish ==
  ASSUME Typed, NEW r \in Requests, Publish(r)
  PROVE  Typed'
<1>1. /\ call[r] \in Calls /\ call[r] \in Call /\ pc[r] \in LoadedSteps
      /\ Has(r, call[r].src) /\ Has(r, call[r].dst)
      /\ call[r].op = "transfer" => call[r].src # call[r].dst
  BY CallAssumption DEF Publish, Typed, ControlOf, LoadedSteps
<1>2. EventOf(r, call[r].src) \in Event /\ call[r].user \in Users
  BY <1>1, EventType DEF Touched, Call
<1>3. channel' \in [Users -> Seq(Event)]
  <2>1. Append(channel[call[r].user], EventOf(r, call[r].src)) \in Seq(Event)
    BY <1>2 DEF Typed, TypeOK
  <2>. QED
    BY <1>2, <2>1 DEF Publish, Typed, TypeOK
<1>4. CASE Answer(r, "ok")
  <2>1. "ok" \in Outcomes
    BY DEF Outcomes
  <2>2. TypeOK'
    BY <1>3, <1>4, <2>1, AnswerEffect DEF Publish, Typed, TypeOK, db, locks
  <2>3. \A q \in Requests : ControlOf(q)'
    BY <1>4, <2>1, ControlAnswered DEF Publish, Typed
  <2>. QED
    BY <2>2, <2>3 DEF Typed
<1>5. CASE /\ call[r].op = "transfer"
           /\ pc' = [pc EXCEPT ![r] = "publish_recipient"]
           /\ UNCHANGED <<outcome, identity_map>>
  <2>1. TypeOK'
    BY <1>3, <1>5 DEF Publish, Typed, TypeOK, db, locks, PC
  <2>2. ControlOf(r)'
    BY <1>1, <1>5
       DEF Publish, Typed, TypeOK, ControlOf, Has, TransferSteps, LoadedSteps
  <2>3. \A q \in Requests \ {r} : ControlOf(q)'
    BY <1>5, ControlFrame DEF Publish, Typed, TypeOK
  <2>. QED
    BY <2>1, <2>2, <2>3 DEF Typed
<1>. QED
  BY <1>4, <1>5 DEF Publish

LEMMA TypedPublishRecipient ==
  ASSUME Typed, NEW r \in Requests, PublishRecipient(r)
  PROVE  Typed'
<1>1. pc[r] \in LoadedSteps /\ Has(r, call[r].dst)
  BY DEF PublishRecipient, Typed, ControlOf, LoadedSteps
<1>2. EventOf(r, call[r].dst) \in Event /\ owner[call[r].dst] \in Users
  BY <1>1, EventType, WalletAssumption DEF Touched, Has
<1>3. channel' \in [Users -> Seq(Event)]
  <2>1. Append(channel[owner[call[r].dst]], EventOf(r, call[r].dst)) \in Seq(Event)
    BY <1>2 DEF Typed, TypeOK
  <2>. QED
    BY <1>2, <2>1 DEF PublishRecipient, Typed, TypeOK
<1>4. "ok" \in Outcomes
  BY DEF Outcomes
<1>5. TypeOK'
  BY <1>3, <1>4, AnswerEffect DEF PublishRecipient, Typed, TypeOK, db, locks
<1>6. \A q \in Requests : ControlOf(q)'
  BY <1>4, ControlAnswered DEF PublishRecipient, Typed
<1>. QED
  BY <1>5, <1>6 DEF Typed

LEMMA TypedRollback ==
  ASSUME Typed, NEW r \in Requests, Rollback(r)
  PROVE  Typed'
<1>1. outcome[r] \in Outcomes
  BY DEF Typed, TypeOK
<1>2. TypeOK'
  BY <1>1, AnswerEffect, UnlockedTypes DEF Rollback, Typed, TypeOK, db
<1>3. \A q \in Requests : ControlOf(q)'
  BY <1>1, ControlAnswered DEF Rollback, Typed
<1>. QED
  BY <1>2, <1>3 DEF Typed

LEMMA TypedCrash ==
  ASSUME Typed, NEW r \in Requests, Crash(r)
  PROVE  Typed'
<1>1. "lost" \in Outcomes
  BY DEF Outcomes
<1>2. TypeOK'
  BY <1>1, AnswerEffect, UnlockedTypes DEF Crash, Typed, TypeOK, db
<1>3. \A q \in Requests : ControlOf(q)'
  BY <1>1, ControlAnswered DEF Crash, Typed
<1>. QED
  BY <1>2, <1>3 DEF Typed

LEMMA TypedSuspend ==
  ASSUME Typed, NEW w \in Suspendable, Suspend(w)
  PROVE  Typed'
<1>1. w \in Wallet
  BY WalletAssumption
<1>2. wallets' \in [Wallet -> Row]
  BY <1>1 DEF Suspend, Typed, TypeOK, Row, Status
<1>3. TypeOK'
  BY <1>2 DEF Suspend, Typed, TypeOK, locks
<1>4. \A q \in Requests : ControlOf(q)'
  BY ControlFrame DEF Suspend, Typed
<1>. QED
  BY <1>3, <1>4 DEF Typed

LEMMA TypedStutter ==
  ASSUME Typed, UNCHANGED vars
  PROVE  Typed'
<1>1. TypeOK'
  BY DEF Typed, TypeOK, vars, db, locks
<1>2. \A q \in Requests : ControlOf(q)'
  BY ControlFrame DEF Typed, vars
<1>. QED
  BY <1>1, <1>2 DEF Typed

\* Types and control are inductive by themselves.
LEMMA TypedNext == Typed /\ [Next]_vars => Typed'
<1> SUFFICES ASSUME Typed, [Next]_vars PROVE Typed'
  OBVIOUS
<1>1. ASSUME NEW r \in Requests, Submit(r) \/ Step(r) \/ Crash(r) PROVE Typed'
  BY <1>1, TypedSubmit, TypedLock, TypedCheckKey, TypedPeekSender, TypedPeekRecipient,
     TypedGetRate, TypedLockFirst, TypedLockSecond, TypedApply, TypedInsert, TypedCommit,
     TypedRefresh, TypedPublish, TypedPublishRecipient, TypedRollback, TypedCrash DEF Step
<1>2. ASSUME NEW w \in Suspendable, Suspend(w) PROVE Typed'
  BY <1>2, TypedSuspend
<1>3. CASE UNCHANGED vars
  BY <1>3, TypedStutter
<1>. QED
  BY <1>1, <1>2, <1>3 DEF Next, Terminated

\* Every table and local variable keeps its type, for every set of requests,
\* wallets, keys and calls: no sequence of operations, crashes or suspensions
\* writes an entry, a transfer or an event that its column could not hold.
THEOREM TypeCorrect == Spec => []TypeOK
<1>1. Typed => TypeOK
  BY DEF Typed
<1>. QED
  BY TypedInit, TypedNext, <1>1, PTL DEF Spec

-----------------------------------------------------------------------------
\* Layer 2: row locks.

Writing == {"apply", "insert", "commit"}
Holding == Writing \cup {"lock_second", "rollback"}

LockedOf(r) ==
  \A w \in Wallet :
    /\ pc[r] \in Writing /\ w \in Touched(r) => row_lock[w] = r
    /\ row_lock[w] = r => pc[r] \in Holding
    /\ pc[r] = "lock_second" /\ w = First(r) => row_lock[w] = r

Locked == \A r \in Requests : LockedOf(r)

\* A step of r that touches no row lock, and does not move r across the point
\* where it takes its last lock or gives them up.
QuietStep(r) ==
  Submit(r) \/ CheckKey(r) \/ PeekSender(r) \/ PeekRecipient(r) \/ GetRate(r) \/ Apply(r)
    \/ Insert(r) \/ Refresh(r) \/ Publish(r) \/ PublishRecipient(r)

LEMMA QuietEffect ==
  ASSUME Typed, NEW r \in Requests, QuietStep(r)
  PROVE  /\ row_lock' = row_lock
         /\ pc'[r] \in Writing => pc[r] \in Writing
         /\ pc'[r] # "lock_second"
         /\ pc[r] \in Holding => pc'[r] \in Holding
         /\ pc[r] # "idle" => call'[r] = call[r]
         /\ \A q \in Requests \ {r} : pc'[q] = pc[q] /\ call'[q] = call[q]
<1> USE DEF Writing, Holding
<1>0. /\ pc \in [Requests -> PC] /\ call \in [Requests -> Calls \cup {None}]
  BY DEF Typed, TypeOK
<1>1. CASE Submit(r)
  BY <1>0, <1>1 DEF Submit, locks
<1>2. CASE CheckKey(r)
  BY <1>0, <1>2 DEF CheckKey, Proceed, locks
<1>3. CASE PeekSender(r)
  BY <1>0, <1>3 DEF PeekSender, Proceed, locks
<1>4. CASE PeekRecipient(r)
  BY <1>0, <1>4 DEF PeekRecipient, Proceed, locks
<1>5. CASE GetRate(r)
  BY <1>0, <1>5 DEF GetRate, Proceed, locks
<1>6. CASE Apply(r)
  BY <1>0, <1>6 DEF Apply, Proceed, locks
<1>7. CASE Insert(r)
  BY <1>0, <1>7 DEF Insert, Proceed
<1>8. CASE Refresh(r)
  BY <1>0, <1>8, RefreshEffect DEF locks
<1>9. CASE Publish(r)
  BY <1>0, <1>9 DEF Publish, Answer, locks
<1>10. CASE PublishRecipient(r)
  BY <1>0, <1>10 DEF PublishRecipient, Answer, locks
<1>. QED
  BY <1>1, <1>2, <1>3, <1>4, <1>5, <1>6, <1>7, <1>8, <1>9, <1>10 DEF QuietStep

LEMMA LockedQuiet ==
  ASSUME Typed, Locked, NEW r \in Requests, QuietStep(r)
  PROVE  Locked'
<1>1. \A q \in Requests \ {r} : LockedOf(q)'
  BY QuietEffect DEF Locked, LockedOf, Touched, First
<1>2. LockedOf(r)'
  <2>1. pc'[r] \in Writing => call'[r] = call[r]
    BY QuietEffect DEF Writing
  <2>. QED
    BY <2>1, QuietEffect DEF Locked, LockedOf, Touched
<1>. QED
  BY <1>1, <1>2 DEF Locked

\* Taking the free lock of w leaves every other handler with the locks it has.
LEMMA LockedOthers ==
  ASSUME Typed, Locked, NEW r \in Requests, NEW w \in Wallet, row_lock[w] = None,
         row_lock' = [row_lock EXCEPT ![w] = r], call' = call,
         \A q \in Requests \ {r} : pc'[q] = pc[q]
  PROVE  \A q \in Requests \ {r} : LockedOf(q)'
  BY NullAssumption DEF Typed, TypeOK, Locked, LockedOf, Touched, First

LEMMA LockedLock ==
  ASSUME Typed, Locked, NEW r \in Requests, Lock(r)
  PROVE  Locked'
<1>1. /\ call[r].src = call[r].dst /\ call' = call
      /\ pc \in [Requests -> PC] /\ row_lock \in [Wallet -> Requests \cup {None}]
  BY CallAssumption DEF Lock, Typed, TypeOK, ControlOf
<1>2. CASE call[r].src \notin Wallet
  <2>1. /\ row_lock' = row_lock /\ pc'[r] = "rollback"
        /\ \A q \in Requests \ {r} : pc'[q] = pc[q]
    BY <1>1, <1>2 DEF Lock, Proceed
  <2>. QED
    BY <1>1, <2>1 DEF Locked, LockedOf, Touched, First, Writing, Holding
<1>3. CASE call[r].src \in Wallet
  <2>1. /\ row_lock[call[r].src] = None /\ pc[r] = "lock"
        /\ row_lock' = [row_lock EXCEPT ![call[r].src] = r]
        /\ pc'[r] \in {"apply", "rollback"}
        /\ \A q \in Requests \ {r} : pc'[q] = pc[q]
    BY <1>1, <1>3 DEF Lock, Proceed
  <2>2. LockedOf(r)'
    BY <1>1, <1>3, <2>1 DEF Locked, LockedOf, Touched, Writing, Holding
  <2>. QED
    BY <1>1, <1>3, <2>1, <2>2, LockedOthers DEF Locked
<1>. QED
  BY <1>2, <1>3

LEMMA LockedLockFirst ==
  ASSUME Typed, Locked, NEW r \in Requests, LockFirst(r)
  PROVE  Locked'
<1>1. First(r) \in Wallet
  BY LockOrder DEF LockFirst, LoadedSteps
<1>2. /\ row_lock[First(r)] = None /\ call' = call
      /\ row_lock' = [row_lock EXCEPT ![First(r)] = r]
      /\ pc[r] = "lock_first" /\ pc'[r] = "lock_second"
      /\ \A q \in Requests \ {r} : pc'[q] = pc[q]
  BY DEF LockFirst, Proceed, Typed, TypeOK
<1>3. LockedOf(r)'
  BY <1>1, <1>2 DEF Typed, TypeOK, Locked, LockedOf, First, Writing, Holding
<1>. QED
  BY <1>1, <1>2, <1>3, LockedOthers DEF Locked

LEMMA LockedLockSecond ==
  ASSUME Typed, Locked, NEW r \in Requests, LockSecond(r)
  PROVE  Locked'
<1>1. First(r) \in Wallet /\ Second(r) \in Wallet /\ Touched(r) = {First(r), Second(r)}
  BY LockOrder DEF LockSecond, LoadedSteps
<1>2. /\ row_lock[Second(r)] = None /\ call' = call
      /\ row_lock' = [row_lock EXCEPT ![Second(r)] = r]
      /\ pc[r] = "lock_second" /\ pc'[r] \in {"apply", "rollback"}
      /\ \A q \in Requests \ {r} : pc'[q] = pc[q]
  BY DEF LockSecond, Proceed, Typed, TypeOK
<1>3. Touched(r)' = Touched(r)
  BY <1>2 DEF Touched
<1>4. LockedOf(r)'
  BY <1>1, <1>2, <1>3 DEF Typed, TypeOK, Locked, LockedOf, Writing, Holding
<1>. QED
  BY <1>1, <1>2, <1>4, LockedOthers DEF Locked

\* A handler that ends gives up its own locks and no others.
LEMMA LockedUnlocked ==
  ASSUME Typed, Locked, NEW r \in Requests, Unlocked(r), call' = call,
         pc'[r] \notin Holding, \A q \in Requests \ {r} : pc'[q] = pc[q]
  PROVE  Locked'
<1>1. \A w \in Wallet : row_lock'[w] = IF row_lock[w] = r THEN None ELSE row_lock[w]
  BY DEF Unlocked
<1>2. LockedOf(r)'
  BY <1>1, NullAssumption DEF LockedOf, Holding, Writing
<1>3. \A q \in Requests \ {r} : LockedOf(q)'
  BY <1>1, NullAssumption DEF Locked, LockedOf, Touched, First
<1>. QED
  BY <1>2, <1>3 DEF Locked

LEMMA LockedEnds ==
  ASSUME Typed, Locked, NEW r \in Requests, Commit(r) \/ Rollback(r) \/ Crash(r)
  PROVE  Locked'
<1>1. pc'[r] \notin Holding /\ \A q \in Requests \ {r} : pc'[q] = pc[q]
  BY DEF Commit, Rollback, Crash, Answer, Holding, Writing, Typed, TypeOK
<1>. QED
  BY <1>1, LockedUnlocked DEF Commit, Rollback, Crash

LEMMA LockedInit == Init => Locked
  BY NullAssumption DEF Init, Locked, LockedOf, Writing

LEMMA LockedStutter ==
  ASSUME Locked, UNCHANGED <<pc, call, row_lock>>
  PROVE  Locked'
  BY DEF Locked, LockedOf, Touched, First

LEMMA LockedNext == Typed /\ Locked /\ [Next]_vars => Locked'
<1> SUFFICES ASSUME Typed, Locked, [Next]_vars PROVE Locked'
  OBVIOUS
<1>1. ASSUME NEW r \in Requests, Submit(r) \/ Step(r) \/ Crash(r) PROVE Locked'
  BY <1>1, LockedQuiet, LockedLock, LockedLockFirst, LockedLockSecond, LockedEnds
     DEF Step, QuietStep
<1>2. ASSUME NEW w \in Suspendable, Suspend(w) PROVE Locked'
  BY <1>2, LockedStutter DEF Suspend, locks
<1>3. CASE UNCHANGED vars
  BY <1>3, LockedStutter DEF vars, locks
<1>. QED
  BY <1>1, <1>2, <1>3 DEF Next, Terminated

\* However many requests interleave, a handler writes only rows it has locked,
\* and a lock is never left behind by a request that has ended.
THEOREM LockDiscipline == Spec => []LocksCoverWrites
<1>1. Locked => LocksCoverWrites
  BY DEF Locked, LockedOf, LocksCoverWrites, Writing, Holding
<1>. QED
  BY TypedInit, TypedNext, LockedInit, LockedNext, <1>1, PTL DEF Spec

-----------------------------------------------------------------------------
\* Layer 3: money.

\* A loaded row was committed once, so its balance is not negative; what is about
\* to be spent is covered by it, and what is about to be written fits its column.
FundedOf(r) ==
  /\ \A w \in Wallet : identity_map[r][w] # None => identity_map[r][w].balance >= 0
  /\ pc[r] \in Writing /\ call[r].op # "credit" => Before(r, call[r].src) >= call[r].amount
  /\ pc[r] \in {"insert", "commit"} => \A w \in Touched(r) : Stored(After(r, w)) <= MaxBalance

Funded == BalancesInRange /\ \A r \in Requests : FundedOf(r)

LEMMA FundedFrame ==
  ASSUME NEW q \in Requests, FundedOf(q), pc'[q] = pc[q], call'[q] = call[q],
         identity_map'[q] = identity_map[q], converted_amount'[q] = converted_amount[q]
  PROVE  FundedOf(q)'
<1>1. /\ Touched(q)' = Touched(q) /\ Before(q, call[q].src)' = Before(q, call[q].src)
      /\ \A w \in Touched(q) : After(q, w)' = After(q, w)
  BY DEF Touched, Before, After, AmountAt, Loses
<1>2. \A w \in Touched(q) : Stored(After(q, w))' = Stored(After(q, w))
  BY <1>1 DEF Stored
<1>. QED
  BY <1>1, <1>2 DEF FundedOf

\* Loading a committed row, or keeping the copy, gives a balance that is not negative.
LEMMA LoadFunded ==
  ASSUME Typed, Funded, NEW r \in Requests, NEW w \in Wallet, Load(r, w)
  PROVE  \A v \in Wallet : identity_map'[r][v] # None => identity_map'[r][v].balance >= 0
<1>1. Loaded(r, w).balance >= 0
  BY DEF Typed, TypeOK, Funded, FundedOf, BalancesInRange, Loaded, Row
<1>. QED
  BY <1>1, LoadEffect DEF Typed, Funded, FundedOf

\* Outside the steps that write, only the loaded balances matter.
LEMMA FundedIdle ==
  ASSUME Funded, NEW r \in Requests, wallets' = wallets, pc'[r] \notin Writing,
         \A w \in Wallet : identity_map'[r][w] # None => identity_map'[r][w].balance >= 0,
         \A q \in Requests \ {r} :
           /\ pc'[q] = pc[q] /\ call'[q] = call[q] /\ identity_map'[q] = identity_map[q]
           /\ converted_amount'[q] = converted_amount[q]
  PROVE  Funded'
<1>1. BalancesInRange'
  BY DEF Funded, BalancesInRange
<1>2. FundedOf(r)'
  BY DEF FundedOf, Writing
<1>3. \A q \in Requests \ {r} : FundedOf(q)'
  BY FundedFrame DEF Funded
<1>. QED
  BY <1>1, <1>2, <1>3 DEF Funded

LEMMA FundedSubmit ==
  ASSUME Typed, Funded, NEW r \in Requests, Submit(r)
  PROVE  Funded'
<1>1. wallets' = wallets /\ pc'[r] \notin Writing /\ identity_map' = identity_map
  BY DEF Submit, db, Writing, Typed, TypeOK
<1>2. \A q \in Requests \ {r} :
        /\ pc'[q] = pc[q] /\ call'[q] = call[q] /\ identity_map'[q] = identity_map[q]
        /\ converted_amount'[q] = converted_amount[q]
  BY DEF Submit, Typed, TypeOK
<1>. QED
  BY <1>1, <1>2, FundedIdle DEF Funded, FundedOf

LEMMA FundedReads ==
  ASSUME Typed, Funded, NEW r \in Requests,
         CheckKey(r) \/ PeekSender(r) \/ PeekRecipient(r) \/ GetRate(r) \/ LockFirst(r)
  PROVE  Funded'
<1>1. /\ wallets' = wallets /\ call' = call /\ pc'[r] \notin Writing
      /\ \A q \in Requests \ {r} :
           pc'[q] = pc[q] /\ converted_amount'[q] = converted_amount[q]
  BY DEF CheckKey, PeekSender, PeekRecipient, GetRate, LockFirst, Proceed, db, Writing,
         Typed, TypeOK
<1>2. \/ identity_map' = identity_map
      \/ \E w \in Wallet : Load(r, w)
  <2>1. ASSUME LockFirst(r) PROVE First(r) \in Wallet
    BY <2>1, LockOrder DEF LockFirst, LoadedSteps
  <2>. QED
    BY <2>1 DEF CheckKey, PeekSender, PeekRecipient, GetRate, LockFirst
<1>3. /\ \A w \in Wallet : identity_map'[r][w] # None => identity_map'[r][w].balance >= 0
      /\ \A q \in Requests \ {r} : identity_map'[q] = identity_map[q]
  BY <1>2, LoadFunded, LoadEffect DEF Typed, Funded, FundedOf
<1>. QED
  BY <1>1, <1>3, FundedIdle

\* The funds check is made on the row the session holds after the lock.
LEMMA FundedLocks ==
  ASSUME Typed, Funded, NEW r \in Requests, Lock(r) \/ LockSecond(r)
  PROVE  Funded'
<1> DEFINE w == IF pc[r] = "lock" THEN call[r].src ELSE Second(r)
           s == call[r].src
<1>1. /\ wallets' = wallets /\ call' = call /\ converted_amount' = converted_amount
      /\ \A q \in Requests \ {r} : pc'[q] = pc[q]
  BY DEF Lock, LockSecond, Proceed, db, Typed, TypeOK
<1>2. CASE w \notin Wallet
  <2>1. pc[r] = "lock" /\ pc'[r] \notin Writing /\ identity_map' = identity_map
    BY <1>2, LockOrder DEF Lock, LockSecond, Proceed, LoadedSteps, Writing, Typed, TypeOK
  <2>. QED
    BY <1>1, <2>1, FundedIdle DEF Funded, FundedOf
<1>3. CASE w \in Wallet
  <2>1. Load(r, w)
    BY <1>3 DEF Lock, LockSecond
  <2>2. /\ \A v \in Wallet : identity_map'[r][v] # None => identity_map'[r][v].balance >= 0
        /\ \A q \in Requests \ {r} : identity_map'[q] = identity_map[q]
    BY <1>3, <2>1, LoadFunded, LoadEffect DEF Typed
  <2>3. pc'[r] \in {"apply", "rollback"}
    BY <1>3 DEF Lock, LockSecond, Proceed, Typed, TypeOK
  <2>4. CASE pc'[r] = "rollback"
    BY <1>1, <2>2, <2>4, FundedIdle DEF Writing
  <2>5. CASE pc'[r] = "apply"
    <3>1. FundsRefusal(r, Loaded(r, s)) = "none"
      BY <1>3, <2>5 DEF Lock, LockSecond, Proceed, Typed, TypeOK
    <3>2. s \in Wallet /\ identity_map'[r][s] = Loaded(r, s)
      <4>1. CASE pc[r] = "lock"
        BY <1>3, <2>1, <4>1, LoadEffect DEF Typed
      <4>2. CASE pc[r] = "lock_second"
        <5>1. Has(r, s)
          BY <4>2 DEF Typed, ControlOf, LoadedSteps
        <5>. QED
          BY <1>3, <2>1, <5>1, LoadEffect DEF Has, Typed, Loaded
      <4>. QED
        BY <4>1, <4>2 DEF Lock, LockSecond
    <3>3. Loaded(r, s) \in Row /\ call[r] \in Call
      BY <3>2, LoadedIsRow, CallAssumption DEF Lock, LockSecond, Typed, ControlOf
    <3>4. call[r].op # "credit" => Loaded(r, s).balance >= call[r].amount
      BY <3>1, <3>3 DEF FundsRefusal, Row, Call
    <3>5. FundedOf(r)'
      BY <1>1, <2>2, <2>5, <3>2, <3>4 DEF FundedOf, Before
    <3>6. \A q \in Requests \ {r} : FundedOf(q)'
      BY <1>1, <2>2, FundedFrame DEF Funded
    <3>. QED
      BY <1>1, <3>5, <3>6 DEF Funded, BalancesInRange
  <2>. QED
    BY <2>3, <2>4, <2>5
<1>. QED
  BY <1>2, <1>3

LEMMA FundedApply ==
  ASSUME Typed, Funded, NEW r \in Requests, Apply(r)
  PROVE  Funded'
<1> DEFINE fits == \A w \in Touched(r) : Stored(After(r, w)) <= MaxBalance
<1>1. /\ wallets' = wallets /\ call' = call /\ converted_amount' = converted_amount
      /\ identity_map' = identity_map /\ \A q \in Requests \ {r} : pc'[q] = pc[q]
  BY DEF Apply, Proceed, db, Typed, TypeOK
<1>2. pc'[r] \in {"insert", "commit", "rollback"} /\ (pc'[r] # "rollback" => fits)
  <2>1. \A w \in Touched(r) : Stored(After(r, w)) \in Int
    BY AmountTypes, StoredInt DEF Apply, LoadedSteps
  <2>. QED
    BY <2>1, WalletAssumption DEF Apply, Proceed, Typed, TypeOK
<1>3. CASE pc'[r] = "rollback"
  BY <1>1, <1>3, FundedIdle DEF Funded, FundedOf, Writing
<1>4. CASE pc'[r] \in {"insert", "commit"}
  <2>1. /\ Touched(r)' = Touched(r) /\ Before(r, call[r].src)' = Before(r, call[r].src)
        /\ \A w \in Touched(r) : Stored(After(r, w))' = Stored(After(r, w))
    BY <1>1 DEF Touched, Before, After, AmountAt, Loses, Stored
  <2>2. FundedOf(r)'
    BY <1>1, <1>2, <1>4, <2>1 DEF Funded, FundedOf, Writing, Apply
  <2>3. \A q \in Requests \ {r} : FundedOf(q)'
    BY <1>1, FundedFrame DEF Funded
  <2>. QED
    BY <1>1, <2>2, <2>3 DEF Funded, BalancesInRange
<1>. QED
  BY <1>2, <1>3, <1>4

LEMMA FundedInsert ==
  ASSUME Typed, Funded, NEW r \in Requests, Insert(r)
  PROVE  Funded'
<1>1. /\ wallets' = wallets /\ call' = call /\ converted_amount' = converted_amount
      /\ identity_map' = identity_map /\ \A q \in Requests \ {r} : pc'[q] = pc[q]
      /\ pc[r] = "insert" /\ pc'[r] \in {"commit", "rollback"}
  BY DEF Insert, Proceed, db, Typed, TypeOK
<1>2. /\ Touched(r)' = Touched(r) /\ Before(r, call[r].src)' = Before(r, call[r].src)
      /\ \A w \in Touched(r) : Stored(After(r, w))' = Stored(After(r, w))
  BY <1>1 DEF Touched, Before, After, AmountAt, Loses, Stored
<1>3. FundedOf(r)'
  BY <1>1, <1>2 DEF Funded, FundedOf, Writing
<1>4. \A q \in Requests \ {r} : FundedOf(q)'
  BY <1>1, FundedFrame DEF Funded
<1>. QED
  BY <1>1, <1>3, <1>4 DEF Funded, BalancesInRange

\* The balances a commit writes are in range: the loss is covered by the balance
\* the session loaded, and the column's limit was checked when it was flushed.
LEMMA CommitInRange ==
  ASSUME Typed, Funded, NEW r \in Requests, pc[r] = "commit", NEW w \in Touched(r)
  PROVE  After(r, w) \in Nat /\ Stored(After(r, w)) \in 0 .. MaxBalance
<1>1. /\ w \in Wallet /\ identity_map[r][w] \in Row /\ call[r] \in Call
      /\ Before(r, w) \in Int /\ AmountAt(r, w) \in Nat /\ After(r, w) \in Int
  BY AmountTypes DEF LoadedSteps
<1>2. Before(r, w) >= 0
  BY <1>1, NullAssumption DEF Funded, FundedOf, Before
<1>3. Loses(r, w) => Before(r, w) >= AmountAt(r, w)
  BY <1>1 DEF Funded, FundedOf, Writing, Loses, AmountAt
<1>4. After(r, w) \in Nat
  BY <1>1, <1>2, <1>3 DEF After
<1>5. Stored(After(r, w)) \in Nat /\ Stored(After(r, w)) <= MaxBalance
  BY <1>4, StoredNat DEF Funded, FundedOf
<1>. QED
  BY <1>4, <1>5, WalletAssumption

LEMMA FundedCommit ==
  ASSUME Typed, Funded, NEW r \in Requests, Commit(r)
  PROVE  Funded'
<1>1. /\ call' = call /\ converted_amount' = converted_amount /\ identity_map' = identity_map
      /\ pc[r] = "commit" /\ pc'[r] = "refresh"
      /\ \A q \in Requests \ {r} : pc'[q] = pc[q]
  BY DEF Commit, Typed, TypeOK
<1>2. BalancesInRange'
  <2>1. ASSUME NEW w \in Wallet PROVE wallets'[w].balance \in 0 .. MaxBalance
    <3>1. CASE w \in Touched(r) /\ AmountAt(r, w) # 0
      <4>1. wallets'[w].balance = Stored(After(r, w))
        BY <3>1 DEF Commit, Typed, TypeOK, Row
      <4>. QED
        BY <1>1, <3>1, <4>1, CommitInRange
    <3>2. CASE ~(w \in Touched(r) /\ AmountAt(r, w) # 0)
      BY <3>2 DEF Commit, Funded, BalancesInRange
    <3>. QED
      BY <3>1, <3>2
  <2>. QED
    BY <2>1 DEF BalancesInRange
<1>3. FundedOf(r)'
  BY <1>1 DEF Funded, FundedOf, Writing
<1>4. \A q \in Requests \ {r} : FundedOf(q)'
  BY <1>1, FundedFrame DEF Funded
<1>. QED
  BY <1>2, <1>3, <1>4 DEF Funded

LEMMA FundedRefresh ==
  ASSUME Typed, Funded, NEW r \in Requests, Refresh(r)
  PROVE  Funded'
<1>1. /\ wallets' = wallets /\ call' = call /\ converted_amount' = converted_amount
      /\ pc'[r] \notin Writing
      /\ \A q \in Requests \ {r} : pc'[q] = pc[q] /\ identity_map'[q] = identity_map[q]
  BY RefreshEffect DEF db, Writing
<1>2. \A w \in Wallet : wallets[w].balance >= 0
  BY DEF Typed, TypeOK, Funded, BalancesInRange
<1>3. \A w \in Wallet : identity_map'[r][w] # None => identity_map'[r][w].balance >= 0
  BY <1>2, RefreshEffect DEF Funded, FundedOf
<1>. QED
  BY <1>1, <1>3, FundedIdle

LEMMA FundedEnds ==
  ASSUME Typed, Funded, NEW r \in Requests,
         Publish(r) \/ PublishRecipient(r) \/ Rollback(r) \/ Crash(r)
  PROVE  Funded'
<1>1. /\ wallets' = wallets /\ call' = call /\ converted_amount' = converted_amount
      /\ pc'[r] \notin Writing
      /\ \A q \in Requests \ {r} : pc'[q] = pc[q] /\ identity_map'[q] = identity_map[q]
      /\ identity_map'[r] = identity_map[r] \/ identity_map'[r] = [w \in Wallet |-> None]
  BY DEF Publish, PublishRecipient, Rollback, Crash, Answer, Forget, db, Writing, Typed, TypeOK
<1>2. \A w \in Wallet : identity_map'[r][w] # None => identity_map'[r][w].balance >= 0
  BY <1>1 DEF Funded, FundedOf
<1>. QED
  BY <1>1, <1>2, FundedIdle

LEMMA FundedOther ==
  ASSUME Typed, Funded, UNCHANGED vars \/ \E w \in Suspendable : Suspend(w)
  PROVE  Funded'
<1>1. /\ pc' = pc /\ call' = call /\ identity_map' = identity_map
      /\ converted_amount' = converted_amount
  BY DEF vars, Suspend
<1>2. \A q \in Requests : FundedOf(q)'
  BY <1>1, FundedFrame DEF Funded
<1>3. \A v \in Wallet : wallets'[v].balance = wallets[v].balance
  <2>1. CASE UNCHANGED vars
    BY <2>1 DEF vars, db
  <2>2. ASSUME NEW w \in Suspendable, Suspend(w), NEW v \in Wallet
        PROVE  wallets'[v].balance = wallets[v].balance
    <3>1. wallets' = [wallets EXCEPT ![w].status = "suspended"] /\ wallets[v] \in Row
      BY <2>2 DEF Suspend, Typed, TypeOK
    <3>2. CASE v = w
      BY <3>1, <3>2 DEF Typed, TypeOK, Row
    <3>3. CASE v # w
      BY <3>1, <3>3 DEF Typed, TypeOK
    <3>. QED
      BY <3>2, <3>3
  <2>. QED
    BY <2>1, <2>2
<1>. QED
  BY <1>2, <1>3 DEF Funded, BalancesInRange

LEMMA FundedInit == Init => Funded
<1> SUFFICES ASSUME Init PROVE Funded
  OBVIOUS
<1>1. BalancesInRange
  BY WalletAssumption DEF Init, BalancesInRange
<1>2. \A r \in Requests : FundedOf(r)
  BY DEF Init, FundedOf, Writing
<1>. QED
  BY <1>1, <1>2 DEF Funded

LEMMA FundedNext == Typed /\ Funded /\ [Next]_vars => Funded'
<1> SUFFICES ASSUME Typed, Funded, [Next]_vars PROVE Funded'
  OBVIOUS
<1>1. ASSUME NEW r \in Requests, Submit(r) \/ Step(r) \/ Crash(r) PROVE Funded'
  BY <1>1, FundedSubmit, FundedReads, FundedLocks, FundedApply, FundedInsert, FundedCommit,
     FundedRefresh, FundedEnds DEF Step
<1>. QED
  BY <1>1, FundedOther DEF Next, Terminated

\* No wallet is ever overdrawn and none exceeds its column, whatever requests
\* interleave, although a transfer checks a balance it read before its locks.
THEOREM NoOverdraft == Spec => []BalancesInRange
<1>1. Funded => BalancesInRange
  BY DEF Funded
<1>. QED
  BY TypedInit, TypedNext, FundedInit, FundedNext, <1>1, PTL DEF Spec

-----------------------------------------------------------------------------
\* Layer 4: keys.

\* A transfer about to commit holds the index entry of its key, and the key is
\* not that of a committed transfer; a request refused as a duplicate has found
\* its key among the stored ones.
SpentOf(r) ==
  /\ pc[r] = "commit" /\ call[r].op = "transfer" /\ call[r].key # None =>
       key_lock[call[r].key] = r /\ call[r].key \notin TransferKeys
  /\ outcome[r] = "duplicate" => pc[r] # "idle" /\ call[r].key \in TransferKeys

Spent ==
  /\ AtMostOncePerKey
  /\ idempotency_keys = TransferKeys \ {EmptyKey}
  /\ \A r \in Requests : SpentOf(r)

LEMMA SpentFrame ==
  ASSUME NEW q \in Requests, SpentOf(q), transfers' = transfers,
         pc'[q] = pc[q], call'[q] = call[q], outcome'[q] = outcome[q],
         \A k \in Keys : key_lock[k] = q => key_lock'[k] = q,
         call[q] \in Calls \/ pc[q] = "idle"
  PROVE  SpentOf(q)'
<1>1. TransferKeys' = TransferKeys
  BY DEF TransferKeys
<1>2. call[q] \in Calls => call[q].key \in Keys \cup {None}
  BY CallAssumption DEF Call
<1>. QED
  BY <1>1, <1>2 DEF SpentOf

\* Neither the tables nor the keys of others are touched, and r is not about to
\* commit and is not refused as a duplicate unless its key is spent.
LEMMA SpentLocal ==
  ASSUME Typed, Spent, NEW r \in Requests, UNCHANGED <<transfers, idempotency_keys>>,
         pc'[r] # "commit" \/ call'[r].op # "transfer",
         outcome'[r] = "duplicate" => pc'[r] # "idle" /\ call'[r].key \in TransferKeys,
         \A k \in Keys, q \in Requests \ {r} : key_lock[k] = q => key_lock'[k] = q,
         \A q \in Requests \ {r} : /\ pc'[q] = pc[q] /\ call'[q] = call[q]
                                   /\ outcome'[q] = outcome[q]
  PROVE  Spent'
<1>1. TransferKeys' = TransferKeys
  BY DEF TransferKeys
<1>2. SpentOf(r)'
  BY <1>1 DEF SpentOf
<1>3. \A q \in Requests \ {r} : SpentOf(q)'
  BY SpentFrame DEF Spent, Typed, ControlOf
<1>. QED
  BY <1>1, <1>2, <1>3 DEF Spent, AtMostOncePerKey

LEMMA SpentCheckKey ==
  ASSUME Typed, Spent, NEW r \in Requests, CheckKey(r)
  PROVE  Spent'
<1>1. /\ UNCHANGED <<transfers, idempotency_keys, key_lock, call>>
      /\ pc'[r] \in {"peek_sender", "rollback"}
      /\ outcome'[r] = "duplicate" => call[r].key \in idempotency_keys
      /\ \A q \in Requests \ {r} : pc'[q] = pc[q] /\ outcome'[q] = outcome[q]
  BY DEF CheckKey, Proceed, db, locks, Typed, TypeOK
<1>. QED
  BY <1>1, SpentLocal DEF Spent

LEMMA SpentOrdinary ==
  ASSUME Typed, Spent, NEW r \in Requests,
         Submit(r) \/ Lock(r) \/ PeekSender(r) \/ PeekRecipient(r) \/ GetRate(r)
           \/ LockFirst(r) \/ LockSecond(r) \/ Apply(r)
  PROVE  Spent'
<1>1. UNCHANGED <<transfers, idempotency_keys, key_lock>>
  BY DEF Submit, Lock, PeekSender, PeekRecipient, GetRate, LockFirst, LockSecond, Apply,
         db, locks
<1>2. \A q \in Requests \ {r} : pc'[q] = pc[q] /\ call'[q] = call[q] /\ outcome'[q] = outcome[q]
  BY DEF Submit, Lock, PeekSender, PeekRecipient, GetRate, LockFirst, LockSecond, Apply,
         Proceed, Typed, TypeOK
<1>3. pc'[r] # "commit" \/ call'[r].op # "transfer"
  <2>1. CASE Apply(r)
    BY <2>1 DEF Apply, Proceed, Typed, TypeOK
  <2>2. CASE ~Apply(r)
    BY <2>2 DEF Submit, Lock, PeekSender, PeekRecipient, GetRate, LockFirst, LockSecond,
                Proceed, Typed, TypeOK
  <2>. QED
    BY <2>1, <2>2
<1>4. outcome'[r] # "duplicate"
  <2>1. CASE Submit(r)
    BY <2>1 DEF Submit, Spent, SpentOf
  <2>2. CASE ~Submit(r)
    BY <2>2 DEF Lock, PeekSender, PeekRecipient, GetRate, LockFirst, LockSecond, Apply,
                OwnRefusal, FundsRefusal, Proceed, Typed, TypeOK
  <2>. QED
    BY <2>1, <2>2
<1>. QED
  BY <1>1, <1>2, <1>3, <1>4, SpentLocal

LEMMA SpentInsert ==
  ASSUME Typed, Spent, NEW r \in Requests, Insert(r)
  PROVE  Spent'
<1>1. /\ UNCHANGED <<transfers, idempotency_keys, call>>
      /\ \A q \in Requests \ {r} : pc'[q] = pc[q] /\ outcome'[q] = outcome[q]
      /\ pc'[r] # "idle" /\ outcome'[r] \in {"none", "error"}
  BY DEF Insert, Proceed, db, Typed, TypeOK
<1>2. call[r] \in Calls /\ call[r].key \in Keys \cup {None}
  BY CallAssumption DEF Insert, Typed, ControlOf, Call
<1>3. \A k \in Keys, q \in Requests \ {r} : key_lock[k] = q => key_lock'[k] = q
  BY <1>2, NullAssumption DEF Insert, Typed, TypeOK
<1>4. TransferKeys' = TransferKeys
  BY <1>1 DEF TransferKeys
<1>5. SpentOf(r)'
  BY <1>1, <1>2, <1>4 DEF Insert, Proceed, SpentOf, Typed, TypeOK
<1>6. \A q \in Requests \ {r} : SpentOf(q)'
  BY <1>1, <1>3, SpentFrame DEF Spent, Typed, ControlOf
<1>. QED
  BY <1>1, <1>4, <1>5, <1>6 DEF Spent, AtMostOncePerKey

\* The commit of a transfer spends a key that was not spent, and that no other
\* handler about to commit can hold.
LEMMA SpentCommit ==
  ASSUME Typed, Spent, NEW r \in Requests, Commit(r)
  PROVE  Spent'
<1>1. /\ UNCHANGED <<call, outcome>> /\ pc[r] = "commit" /\ pc'[r] = "refresh"
      /\ \A q \in Requests \ {r} : pc'[q] = pc[q]
  BY DEF Commit, Typed, TypeOK
<1>2. \A k \in Keys, q \in Requests \ {r} : key_lock[k] = q => key_lock'[k] = q
  BY DEF Commit, Unlocked
<1>3. call[r] \in Calls /\ call[r].key \in Keys \cup {None}
  BY <1>1, CallAssumption DEF Typed, ControlOf, Call
<1>4. CASE call[r].op # "transfer"
  <2>1. UNCHANGED <<transfers, idempotency_keys>>
    BY <1>4 DEF Commit
  <2>2. outcome[r] = "duplicate" => call[r].key \in TransferKeys
    BY DEF Spent, SpentOf
  <2>. QED
    BY <1>1, <1>2, <1>4, <2>1, <2>2, SpentLocal
<1>5. CASE call[r].op = "transfer"
  <2> DEFINE t == TransferOf(r)
             k == call[r].key
  <2>1. /\ transfers' = transfers \cup {t} /\ t.key = k
        /\ idempotency_keys' = idempotency_keys \cup ({k} \ {None, EmptyKey})
    BY <1>5 DEF Commit, TransferOf
  <2>2. k # None => k \notin TransferKeys /\ key_lock[k] = r
    BY <1>1, <1>5 DEF Spent, SpentOf
  <2>3. TransferKeys' = TransferKeys \cup ({k} \ {None})
    BY <2>1 DEF TransferKeys
  <2>4. AtMostOncePerKey'
    BY <2>1, <2>2 DEF Spent, AtMostOncePerKey, TransferKeys
  <2>5. idempotency_keys' = TransferKeys' \ {EmptyKey}
    BY <2>1, <2>3 DEF Spent
  <2>6. SpentOf(r)'
    BY <1>1, <2>3 DEF Spent, SpentOf
  <2>7. ASSUME NEW q \in Requests \ {r} PROVE SpentOf(q)'
    <3>1. pc'[q] = pc[q] /\ call'[q] = call[q] /\ outcome'[q] = outcome[q] /\ SpentOf(q)
      BY <1>1 DEF Spent
    <3>2. pc[q] = "commit" => call[q].key \in Keys \cup {None}
      BY CallAssumption DEF Typed, ControlOf, Call
    <3>3. pc[q] = "commit" /\ call[q].op = "transfer" /\ call[q].key # None => call[q].key # k
      BY <2>2, <3>1 DEF SpentOf
    <3>. QED
      BY <1>2, <2>3, <3>1, <3>2, <3>3 DEF SpentOf
  <2>. QED
    BY <2>4, <2>5, <2>6, <2>7 DEF Spent
<1>. QED
  BY <1>4, <1>5

LEMMA SpentEnds ==
  ASSUME Typed, Spent, NEW r \in Requests,
         Refresh(r) \/ Publish(r) \/ PublishRecipient(r) \/ Rollback(r) \/ Crash(r)
  PROVE  Spent'
<1>1. UNCHANGED <<transfers, idempotency_keys, call>>
  BY DEF Refresh, Publish, PublishRecipient, Rollback, Crash, db
<1>2. \A k \in Keys, q \in Requests \ {r} : key_lock[k] = q => key_lock'[k] = q
  BY DEF Refresh, Publish, PublishRecipient, Rollback, Crash, locks, Unlocked
<1>3. /\ \A q \in Requests \ {r} : pc'[q] = pc[q] /\ outcome'[q] = outcome[q]
      /\ pc'[r] \notin {"idle", "commit"} /\ pc[r] # "idle"
      /\ outcome'[r] = outcome[r] \/ outcome'[r] # "duplicate"
  <2>1. CASE Refresh(r)
    BY <2>1, RefreshEffect
  <2>2. CASE Publish(r) \/ PublishRecipient(r) \/ Rollback(r) \/ Crash(r)
    BY <2>2 DEF Publish, PublishRecipient, Rollback, Crash, Answer, Typed, TypeOK
  <2>. QED
    BY <2>1, <2>2
<1>. QED
  BY <1>1, <1>2, <1>3, SpentLocal DEF Spent, SpentOf

LEMMA SpentOther ==
  ASSUME Typed, Spent, UNCHANGED vars \/ \E w \in Suspendable : Suspend(w)
  PROVE  Spent'
<1>1. UNCHANGED <<transfers, idempotency_keys, pc, call, outcome, key_lock>>
  BY DEF vars, db, locks, Suspend
<1>2. \A q \in Requests : SpentOf(q)'
  BY <1>1, SpentFrame DEF Spent, Typed, ControlOf
<1>. QED
  BY <1>1, <1>2 DEF Spent, AtMostOncePerKey, TransferKeys

LEMMA SpentInit == Init => Spent
  BY DEF Init, Spent, SpentOf, AtMostOncePerKey, TransferKeys

LEMMA SpentNext == Typed /\ Spent /\ [Next]_vars => Spent'
<1> SUFFICES ASSUME Typed, Spent, [Next]_vars PROVE Spent'
  OBVIOUS
<1>1. ASSUME NEW r \in Requests, Submit(r) \/ Step(r) \/ Crash(r) PROVE Spent'
  BY <1>1, SpentCheckKey, SpentOrdinary, SpentInsert, SpentCommit, SpentEnds DEF Step
<1>. QED
  BY <1>1, SpentOther DEF Next, Terminated

\* Whatever retries, crashes and races there are, a key is spent by one transfer.
THEOREM KeySpentOnce == Spec => []AtMostOncePerKey
<1>1. Spent => AtMostOncePerKey
  BY DEF Spent
<1>. QED
  BY TypedInit, TypedNext, SpentInit, SpentNext, <1>1, PTL DEF Spec

\* The stored keys are those of the committed transfers, and only their retries
\* are refused as duplicates.
THEOREM DuplicatesAreReal == Spec => []KeysMatchTransfers
<1>1. Spent => KeysMatchTransfers
  BY DEF Spent, SpentOf, KeysMatchTransfers
<1>. QED
  BY TypedInit, TypedNext, SpentInit, SpentNext, <1>1, PTL DEF Spec

-----------------------------------------------------------------------------
\* Layer 5: the row under a credit or a debit.

\* A credit or debit adds or takes the amount of its request, and from its lock
\* to its commit it works on the committed row, which is active.
FreshOf(r) ==
  pc[r] # "idle" /\ call[r].op # "transfer" =>
    /\ converted_amount[r] = call[r].amount
    /\ pc[r] = "lock" => \A w \in Wallet : identity_map[r][w] = None
    /\ pc[r] \in {"apply", "commit"} =>
         /\ identity_map[r][call[r].src] = wallets[call[r].src]
         /\ wallets[call[r].src].status = "active"

Fresh ==
  /\ \A r \in Requests : pc[r] = "idle" => \A w \in Wallet : identity_map[r][w] = None
  /\ \A r \in Requests : FreshOf(r)

\* Steps of r that write no row leave the other handlers' rows as they are.
LEMMA FreshLocal ==
  ASSUME Fresh, NEW r \in Requests, wallets' = wallets, pc'[r] # "idle", FreshOf(r)',
         \A q \in Requests \ {r} :
           /\ pc'[q] = pc[q] /\ call'[q] = call[q] /\ identity_map'[q] = identity_map[q]
           /\ converted_amount'[q] = converted_amount[q]
  PROVE  Fresh'
  BY DEF Fresh, FreshOf

LEMMA FreshSubmit ==
  ASSUME Typed, Fresh, NEW r \in Requests, Submit(r)
  PROVE  Fresh'
<1>1. PICK c \in Calls :
        /\ call' = [call EXCEPT ![r] = c]
        /\ converted_amount' = [converted_amount EXCEPT ![r] = c.amount]
        /\ pc' = [pc EXCEPT ![r] = IF c.op = "transfer" THEN "check_key" ELSE "lock"]
  BY DEF Submit
<1>2. wallets' = wallets /\ identity_map' = identity_map /\ pc[r] = "idle"
  BY DEF Submit, db
<1>3. FreshOf(r)'
  BY <1>1, <1>2 DEF Fresh, FreshOf, Typed, TypeOK
<1>. QED
  BY <1>1, <1>2, <1>3, FreshLocal DEF Typed, TypeOK

LEMMA FreshLock ==
  ASSUME Typed, Fresh, NEW r \in Requests, Lock(r)
  PROVE  Fresh'
<1> DEFINE w == call[r].src
<1>1. /\ wallets' = wallets /\ call' = call /\ converted_amount' = converted_amount
      /\ call[r].op # "transfer" /\ pc[r] = "lock" /\ pc'[r] \in {"apply", "rollback"}
      /\ \A q \in Requests \ {r} : pc'[q] = pc[q]
  BY DEF Lock, Proceed, db, Typed, TypeOK, ControlOf
<1>2. CASE w \notin Wallet
  <2>1. identity_map' = identity_map /\ pc'[r] = "rollback"
    BY <1>2 DEF Lock, Proceed, Typed, TypeOK
  <2>2. FreshOf(r)'
    BY <1>1, <2>1 DEF Fresh, FreshOf
  <2>. QED
    BY <1>1, <2>1, <2>2, FreshLocal
<1>3. CASE w \in Wallet
  <2>1. Load(r, w) /\ Loaded(r, w) = wallets[w]
    BY <1>1, <1>3 DEF Lock, Fresh, FreshOf, Loaded
  <2>2. /\ identity_map'[r][w] = wallets[w]
        /\ \A q \in Requests \ {r} : identity_map'[q] = identity_map[q]
    BY <1>3, <2>1, LoadEffect DEF Typed
  <2>3. pc'[r] = "apply" => wallets[w].status = "active"
    BY <1>3, <2>1 DEF Lock, Proceed, OwnRefusal, Typed, TypeOK
  <2>4. FreshOf(r)'
    BY <1>1, <2>2, <2>3 DEF Fresh, FreshOf
  <2>. QED
    BY <1>1, <2>2, <2>4, FreshLocal
<1>. QED
  BY <1>2, <1>3

LEMMA FreshTransfer ==
  ASSUME Typed, Fresh, NEW r \in Requests,
         CheckKey(r) \/ PeekSender(r) \/ PeekRecipient(r) \/ GetRate(r)
           \/ LockFirst(r) \/ LockSecond(r) \/ Insert(r)
  PROVE  Fresh'
<1>1. call[r].op = "transfer" /\ call' = call /\ wallets' = wallets
  BY DEF CheckKey, PeekSender, PeekRecipient, GetRate, LockFirst, LockSecond, Insert, db,
         Typed, ControlOf, TransferSteps
<1>2. /\ pc'[r] # "idle"
      /\ \A q \in Requests \ {r} : pc'[q] = pc[q] /\ converted_amount'[q] = converted_amount[q]
  BY DEF CheckKey, PeekSender, PeekRecipient, GetRate, LockFirst, LockSecond, Insert,
         Proceed, Typed, TypeOK
<1>3. \A q \in Requests \ {r} : identity_map'[q] = identity_map[q]
  BY DEF CheckKey, PeekSender, PeekRecipient, GetRate, LockFirst, LockSecond, Insert, Load,
         Typed, TypeOK
<1>4. FreshOf(r)'
  BY <1>1 DEF FreshOf
<1>. QED
  BY <1>1, <1>2, <1>3, <1>4, FreshLocal

LEMMA FreshOrdinary ==
  ASSUME Typed, Fresh, NEW r \in Requests,
         Apply(r) \/ Refresh(r) \/ Publish(r) \/ PublishRecipient(r) \/ Rollback(r) \/ Crash(r)
  PROVE  Fresh'
<1>1. /\ UNCHANGED <<call, wallets, converted_amount>> /\ pc[r] # "idle"
      /\ \A q \in Requests \ {r} : pc'[q] = pc[q] /\ identity_map'[q] = identity_map[q]
      /\ pc'[r] \notin {"idle", "lock"}
      /\ pc'[r] \in {"apply", "commit"} => pc[r] = "apply" /\ identity_map' = identity_map
  <2>1. CASE Refresh(r)
    BY <2>1, RefreshEffect DEF db
  <2>2. CASE Apply(r)
    BY <2>2 DEF Apply, Proceed, db, Typed, TypeOK
  <2>3. CASE Publish(r) \/ PublishRecipient(r) \/ Rollback(r) \/ Crash(r)
    BY <2>3 DEF Publish, PublishRecipient, Rollback, Crash, Answer, Forget, db, Typed, TypeOK
  <2>. QED
    BY <2>1, <2>2, <2>3
<1>2. FreshOf(r)'
  BY <1>1 DEF Fresh, FreshOf
<1>. QED
  BY <1>1, <1>2, FreshLocal

\* A commit writes rows its handler has locked, so not one that another credit or
\* debit is working on.
LEMMA FreshCommit ==
  ASSUME Typed, Locked, Fresh, NEW r \in Requests, Commit(r)
  PROVE  Fresh'
<1>1. /\ UNCHANGED <<call, identity_map, converted_amount>> /\ pc[r] = "commit"
      /\ pc'[r] = "refresh" /\ \A q \in Requests \ {r} : pc'[q] = pc[q]
  BY DEF Commit, Typed, TypeOK
<1>2. FreshOf(r)'
  BY <1>1 DEF Fresh, FreshOf
<1>3. ASSUME NEW q \in Requests \ {r} PROVE FreshOf(q)'
  <2>1. CASE pc[q] \in {"apply", "commit"} /\ call[q].op # "transfer"
    <3>1. call[q].src \in Wallet /\ call[q].src \in Touched(q)
      BY <2>1 DEF Typed, ControlOf, Has, LoadedSteps, Touched
    <3>2. row_lock[call[q].src] = q
      BY <2>1, <3>1 DEF Locked, LockedOf, Writing
    <3>3. call[q].src \notin Touched(r)
      BY <1>1, <3>1, <3>2 DEF Locked, LockedOf, Writing
    <3>4. wallets'[call[q].src] = wallets[call[q].src]
      BY <3>1, <3>3 DEF Commit
    <3>. QED
      BY <1>1, <3>4 DEF Fresh, FreshOf
  <2>2. CASE ~(pc[q] \in {"apply", "commit"} /\ call[q].op # "transfer")
    BY <1>1, <2>2 DEF Fresh, FreshOf
  <2>. QED
    BY <2>1, <2>2
<1>. QED
  BY <1>1, <1>2, <1>3 DEF Fresh

\* An operator cannot suspend a wallet whose row a credit or debit has locked.
LEMMA FreshSuspend ==
  ASSUME Typed, Locked, Fresh, NEW w \in Suspendable, Suspend(w)
  PROVE  Fresh'
<1>1. UNCHANGED <<pc, call, identity_map, converted_amount>> /\ row_lock[w] = None
  BY DEF Suspend
<1>2. ASSUME NEW q \in Requests PROVE FreshOf(q)'
  <2>1. CASE pc[q] \in {"apply", "commit"} /\ call[q].op # "transfer"
    <3>1. call[q].src \in Wallet /\ call[q].src \in Touched(q)
      BY <2>1 DEF Typed, ControlOf, Has, LoadedSteps, Touched
    <3>2. row_lock[call[q].src] = q
      BY <2>1, <3>1 DEF Locked, LockedOf, Writing
    <3>3. wallets'[call[q].src] = wallets[call[q].src]
      BY <1>1, <3>1, <3>2, NullAssumption DEF Suspend, Typed, TypeOK
    <3>. QED
      BY <1>1, <3>3 DEF Fresh, FreshOf
  <2>2. CASE ~(pc[q] \in {"apply", "commit"} /\ call[q].op # "transfer")
    BY <1>1, <2>2 DEF Fresh, FreshOf
  <2>. QED
    BY <2>1, <2>2
<1>. QED
  BY <1>1, <1>2 DEF Fresh

LEMMA FreshInit == Init => Fresh
  BY DEF Init, Fresh, FreshOf

LEMMA FreshNext == Typed /\ Locked /\ Fresh /\ [Next]_vars => Fresh'
<1> SUFFICES ASSUME Typed, Locked, Fresh, [Next]_vars PROVE Fresh'
  OBVIOUS
<1>1. ASSUME NEW r \in Requests, Submit(r) \/ Step(r) \/ Crash(r) PROVE Fresh'
  BY <1>1, FreshSubmit, FreshLock, FreshTransfer, FreshOrdinary, FreshCommit DEF Step
<1>2. ASSUME NEW w \in Suspendable, Suspend(w) PROVE Fresh'
  BY <1>2, FreshSuspend
<1>3. CASE UNCHANGED vars
  BY <1>3 DEF vars, db, Fresh, FreshOf
<1>. QED
  BY <1>1, <1>2, <1>3 DEF Next, Terminated

-----------------------------------------------------------------------------
\* Properties of the steps.

\* A handler changes its own place and variables only.
LEMMA OthersStay ==
  ASSUME Typed, NEW r \in Requests, Submit(r) \/ Step(r) \/ Crash(r), NEW q \in Requests \ {r}
  PROVE  /\ pc'[q] = pc[q] /\ call'[q] = call[q] /\ outcome'[q] = outcome[q]
         /\ identity_map'[q] = identity_map[q] /\ converted_amount'[q] = converted_amount[q]
<1> USE DEF Typed, TypeOK, Proceed, Answer, Load, Forget
<1>1. CASE Submit(r) \/ Crash(r) \/ Rollback(r)
  BY <1>1 DEF Submit, Crash, Rollback
<1>2. CASE Lock(r)
  BY <1>2 DEF Lock
<1>3. CASE CheckKey(r) \/ PeekSender(r) \/ PeekRecipient(r) \/ GetRate(r)
  BY <1>3 DEF CheckKey, PeekSender, PeekRecipient, GetRate
<1>4. CASE LockFirst(r) \/ LockSecond(r)
  BY <1>4 DEF LockFirst, LockSecond
<1>5. CASE Apply(r) \/ Insert(r) \/ Commit(r)
  BY <1>5 DEF Apply, Insert, Commit
<1>6. CASE Refresh(r) \/ Publish(r) \/ PublishRecipient(r)
  BY <1>6 DEF Refresh, Publish, PublishRecipient
<1>. QED
  BY <1>1, <1>2, <1>3, <1>4, <1>5, <1>6 DEF Step

\* Only a commit adds to a history, and only to those of the wallets it touches.
LEMMA OnlyCommitPosts ==
  ASSUME Typed, [Next]_vars, NEW w \in Wallet, transactions'[w] # transactions[w]
  PROVE  \E r \in Requests : Commit(r) /\ w \in Touched(r)
<1>1. ASSUME NEW r \in Requests, Submit(r) \/ Crash(r) \/ Step(r)
      PROVE  Commit(r) /\ w \in Touched(r)
  <2>1. Commit(r) \/ transactions' = transactions
    BY <1>1 DEF Step, Submit, Crash, Lock, CheckKey, PeekSender, PeekRecipient, GetRate,
                LockFirst, LockSecond, Apply, Insert, Refresh, Publish, PublishRecipient,
                Rollback, db
  <2>. QED
    BY <2>1 DEF Commit
<1>. QED
  BY <1>1 DEF Next, Suspend, Terminated, vars, db

\* The entry a commit appends, and the balance it leaves.
LEMMA CommitPosts ==
  ASSUME Typed, NEW r \in Requests, Commit(r), NEW w \in Touched(r)
  PROVE  /\ w \in Wallet /\ pc[r] = "commit" /\ Posts(w) /\ Posted(w) = EntryOf(r, w)
         /\ AmountAt(r, w) # 0 => wallets'[w].balance = Stored(After(r, w))
         /\ AmountAt(r, w) = 0 => wallets'[w] = wallets[w]
         /\ wallets'[w].status = wallets[w].status
<1>1. w \in Wallet /\ pc[r] = "commit"
  BY AmountTypes DEF Commit, LoadedSteps
<1>2. transactions[w] \in Seq(Entry) /\ EntryOf(r, w) \in Entry /\ wallets[w] \in Row
  BY <1>1, CommitTypes DEF Typed, TypeOK
<1>3. transactions'[w] = Append(transactions[w], EntryOf(r, w))
  BY <1>1 DEF Commit
<1>4. Posts(w) /\ Posted(w) = EntryOf(r, w)
  BY <1>2, <1>3 DEF Posts, Posted
<1>5. wallets'[w] = IF AmountAt(r, w) # 0
                    THEN [wallets[w] EXCEPT !.balance = Stored(After(r, w))] ELSE wallets[w]
  BY <1>1 DEF Commit
<1>. QED
  BY <1>1, <1>2, <1>4, <1>5 DEF Row

\* Credits and debits of one wallet are serial: each starts from the committed
\* balance of its commit and leaves the balance it records, on an active wallet.
THEOREM DirectOperationsSerial == Spec => CreditsAndDebitsAreSerial
<1> DEFINE Serial == \A w \in Wallet : Posts(w) /\ Posted(w).kind # "transfer" =>
                       /\ Posted(w).before = wallets[w].balance
                       /\ Posted(w).after = wallets'[w].balance
                       /\ wallets[w].status = "active"
<1>1. Typed /\ Fresh /\ [Next]_vars => Serial
  <2> SUFFICES ASSUME Typed, Fresh, [Next]_vars, NEW w \in Wallet,
                      Posts(w), Posted(w).kind # "transfer"
               PROVE  /\ Posted(w).before = wallets[w].balance
                      /\ Posted(w).after = wallets'[w].balance
                      /\ wallets[w].status = "active"
    OBVIOUS
  <2>1. transactions'[w] # transactions[w]
    BY DEF Posts, Typed, TypeOK
  <2>2. PICK r \in Requests : Commit(r) /\ w \in Touched(r)
    BY <2>1, OnlyCommitPosts
  <2>3. /\ pc[r] = "commit" /\ Posted(w) = EntryOf(r, w)
        /\ AmountAt(r, w) # 0 => wallets'[w].balance = Stored(After(r, w))
    BY <2>2, CommitPosts
  <2>4. call[r].op # "transfer" /\ call[r] \in Calls /\ call[r] \in Call
    BY <2>3, CallAssumption DEF EntryOf, Typed, ControlOf
  <2>5. w = call[r].src
    BY <2>2, <2>4, CallAssumption DEF Touched
  <2>6. identity_map[r][w] = wallets[w] /\ wallets[w].status = "active"
    BY <2>3, <2>4, <2>5 DEF Fresh, FreshOf
  <2>7. AmountAt(r, w) # 0
    BY <2>3, <2>4 DEF AmountAt, Fresh, FreshOf, Call
  <2>. QED
    BY <2>3, <2>6, <2>7 DEF EntryOf, Before
<1>2. Typed /\ Fresh /\ [Next]_vars => [Serial]_vars
  BY <1>1
<1>3. Spec => [][Serial]_vars
  BY TypedInit, TypedNext, LockedInit, LockedNext, FreshInit, FreshNext, <1>2, PTL DEF Spec
<1>. QED
  BY <1>3 DEF CreditsAndDebitsAreSerial

\* Money only moves with an entry that records where it has moved to.
THEOREM MoneyMovesWithEntry == Spec => BalanceMovesOnlyWithEntry
<1> DEFINE Explained == \A w \in Wallet : wallets'[w].balance # wallets[w].balance =>
                          Posts(w) /\ Posted(w).after = wallets'[w].balance
<1>1. Typed /\ [Next]_vars => Explained
  <2> SUFFICES ASSUME Typed, [Next]_vars, NEW w \in Wallet,
                      wallets'[w].balance # wallets[w].balance
               PROVE  Posts(w) /\ Posted(w).after = wallets'[w].balance
    OBVIOUS
  <2>1. PICK r \in Requests : Commit(r) /\ w \in Touched(r)
    <3>1. ASSUME NEW r \in Requests, Submit(r) \/ Crash(r) \/ Step(r)
          PROVE  Commit(r) /\ w \in Touched(r)
      <4>1. Commit(r) \/ wallets' = wallets
        BY <3>1 DEF Step, Submit, Crash, Lock, CheckKey, PeekSender, PeekRecipient, GetRate,
                    LockFirst, LockSecond, Apply, Insert, Refresh, Publish,
                    PublishRecipient, Rollback, db
      <4>. QED
        BY <4>1 DEF Commit
    <3>2. ASSUME NEW v \in Suspendable, Suspend(v) PROVE FALSE
      <4>1. wallets[w] \in Row /\ wallets' = [wallets EXCEPT ![v].status = "suspended"]
        BY <3>2 DEF Suspend, Typed, TypeOK
      <4>2. CASE v = w
        BY <4>1, <4>2 DEF Typed, TypeOK, Row
      <4>3. CASE v # w
        BY <4>1, <4>3 DEF Typed, TypeOK
      <4>. QED
        BY <4>2, <4>3
    <3>. QED
      BY <3>1, <3>2 DEF Next, Terminated, vars, db
  <2>. QED
    BY <2>1, CommitPosts DEF EntryOf
<1>2. Typed /\ [Next]_vars => [Explained]_vars
  BY <1>1
<1>3. Spec => [][Explained]_vars
  BY TypedInit, TypedNext, <1>2, PTL DEF Spec
<1>. QED
  BY <1>3 DEF BalanceMovesOnlyWithEntry
=============================================================================
