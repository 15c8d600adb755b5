------------------------ MODULE WalletWaitingProofs ------------------------
(***************************************************************************)
(* Handlers never wait for each other in a circle.  A handler that waits   *)
(* while it holds a lock waits for its second row, whose id is larger than *)
(* that of the row it holds; whoever holds a key waits for nothing.  So    *)
(* along a chain of waiting handlers the first ids grow, and among         *)
(* finitely many handlers the chain ends.                                  *)
(***************************************************************************)
EXTENDS WalletServiceProofs, FiniteSetTheorems, WellFoundedInduction

-----------------------------------------------------------------------------
\* A nonempty set of natural numbers has a least member.
LEMMA LeastNatural ==
  ASSUME NEW T \in SUBSET Nat, T # {}
  PROVE  \E x \in T : \A y \in T : x <= y
<1>1. \E x \in T : \A y \in T : ~ (<<y, x>> \in OpToRel(<, Nat))
  BY NatLessThanWellFounded, WFMin
<1>2. PICK x \in T : \A y \in T : ~ (<<y, x>> \in OpToRel(<, Nat))
  BY <1>1
<1>3. \A y \in T : ~ (y < x)
  BY <1>2 DEF OpToRel
<1>. QED
  BY <1>3

\* Numbers cannot grow along every step of a relation on a finite set.
LEMMA NoEndlessClimb ==
  ASSUME NEW S, IsFiniteSet(S), S # {}, NEW f \in [S -> Nat]
  PROVE  \E r \in S : \A s \in S : f[s] <= f[r]
<1> DEFINE Above(r) == {s \in S : f[s] > f[r]}
           T == {Cardinality(Above(r)) : r \in S}
<1>1. \A r \in S : IsFiniteSet(Above(r)) /\ Cardinality(Above(r)) \in Nat
  <2> TAKE r \in S
  <2>1. Above(r) \in SUBSET S
    OBVIOUS
  <2> HIDE DEF Above
  <2>. QED
    BY <2>1, FS_Subset, FS_CardinalityType
<1>2. PICK r \in S : \A s \in S : Cardinality(Above(r)) <= Cardinality(Above(s))
  <2> HIDE DEF Above
  <2>1. T \in SUBSET Nat /\ T # {}
    BY <1>1
  <2>2. PICK x \in T : \A y \in T : x <= y
    BY <2>1, LeastNatural
  <2>. QED
    BY <2>2
<1>3. ASSUME NEW s \in S, f[s] > f[r] PROVE FALSE
  <2>1. Above(s) \in SUBSET Above(r) /\ s \in Above(r) /\ s \notin Above(s)
    BY <1>3
  <2> HIDE DEF Above
  <2>2. Cardinality(Above(s)) <= Cardinality(Above(r))
    BY <1>1, <2>1, FS_Subset
  <2>3. Cardinality(Above(s)) = Cardinality(Above(r))
    BY <1>1, <1>2, <2>2
  <2>4. Above(r) = Above(s)
    BY <1>1, <2>1, <2>3, FS_Subset
  <2>. QED
    BY <2>1, <2>4
<1>4. \A s \in S : f[s] <= f[r]
  BY <1>3
<1>. QED
  BY <1>4

-----------------------------------------------------------------------------
\* Who holds what.

\* A key is held by a handler that has only to commit, and a handler on its way to
\* its second row holds its first and no other.
HeldOf(r) ==
  /\ \A k \in Keys : key_lock[k] = r => pc[r] = "commit"
  /\ \A w \in Wallet : row_lock[w] = r /\ pc[r] = "lock_second" => w = First(r)

Held == \A r \in Requests : HeldOf(r)

LEMMA HeldFrame ==
  ASSUME NEW q \in Requests, HeldOf(q), pc'[q] = pc[q], call'[q] = call[q],
         \A k \in Keys : key_lock'[k] = q => key_lock[k] = q,
         \A w \in Wallet : row_lock'[w] = q => row_lock[w] = q
  PROVE  HeldOf(q)'
  BY DEF HeldOf, First

\* What a step of r does to the locks: others get none by it.
LEMMA LocksOfOthers ==
  ASSUME Typed, NEW r \in Requests, Submit(r) \/ Step(r) \/ Crash(r), NEW q \in Requests \ {r}
  PROVE  /\ \A k \in Keys : key_lock'[k] = q => key_lock[k] = q
         /\ \A w \in Wallet : row_lock'[w] = q => row_lock[w] = q
<1> USE NullAssumption DEF Typed, TypeOK, locks, Unlocked
<1>1. CASE Submit(r) \/ CheckKey(r) \/ PeekSender(r) \/ PeekRecipient(r) \/ GetRate(r)
             \/ Apply(r) \/ Refresh(r) \/ Publish(r) \/ PublishRecipient(r)
  BY <1>1 DEF Submit, CheckKey, PeekSender, PeekRecipient, GetRate, Apply, Refresh, Publish,
              PublishRecipient
<1>2. CASE Lock(r) \/ LockFirst(r) \/ LockSecond(r)
  BY <1>2 DEF Lock, LockFirst, LockSecond
<1>3. CASE Insert(r)
  BY <1>3 DEF Insert
<1>4. CASE Commit(r) \/ Rollback(r) \/ Crash(r)
  BY <1>4 DEF Commit, Rollback, Crash
<1>. QED
  BY <1>1, <1>2, <1>3, <1>4 DEF Step

LEMMA HeldOwn ==
  ASSUME Typed, Locked, Held, NEW r \in Requests, Submit(r) \/ Step(r) \/ Crash(r)
  PROVE  HeldOf(r)'
<1>0. HeldOf(r) /\ LockedOf(r)
  BY DEF Held, Locked
<1> USE NullAssumption DEF Typed, TypeOK
<1>1. CASE Submit(r) \/ CheckKey(r) \/ PeekSender(r) \/ PeekRecipient(r) \/ GetRate(r)
             \/ Apply(r) \/ Refresh(r) \/ Publish(r) \/ PublishRecipient(r)
  <2>1. UNCHANGED <<row_lock, key_lock>> /\ pc'[r] # "lock_second" /\ pc[r] # "commit"
    BY <1>1 DEF Submit, CheckKey, PeekSender, PeekRecipient, GetRate, Apply, Refresh, Publish,
                PublishRecipient, Proceed, Answer, locks
  <2>. QED
    BY <1>0, <2>1 DEF HeldOf
<1>2. CASE Lock(r) \/ LockSecond(r)
  <2>1. UNCHANGED key_lock /\ pc'[r] # "lock_second" /\ pc[r] # "commit"
    BY <1>2 DEF Lock, LockSecond, Proceed
  <2>. QED
    BY <1>0, <2>1 DEF HeldOf
<1>3. CASE LockFirst(r)
  <2>1. /\ UNCHANGED <<key_lock, call>> /\ pc[r] = "lock_first" /\ pc'[r] = "lock_second"
        /\ row_lock' = [row_lock EXCEPT ![First(r)] = r]
    BY <1>3 DEF LockFirst, Proceed
  <2>2. \A w \in Wallet : row_lock[w] # r
    BY <1>0, <2>1 DEF LockedOf, Holding, Writing
  <2>3. First(r)' = First(r)
    BY <2>1 DEF First
  <2>. QED
    BY <1>0, <2>1, <2>2, <2>3 DEF HeldOf
<1>4. CASE Insert(r)
  <2>1. /\ UNCHANGED row_lock /\ pc[r] = "insert" /\ pc'[r] \in {"commit", "rollback"}
        /\ key_lock' = key_lock \/ pc'[r] = "commit"
    BY <1>4 DEF Insert, Proceed
  <2>. QED
    BY <1>0, <2>1 DEF HeldOf
<1>5. CASE Commit(r) \/ Rollback(r) \/ Crash(r)
  <2>1. \A k \in Keys : key_lock'[k] # r
    BY <1>5 DEF Commit, Rollback, Crash, Unlocked
  <2>2. Unlocked(r)
    BY <1>5 DEF Commit, Rollback, Crash
  <2>3. \A w \in Wallet : row_lock'[w] # r
    BY <2>2 DEF Unlocked
  <2>. QED
    BY <2>1, <2>3 DEF HeldOf
<1>. QED
  BY <1>1, <1>2, <1>3, <1>4, <1>5 DEF Step

LEMMA HeldNext == Typed /\ Locked /\ Held /\ [Next]_vars => Held'
<1> SUFFICES ASSUME Typed, Locked, Held, [Next]_vars PROVE Held'
  OBVIOUS
<1>1. ASSUME NEW r \in Requests, Submit(r) \/ Step(r) \/ Crash(r) PROVE Held'
  BY <1>1, HeldOwn, OthersStay, LocksOfOthers, HeldFrame DEF Held
<1>2. CASE UNCHANGED vars \/ \E w \in Suspendable : Suspend(w)
  <2>1. UNCHANGED <<pc, call, row_lock, key_lock>>
    BY <1>2 DEF vars, locks, Suspend
  <2>. QED
    BY <2>1, HeldFrame DEF Held
<1>. QED
  BY <1>1, <1>2 DEF Next, Terminated

LEMMA HeldInit == Init => Held
  BY NullAssumption DEF Init, Held, HeldOf

-----------------------------------------------------------------------------
\* Waiting.

\* Whoever is waited for and waits is at its second row or at its key; and whoever
\* waits for a key waits for a handler that does not wait.
LEMMA WaitersHold ==
  ASSUME Typed, Locked, Held, NEW p \in Requests, NEW q \in Requests,
         q \in WaitsFor(p), WaitsFor(q) # {}
  PROVE  pc[p] # "insert" /\ pc[q] \in {"lock_second", "insert"}
<1>1. pc[q] \in {"lock", "lock_first", "lock_second", "insert"}
      /\ pc[p] \in {"lock", "lock_first", "lock_second", "insert"}
  BY DEF WaitsFor
<1>2. CASE pc[p] = "insert"
  <2>1. call[p].key \in Keys \cup {None}
    BY <1>2, CallAssumption DEF Typed, ControlOf, LoadedSteps, Call
  <2>2. call[p].key \in Keys /\ key_lock[call[p].key] = q
    BY <1>2, <2>1 DEF WaitsFor
  <2>. QED
    BY <1>1, <2>2 DEF Held, HeldOf
<1>3. CASE pc[p] # "insert"
  <2>1. PICK w \in Wallet : row_lock[w] = q
    <3>1. CASE pc[p] = "lock"
      BY <3>1 DEF WaitsFor
    <3>2. CASE pc[p] \in {"lock_first", "lock_second"}
      <4>1. First(p) \in Wallet /\ Second(p) \in Wallet
        BY <3>2, LockOrder DEF LoadedSteps
      <4>. QED
        BY <3>2, <4>1 DEF WaitsFor
    <3>. QED
      BY <1>1, <1>3, <3>1, <3>2
  <2>2. pc[q] \in Holding
    BY <2>1 DEF Locked, LockedOf
  <2>. QED
    BY <1>1, <1>3, <2>2 DEF Holding, Writing
<1>. QED
  BY <1>2, <1>3

\* Of two handlers at their second rows the one that waits has the smaller first id.
LEMMA ChainClimbs ==
  ASSUME Typed, Locked, Held, NEW s \in Requests, NEW t \in Requests,
         pc[s] = "lock_second", pc[t] = "lock_second", t \in WaitsFor(s)
  PROVE  First(s) < First(t)
<1>1. First(s) \in Wallet /\ Second(s) \in Wallet /\ First(s) < Second(s)
  <2>1. call[s].op = "transfer"
    BY DEF Typed, ControlOf, TransferSteps
  <2>. QED
    BY <2>1, LockOrder DEF LoadedSteps
<1>2. row_lock[Second(s)] = t
  BY DEF WaitsFor
<1>3. Second(s) = First(t)
  BY <1>1, <1>2 DEF Held, HeldOf
<1>. QED
  BY <1>1, <1>3

LEMMA NoCircle ==
  ASSUME IsFiniteSet(Requests), Typed, Locked, Held
  PROVE  NoWaitCycle
<1> SUFFICES ASSUME NEW S \in SUBSET Requests, S # {}, \A r \in S : WaitsFor(r) \cap S # {}
             PROVE  FALSE
  BY DEF NoWaitCycle
<1> DEFINE T == {r \in S : pc[r] = "lock_second"}
<1>1. \A r \in S, s \in S : s \in WaitsFor(r) => s \in T
  <2> SUFFICES ASSUME NEW r \in S, NEW s \in S, s \in WaitsFor(r) PROVE s \in T
    OBVIOUS
  <2>1. PICK t \in S : t \in WaitsFor(s)
    OBVIOUS
  <2>2. WaitsFor(s) # {} /\ WaitsFor(t) # {}
    BY <2>1
  <2>3. pc[s] \in {"lock_second", "insert"}
    BY <2>2, WaitersHold
  <2>4. pc[s] # "insert"
    BY <2>1, <2>2, WaitersHold
  <2>. QED
    BY <2>3, <2>4
<1>2. T # {} /\ T \in SUBSET Requests
  BY <1>1
<1>3. IsFiniteSet(T)
  BY <1>2, FS_Subset
<1>4. \A r \in T : First(r) \in Nat
  BY LockOrder, WalletAssumption DEF LoadedSteps
<1> DEFINE f == [r \in T |-> First(r)]
<1>5. f \in [T -> Nat]
  BY <1>4
<1>6. PICK r \in T : \A s \in T : f[s] <= f[r]
  <2> HIDE DEF f, T
  <2>. QED
    BY <1>2, <1>3, <1>5, NoEndlessClimb
<1>7. PICK s \in S : s \in WaitsFor(r)
  OBVIOUS
<1>8. s \in T
  BY <1>1, <1>7
<1>9. First(r) < First(s)
  BY <1>7, <1>8, ChainClimbs
<1>10. First(s) <= First(r)
  BY <1>6, <1>8
<1>. QED
  BY <1>4, <1>8, <1>9, <1>10

\* Among finitely many requests there is never a circle of handlers that wait for
\* each other's row and key locks: PostgreSQL has no deadlock to break.
THEOREM NoDeadlock == IsFiniteSet(Requests) => (Spec => []NoWaitCycle)
<1> SUFFICES ASSUME IsFiniteSet(Requests) PROVE Spec => []NoWaitCycle
  OBVIOUS
<1>1. Typed /\ Locked /\ Held => NoWaitCycle
  BY NoCircle
<1>. QED
  BY TypedInit, TypedNext, LockedInit, LockedNext, HeldInit, HeldNext, <1>1, PTL DEF Spec
=============================================================================
