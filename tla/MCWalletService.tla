-------------------------- MODULE MCWalletService --------------------------
(***************************************************************************)
(* Small instances of WalletService for TLC.                               *)
(***************************************************************************)
EXTENDS WalletService, TLC

CONSTANTS r1, r2, r3, alice, bob, k1

Symmetry == Permutations(Requests)

Credit(u, w, a) == [op |-> "credit", user |-> u, src |-> w, dst |-> w, amount |-> a, key |-> None]
Debit(u, w, a)  == [op |-> "debit", user |-> u, src |-> w, dst |-> w, amount |-> a, key |-> None]
Pay(u, v, w, a, k) == [op |-> "transfer", user |-> u, src |-> v, dst |-> w, amount |-> a, key |-> k]

\* Alice and Bob have a dollar wallet each and Alice a euro wallet; no wallet
\* has id 4.  An opening balance is four ticks, which is two units when Scale = 2.
TheOwners     == 1 :> alice @@ 2 :> bob @@ 3 :> alice
TheCurrencies == 1 :> "USD" @@ 2 :> "USD" @@ 3 :> "EUR"
FourEach      == [w \in 1 .. 3 |-> 4]

\* What meets on the two dollar rows: payments both ways, one of them under a
\* key, a debit, and a credit of one and a half units.
MixedCalls ==
  {Pay(alice, 1, 2, 2, k1), Pay(bob, 2, 1, 4, None), Credit(alice, 1, 3), Debit(bob, 2, 2)}

\* A transfer under a key, another user's transfer under the same key, the empty
\* key, a conversion, a credit that may overflow, and a request that is refused
\* for each reason there is.
RetryCalls ==
  {Pay(alice, 1, 2, 2, k1), Pay(bob, 2, 1, 2, k1), Pay(alice, 1, 2, 2, EmptyKey),
   Pay(bob, 2, 3, 2, None),                               \* one rate converts it to 0
   Credit(alice, 3, 3), Debit(bob, 2, 2),
   Pay(alice, 1, 1, 2, None), Pay(alice, 2, 1, 2, None),  \* same wallet, not hers
   Pay(alice, 1, 4, 2, None), Credit(alice, 4, 2)}        \* no such wallet

\* The smallest mixes in which a document is contradicted.
PaymentAndCredit == {Pay(alice, 1, 2, 2, None), Credit(alice, 1, 2)}
OnePayment       == {Pay(alice, 1, 2, 2, k1)}
HalfAUnit        == {Pay(alice, 1, 2, 1, None)}
=============================================================================
