------------------------------- MODULE Ledger -------------------------------
(***************************************************************************)
(* What the money operations promise: every request posts at most once, in *)
(* one step, to all of its wallets.  A credit or debit starts from the     *)
(* balance of that moment; a transfer starts from balances its wallets     *)
(* have once had, covers its amount from the sender's, and spends its key. *)
(*                                                                         *)
(* There are no locks, sessions, crashes or retries here.  WalletService   *)
(* is shown to implement this specification.                               *)
(***************************************************************************)
EXTENDS Money, Sequences

CONSTANTS Requests, Wallet, Calls, None, owner, currency, Opening,
          MaxBalance, Suspendable

VARIABLES balance,   \* of each wallet
          active,    \* the wallets that are not suspended
          history,   \* the entries of each wallet, in the order they were posted
          spent      \* the keys of the transfers made

ledger == <<balance, active, history, spent>>

LedgerInit ==
  /\ balance = Opening
  /\ active = Wallet
  /\ history = [w \in Wallet |-> << >>]
  /\ spent = {}

\* The balances wallet w has had.
Had(w) == {Opening[w]} \cup {history[w][i].after : i \in DOMAIN history[w]}

HasPosted(r) == \E w \in Wallet : \E i \in DOMAIN history[w] : history[w][i].req = r

Record(r, kind, amount, from, to) ==
  [req |-> r, kind |-> kind, amount |-> Stored(amount), before |-> from, after |-> Stored(to)]

\* A credit or debit by the owner of an active wallet, from its balance now.
PostSingle(r, c) ==
  LET w == c.src
      from == balance[w]
      to == IF c.op = "credit" THEN from + c.amount ELSE from - c.amount
  IN /\ c.op # "transfer" /\ w \in active /\ owner[w] = c.user
     /\ to >= 0 /\ Stored(to) <= MaxBalance
     /\ balance' = [balance EXCEPT ![w] = Stored(to)]
     /\ history' = [history EXCEPT ![w] = Append(@, Record(r, c.op, c.amount, from, to))]
     /\ UNCHANGED <<active, spent>>

\* What the recipient of a transfer may be given: the amount itself inside one
\* currency, anything its column holds if the amount is converted.
Gains(c) == IF currency[c.src] = currency[c.dst] THEN {c.amount} ELSE 0 .. MaxBalance

\* A transfer of c.amount, of which the recipient is given `gain`.  An amount
\* converted to nothing moves nothing.
PostTransfer(r, c, from, into, gain) ==
  LET left == Stored(from - c.amount)
      made == IF gain = 0 THEN balance[c.dst] ELSE Stored(into + gain)
  IN /\ c.op = "transfer" /\ c.src # c.dst /\ owner[c.src] = c.user
     /\ c.key \notin spent
     /\ from >= c.amount
     /\ left <= MaxBalance /\ Stored(into + gain) <= MaxBalance
     /\ balance' = [balance EXCEPT ![c.src] = left, ![c.dst] = made]
     /\ history' = [history EXCEPT
          ![c.src] = Append(@, Record(r, c.op, c.amount, from, from - c.amount)),
          ![c.dst] = Append(@, Record(r, c.op, gain, into, into + gain))]
     /\ spent' = spent \cup ({c.key} \ {None})
     /\ UNCHANGED active

Close(w) ==
  /\ active' = active \ {w}
  /\ UNCHANGED <<balance, history, spent>>

Post(r, c) ==
  /\ ~ HasPosted(r)
  /\ \/ c.src \in Wallet /\ PostSingle(r, c)
     \/ /\ {c.src, c.dst} \subseteq Wallet
        /\ \E from \in Had(c.src), into \in Had(c.dst), gain \in Gains(c) :
             PostTransfer(r, c, from, into, gain)

LedgerNext ==
  \/ history' # history /\ \E r \in Requests, c \in Calls : Post(r, c)
  \/ \E w \in Suspendable : Close(w)

LedgerSpec == LedgerInit /\ [][LedgerNext]_ledger
=============================================================================
