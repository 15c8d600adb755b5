------------------------------ MODULE Accounts ------------------------------
(***************************************************************************)
(* What the requests that move no money promise: each is answered once,    *)
(* makes at most one row, in one step, and only for a user that exists,    *)
(* saves at most one change of a profile, and is told the truth.           *)
(*                                                                         *)
(* There are no locks, sessions, caches, limits or crashes here: an answer *)
(* may be lost at any time.  HttpApi is shown to implement this.           *)
(***************************************************************************)
CONSTANTS Requests, Users, Registered, Names, Calls, Second, None

VARIABLES asks,      \* what each request has asked for
          told,      \* what its client has been told
          rows,      \* the unique keys that are taken
          profile,   \* of each user
          saved      \* the updates that have been saved and are not answered yet

accounts == <<asks, told, rows, profile, saved>>

AccountsInit ==
  /\ asks = [r \in Requests |-> None] /\ told = [r \in Requests |-> "none"]
  /\ rows = {<<"user", u>> : u \in Registered}
  /\ \E name \in Names : profile = [u \in Users |-> name]
  /\ saved = {}

\* The rows a call may make.
Makes(c) == CASE c.op = "register" -> {<<"user", c.user>>}
              [] c.op = "wallet" -> {<<"wallet", c.user>>}
              [] c.op = "login" -> {<<"token", c.user, s>> : s \in Second}
              [] OTHER -> {}

Known(c) == <<"user", c.user>> \in rows
Open(r) == asks[r] # None /\ told[r] = "none"

Ask(r) ==
  /\ asks[r] = None
  /\ \E c \in Calls : asks' = [asks EXCEPT ![r] = c]
  /\ UNCHANGED <<told, rows, profile, saved>>

\* One row that was not there; the client may not come to know, or get a 500.
Create(r) ==
  LET c == asks[r]
  IN /\ Open(r) /\ (c.op = "register" \/ Known(c))
     /\ \E k \in Makes(c) \ rows : rows' = rows \cup {k}
     /\ \E code \in {"ok", "error", "lost"} : told' = [told EXCEPT ![r] = code]
     /\ UNCHANGED <<asks, profile, saved>>

\* The change is made, or it is none.
Save(r) ==
  LET c == asks[r]
  IN /\ Open(r) /\ c.op = "update_profile" /\ Known(c) /\ r \notin saved
     /\ saved' = saved \cup {r}
     /\ \/ UNCHANGED profile
        \/ c.name # None /\ profile' = [profile EXCEPT ![c.user] = c.name]
     /\ UNCHANGED <<asks, told, rows>>

\* What a request that makes no row may be told, and when.
Truthful(r, code) ==
  LET c == asks[r]
      served == c.op = "get_profile" \/ r \in saved
  IN CASE code = "limited" -> r \notin saved
       [] code = "unauthorized" -> c.op # "register" /\ ~ Known(c)
       [] code = "conflict" -> c.op # "login" /\ Makes(c) \cap rows # {}
       [] code = "duplicate" -> Makes(c) \cap rows # {}
       [] code \in {"ok", "error"} -> served /\ Known(c)
       [] code = "lost" -> TRUE

Tell(r) ==
  /\ Open(r)
  /\ \E code \in {"limited", "unauthorized", "conflict", "duplicate", "ok", "error", "lost"} :
       Truthful(r, code) /\ told' = [told EXCEPT ![r] = code]
  /\ saved' = saved \ {r}
  /\ UNCHANGED <<asks, rows, profile>>

AccountsNext == \E r \in Requests : Ask(r) \/ Create(r) \/ Save(r) \/ Tell(r)

AccountsSpec == AccountsInit /\ [][AccountsNext]_accounts
=============================================================================
