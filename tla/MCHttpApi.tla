------------------------------ MODULE MCHttpApi ------------------------------
(***************************************************************************)
(* A small instance of HttpApi for TLC.                                    *)
(***************************************************************************)
EXTENDS HttpApi, TLC

CONSTANTS r1, r2, r3, alice, bob, ann, eve

\* The calls below treat the two names alike.
Symmetry == Permutations(Requests) \cup Permutations(Names)

Ask(op, user, name) == [op |-> op, user |-> user, name |-> name]

\* Alice has a row and Bob has none yet, so that his logins depend on a registration.
AllCalls ==
  {Ask("register", bob, None), Ask("login", bob, None),
   Ask("wallet", alice, None), Ask("get_profile", alice, None),
   Ask("update_profile", alice, ann), Ask("update_profile", alice, eve)}
OneOrTwo == [p \in Paths |-> IF p = "me" THEN 2 ELSE 1]
=============================================================================
