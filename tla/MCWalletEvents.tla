--------------------------- MODULE MCWalletEvents ---------------------------
(***************************************************************************)
(* A small instance of WalletEvents for TLC.                               *)
(***************************************************************************)
EXTENDS WalletEvents, TLC

CONSTANTS o1, o2, c1, c2
=============================================================================
