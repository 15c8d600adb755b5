---------------------------- MODULE MCApiClient ----------------------------
(***************************************************************************)
(* A small instance of ApiClient for TLC.                                  *)
(***************************************************************************)
EXTENDS ApiClient

CONSTANTS q1, q2
=============================================================================
