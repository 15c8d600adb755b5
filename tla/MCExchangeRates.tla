--------------------------- MODULE MCExchangeRates ---------------------------
(***************************************************************************)
(* Small instances of ExchangeRates for TLC.                               *)
(***************************************************************************)
EXTENDS ExchangeRates, TLC

CONSTANTS r1, r2, t1, t2, usd_eur, usd_gbp, eur_gbp
=============================================================================
