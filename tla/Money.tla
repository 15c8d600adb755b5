------------------------------- MODULE Money -------------------------------
(***************************************************************************)
(* The fixed-point arithmetic of the wallet tables.                        *)
(*                                                                         *)
(* Every amount is a natural number of ticks.  A balance or amount column  *)
(* is Numeric(18, 8): it holds whole units of 10^-8, and Scale ticks make  *)
(* one such unit.  Scale = 1 means that no request is finer than a column; *)
(* Scale > 1 lets a request carry more decimals than a column stores,      *)
(* which the request schemas allow (gt = 0 and no decimal_places).         *)
(* A rate is a number of 1/RateScale.                                      *)
(***************************************************************************)
EXTENDS Integers

CONSTANTS Scale,       \* ticks in one unit of a Numeric(18, 8) column
          RateScale    \* a rate p stands for p/RateScale

ASSUME ScaleAssumption == Scale \in Nat \ {0}
ASSUME RateScaleAssumption == RateScale \in Nat \ {0}

\* What PostgreSQL keeps of x in a Numeric(18, 8) column: the nearest unit,
\* a tie going away from zero.  No balance or amount is negative here.
Stored(x) == Scale * ((2 * x + Scale) \div (2 * Scale))

\* n/d rounded to an integer, a tie going to the even neighbour: the default
\* rounding of Python's decimal context.
HalfEven(n, d) ==
  LET q == n \div d
      r == n % d
  IN  IF 2 * r > d \/ (2 * r = d /\ q % 2 = 1) THEN q + 1 ELSE q

\* (amount * exchange_rate).quantize(Decimal("0.00000001"))
Converted(amount, rate) == Scale * HalfEven(amount * rate, RateScale * Scale)
=============================================================================
