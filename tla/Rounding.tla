------------------------------ MODULE Rounding ------------------------------
(***************************************************************************)
(* How the program's decimal arithmetic rounds.  Money is counted in its   *)
(* smallest unit (the quantum 0.01 of Decimal.quantize) and percentages in *)
(* hundredths of a percent, so that 10000 is the whole.                    *)
(***************************************************************************)
EXTENDS Integers

Whole == 10000

Abs(n) == IF n < 0 THEN -n ELSE n

\* The quotient n/d to the nearest integer, halves away from zero: ROUND_HALF_UP.
HalfUp(n, d) ==
    LET up == (2 * Abs(n) + d) \div (2 * d)
    IN  IF n < 0 THEN -up ELSE up

\* The same with halves to the even neighbour, the rounding of a bare quantize.
HalfEven(n, d) ==
    LET below == n \div d
        twice == 2 * (n % d)
    IN  IF twice > d \/ (twice = d /\ below % 2 = 1) THEN below + 1 ELSE below
=============================================================================
