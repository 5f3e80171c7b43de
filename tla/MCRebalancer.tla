---------------------------- MODULE MCRebalancer ----------------------------
(***************************************************************************)
(* Instances of Rebalancer for TLC.  Two stocks of one sector and one of   *)
(* another; each row of the book is one of a few.                          *)
(***************************************************************************)
EXTENDS Rebalancer, Valuator

MCSymbols == {"a1", "a2", "b1"}
MCSectors == {"A", "B"}
MCSectorOf == [s \in MCSymbols |-> IF s = "b1" THEN "B" ELSE "A"]

Row(q, t, u, l, b) ==
    [quantity |-> q, t1 |-> t, quote |-> u, live |-> l, broker |-> b, close |-> 6]

\* Settled, unsettled and mixed positions; fresh, stale and missing live prices.
RowsA == { Row(6, 0, "fresh", 10, 9), Row(2, 0, "stale", 7, 4), Row(3, 2, "none", 0, 8) }
RowsB == { Row(2, 0, "fresh", 10, 9), Row(7, 0, "fresh", 3, 4), Row(0, 3, "fresh", 0, 5) }

MCBooks ==
    { [a1 |-> x, a2 |-> y, b1 |-> z] : x \in RowsA, y \in RowsA, z \in RowsB }
    \cup { [a1 |-> x, b1 |-> z] : x \in RowsA, z \in RowsB }

MCCash == 30
MCValuation(b) == PortfolioValuation(b, MCSectorOf, MCCash)

MCSectorTargets == [A |-> [target |-> 3000, threshold |-> 500], B |-> [target |-> 5000, threshold |-> 0]]
MCStockTargets == [a2 |-> [target |-> 2500, threshold |-> 200]]
MCCashTargets == [CASH |-> [target |-> 500, threshold |-> 100]]

MCMaxAdv == [a1 |-> 4]
MCLot == [a1 |-> 1, a2 |-> 1, b1 |-> 2]
MCEvidence == [a1 |-> "PROVEN_EDGE", a2 |-> "UNPROVEN_NOISE", b1 |-> "PENDING"]

\* With the first the turnover cap is below the least trade, with the last it is all.
MCArguments ==
    { [minTrade |-> 25, bufferPct |-> 200, bufferFloor |-> 5, capPct |-> 2000],
      [minTrade |-> 8, bufferPct |-> 500, bufferFloor |-> 4, capPct |-> 5000],
      [minTrade |-> 15, bufferPct |-> 1000, bufferFloor |-> 0, capPct |-> 10000] }
=============================================================================
