------------------------------ MODULE Valuator ------------------------------
(***************************************************************************)
(* compute_portfolio_valuation of src/analytics/valuator.py: the holdings  *)
(* joined with live prices, priced, added up and turned into weights.      *)
(* A book maps each symbol that has a row in user_holdings to              *)
(*   [quantity, t1, quote, live, broker, close]                            *)
(* where quote says whether live_prices has a row ("none"), and a stale    *)
(* one, and live is its price, which may be zero.                          *)
(* Profit, day change and the counts of stale prices are left out: nothing *)
(* that acts reads them.                                                   *)
(***************************************************************************)
EXTENDS Rounding, Functions

\* A live price that is not stale, else the broker's, else the previous close.
BestPrice(row) ==
    IF row.quote = "fresh" /\ row.live > 0 THEN row.live
    ELSE IF row.broker > 0 THEN row.broker
    ELSE row.close

\* Shares bought yesterday count although they cannot be sold yet.
Value(row) == BestPrice(row) * (row.quantity + row.t1)

\* The rows the valuation selects.
Held(book) == {s \in DOMAIN book : book[s].quantity + book[s].t1 > 0}

\* The share of a value in the total.  Without a total there are no weights.
Weight(part, total) == IF total > 0 THEN HalfUp(part * Whole, total) ELSE 0

\* The valuation of a book.  sectorOf gives each symbol its sector, with
\* "Uncategorised" as a sector among the others.
PortfolioValuation(book, sectorOf, cash) ==
    LET held     == Held(book)
        worth    == [s \in DOMAIN sectorOf |-> IF s \in held THEN Value(book[s]) ELSE 0]
        Sum(S)   == SumFunctionOnSet(worth, S)
        total    == Sum(held)
        Members(x) == {s \in held : sectorOf[s] = x}
    IN  [ holdings     |-> held,
          value        |-> worth,
          weight       |-> [s \in DOMAIN sectorOf |-> Weight(worth[s], total)],
          sectors      |-> {sectorOf[s] : s \in held},
          sectorWeight |-> [x \in {sectorOf[s] : s \in DOMAIN sectorOf} |->
                              Weight(Sum(Members(x)), total)],
          aum          |-> total,
          cash         |-> cash ]
=============================================================================
