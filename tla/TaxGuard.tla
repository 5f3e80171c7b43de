------------------------------- MODULE TaxGuard -------------------------------
(***************************************************************************)
(* The tax estimates of src/analytics/tax_guard.py: whether a lot's gain   *)
(* is short- or long-term on a day, which lots a sale takes and what it    *)
(* warns of, what may be harvested this year, and the tax if everything    *)
(* were sold.                                                              *)
(*                                                                         *)
(* The lots of a holding come oldest first (load_tax_lots); no code of the *)
(* repository writes them, so a behaviour begins with any of them and only *)
(* the days pass.  A lot's price is kept as its gain per share.            *)
(***************************************************************************)
EXTENDS Integers, Sequences, SequencesExt, FiniteSetsExt, Functions, Rounding

CONSTANTS Holdings,
          LotChoices,  \* bound: the sequences of lots a holding may have
          MaxQuantity, \* bound: shares asked about in one sale
          LastDay,     \* bound: days
          Year,        \* LTCG_HOLDING_DAYS
          Window,      \* STCG_WARNING_WINDOW_DAYS
          Exemption,   \* LTCG_EXEMPTION
          LastQuarter, \* the days in January to March
          Realized     \* bound: what get_realized_ltcg_ytd may answer

\* What is asked of the constants.  The query leaves out lots with nothing left.
TaxLot == [bought : Int, quantity : Nat \ {0}, gain : Int]
LotsAssumption ==
  /\ IsFiniteSet(Holdings) /\ Holdings # {} /\ LotChoices \subseteq Seq(TaxLot)
  /\ MaxQuantity \in Nat /\ LastDay \in Nat /\ Year \in Int /\ Window \in Int
  /\ Exemption \in Nat /\ Realized \subseteq Int

VARIABLES day,
          lots,   \* [bought, quantity, gain] of each holding; gain is per share
          sale,   \* the last check_sell_tax_impact
          advice, \* the last get_annual_tax_harvesting_summary
          liability  \* total_tax_liability of the last get_tax_summary

vars == <<day, lots, sale, advice, liability>>

NoSale == [holding |-> CHOOSE h \in Holdings : TRUE, quantity |-> 0, on |-> 0,
           taken |-> <<>>, short |-> 0, warned |-> {}]
NoSummary == [total |-> 0, on |-> -1]
NoAdvice == [realized |-> 0, on |-> 0, gains |-> <<>>, losses |-> {}, deferred |-> {}]

\* TaxLot.__post_init__ and is_near_ltcg.
Held(lot) == day - lot.bought
LongTerm(lot) == Held(lot) > Year
Near(lot) == LET left == Year - Held(lot) IN ~LongTerm(lot) /\ 0 < left /\ left <= Window

Value(lot) == lot.quantity * lot.gain
Total(S, worth(_)) == SumFunctionOnSet([x \in S |-> worth(x)], S)

\* HoldingTaxProfile.compute_aggregates: each holding is taxed on its own, in paise,
\* at 20% and, above the exemption, at 12.5%.
LotsOf(h, long) == {i \in DOMAIN lots[h] : LongTerm(lots[h][i]) = long}
GainOf(h, long) == Total(LotsOf(h, long), LAMBDA i : Value(lots[h][i]))
Above(gain, free) == IF gain > free THEN gain - free ELSE 0
ShortTax(h) == HalfUp(Above(GainOf(h, FALSE), 0) * 20, 1)
LongTax(h) == HalfUp(Above(GainOf(h, TRUE), Exemption) * 125, 10)

\* get_tax_summary.
AskSummary ==
  /\ liability' = [total |-> Total(Holdings, LAMBDA h : ShortTax(h) + LongTax(h)), on |-> day]
  /\ UNCHANGED <<day, lots, sale, advice>>

\* check_sell_tax_impact: first in, first out.
\* Mutant: what a lot gave is not taken off what is still to sell.
StepForgets(own, s, i) ==
  LET take == IF s.left < own[i].quantity THEN s.left ELSE own[i].quantity
  IN  IF s.left <= 0 THEN s
      ELSE [left |-> s.left, taken |-> Append(s.taken, take)]
SellStep(own, s, i) ==
  LET take == IF s.left < own[i].quantity THEN s.left ELSE own[i].quantity
  IN  IF s.left <= 0 THEN s
      ELSE [left |-> s.left - take, taken |-> Append(s.taken, take)]

\* The loop over the lots: what is left and what was taken after each of them.
Selling(own, quantity) ==
  LET run[n \in 0 .. Len(own)] ==
        IF n = 0 THEN [left |-> quantity, taken |-> <<>>] ELSE SellStep(own, run[n - 1], n)
  IN  run

SellImpact(h, quantity) ==
  LET own == lots[h]
      taken == Selling(own, quantity)[Len(own)].taken
      new == {i \in DOMAIN taken : ~LongTerm(own[i])}
  IN  sale' = [holding |-> h, quantity |-> quantity, on |-> day, taken |-> taken,
               short |-> Total(new, LAMBDA i : taken[i]),
               warned |-> {i \in new : Near(own[i])}]

AskSale ==
  /\ \E h \in Holdings, quantity \in 1..MaxQuantity : SellImpact(h, quantity)
  /\ UNCHANGED <<day, lots, advice, liability>>

AllLots == UNION {{<<h, i>> : i \in DOMAIN lots[h]} : h \in Holdings}
LotAt(at) == lots[at[1]][at[2]]

\* What one candidate gives to the gains harvested within the budget.
\* Mutant: the budget stays whole.
GainStepUnspent(s, at) ==
  LET gain == LotAt(at).gain
      most == IF Value(LotAt(at)) < s.budget THEN Value(LotAt(at)) ELSE s.budget
      n == IF gain > 0 THEN most \div gain ELSE 0
  IN  IF s.budget <= 0 \/ n = 0 THEN s
      ELSE [s EXCEPT !.gains = Append(@, [lot |-> at, quantity |-> n])]
GainStep(s, at) ==
  LET gain == LotAt(at).gain
      most == IF Value(LotAt(at)) < s.budget THEN Value(LotAt(at)) ELSE s.budget
      n == IF gain > 0 THEN most \div gain ELSE 0
  IN  IF s.budget <= 0 \/ n = 0 THEN s
      ELSE [budget |-> s.budget - n * gain,
            gains |-> Append(s.gains, [lot |-> at, quantity |-> n])]

\* get_annual_tax_harvesting_summary: losses to take, lots to keep until they are
\* long-term and, in the last quarter, gains that the exemption still covers, the
\* smallest first.
Candidates(realized) ==
  IF day \notin LastQuarter \/ Above(Exemption, realized) = 0 THEN {}
  ELSE {at \in AllLots : LongTerm(LotAt(at)) /\ Value(LotAt(at)) >= 0}

\* The loop over the candidates: the budget and the gains to take after each of them.
Harvesting(realized, order) ==
  LET run[n \in 0 .. Len(order)] ==
        IF n = 0 THEN [budget |-> Above(Exemption, realized), gains |-> <<>>]
        ELSE GainStep(run[n - 1], order[n])
  IN  run

Harvest(realized) ==
  \E order \in SetToSeqs(Candidates(realized)) :
    /\ \A i, j \in DOMAIN order : i < j => Value(LotAt(order[i])) <= Value(LotAt(order[j]))
    /\ advice' = [realized |-> realized, on |-> day,
                  gains |-> Harvesting(realized, order)[Len(order)].gains,
                  losses |-> {at \in AllLots : Value(LotAt(at)) < 0},
                  deferred |-> {at \in AllLots : Value(LotAt(at)) >= 0 /\ Near(LotAt(at))}]

AskHarvest ==
  /\ \E realized \in Realized : Harvest(realized)
  /\ UNCHANGED <<day, lots, sale, liability>>

NewDay ==
  /\ day < LastDay
  /\ day' = day + 1
  /\ UNCHANGED <<lots, sale, advice, liability>>

Init ==
  /\ day = 0
  /\ lots \in [Holdings -> LotChoices]
  /\ sale = NoSale /\ advice = NoAdvice /\ liability = NoSummary

Next == AskSale \/ AskHarvest \/ AskSummary \/ NewDay

Spec == Init /\ [][Next]_vars
-----------------------------------------------------------------------------
\* The values the variables may have.
TypeOK ==
  /\ day \in 0..LastDay /\ lots \in [Holdings -> LotChoices]
  /\ sale.quantity \in 0..MaxQuantity /\ sale.short \in 0..MaxQuantity
  /\ advice.realized \in Realized \cup {0} /\ liability.total \in Nat

\* A sale is split over the lots share by share, oldest first: a share of a lot is
\* sold exactly when fewer shares than asked for are older (check_sell_tax_impact
\* against the shares counted one by one).
SplitIsFifo ==
  LET own == lots[sale.holding]
      Older(i) == Total({j \in DOMAIN own : j < i}, LAMBDA j : own[j].quantity)
      Sold(i) == Cardinality({n \in 1..own[i].quantity : Older(i) + n <= sale.quantity})
  IN  \A i \in DOMAIN own :
        Sold(i) = IF i \in DOMAIN sale.taken THEN sale.taken[i] ELSE 0

\* The gains advised for harvesting stay within what is left of the year's exemption
\* and leave no share that would still fit: together with what was realized they
\* never cost tax, and none of the tax-free room is wasted (budget, the sort and the
\* rounding down in get_annual_tax_harvesting_summary).
HarvestFillsExemption ==
  LET harvested(at) == Total({k \in DOMAIN advice.gains : advice.gains[k].lot = at},
                             LAMBDA k : advice.gains[k].quantity)
      gain == Total(AllLots, LAMBDA at : harvested(at) * LotAt(at).gain)
  IN  /\ gain > 0 => advice.realized + gain <= Exemption
      /\ advice.on = day =>
           \A at \in Candidates(advice.realized) :
             /\ harvested(at) <= LotAt(at).quantity
             /\ \/ harvested(at) = LotAt(at).quantity
                \/ LotAt(at).gain = 0
                \/ advice.realized + gain + LotAt(at).gain > Exemption
                \/ advice = NoAdvice

\* Lots are sold oldest first, and harvested up to the exemption.
LotsAreUsedWell == SplitIsFifo /\ HarvestFillsExemption

\* Does not hold.  The exemption is one per financial year ("Rs 1.25 lakh LTCG
\* exemption per FY", tax_guard.py), so the total shown for today's lots is at least
\* 12.5% of the long-term gains above it, losses set off.
OneExemption ==
  liability.on = day =>
    liability.total * 10
      >= 125 * Above(Total(Holdings, LAMBDA h : GainOf(h, TRUE)), Exemption)
=============================================================================
