-------------------------- MODULE Rebalancer_proofs --------------------------
(***************************************************************************)
(* Proofs about Rebalancer for any valuation, any book and any limits.     *)
(***************************************************************************)
EXTENDS Rebalancer, LibraryLemmas

\* Between the loops: nothing is bought before the sells are over, and cash that
\* can be used is what is left above the buffer.
CashKept ==
    /\ phase \in {"idle", "sells", "sector"} => bought = 0 /\ usable = 0
    /\ usable >= 0
    /\ usable > 0 \/ bought > 0 => usable = val.cash + sold - bought - CashBuffer

IInv == TypeOK /\ TurnoverWithinCap /\ AtMostMaxOrders /\ CashKept

\* Integer division rounds down, so what was divided bounds the product.
LEMMA DivisionBound ==
    ASSUME NEW a \in Int, NEW b \in Nat \ {0}
    PROVE  /\ a \div b \in Int
           /\ (a \div b) * b <= a
           /\ a >= 0 => a \div b >= 0
  OBVIOUS

\* A larger factor gives a larger product.
LEMMA ProductMonotone ==
    ASSUME NEW a \in Int, NEW b \in Int, NEW p \in Nat, a <= b
    PROVE  a * p <= b * p
  OBVIOUS

\* Rounding to the lot never makes a quantity larger (_round_to_lot_size).
LEMMA LotBound ==
    ASSUME NEW q \in Nat, NEW s \in Symbols
    PROVE  ToLot(q, s) \in Nat /\ ToLot(q, s) <= q
  <1>1. Lot[s] \in Nat
    BY RebalancerAssumption
  <1>2. CASE Lot[s] <= 1
    BY <1>2 DEF ToLot, Greater
  <1>3. CASE Lot[s] > 1
    <2>1. (q \div Lot[s]) * Lot[s] <= q /\ q \div Lot[s] \in Nat
      BY <1>1, <1>3, DivisionBound
    <2>2. (q \div Lot[s]) * Lot[s] \in Nat
      BY <1>1, <2>1
    <2> QED
      BY <1>1, <1>3, <2>1, <2>2 DEF ToLot
  <1> QED
    BY <1>1, <1>2, <1>3

\* Both roundings give integers.
LEMMA RoundingIsInt ==
    ASSUME NEW n \in Int, NEW d \in Nat \ {0}
    PROVE  HalfUp(n, d) \in Int /\ HalfEven(n, d) \in Int
  BY DEF HalfUp, HalfEven, Abs

\* What detect_drift returns are signals with whole amounts.
LEMMA SignalTypes ==
    ASSUME NEW v \in Valuations
    PROVE  DetectDrift(v) \subseteq DriftSignals
  <1>1. /\ v.holdings \subseteq Symbols /\ v.sectors \subseteq Sectors
        /\ v.value \in [Symbols -> Nat] /\ v.weight \in [Symbols -> Nat]
        /\ v.sectorWeight \in [Sectors -> Nat] /\ v.aum \in Nat /\ v.cash \in Int
    BY DEF Valuations
  <1>2. ASSUME NEW t, t.target \in Nat, t.threshold \in Nat
        PROVE  Threshold(t) \in Nat
    BY <1>2 DEF Threshold
  <1>3. ASSUME NEW target \in Nat, NEW present \in Nat
        PROVE  Missing(v, target, present) \in Int
    BY <1>1, RoundingIsInt DEF Missing, Whole
  <1>4. SectorDrift(v) \subseteq DriftSignals
    <2> SUFFICES ASSUME NEW x \in v.sectors \cap DOMAIN SectorTargets
                 PROVE  [ type |-> "SECTOR", name |-> x,
                          drift |-> v.sectorWeight[x] - SectorTargets[x].target,
                          threshold |-> Threshold(SectorTargets[x]),
                          amount |-> HalfEven((SectorTargets[x].target - v.sectorWeight[x]) * v.aum, Whole) ]
                        \in DriftSignals
      BY DEF SectorDrift
    <2>1. x \in Sectors /\ SectorTargets[x].target \in Nat /\ SectorTargets[x].threshold \in Nat
      BY <1>1, TargetsAssumption DEF Partial, Targets
    <2>2. (SectorTargets[x].target - v.sectorWeight[x]) * v.aum \in Int
      BY <1>1, <2>1
    <2>3. HalfEven((SectorTargets[x].target - v.sectorWeight[x]) * v.aum, Whole) \in Int
      BY <2>2, RoundingIsInt DEF Whole
    <2> QED
      BY <1>1, <1>2, <2>1, <2>3 DEF DriftSignals
  <1>5. ConcentrationDrift(v) \subseteq DriftSignals
    <2> SUFFICES ASSUME NEW s \in v.holdings
                 PROVE  [ type |-> "HOLDING", name |-> s,
                          drift |-> v.weight[s] - ConcentrationLimit,
                          threshold |-> 0,
                          amount |-> Missing(v, ConcentrationLimit, v.value[s]) ]
                        \in DriftSignals
      BY DEF ConcentrationDrift
    <2> QED
      BY <1>1, <1>3, TargetsAssumption DEF DriftSignals
  <1>6. StockDrift(v) \subseteq DriftSignals
    <2> SUFFICES ASSUME NEW s \in v.holdings \cap DOMAIN StockTargets
                 PROVE  [ type |-> "HOLDING", name |-> s,
                          drift |-> v.weight[s] - StockTargets[s].target,
                          threshold |-> Threshold(StockTargets[s]),
                          amount |-> Missing(v, StockTargets[s].target, v.value[s]) ]
                        \in DriftSignals
      BY DEF StockDrift
    <2>1. StockTargets[s].target \in Nat /\ StockTargets[s].threshold \in Nat
      BY TargetsAssumption DEF Partial, Targets
    <2> QED
      BY <1>1, <1>2, <1>3, <2>1 DEF DriftSignals
  <1>7. CashDrift(v) \subseteq DriftSignals
    <2> SUFFICES ASSUME NEW c \in DOMAIN CashTargets, v.aum + v.cash > 0
                 PROVE  [ type |-> "CASH", name |-> "CASH",
                          drift |-> HalfUp(v.cash * Whole, v.aum + v.cash) - CashTargets[c].target,
                          threshold |-> Threshold(CashTargets[c]),
                          amount |-> 0 ]
                        \in DriftSignals
      BY DEF CashDrift
    <2>1. CashTargets[c].target \in Nat /\ CashTargets[c].threshold \in Nat
      BY TargetsAssumption DEF Partial, Targets
    <2>2. HalfUp(v.cash * Whole, v.aum + v.cash) \in Int
      BY <1>1, RoundingIsInt DEF Whole
    <2> QED
      BY <1>2, <2>1, <2>2 DEF DriftSignals
  <1> QED
    BY <1>4, <1>5, <1>6, <1>7 DEF DetectDrift

\* The limits are whole amounts.
LEMMA LimitTypes ==
    ASSUME TypeOK
    PROVE  /\ NetWorth \in Int /\ TurnoverCap \in Int /\ CashBuffer \in Int
           /\ Turnover \in Nat /\ Remaining \in Int
           /\ args.minTrade \in Nat
  <1>1. val.aum \in Nat /\ val.cash \in Int
    BY DEF TypeOK, Valuations
  <1>2. args.minTrade \in Nat /\ args.bufferPct \in Nat /\ args.bufferFloor \in Nat /\ args.capPct \in Nat
    BY RebalancerAssumption DEF TypeOK
  <1>3. NetWorth \in Int
    BY <1>1 DEF NetWorth
  <1>4. args.capPct * NetWorth \in Int /\ args.bufferPct * NetWorth \in Int
    BY <1>2, <1>3
  <1>5. TurnoverCap \in Int /\ CashBuffer \in Int
    BY <1>2, <1>4, RoundingIsInt DEF TurnoverCap, CashBuffer, Whole, Greater
  <1>6. Turnover \in Nat
    BY DEF TypeOK, Turnover
  <1> QED
    BY <1>2, <1>3, <1>5, <1>6 DEF Remaining

\* A row that has a price has a whole one.
LEMMA PriceTypes ==
    ASSUME TypeOK, NEW s, Priced(s)
    PROVE  s \in Symbols /\ Price(s) \in Nat \ {0} /\ book[s].quantity \in Nat
  <1>1. Partial(book, Symbols, Rows)
    BY RebalancerAssumption DEF TypeOK
  <1>2. s \in Symbols /\ book[s] \in Rows
    BY <1>1 DEF Partial, Priced
  <1> QED
    BY <1>2 DEF Rows, Price, Priced

\* What is sold is within what is left of the turnover (the turnover cap check).
LEMMA SellBound ==
    ASSUME TypeOK, Remaining > 0, NEW s, NEW need \in Nat, Sells(s, need)
    PROVE  /\ s \in Symbols /\ Price(s) \in Nat \ {0}
           /\ SellQuantity(s, need) \in Nat \ {0}
           /\ SellQuantity(s, need) * Price(s) \in Nat
           /\ SellQuantity(s, need) * Price(s) <= Remaining
  <1>1. s \in Symbols /\ Price(s) \in Nat \ {0} /\ book[s].quantity \in Nat
    BY PriceTypes DEF Sells, Sellable
  <1>2. Remaining \in Int
    BY LimitTypes
  <1>3. Wanted(s, need) \in Nat
    <2>1. need \div Price(s) \in Nat
      BY <1>1, DivisionBound
    <2> QED
      BY <1>1, <2>1 DEF Wanted, Lesser
  <1>4. UnderVolume(Wanted(s, need), s) \in Nat
    BY <1>3, RebalancerAssumption DEF UnderVolume, Lesser, Partial
  <1>5. Sized(s, need) \in Nat
    BY <1>1, <1>4, LotBound DEF Sized
  <1>6. CASE Sized(s, need) * Price(s) > Remaining
    <2> DEFINE room == Remaining \div Price(s)
    <2>1. room \in Nat /\ room * Price(s) <= Remaining
      BY <1>1, <1>2, DivisionBound
    <2>2. ToLot(room, s) \in Nat /\ ToLot(room, s) <= room
      BY <1>1, <2>1, LotBound
    <2>3. ToLot(room, s) * Price(s) <= room * Price(s)
      BY <1>1, <2>1, <2>2, ProductMonotone
    <2>4. ToLot(room, s) * Price(s) \in Nat /\ room * Price(s) \in Nat
      BY <1>1, <2>1, <2>2
    <2>5. SellQuantity(s, need) = ToLot(room, s)
      BY <1>6 DEF SellQuantity
    <2>6. ToLot(room, s) * Price(s) <= Remaining
      BY <1>2, <2>1, <2>3, <2>4
    <2>7. ToLot(room, s) > 0
      BY <2>5 DEF Sells
    <2> QED
      BY <1>1, <2>2, <2>4, <2>5, <2>6, <2>7
  <1>7. CASE ~(Sized(s, need) * Price(s) > Remaining)
    <2>1. SellQuantity(s, need) = Sized(s, need)
      BY <1>7 DEF SellQuantity
    <2>2. Sized(s, need) * Price(s) \in Nat
      BY <1>1, <1>5
    <2>3. Sized(s, need) > 0
      BY <2>1 DEF Sells
    <2> QED
      BY <1>1, <1>2, <1>5, <1>7, <2>1, <2>2, <2>3
  <1> QED
    BY <1>6, <1>7

\* A buy is within the money given for it.
LEMMA BuyBound ==
    ASSUME TypeOK, NEW s, NEW money \in Int, Buys(s, money)
    PROVE  /\ s \in Symbols /\ Price(s) \in Nat \ {0}
           /\ BuyQuantity(s, money) \in Nat \ {0}
           /\ BuyQuantity(s, money) * Price(s) \in Nat
           /\ BuyQuantity(s, money) * Price(s) <= money
  <1> DEFINE most == money \div Price(s)
  <1>1. s \in Symbols /\ Price(s) \in Nat \ {0}
    BY PriceTypes DEF Buys
  <1>2. money \in Nat
    BY <1>1 DEF Buys
  <1>3. most \in Nat /\ most * Price(s) <= money
    BY <1>1, <1>2, DivisionBound
  <1>4. UnderVolume(most, s) \in Nat /\ UnderVolume(most, s) <= most
    BY <1>3, RebalancerAssumption DEF UnderVolume, Lesser, Partial
  <1>5. BuyQuantity(s, money) \in Nat /\ BuyQuantity(s, money) <= most
    <2>1. ToLot(UnderVolume(most, s), s) \in Nat /\ ToLot(UnderVolume(most, s), s) <= UnderVolume(most, s)
      BY <1>1, <1>4, LotBound
    <2> QED
      BY <1>3, <1>4, <2>1 DEF BuyQuantity
  <1>6. BuyQuantity(s, money) * Price(s) <= most * Price(s)
    BY <1>1, <1>3, <1>5, ProductMonotone
  <1>7. BuyQuantity(s, money) * Price(s) \in Nat /\ most * Price(s) \in Nat
    BY <1>1, <1>3, <1>5
  <1>8. BuyQuantity(s, money) > 0
    BY DEF Buys
  <1>9. BuyQuantity(s, money) * Price(s) <= money
    BY <1>2, <1>3, <1>6, <1>7
  <1> QED
    BY <1>1, <1>5, <1>7, <1>8, <1>9

\* A sell keeps the types, the turnover cap and the limit on orders.
LEMMA SellKeeps ==
    ASSUME IInv, ~Full, NEW s, NEW need \in Nat, NEW why \in DriftSignals \cup {None},
           Sells(s, need), Sell(s, need, why), UNCHANGED <<args, val>>
    PROVE  /\ orders' \in Seq(Orders) /\ sold' \in Nat /\ bought' = bought /\ seen' \subseteq Symbols
           /\ AtMostMaxOrders' /\ TurnoverWithinCap'
  <1>1. TypeOK /\ TurnoverWithinCap /\ AtMostMaxOrders
    BY DEF IInv
  <1>2. /\ orders \in Seq(Orders) /\ sold \in Nat /\ bought \in Nat /\ seen \subseteq Symbols
    BY <1>1 DEF TypeOK
  <1>3. /\ TurnoverCap \in Int /\ Turnover \in Nat /\ Remaining \in Int
    BY <1>1, LimitTypes
  <1>4. Len(orders) \in Nat /\ MaxOrders \in Nat
    BY <1>2, RebalancerAssumption
  <1>5. Len(orders) < MaxOrders /\ Remaining > 0
    BY <1>3, <1>4 DEF Full, Remaining
  <1> DEFINE q == SellQuantity(s, need)
             o == [ symbol |-> s, side |-> "SELL", quantity |-> q, price |-> Price(s),
                    dp |-> DpDue(s), why |-> why ]
  <1>6. /\ s \in Symbols /\ Price(s) \in Nat \ {0} /\ q \in Nat \ {0}
        /\ q * Price(s) \in Nat /\ q * Price(s) <= Remaining
    BY <1>1, <1>5, SellBound
  <1>7. DpDue(s) \in BOOLEAN
    BY DEF DpDue
  <1>8. o \in Orders
    BY <1>6, <1>7 DEF Orders
  <1>9. /\ orders' = Append(orders, o) /\ sold' = sold + q * Price(s) /\ bought' = bought
        /\ seen' = seen \cup {s}
    BY DEF Sell
  <1>10. orders' \in Seq(Orders) /\ Len(orders') = Len(orders) + 1
    BY <1>2, <1>8, <1>9
  <1>11. sold' \in Nat /\ seen' \subseteq Symbols
    BY <1>2, <1>6, <1>9
  <1>12. AtMostMaxOrders'
    BY <1>4, <1>5, <1>10 DEF AtMostMaxOrders
  <1>13. TurnoverCap' = TurnoverCap
    BY DEF TurnoverCap, NetWorth
  <1>14. Turnover' = Turnover + q * Price(s)
    BY <1>2, <1>6, <1>9 DEF Turnover
  <1>15. TurnoverWithinCap'
    BY <1>3, <1>6, <1>13, <1>14 DEF TurnoverWithinCap, Remaining, Greater
  <1> QED
    BY <1>9, <1>10, <1>11, <1>12, <1>15

\* A buy does too, and what it spends comes out of the usable cash.
LEMMA BuyKeeps ==
    ASSUME IInv, ~Full, usable > 0, NEW s, NEW money \in Int,
           money <= usable, money <= Remaining,
           NEW why \in DriftSignals \cup {None},
           Buys(s, money), Buy(s, money, why), UNCHANGED <<args, val>>
    PROVE  /\ orders' \in Seq(Orders) /\ sold' = sold /\ bought' \in Nat /\ seen' = seen
           /\ usable' \in Nat
           /\ usable' = val.cash + sold - bought' - CashBuffer
           /\ AtMostMaxOrders' /\ TurnoverWithinCap'
  <1>1. TypeOK /\ TurnoverWithinCap /\ AtMostMaxOrders /\ CashKept
    BY DEF IInv
  <1>2. /\ orders \in Seq(Orders) /\ sold \in Nat /\ bought \in Nat /\ usable \in Int
        /\ val.cash \in Int
    BY <1>1 DEF TypeOK, Valuations
  <1>3. /\ TurnoverCap \in Int /\ CashBuffer \in Int /\ Turnover \in Nat /\ Remaining \in Int
    BY <1>1, LimitTypes
  <1>4. Len(orders) \in Nat /\ MaxOrders \in Nat
    BY <1>2, RebalancerAssumption
  <1>5. Len(orders) < MaxOrders
    BY <1>4 DEF Full
  <1> DEFINE q == BuyQuantity(s, money)
             o == [ symbol |-> s, side |-> "BUY", quantity |-> q, price |-> Price(s),
                    dp |-> FALSE, why |-> why ]
  <1>6. /\ s \in Symbols /\ Price(s) \in Nat \ {0} /\ q \in Nat \ {0}
        /\ q * Price(s) \in Nat /\ q * Price(s) <= money
    BY <1>1, BuyBound
  <1>7. o \in Orders
    BY <1>6 DEF Orders
  <1>8. /\ orders' = Append(orders, o) /\ bought' = bought + q * Price(s)
        /\ usable' = usable - q * Price(s) /\ sold' = sold /\ seen' = seen
    BY DEF Buy
  <1>9. orders' \in Seq(Orders) /\ Len(orders') = Len(orders) + 1
    BY <1>2, <1>7, <1>8
  <1>10. bought' \in Nat /\ usable' \in Nat
    BY <1>2, <1>6, <1>8
  <1>11. usable = val.cash + sold - bought - CashBuffer
    BY <1>1 DEF CashKept
  <1>12. usable' = val.cash + sold - bought' - CashBuffer
    <2> DEFINE value == q * Price(s)
    <2>1. value \in Int /\ usable' = usable - value /\ bought' = bought + value
      BY <1>6, <1>8
    <2> HIDE DEF value
    <2> QED
      BY <1>2, <1>3, <1>11, <2>1
  <1>13. AtMostMaxOrders'
    BY <1>4, <1>5, <1>9 DEF AtMostMaxOrders
  <1>14. TurnoverCap' = TurnoverCap
    BY DEF TurnoverCap, NetWorth
  <1>15. Turnover' = Turnover + q * Price(s)
    BY <1>2, <1>6, <1>8 DEF Turnover
  <1>16. TurnoverWithinCap'
    BY <1>3, <1>6, <1>14, <1>15 DEF TurnoverWithinCap, Remaining, Greater
  <1> QED
    BY <1>8, <1>9, <1>10, <1>12, <1>13, <1>16

\* A step that adds no order leaves the limits as they are.
LEMMA PlanStands ==
    ASSUME IInv, UNCHANGED <<args, val, plan>>
    PROVE  /\ AtMostMaxOrders' /\ TurnoverWithinCap'
           /\ orders' \in Seq(Orders) /\ sold' \in Nat /\ bought' \in Nat /\ seen' \subseteq Symbols
  BY DEF IInv, TypeOK, plan, AtMostMaxOrders, TurnoverWithinCap, Turnover, TurnoverCap, NetWorth

\* An empty plan: nothing traded is within any limit.
LEMMA InitHolds == Init => IInv
  <1> SUFFICES ASSUME Init PROVE IInv
    OBVIOUS
  <1>1. TypeOK
    BY RebalancerAssumption DEF Init, TypeOK, Phases
  <1>2. Turnover = 0 /\ TurnoverCap \in Int
    BY <1>1, LimitTypes DEF Init, Turnover
  <1>3. TurnoverWithinCap
    BY <1>2 DEF TurnoverWithinCap, Greater
  <1>4. AtMostMaxOrders
    BY RebalancerAssumption DEF Init, AtMostMaxOrders
  <1>5. CashKept
    BY DEF Init, CashKept
  <1> QED
    BY <1>1, <1>3, <1>4, <1>5 DEF IInv

\* Each step keeps the invariant.
LEMMA StepHolds == IInv /\ [Next]_vars => IInv'
  <1> SUFFICES ASSUME IInv, [Next]_vars PROVE IInv'
    OBVIOUS
  <1> USE DEF Phases
  <1>a. TypeOK /\ TurnoverWithinCap /\ AtMostMaxOrders /\ CashKept
    BY DEF IInv
  <1>b. Actionable \subseteq DriftSignals
    BY <1>a, SignalTypes DEF TypeOK, Actionable
  <1>c. \A x \in DriftSignals : Abs(x.amount) \in Nat
    BY DEF DriftSignals, Abs
  <1>1. CASE Start
    <2>1. TypeOK'
      BY <1>1, <1>a, <1>b, PlanStands DEF Start, TypeOK
    <2>2. CashKept'
      BY <1>1, <1>a DEF Start, CashKept, CashBuffer, NetWorth, plan
    <2> QED
      BY <1>1, <2>1, <2>2, PlanStands DEF Start, IInv
  <1>2. CASE SellHolding
    <2> PICK x \in todo :
          /\ x.type = "HOLDING" /\ Overweight(x)
          /\ todo' = todo \ {x}
          /\ IF Sells(x.name, Abs(x.amount)) THEN Sell(x.name, Abs(x.amount), x) ELSE UNCHANGED plan
      BY <1>2 DEF SellHolding
    <2>1. x \in DriftSignals /\ Abs(x.amount) \in Nat
      BY <1>2, <1>a, <1>c DEF SellHolding, TypeOK
    <2>2. UNCHANGED <<phase, args, book, changes, val, signal, sectorTodo, needed, usable>> /\ ~Full
      BY <1>2 DEF SellHolding
    <2>3. /\ orders' \in Seq(Orders) /\ sold' \in Nat /\ bought' = bought /\ seen' \subseteq Symbols
          /\ AtMostMaxOrders' /\ TurnoverWithinCap'
      BY <2>1, <2>2, SellKeeps, PlanStands DEF plan
    <2>4. TypeOK'
      BY <1>2, <1>a, <2>2, <2>3 DEF SellHolding, TypeOK
    <2>5. CashKept'
      BY <1>2, <1>a, <2>2, <2>3 DEF SellHolding, CashKept, TypeOK
    <2> QED
      BY <2>3, <2>4, <2>5 DEF IInv
  <1>3. CASE EnterSector
    <2> PICK x \in todo :
          /\ todo' = todo \ {x} /\ signal' = x /\ needed' = Abs(x.amount)
          /\ sectorTodo' = {s \in val.holdings : SectorOf[s] = x.name}
      BY <1>3 DEF EnterSector
    <2>1. x \in DriftSignals /\ Abs(x.amount) \in Nat
      BY <1>3, <1>a, <1>c DEF EnterSector, TypeOK
    <2>2. sectorTodo' \subseteq Symbols
      BY <1>a DEF TypeOK, Valuations
    <2>3. phase' = "sector" /\ UNCHANGED <<args, book, changes, val, plan, usable>>
      BY <1>3 DEF EnterSector
    <2>4. TypeOK'
      BY <1>3, <1>a, <2>1, <2>2, <2>3, PlanStands DEF EnterSector, TypeOK
    <2>5. CashKept'
      BY <1>3, <1>a, <2>3 DEF EnterSector, CashKept, CashBuffer, NetWorth, plan
    <2> QED
      BY <2>3, <2>4, <2>5, PlanStands DEF IInv
  <1>4. CASE SkipSignal
    <2>1. TypeOK'
      BY <1>4, <1>a, PlanStands DEF SkipSignal, TypeOK
    <2>2. CashKept'
      BY <1>4, <1>a DEF SkipSignal, CashKept, CashBuffer, NetWorth, plan
    <2> QED
      BY <1>4, <2>1, <2>2, PlanStands DEF SkipSignal, IInv
  <1>5. CASE SellInSector
    <2> PICK s \in sectorTodo :
          /\ sectorTodo' = sectorTodo \ {s}
          /\ IF Sells(s, needed)
             THEN Sell(s, needed, signal) /\ needed' = StillNeeded(s)
             ELSE UNCHANGED <<plan, needed>>
      BY <1>5 DEF SellInSector
    <2>1. /\ UNCHANGED <<phase, args, book, changes, val, todo, signal, usable>>
          /\ ~Full /\ phase = "sector"
      BY <1>5 DEF SellInSector
    <2>2. needed \in Nat /\ signal \in DriftSignals \cup {None}
      BY <1>5, <1>a DEF SellInSector, TypeOK
    <2>3. /\ orders' \in Seq(Orders) /\ sold' \in Nat /\ bought' = bought /\ seen' \subseteq Symbols
          /\ AtMostMaxOrders' /\ TurnoverWithinCap'
      BY <2>1, <2>2, SellKeeps, PlanStands DEF plan
    <2>4. needed' \in Int
      <3>1. CASE Sells(s, needed)
        <4>1. Remaining > 0
          BY <1>a, <2>1, LimitTypes DEF Full, Remaining
        <4>2. SellQuantity(s, needed) * Price(s) \in Nat
          BY <1>a, <2>2, <3>1, <4>1, SellBound
        <4> QED
          BY <2>2, <3>1, <4>2 DEF StillNeeded
      <3> QED
        BY <2>2, <3>1
    <2>5. TypeOK'
      BY <1>a, <2>1, <2>3, <2>4 DEF TypeOK
    <2>6. CashKept'
      BY <1>a, <2>1, <2>3 DEF CashKept, TypeOK
    <2> QED
      BY <2>3, <2>5, <2>6 DEF IInv
  <1>6. CASE LeaveSector
    <2>1. TypeOK'
      BY <1>6, <1>a, PlanStands DEF LeaveSector, TypeOK
    <2>2. CashKept'
      BY <1>6, <1>a DEF LeaveSector, CashKept, CashBuffer, NetWorth, plan
    <2> QED
      BY <1>6, <2>1, <2>2, PlanStands DEF LeaveSector, IInv
  <1>7. CASE BeginBuys
    <2>1. val.cash \in Int /\ sold \in Nat /\ CashBuffer \in Int
      BY <1>a, LimitTypes DEF TypeOK, Valuations
    <2>2. usable' \in Nat
      BY <1>7, <2>1 DEF BeginBuys, UsableCash, Greater
    <2>3. bought = 0 /\ bought' = bought /\ sold' = sold
      BY <1>7, <1>a DEF BeginBuys, CashKept, plan
    <2>4. CashBuffer' = CashBuffer /\ val' = val
      BY <1>7 DEF BeginBuys, CashBuffer, NetWorth
    <2>5. usable' > 0 => usable' = val.cash + sold - CashBuffer
      BY <1>7, <2>1 DEF BeginBuys, UsableCash, Greater
    <2>6. CashKept'
      BY <1>7, <2>1, <2>2, <2>3, <2>4, <2>5 DEF BeginBuys, CashKept
    <2>7. TypeOK'
      BY <1>7, <1>a, <1>b, <2>2, PlanStands DEF BeginBuys, TypeOK
    <2> QED
      BY <1>7, <2>6, <2>7, PlanStands DEF BeginBuys, IInv
  <1>8. CASE ConsiderBuy
    <2> PICK x \in todo :
          /\ todo' = todo \ {x}
          /\ IF IsBuySignal(x)
             THEN \E s \in Bought(x) :
                    IF Buys(s, BuyMoney(x)) /\ ~Suppressed(s)
                    THEN Buy(s, BuyMoney(x), x)
                    ELSE UNCHANGED <<plan, usable>>
             ELSE UNCHANGED <<plan, usable>>
      BY <1>8 DEF ConsiderBuy
    <2>1. /\ UNCHANGED <<phase, args, book, changes, val, signal, sectorTodo, needed>>
          /\ ~Full /\ usable > 0 /\ phase = "buys"
      BY <1>8 DEF ConsiderBuy
    <2>2. x \in DriftSignals /\ Abs(x.amount) \in Nat
      BY <1>a, <1>c, <2>1 DEF TypeOK
    <2>3. BuyMoney(x) \in Int /\ BuyMoney(x) <= usable /\ BuyMoney(x) <= Remaining
      BY <1>a, <2>2, LimitTypes DEF BuyMoney, Lesser, TypeOK
    <2>4. CASE UNCHANGED <<plan, usable>>
      <3>1. TypeOK'
        BY <1>a, <2>1, <2>4, PlanStands DEF TypeOK
      <3>2. CashKept'
        BY <1>a, <2>1, <2>4 DEF CashKept, CashBuffer, NetWorth, plan
      <3> QED
        BY <2>1, <2>4, <3>1, <3>2, PlanStands DEF IInv
    <2>5. CASE ~(UNCHANGED <<plan, usable>>)
      <3> PICK s : Buys(s, BuyMoney(x)) /\ Buy(s, BuyMoney(x), x)
        BY <2>5
      <3>1. /\ orders' \in Seq(Orders) /\ sold' = sold /\ bought' \in Nat /\ seen' = seen
            /\ usable' \in Nat /\ usable' = val.cash + sold - bought' - CashBuffer
            /\ AtMostMaxOrders' /\ TurnoverWithinCap'
        BY <2>1, <2>2, <2>3, BuyKeeps
      <3>2. TypeOK'
        BY <1>a, <2>1, <3>1 DEF TypeOK
      <3>3. CashBuffer' = CashBuffer
        BY <2>1 DEF CashBuffer, NetWorth
      <3>4. CashKept'
        BY <2>1, <3>1, <3>3 DEF CashKept
      <3> QED
        BY <3>1, <3>2, <3>4 DEF IInv
    <2> QED
      BY <2>4, <2>5
  <1>9. CASE BeginTactical
    <2>1. TypeOK'
      BY <1>9, <1>a, PlanStands, RebalancerAssumption DEF BeginTactical, TypeOK
    <2>2. CashKept'
      BY <1>9, <1>a DEF BeginTactical, CashKept, CashBuffer, NetWorth, plan
    <2> QED
      BY <1>9, <2>1, <2>2, PlanStands DEF BeginTactical, IInv
  <1>10. CASE ConsiderTactical
    <2> PICK s \in todo :
          /\ todo' = todo \ {s}
          /\ IF Evidence[s] = "PROVEN_EDGE" /\ Buys(s, TacticalMoney)
             THEN Buy(s, TacticalMoney, None)
             ELSE UNCHANGED <<plan, usable>>
      BY <1>10 DEF ConsiderTactical
    <2>1. /\ UNCHANGED <<phase, args, book, changes, val, signal, sectorTodo, needed>>
          /\ ~Full /\ usable > 0 /\ phase = "tactical"
      BY <1>10 DEF ConsiderTactical
    <2>2. TacticalMoney \in Int /\ TacticalMoney <= usable /\ TacticalMoney <= Remaining
      <3>1. NetWorth \in Int /\ Remaining \in Int /\ args.minTrade \in Nat /\ usable \in Int
        BY <1>a, LimitTypes DEF TypeOK
      <3>2. HalfEven(500 * NetWorth, Whole) \in Int
        BY <3>1, RoundingIsInt DEF Whole
      <3> QED
        BY <3>1, <3>2 DEF TacticalMoney, Lesser, Greater
    <2>4. CASE UNCHANGED <<plan, usable>>
      <3>1. TypeOK'
        BY <1>a, <2>1, <2>4, PlanStands DEF TypeOK
      <3>2. CashKept'
        BY <1>a, <2>1, <2>4 DEF CashKept, CashBuffer, NetWorth, plan
      <3> QED
        BY <2>1, <2>4, <3>1, <3>2, PlanStands DEF IInv
    <2>5. CASE ~(UNCHANGED <<plan, usable>>)
      <3>1. Buys(s, TacticalMoney) /\ Buy(s, TacticalMoney, None)
        BY <2>5
      <3>2. /\ orders' \in Seq(Orders) /\ sold' = sold /\ bought' \in Nat /\ seen' = seen
            /\ usable' \in Nat /\ usable' = val.cash + sold - bought' - CashBuffer
            /\ AtMostMaxOrders' /\ TurnoverWithinCap'
        BY <2>1, <2>2, <3>1, BuyKeeps
      <3>3. TypeOK'
        BY <1>a, <2>1, <3>2 DEF TypeOK
      <3>4. CashBuffer' = CashBuffer
        BY <2>1 DEF CashBuffer, NetWorth
      <3>5. CashKept'
        BY <2>1, <3>2, <3>4 DEF CashKept
      <3> QED
        BY <3>2, <3>3, <3>5 DEF IInv
    <2> QED
      BY <2>4, <2>5
  <1>11. CASE Finish
    <2>1. TypeOK'
      BY <1>11, <1>a, PlanStands DEF Finish, TypeOK
    <2>2. CashKept'
      BY <1>11, <1>a DEF Finish, CashKept, CashBuffer, NetWorth, plan
    <2> QED
      BY <1>11, <2>1, <2>2, PlanStands DEF Finish, IInv
  <1>12. CASE BookMoves
    <2>1. changes' \in 0 .. MaxChanges
      BY <1>12, <1>a, RebalancerAssumption DEF BookMoves, TypeOK
    <2>2. TypeOK'
      BY <1>12, <1>a, <2>1, PlanStands DEF BookMoves, TypeOK
    <2>3. CashKept'
      BY <1>12, <1>a DEF BookMoves, CashKept, CashBuffer, NetWorth, plan
    <2> QED
      BY <1>12, <2>2, <2>3, PlanStands DEF BookMoves, IInv
  <1>13. CASE UNCHANGED vars
    <2>1. TypeOK'
      BY <1>13, <1>a DEF vars, plan, TypeOK
    <2>2. CashKept'
      BY <1>13, <1>a DEF vars, plan, CashKept, CashBuffer, NetWorth
    <2> QED
      BY <1>13, <2>1, <2>2, PlanStands DEF vars, plan, IInv
  <1> QED
    BY <1>1, <1>2, <1>3, <1>4, <1>5, <1>6, <1>7, <1>8, <1>9, <1>10, <1>11, <1>12, <1>13 DEF Next

\* The inductive invariant holds in every reachable state.
LEMMA Invariance == Spec => []IInv
  BY InitHolds, StepHolds, PTL DEF Spec

\* The types of a plan hold for any book, targets and limits.
THEOREM RebalancerTypes == Spec => []TypeOK
  <1>1. IInv => TypeOK
    BY DEF IInv
  <1> QED
    BY <1>1, Invariance, PTL

\* No plan turns over more than its cap, however the book moves while it is made.
THEOREM PlanWithinCap == Spec => []TurnoverWithinCap
  <1>1. IInv => TurnoverWithinCap
    BY DEF IInv
  <1> QED
    BY <1>1, Invariance, PTL

\* No plan buys into the cash buffer, at any point of its execution.
THEOREM PlanKeepsBuffer == Spec => []BufferIsKept
  <1>1. IInv => BufferIsKept
    <2> SUFFICES ASSUME IInv, bought > 0 PROVE val.cash + sold - bought >= CashBuffer
      BY DEF BufferIsKept
    <2>1. usable \in Nat /\ usable = val.cash + sold - bought - CashBuffer
      BY DEF IInv, TypeOK, CashKept
    <2>2. val.cash \in Int /\ sold \in Nat /\ bought \in Nat /\ CashBuffer \in Int
      BY LimitTypes DEF IInv, TypeOK, Valuations
    <2> QED
      BY <2>1, <2>2
  <1> QED
    BY <1>1, Invariance, PTL

\* No plan is longer than max_rebalance_orders, which is what the gatekeeper's gate
\* on the number of orders expects of a plan.
THEOREM PlanHasRoom == Spec => []AtMostMaxOrders
  <1>1. IInv => AtMostMaxOrders
    BY DEF IInv
  <1> QED
    BY <1>1, Invariance, PTL

\* All three, for any book, targets, limits and movements of the book.
THEOREM PlanWithinLimits == Spec => []PlanKeepsLimits
BY PlanWithinCap, PlanKeepsBuffer, PlanHasRoom, PTL DEF PlanKeepsLimits
-----------------------------------------------------------------------------
(* What is sold is sold once.                                              *)

\* A sell is worth no more than what it is made for.
LEMMA SellWithinNeed ==
    ASSUME TypeOK, Remaining > 0, NEW s, NEW need \in Nat, Sells(s, need)
    PROVE  SellQuantity(s, need) * Price(s) <= need
  <1>1. s \in Symbols /\ Price(s) \in Nat \ {0} /\ book[s].quantity \in Nat
    BY PriceTypes DEF Sells, Sellable
  <1>2. Remaining \in Int
    BY LimitTypes
  <1> DEFINE most == need \div Price(s)
             room == Remaining \div Price(s)
  <1>3. most \in Nat /\ most * Price(s) <= need /\ most * Price(s) \in Nat
    BY <1>1, DivisionBound
  <1>4. Wanted(s, need) \in Nat /\ Wanted(s, need) <= most
    BY <1>1, <1>3 DEF Wanted, Lesser
  <1>5. UnderVolume(Wanted(s, need), s) \in Nat /\ UnderVolume(Wanted(s, need), s) <= most
    BY <1>3, <1>4, RebalancerAssumption DEF UnderVolume, Lesser, Partial
  <1>6. Sized(s, need) \in Nat /\ Sized(s, need) <= most
    <2> HIDE DEF most
    <2>1. ToLot(UnderVolume(Wanted(s, need), s), s) \in Nat
          /\ ToLot(UnderVolume(Wanted(s, need), s), s) <= UnderVolume(Wanted(s, need), s)
      BY <1>1, <1>5, LotBound
    <2>2. Exits(s, need) => book[s].quantity <= most
      BY <1>1, <1>3, <1>4 DEF Exits
    <2> QED
      BY <1>1, <1>3, <1>5, <2>1, <2>2 DEF Sized
  <1>7. Sized(s, need) * Price(s) \in Nat /\ Sized(s, need) * Price(s) <= most * Price(s)
    BY <1>1, <1>3, <1>6, ProductMonotone
  <1>8. CASE Sized(s, need) * Price(s) > Remaining
    <2>1. room \in Nat /\ room * Price(s) <= Remaining /\ room * Price(s) \in Nat
      BY <1>1, <1>2, DivisionBound
    <2>2. ToLot(room, s) \in Nat /\ ToLot(room, s) <= room
      BY <1>1, <2>1, LotBound
    <2>3. ToLot(room, s) * Price(s) <= room * Price(s) /\ ToLot(room, s) * Price(s) \in Nat
      BY <1>1, <2>1, <2>2, ProductMonotone
    <2>4. SellQuantity(s, need) = ToLot(room, s)
      BY <1>8 DEF SellQuantity
    <2> DEFINE got == ToLot(room, s) * Price(s)
               most0 == most * Price(s)
               room0 == room * Price(s)
               size0 == Sized(s, need) * Price(s)
    <2>5. /\ got \in Nat /\ most0 \in Nat /\ room0 \in Nat /\ size0 \in Nat
          /\ got <= room0 /\ room0 <= Remaining /\ size0 > Remaining /\ size0 <= most0
          /\ most0 <= need
      BY <1>3, <1>7, <1>8, <2>1, <2>3
    <2> HIDE DEF got, most0, room0, size0, room, most
    <2>6. got <= need
      BY <1>2, <2>5
    <2> QED
      BY <2>4, <2>6 DEF got
  <1>9. CASE ~(Sized(s, need) * Price(s) > Remaining)
    <2>1. SellQuantity(s, need) = Sized(s, need)
      BY <1>9 DEF SellQuantity
    <2> HIDE DEF most
    <2> QED
      BY <1>3, <1>7, <2>1
  <1> QED
    BY <1>8, <1>9

\* One more order is one more sell for its signal, or for none.
LEMMA OrderAppended ==
    ASSUME orders \in Seq(Orders), NEW o \in Orders, orders' = Append(orders, o), NEW x
    PROVE  LET mine == o.side = "SELL" /\ o.why = x
               n    == Len(orders) + 1
           IN  /\ SalesFor(x)' = IF mine THEN SalesFor(x) \cup {n} ELSE SalesFor(x)
               /\ ValueOf(SalesFor(x)) \in Int
               /\ ValueOf(SalesFor(x))'
                    = ValueOf(SalesFor(x)) + (IF mine THEN o.quantity * o.price ELSE 0)
  <1> DEFINE n == Len(orders) + 1
             f == [i \in DOMAIN orders |-> orders[i].quantity * orders[i].price]
             g == [i \in DOMAIN orders' |-> orders'[i].quantity * orders'[i].price]
             S == SalesFor(x)
  <1>1. /\ Len(orders) \in Nat /\ DOMAIN orders = 1 .. Len(orders) /\ n \notin DOMAIN orders
        /\ DOMAIN orders' = DOMAIN orders \cup {n} /\ orders'[n] = o
        /\ \A i \in DOMAIN orders : orders'[i] = orders[i] /\ orders[i] \in Orders
    OBVIOUS
  <1>2. SalesFor(x)' = {i \in DOMAIN orders' : orders'[i].side = "SELL" /\ orders'[i].why = x}
    BY DEF SalesFor
  <1>3. SalesFor(x)' = IF o.side = "SELL" /\ o.why = x THEN S \cup {n} ELSE S
    BY <1>1, <1>2 DEF SalesFor
  <1>4. S \subseteq DOMAIN orders /\ IsFiniteSet(S) /\ n \notin S
    <2>1. IsFiniteSet(1 .. Len(orders))
      BY <1>1, FS_Interval
    <2>2. S \subseteq DOMAIN orders
      BY DEF SalesFor
    <2> QED
      BY <1>1, <2>1, <2>2, FS_Subset
  <1>5. \A i \in DOMAIN orders : f[i] \in Int /\ g[i] = f[i]
    BY <1>1 DEF Orders
  <1>6. g[n] = o.quantity * o.price /\ o.quantity * o.price \in Int
    BY <1>1 DEF Orders
  <1>7. ValueOf(SalesFor(x)) = SumFunctionOnSet(f, S) /\ ValueOf(SalesFor(x))' = SumFunctionOnSet(g, S')
    BY DEF ValueOf
  <1> HIDE DEF f, g, S, n
  <1>8. SumFunctionOnSet(f, S) \in Int
    BY <1>4, <1>5, SumType
  <1>9. SumFunctionOnSet(g, S) = SumFunctionOnSet(f, S)
    BY <1>4, <1>5, SumSame
  <1>10. CASE o.side = "SELL" /\ o.why = x
    <2>1. S' = S \cup {n}
      BY <1>3, <1>10 DEF S
    <2>2. SumFunctionOnSet(g, S \cup {n}) = g[n] + SumFunctionOnSet(g, S)
      <3>1. \A i \in S \cup {n} : g[i] \in Int
        BY <1>4, <1>5, <1>6
      <3> QED
        BY <1>4, <3>1, SumPutIn
    <2>3. SumFunctionOnSet(g, S') = SumFunctionOnSet(f, S) + o.quantity * o.price
      BY <1>6, <1>8, <1>9, <2>1, <2>2
    <2> QED
      BY <1>3, <1>7, <1>8, <1>10, <2>3 DEF n, S
  <1>11. CASE ~(o.side = "SELL" /\ o.why = x)
    <2>1. S' = S
      BY <1>3, <1>11 DEF S
    <2> QED
      BY <1>3, <1>7, <1>8, <1>9, <1>11, <2>1 DEF S
  <1> QED
    BY <1>10, <1>11

\* An amount that is not above zero is rounded by half at most, and stays so.
LEMMA HalfEvenBound ==
    ASSUME NEW n \in Int, n <= 0
    PROVE  /\ HalfEven(n, Whole) \in Int /\ HalfEven(n, Whole) <= 0
           /\ 2 * Whole * Abs(HalfEven(n, Whole)) <= Whole - 2 * n
  <1> DEFINE below == n \div Whole
             rest  == n % Whole
  <1>1. /\ below \in Int /\ rest \in Int /\ 0 <= rest /\ rest < Whole
        /\ n = Whole * below + rest
    BY DEF Whole
  <1>2. \/ HalfEven(n, Whole) = below /\ 2 * rest <= Whole
        \/ HalfEven(n, Whole) = below + 1 /\ 2 * rest >= Whole
    BY <1>1 DEF HalfEven, Whole
  <1> HIDE DEF below, rest
  <1>3. below <= 0 /\ (2 * rest >= Whole => below + 1 <= 0)
    BY <1>1 DEF Whole
  <1> QED
    BY <1>1, <1>2, <1>3 DEF Whole, Abs

\* Selling for no more than a signal's amount leaves its target: the weight that raised
\* it and the amount are each rounded by half at most.
LEMMA AmountStopsAtTarget ==
    ASSUME TypeOK, WeighsRight(val), NEW x \in Actionable, Overweight(x), x.type # "CASH",
           NEW got \in Int, got <= Abs(x.amount)
    PROVE  2 * Whole * (WorthFor(x) - got) + val.aum + Whole >= 2 * TargetFor(x) * val.aum
  <1>1. /\ val.aum \in Nat /\ val.holdings \subseteq Symbols /\ IsFiniteSet(val.holdings)
        /\ val.value \in [Symbols -> Nat] /\ val.weight \in [Symbols -> Nat]
        /\ val.sectorWeight \in [Sectors -> Nat]
    BY FS_Subset, RebalancerAssumption DEF TypeOK, Valuations
  <1>2. x \in SectorDrift(val) \/ x \in ConcentrationDrift(val) \/ x \in StockDrift(val)
    BY DEF Actionable, DetectDrift, CashDrift
  \* In products that the rounding bounds are about.
  <1>3. ASSUME NEW w \in Nat, NEW t \in Nat, NEW worth \in Int, IsShare(w, worth, val.aum),
               w > t, NEW n \in Int, x.amount = HalfEven(n, Whole),
               n = t * val.aum - worth * Whole \/ n = (t - w) * val.aum
        PROVE  2 * Whole * (worth - got) + val.aum + Whole >= 2 * t * val.aum
    <2> DEFINE wa == w * val.aum
               ta == t * val.aum
    <2>1. wa \in Int /\ ta \in Int /\ (t - w) * val.aum = ta - wa /\ 2 * t * val.aum = 2 * ta
      BY <1>1, <1>3
    <2>2. wa >= ta + val.aum
      <3> DEFINE a == val.aum
      <3>1. t + 1 \in Int /\ t + 1 <= w /\ w \in Int /\ t \in Int /\ a \in Nat
        BY <1>1, <1>3
      <3> HIDE DEF a
      <3>2. (t + 1) * a <= w * a
        BY <3>1, ProductMonotone
      <3>3. (t + 1) * a = t * a + a
        BY <3>1
      <3> QED
        BY <3>2, <3>3 DEF a
    <2>3. 2 * Abs(wa - worth * Whole) <= val.aum
      BY <1>3 DEF IsShare
    <2>4. n = ta - worth * Whole \/ n = ta - wa
      BY <1>3, <2>1
    <2> HIDE DEF wa, ta
    <2>5. 2 * (wa - worth * Whole) <= val.aum /\ 2 * (worth * Whole - wa) <= val.aum
      BY <1>1, <1>3, <2>1, <2>3 DEF Abs, Whole
    <2>6. n <= 0 /\ worth * Whole - ta + n >= -val.aum
      BY <1>1, <1>3, <2>1, <2>2, <2>4, <2>5 DEF Whole
    <2>7. 2 * Whole * Abs(x.amount) <= Whole - 2 * n
      BY <1>3, <2>6, HalfEvenBound
    <2>8. Abs(x.amount) \in Int
      BY <1>3, <2>6, HalfEvenBound DEF Abs
    <2> QED
      BY <1>1, <1>3, <2>1, <2>2, <2>4, <2>5, <2>7, <2>8 DEF Whole
  <1>4. CASE x \in SectorDrift(val)
    <2>1. PICK y \in val.sectors \cap DOMAIN SectorTargets :
            /\ x.type = "SECTOR" /\ x.name = y
            /\ x.drift = val.sectorWeight[y] - SectorTargets[y].target
            /\ x.amount = HalfEven((SectorTargets[y].target - val.sectorWeight[y]) * val.aum, Whole)
      BY <1>4 DEF SectorDrift
    <2>2. y \in Sectors /\ val.sectorWeight[y] \in Nat /\ SectorTargets[y].target \in Nat
      BY <1>1, <2>1, TargetsAssumption DEF Partial, Targets
    <2>3. WorthFor(x) = SectorWorth(val, y) /\ TargetFor(x) = SectorTargets[y].target
      BY <2>1 DEF WorthFor, TargetFor
    <2>4. SectorWorth(val, y) \in Int
      <3> DEFINE S == {s \in val.holdings : SectorOf[s] = y}
      <3>1. IsFiniteSet(S) /\ \A s \in S : val.value[s] \in Int
        BY <1>1, FS_Subset
      <3> HIDE DEF S
      <3>2. SumFunctionOnSet(val.value, S) \in Int
        BY <3>1, SumType
      <3> QED
        BY <3>2 DEF SectorWorth, S
    <2>5. IsShare(val.sectorWeight[y], SectorWorth(val, y), val.aum)
      BY <2>1 DEF WeighsRight
    <2>6. val.sectorWeight[y] > SectorTargets[y].target
      BY <2>1, <2>2 DEF Overweight
    <2>7. (SectorTargets[y].target - val.sectorWeight[y]) * val.aum \in Int
      BY <1>1, <2>2
    <2> QED
      BY <1>3, <2>1, <2>2, <2>3, <2>4, <2>5, <2>6, <2>7
  <1>5. ASSUME NEW s \in val.holdings, NEW t \in Nat, x.name = s, x.type = "HOLDING",
               TargetFor(x) = t, x.drift = val.weight[s] - t,
               x.amount = Missing(val, t, val.value[s])
        PROVE  2 * Whole * (WorthFor(x) - got) + val.aum + Whole >= 2 * TargetFor(x) * val.aum
    <2>1. val.weight[s] \in Nat /\ val.value[s] \in Nat
      BY <1>1
    <2>2. WorthFor(x) = val.value[s]
      BY <1>5 DEF WorthFor
    <2>3. IsShare(val.weight[s], val.value[s], val.aum)
      BY DEF WeighsRight
    <2>4. val.weight[s] > t
      BY <1>5, <2>1 DEF Overweight
    <2>5. t * val.aum - val.value[s] * Whole \in Int
      BY <1>1, <2>1 DEF Whole
    <2>6. x.amount = HalfEven(t * val.aum - val.value[s] * Whole, Whole)
      BY <1>5 DEF Missing
    <2> QED
      BY <1>3, <1>5, <2>1, <2>2, <2>3, <2>4, <2>5, <2>6
  <1>6. CASE x \in ConcentrationDrift(val)
    <2>1. PICK s \in val.holdings :
            /\ x.type = "HOLDING" /\ x.name = s /\ x.threshold = 0
            /\ x.drift = val.weight[s] - ConcentrationLimit
            /\ x.amount = Missing(val, ConcentrationLimit, val.value[s])
      BY <1>6 DEF ConcentrationDrift
    <2>2. TargetFor(x) = ConcentrationLimit
      BY <2>1 DEF TargetFor
    <2> QED
      BY <1>5, <2>1, <2>2, TargetsAssumption
  <1>7. CASE x \in StockDrift(val)
    <2>1. PICK s \in val.holdings \cap DOMAIN StockTargets :
            /\ x.type = "HOLDING" /\ x.name = s /\ x.threshold = Threshold(StockTargets[s])
            /\ x.drift = val.weight[s] - StockTargets[s].target
            /\ x.amount = Missing(val, StockTargets[s].target, val.value[s])
      BY <1>7 DEF StockDrift
    <2>2. StockTargets[s].target \in Nat
      BY <2>1, TargetsAssumption DEF Partial, Targets
    <2>3. TargetFor(x) = StockTargets[s].target
      BY <2>1 DEF TargetFor, Threshold
    <2> QED
      BY <1>5, <2>1, <2>2, <2>3
  <1> QED
    BY <1>2, <1>4, <1>6, <1>7

IsSale(i) == orders[i].side = "SELL"

\* Every sell is for an overweight signal of the valuation, and those for one signal are
\* worth its amount at most.
ReasonsHold ==
    \A i \in DOMAIN orders : IsSale(i) =>
        orders[i].why \in Actionable /\ Overweight(orders[i].why) /\ orders[i].why.type # "CASH"
WithinAmounts == \A x \in Actionable : ValueOf(SalesFor(x)) <= Abs(x.amount)

\* What has been sold is seen, and one sell of each stock seen pays the charge.
Charged(s) == {j \in DOMAIN orders : orders[j].symbol = s /\ IsSale(j) /\ orders[j].dp}
OneCharge ==
    /\ \A i \in DOMAIN orders : IsSale(i) => orders[i].symbol \in seen
    /\ \A s \in seen : \E k \in DOMAIN orders : Charged(s) = {k}

\* A signal still to come has sold nothing; the one of the inner loop has sold what is
\* no longer needed.
SignalsInTurn ==
    /\ phase = "idle" => orders = << >>
    /\ phase \in {"sells", "sector"} =>
         todo \subseteq Actionable /\ \A i \in DOMAIN orders : IsSale(i) => orders[i].why \notin todo
    /\ phase = "sector" =>
         /\ signal \in Actionable \ todo /\ Overweight(signal) /\ signal.type = "SECTOR"
         /\ ValueOf(SalesFor(signal)) + needed <= Abs(signal.amount)

SalesInv == WeighsRight(val) /\ ReasonsHold /\ WithinAmounts /\ OneCharge /\ SignalsInTurn

\* Sells that there are none of are worth nothing.
LEMMA NothingSold ==
    ASSUME NEW x, SalesFor(x) = {}
    PROVE  ValueOf(SalesFor(x)) = 0
  BY SumEmpty DEF ValueOf

\* The amounts of the signals are whole.
LEMMA AmountTypes ==
    ASSUME TypeOK
    PROVE  /\ Actionable \subseteq DriftSignals
           /\ \A x \in Actionable : Abs(x.amount) \in Nat
  <1>1. Actionable \subseteq DriftSignals
    BY SignalTypes DEF TypeOK, Actionable
  <1> QED
    BY <1>1 DEF DriftSignals, Abs

\* An empty plan has sold nothing.
LEMMA InitSales == Init => SalesInv
  <1> SUFFICES ASSUME Init PROVE SalesInv
    OBVIOUS
  <1>1. TypeOK
    BY InitHolds DEF IInv
  <1>2. WeighsRight(val)
    BY RebalancerAssumption DEF Init
  <1>3. DOMAIN orders = {} /\ seen = {} /\ phase = "idle" /\ orders = << >>
    BY DEF Init
  <1>4. WithinAmounts
    <2>1. \A x : SalesFor(x) = {}
      BY <1>3 DEF SalesFor
    <2> QED
      BY <1>1, <2>1, NothingSold, AmountTypes DEF WithinAmounts
  <1> QED
    BY <1>2, <1>3, <1>4 DEF SalesInv, ReasonsHold, OneCharge, SignalsInTurn

\* A step that adds no order keeps what was sold.
LEMMA NoOrder ==
    ASSUME SalesInv, UNCHANGED <<val, orders, seen>>, SignalsInTurn'
    PROVE  SalesInv'
  <1>1. WeighsRight(val)' /\ Actionable' = Actionable
    BY DEF SalesInv, WeighsRight, Actionable, SectorWorth, IsShare
  <1>2. \A x : ValueOf(SalesFor(x))' = ValueOf(SalesFor(x))
    BY DEF ValueOf, SalesFor
  <1>3. ReasonsHold' /\ WithinAmounts'
    BY <1>1, <1>2 DEF SalesInv, ReasonsHold, WithinAmounts, IsSale
  <1>4. OneCharge'
    BY DEF SalesInv, OneCharge, Charged, IsSale
  <1> QED
    BY <1>1, <1>3, <1>4 DEF SalesInv

\* A buy is no sale.
LEMMA BuySells ==
    ASSUME IInv, SalesInv, NEW s, NEW money, NEW why, Buy(s, money, why), UNCHANGED val,
           orders' \in Seq(Orders), phase' \notin {"idle", "sells", "sector"}
    PROVE  SalesInv'
  <1> DEFINE o == [ symbol |-> s, side |-> "BUY", quantity |-> BuyQuantity(s, money),
                    price |-> Price(s), dp |-> FALSE, why |-> why ]
             n == Len(orders) + 1
  <1>1. orders' = Append(orders, o) /\ seen' = seen /\ orders \in Seq(Orders)
    BY DEF Buy, IInv, TypeOK
  <1>2. /\ n \notin DOMAIN orders /\ DOMAIN orders' = DOMAIN orders \cup {n} /\ orders'[n] = o
        /\ \A i \in DOMAIN orders : orders'[i] = orders[i]
    BY <1>1
  <1>3. o \in Orders
    BY <1>1, <1>2
  <1>4. o.side # "SELL"
    OBVIOUS
  <1> HIDE DEF o, n
  <1>5. \A i \in DOMAIN orders' : IsSale(i)' => i \in DOMAIN orders /\ IsSale(i) /\ orders'[i] = orders[i]
    BY <1>2, <1>4 DEF IsSale
  <1>6. WeighsRight(val)' /\ Actionable' = Actionable
    BY DEF SalesInv, WeighsRight, Actionable, SectorWorth, IsShare
  <1>7. ReasonsHold'
    BY <1>5, <1>6 DEF SalesInv, ReasonsHold
  <1>8. WithinAmounts'
    <2>1. \A x : ValueOf(SalesFor(x))' = ValueOf(SalesFor(x)) + 0 /\ ValueOf(SalesFor(x)) \in Int
      BY <1>1, <1>3, <1>4, OrderAppended
    <2> QED
      BY <1>6, <2>1 DEF SalesInv, WithinAmounts
  <1>9. OneCharge'
    <2>1. \A i \in DOMAIN orders : IsSale(i)' = IsSale(i)
      BY <1>2 DEF IsSale
    <2>2. \A t : Charged(t)' = Charged(t)
      BY <1>2, <1>5, <2>1 DEF Charged
    <2> QED
      BY <1>1, <1>2, <1>5, <2>2 DEF SalesInv, OneCharge
  <1>10. SignalsInTurn'
    BY DEF SignalsInTurn
  <1> QED
    BY <1>6, <1>7, <1>8, <1>9, <1>10 DEF SalesInv

\* A sell for a signal that still has as much to sell.
LEMMA SellSells ==
    ASSUME IInv, SalesInv, Remaining > 0, NEW s, NEW need \in Nat, Sells(s, need),
           NEW x \in Actionable, Overweight(x), x.type # "CASH",
           ValueOf(SalesFor(x)) + need <= Abs(x.amount),
           Sell(s, need, x), UNCHANGED val, orders' \in Seq(Orders)
    PROVE  /\ WeighsRight(val)' /\ Actionable' = Actionable
           /\ ReasonsHold' /\ WithinAmounts' /\ OneCharge'
           /\ ValueOf(SalesFor(x))' = ValueOf(SalesFor(x)) + SellQuantity(s, need) * Price(s)
           /\ ValueOf(SalesFor(x)) \in Int
           /\ \A i \in DOMAIN orders' : IsSale(i)' =>
                 \/ orders'[i].why = x
                 \/ i \in DOMAIN orders /\ IsSale(i) /\ orders'[i].why = orders[i].why
  <1> DEFINE q == SellQuantity(s, need)
             o == [ symbol |-> s, side |-> "SELL", quantity |-> q, price |-> Price(s),
                    dp |-> DpDue(s), why |-> x ]
             n == Len(orders) + 1
  <1>1. orders' = Append(orders, o) /\ seen' = seen \cup {s} /\ orders \in Seq(Orders) /\ TypeOK
    BY DEF Sell, IInv, TypeOK
  <1>2. /\ n \notin DOMAIN orders /\ DOMAIN orders' = DOMAIN orders \cup {n} /\ orders'[n] = o
        /\ \A i \in DOMAIN orders : orders'[i] = orders[i]
    BY <1>1
  <1>3. o \in Orders
    BY <1>1, <1>2
  <1>4. q * Price(s) \in Nat /\ q * Price(s) <= need
    BY <1>1, SellBound, SellWithinNeed
  <1>5. /\ o.side = "SELL" /\ o.why = x /\ o.symbol = s /\ o.dp = (s \notin seen)
        /\ o.quantity * o.price = q * Price(s)
    BY DEF DpDue
  <1> HIDE DEF o, n, q
  <1>6. WeighsRight(val)' /\ Actionable' = Actionable
    BY DEF SalesInv, WeighsRight, Actionable, SectorWorth, IsShare
  <1>7. \A i \in DOMAIN orders : IsSale(i)' = IsSale(i) /\ orders'[i] = orders[i]
    BY <1>2 DEF IsSale
  <1>8. \A i \in DOMAIN orders' : IsSale(i)' =>
           \/ i = n /\ orders'[i].why = x
           \/ i \in DOMAIN orders /\ IsSale(i) /\ orders'[i] = orders[i]
    BY <1>2, <1>5, <1>7
  <1>9. ReasonsHold'
    BY <1>6, <1>8 DEF SalesInv, ReasonsHold
  <1>10. /\ ValueOf(SalesFor(x))' = ValueOf(SalesFor(x)) + q * Price(s)
         /\ ValueOf(SalesFor(x)) \in Int
    BY <1>1, <1>3, <1>5, OrderAppended
  <1>11. WithinAmounts'
    <2> SUFFICES ASSUME NEW y \in Actionable PROVE ValueOf(SalesFor(y))' <= Abs(y.amount)
      BY <1>6 DEF WithinAmounts
    <2>1. CASE y = x
      <3>1. Abs(x.amount) \in Nat
        BY <1>1, AmountTypes
      <3> QED
        BY <1>4, <1>10, <2>1, <3>1
    <2>2. CASE y # x
      <3>1. ValueOf(SalesFor(y))' = ValueOf(SalesFor(y)) + 0 /\ ValueOf(SalesFor(y)) \in Int
        BY <1>1, <1>3, <1>5, <2>2, OrderAppended
      <3> QED
        BY <3>1 DEF SalesInv, WithinAmounts
    <2> QED
      BY <2>1, <2>2
  <1>12. OneCharge'
    <2>1. \A i \in DOMAIN orders' : IsSale(i)' => orders'[i].symbol \in seen'
      BY <1>1, <1>2, <1>5, <1>8 DEF SalesInv, OneCharge
    <2>2. ASSUME NEW t
          PROVE  Charged(t)' = {j \in DOMAIN orders' :
                    orders'[j].symbol = t /\ orders'[j].side = "SELL" /\ orders'[j].dp}
      BY DEF Charged, IsSale
    <2>3. ASSUME NEW t \in seen' PROVE \E k \in DOMAIN orders' : Charged(t)' = {k}
      <3>1. CASE t \in seen
        <4>1. orders'[n].symbol = t => orders'[n].dp = FALSE
          BY <1>2, <1>5, <3>1
        <4>2. Charged(t)' = {j \in DOMAIN orders :
                 orders'[j].symbol = t /\ orders'[j].side = "SELL" /\ orders'[j].dp}
          BY <1>2, <2>2, <4>1
        <4>3. Charged(t)' = Charged(t)
          BY <1>2, <4>2 DEF Charged, IsSale
        <4> QED
          BY <1>2, <3>1, <4>3 DEF SalesInv, OneCharge
      <3>2. CASE t \notin seen
        <4>1. t = s
          BY <1>1, <3>2
        <4>2. Charged(t) = {}
          BY <3>2 DEF Charged, SalesInv, OneCharge
        <4>3. Charged(t)' = Charged(t) \cup {n}
          BY <1>2, <1>5, <2>2, <3>2, <4>1 DEF Charged, IsSale
        <4> QED
          BY <1>2, <4>2, <4>3
      <3> QED
        BY <3>1, <3>2
    <2> QED
      BY <2>1, <2>3 DEF OneCharge
  <1> QED
    BY <1>6, <1>8, <1>9, <1>10, <1>11, <1>12 DEF q

\* Each step keeps what is said of the sells.
LEMMA StepSells == IInv /\ IInv' /\ SalesInv /\ [Next]_vars => SalesInv'
  <1> SUFFICES ASSUME IInv, IInv', SalesInv, [Next]_vars PROVE SalesInv'
    OBVIOUS
  <1>a. TypeOK /\ SignalsInTurn /\ WithinAmounts /\ orders' \in Seq(Orders)
    BY DEF IInv, SalesInv, TypeOK
  <1>b. \A x \in Actionable : Abs(x.amount) \in Nat
    BY <1>a, AmountTypes
  <1>c. ~Full => Remaining > 0
    BY <1>a, LimitTypes DEF Full, Remaining
  \* A signal that is still to come has sold nothing.
  <1>d. ASSUME phase \in {"sells", "sector"}, NEW x \in todo
        PROVE  x \in Actionable /\ ValueOf(SalesFor(x)) = 0
    <2>1. SalesFor(x) = {}
      BY <1>a, <1>d DEF SignalsInTurn, SalesFor, IsSale
    <2> QED
      BY <1>a, <1>d, <2>1, NothingSold DEF SignalsInTurn
  <1>e. ASSUME UNCHANGED val PROVE Actionable' = Actionable
    BY <1>e DEF Actionable
  <1>f. ASSUME UNCHANGED orders
        PROVE  /\ \A i : IsSale(i)' = IsSale(i)
               /\ \A x : ValueOf(SalesFor(x))' = ValueOf(SalesFor(x))
    BY <1>f DEF IsSale, ValueOf, SalesFor
  \* Steps that add no order, by what becomes of the signals.
  <1>1. ASSUME UNCHANGED <<val, orders, seen>>, phase' \notin {"idle", "sells", "sector"}
        PROVE  SalesInv'
    BY <1>1, NoOrder DEF SignalsInTurn
  <1>2. ASSUME UNCHANGED <<val, orders, seen, phase, signal, needed>>, phase # "idle", todo' \subseteq todo
        PROVE  SalesInv'
    <2>1. SignalsInTurn'
      BY <1>2, <1>a, <1>e, <1>f DEF SignalsInTurn, Overweight
    <2> QED
      BY <1>2, <2>1, NoOrder
  <1>3. CASE Start
    <2>1. /\ phase = "idle" /\ phase' # "idle" /\ phase' # "sector" /\ todo' = Actionable
          /\ UNCHANGED <<val, orders, seen>> /\ orders = << >>
      BY <1>3, <1>a DEF Start, plan, SignalsInTurn
    <2>2. SignalsInTurn'
      BY <2>1, <1>e DEF SignalsInTurn
    <2> QED
      BY <2>1, <2>2, NoOrder
  <1>4. CASE SellHolding
    <2>1. PICK x \in todo :
            /\ x.type = "HOLDING" /\ Overweight(x) /\ todo' = todo \ {x}
            /\ IF Sells(x.name, Abs(x.amount)) THEN Sell(x.name, Abs(x.amount), x) ELSE UNCHANGED plan
      BY <1>4 DEF SellHolding
    <2>2. /\ phase = "sells" /\ ~Full
          /\ UNCHANGED <<phase, args, book, changes, val, signal, sectorTodo, needed, usable>>
      BY <1>4 DEF SellHolding
    <2>3. CASE UNCHANGED plan
      BY <1>2, <2>1, <2>2, <2>3 DEF plan
    <2>4. CASE Sells(x.name, Abs(x.amount)) /\ Sell(x.name, Abs(x.amount), x)
      <3>1. x \in Actionable /\ ValueOf(SalesFor(x)) = 0 /\ Abs(x.amount) \in Nat
        BY <1>b, <1>d, <2>2
      <3>2. /\ WeighsRight(val)' /\ Actionable' = Actionable
            /\ ReasonsHold' /\ WithinAmounts' /\ OneCharge'
            /\ \A i \in DOMAIN orders' : IsSale(i)' =>
                 \/ orders'[i].why = x
                 \/ i \in DOMAIN orders /\ IsSale(i) /\ orders'[i].why = orders[i].why
        <4>1. ValueOf(SalesFor(x)) + Abs(x.amount) <= Abs(x.amount)
          BY <3>1
        <4> QED
          BY <1>a, <1>c, <2>1, <2>2, <2>4, <3>1, <4>1, SellSells
      <3>3. SignalsInTurn'
        BY <1>a, <2>1, <2>2, <3>2 DEF SignalsInTurn
      <3> QED
        BY <3>2, <3>3 DEF SalesInv
    <2> QED
      BY <2>1, <2>3, <2>4
  <1>5. CASE EnterSector
    <2>1. PICK x \in todo :
            /\ x.type = "SECTOR" /\ Overweight(x) /\ todo' = todo \ {x} /\ signal' = x
            /\ needed' = Abs(x.amount)
      BY <1>5 DEF EnterSector
    <2>2. /\ phase = "sells" /\ phase' = "sector" /\ UNCHANGED <<val, orders, seen>>
      BY <1>5 DEF EnterSector, plan
    <2>3. x \in Actionable /\ ValueOf(SalesFor(x)) = 0 /\ Abs(x.amount) \in Nat
      BY <1>b, <1>d, <2>2
    <2>4. Actionable' = Actionable /\ \A y : ValueOf(SalesFor(y))' = ValueOf(SalesFor(y))
      BY <1>e, <1>f, <2>2
    <2>5. ValueOf(SalesFor(signal))' = ValueOf(SalesFor(x))
      BY <2>1, <2>2 DEF ValueOf, SalesFor
    <2>6. todo \subseteq Actionable /\ \A i \in DOMAIN orders : IsSale(i) => orders[i].why \notin todo
      BY <1>a, <2>2 DEF SignalsInTurn
    <2>7. SignalsInTurn'
      BY <1>f, <2>1, <2>2, <2>3, <2>4, <2>5, <2>6 DEF SignalsInTurn
    <2> QED
      BY <2>2, <2>7, NoOrder
  <1>6. CASE SkipSignal
    BY <1>2, <1>6 DEF SkipSignal, plan
  <1>7. CASE SellInSector
    <2>1. PICK s \in sectorTodo :
            IF Sells(s, needed)
            THEN Sell(s, needed, signal) /\ needed' = StillNeeded(s)
            ELSE UNCHANGED <<plan, needed>>
      BY <1>7 DEF SellInSector
    <2>2. /\ phase = "sector" /\ ~Full /\ needed > 0
          /\ UNCHANGED <<phase, args, book, changes, val, todo, signal, usable>>
      BY <1>7 DEF SellInSector
    <2>3. CASE UNCHANGED <<plan, needed>>
      BY <1>2, <2>2, <2>3 DEF plan
    <2>4. CASE Sells(s, needed) /\ Sell(s, needed, signal) /\ needed' = StillNeeded(s)
      <3>1. /\ signal \in Actionable /\ signal \notin todo /\ Overweight(signal)
            /\ signal.type = "SECTOR" /\ ValueOf(SalesFor(signal)) + needed <= Abs(signal.amount)
            /\ needed \in Nat
        BY <1>a, <2>2 DEF SignalsInTurn, TypeOK
      <3>2. /\ WeighsRight(val)' /\ Actionable' = Actionable
            /\ ReasonsHold' /\ WithinAmounts' /\ OneCharge'
            /\ ValueOf(SalesFor(signal))'
                 = ValueOf(SalesFor(signal)) + SellQuantity(s, needed) * Price(s)
            /\ ValueOf(SalesFor(signal)) \in Int
            /\ \A i \in DOMAIN orders' : IsSale(i)' =>
                 \/ orders'[i].why = signal
                 \/ i \in DOMAIN orders /\ IsSale(i) /\ orders'[i].why = orders[i].why
        <4> DEFINE x == signal
        <4>1. ValueOf(SalesFor(x))' = ValueOf(SalesFor(signal))'
          OBVIOUS
        <4>2. /\ x \in Actionable /\ Overweight(x) /\ x.type # "CASH"
              /\ ValueOf(SalesFor(x)) + needed <= Abs(x.amount) /\ Sell(s, needed, x) /\ x' = x
          BY <2>2, <2>4, <3>1
        <4> QED
          BY <1>a, <1>c, <2>2, <2>4, <3>1, <4>2, SellSells
      <3>3. ValueOf(SalesFor(signal))' + needed' <= Abs(signal'.amount)
        <4>1. SellQuantity(s, needed) * Price(s) \in Nat
          BY <1>a, <1>c, <2>2, <2>4, <3>1, SellBound
        <4>2. needed' = needed - SellQuantity(s, needed) * Price(s) /\ signal' = signal
          BY <2>2, <2>4 DEF StillNeeded
        <4> DEFINE got == SellQuantity(s, needed) * Price(s)
        <4>3. got \in Nat
          BY <4>1
        <4> HIDE DEF got
        <4> QED
          BY <3>1, <3>2, <4>2, <4>3 DEF got
      <3>4. SignalsInTurn'
        BY <1>a, <2>2, <3>1, <3>2, <3>3 DEF SignalsInTurn, Overweight
      <3> QED
        BY <3>2, <3>4 DEF SalesInv
    <2> QED
      BY <2>1, <2>3, <2>4
  <1>8. CASE LeaveSector
    <2>1. /\ phase = "sector" /\ phase' = "sells" /\ UNCHANGED <<val, orders, seen, todo>>
      BY <1>8 DEF LeaveSector, plan
    <2>2. SignalsInTurn'
      BY <1>a, <1>e, <1>f, <2>1 DEF SignalsInTurn
    <2> QED
      BY <2>1, <2>2, NoOrder
  <1>9. CASE BeginBuys \/ BeginTactical \/ Finish
    BY <1>1, <1>9 DEF BeginBuys, BeginTactical, Finish, plan
  <1>10. CASE ConsiderBuy
    <2>1. /\ phase' \notin {"idle", "sells", "sector"} /\ UNCHANGED val
          /\ (UNCHANGED plan) \/ \E x, s : Buy(s, BuyMoney(x), x)
      BY <1>10 DEF ConsiderBuy
    <2> QED
      BY <1>1, <1>a, <2>1, BuySells DEF plan
  <1>11. CASE ConsiderTactical
    <2>1. /\ phase' \notin {"idle", "sells", "sector"} /\ UNCHANGED val
          /\ (UNCHANGED plan) \/ \E s : Buy(s, TacticalMoney, None)
      BY <1>11 DEF ConsiderTactical
    <2> QED
      BY <1>1, <1>a, <2>1, BuySells DEF plan
  <1>12. CASE BookMoves
    BY <1>2, <1>12 DEF BookMoves, plan
  <1>13. CASE UNCHANGED vars
    <2>1. UNCHANGED <<val, orders, seen, phase, signal, needed, todo>>
      BY <1>13 DEF vars
    <2>2. SignalsInTurn'
      BY <1>a, <1>e, <1>f, <2>1 DEF SignalsInTurn, Overweight
    <2> QED
      BY <2>1, <2>2, NoOrder
  <1> QED
    BY <1>3, <1>4, <1>5, <1>6, <1>7, <1>8, <1>9, <1>10, <1>11, <1>12, <1>13 DEF Next

\* What the invariant says of each sell is what is promised.
LEMMA SalesInvIsSound == IInv /\ SalesInv => SalesAreSound
  <1> SUFFICES ASSUME IInv, SalesInv, NEW i \in DOMAIN orders, IsSale(i)
               PROVE  /\ 2 * Whole * (WorthFor(orders[i].why) - ValueOf(SalesFor(orders[i].why)))
                            + val.aum + Whole >= 2 * TargetFor(orders[i].why) * val.aum
                      /\ Cardinality({j \in DOMAIN orders :
                           orders[j].symbol = orders[i].symbol /\ orders[j].side = "SELL"
                           /\ orders[j].dp}) = 1
    BY DEF SalesAreSound, SalesStopAtTarget, DpChargedOnce, IsSale
  <1> DEFINE x == orders[i].why
  <1>1. TypeOK /\ WeighsRight(val) /\ orders \in Seq(Orders)
    BY DEF IInv, SalesInv, TypeOK
  <1>2. x \in Actionable /\ Overweight(x) /\ x.type # "CASH"
    BY DEF SalesInv, ReasonsHold
  <1>3. ValueOf(SalesFor(x)) <= Abs(x.amount)
    BY <1>2 DEF SalesInv, WithinAmounts
  <1>4. ValueOf(SalesFor(x)) \in Int
    <2> DEFINE f == [j \in DOMAIN orders |-> orders[j].quantity * orders[j].price]
               S == SalesFor(x)
    <2>1. IsFiniteSet(DOMAIN orders)
      BY <1>1, FS_Interval
    <2>2. S \subseteq DOMAIN orders
      BY DEF SalesFor
    <2>3. IsFiniteSet(S) /\ \A j \in S : f[j] \in Int
      <3>1. \A j \in DOMAIN orders : orders[j] \in Orders
        BY <1>1
      <3> QED
        BY <2>1, <2>2, <3>1, FS_Subset DEF Orders
    <2> HIDE DEF f, S
    <2>4. SumFunctionOnSet(f, S) \in Int
      BY <2>3, SumType
    <2> QED
      BY <2>4 DEF ValueOf, f, S
  <1> HIDE DEF x
  <1>5. 2 * Whole * (WorthFor(x) - ValueOf(SalesFor(x))) + val.aum + Whole >= 2 * TargetFor(x) * val.aum
    BY <1>1, <1>2, <1>3, <1>4, AmountStopsAtTarget
  <1>6. PICK k \in DOMAIN orders : Charged(orders[i].symbol) = {k}
    BY DEF SalesInv, OneCharge
  <1>7. Cardinality(Charged(orders[i].symbol)) = 1
    BY <1>6, FS_Singleton
  <1> QED
    BY <1>5, <1>7 DEF x, Charged, IsSale

\* The sells made for a signal never take a sector or a stock below its target, over all
\* the loops and however the book moves between two reads, but for half of the two
\* roundings; and the DP charge is on exactly one sell of a stock.
THEOREM PlanSellsOnce == Spec => []SalesAreSound
  <1>1. Init => IInv /\ SalesInv
    BY InitHolds, InitSales
  <1>2. IInv /\ SalesInv /\ [Next]_vars => (IInv /\ SalesInv)'
    BY StepHolds, StepSells
  <1>3. IInv /\ SalesInv => SalesAreSound
    BY SalesInvIsSound
  <1> QED
    BY <1>1, <1>2, <1>3, PTL DEF Spec
==============================================================================
