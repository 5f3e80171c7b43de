--------------------------- MODULE Planning_proofs ---------------------------
(***************************************************************************)
(* What the parts of a plan promise, for every value of their constants:   *)
(* a backtest, however long, looks at nothing it could not have known and  *)
(* its trades are its money; exactly one allocation profile is in force,   *)
(* however many activations overlap, wait, break off or are refused, and   *)
(* they never wait in a circle; sales take the oldest lots and harvests    *)
(* what the exemption has room for; cash that moves is counted once, and   *)
(* is no gain.                                                             *)
(***************************************************************************)
EXTENDS MCPlanning, Rebalancer_proofs

\* The operators of the library are the same wherever they are instantiated.
LEMMA SameSums ==
  /\ \A f, S : B!SumFunctionOnSet(f, S) = SumFunctionOnSet(f, S)
  /\ \A f, S : P!SumFunctionOnSet(f, S) = SumFunctionOnSet(f, S)
BY DEF B!SumFunctionOnSet, B!FoldFunctionOnSet, B!MapThenFoldSet, SumFunctionOnSet,
       FoldFunctionOnSet, MapThenFoldSet, P!SumFunctionOnSet, P!FoldFunctionOnSet, P!MapThenFoldSet

\* The sum of a whole function, likewise.
LEMMA SameSum ==
  \A f : B!SumFunction(f) = SumFunction(f) /\ P!SumFunction(f) = SumFunction(f)
BY SameSums DEF B!SumFunction, SumFunction, P!SumFunction

\* Finite sets and their sizes, likewise.
LEMMA SameSizes == \A S : P!IsFiniteSet(S) = IsFiniteSet(S) /\ P!Cardinality(S) = Cardinality(S)
BY DEF P!IsFiniteSet, IsFiniteSet, P!Cardinality, Cardinality

-----------------------------------------------------------------------------
(* The valuation *)

\* A share is rounded to the nearest hundredth of a percent of what there is.
LEMMA WeightIsShare ==
  ASSUME NEW worth \in Nat, NEW total \in Nat, total = 0 => worth = 0
  PROVE  Weight(worth, total) \in Nat /\ IsShare(Weight(worth, total), worth, total)
<1>1. CASE total = 0
  BY <1>1 DEF Weight, IsShare, Abs, Whole
<1>2. CASE total > 0
  <2> DEFINE n == worth * Whole
             up == (2 * n + total) \div (2 * total)
  <2>1. n \in Nat /\ 2 * n + total \in Nat /\ 2 * total \in Nat \ {0}
    BY <1>2 DEF Whole
  <2>2. Weight(worth, total) = up
    BY <1>2, <2>1 DEF Weight, HalfUp, Abs
  <2>3. up \in Nat /\ (2 * total) * up <= 2 * n + total /\ 2 * n + total < (2 * total) * up + 2 * total
    <3> DEFINE a == 2 * n + total
               d == 2 * total
    <3>1. a \in Nat /\ d \in Nat \ {0}
      BY <2>1
    <3> HIDE DEF a, d
    <3>2. a \div d \in Nat /\ d * (a \div d) <= a /\ a < d * (a \div d) + d
      BY <3>1
    <3> QED
      BY <3>2 DEF a, d
  <2> HIDE DEF up
  <2> DEFINE ut == up * total
  <2>4. ut \in Int /\ (2 * total) * up = 2 * ut
    BY <2>3
  <2>5. IsShare(up, worth, total) <=> 2 * Abs(ut - n) <= total
    BY DEF IsShare
  <2> HIDE DEF ut, n
  <2>6. 2 * Abs(ut - n) <= total
    BY <2>1, <2>3, <2>4 DEF Abs
  <2> QED
    BY <2>2, <2>3, <2>5, <2>6
<1> QED
  BY <1>1, <1>2

\* The valuation of any book is what a plan takes it to be, sector by sector and stock
\* by stock (compute_portfolio_valuation): Rebalancer assumes no more of Valuation.
THEOREM ValuationWeighsRight ==
  ASSUME NEW holdings, Partial(holdings, Symbols, Rows), NEW money \in Int,
         Sectors = {SectorOf[s] : s \in Symbols}
  PROVE  LET v == PortfolioValuation(holdings, SectorOf, money)
         IN  v \in Valuations /\ WeighsRight(v)
<1> DEFINE v        == PortfolioValuation(holdings, SectorOf, money)
           held     == Held(holdings)
           worth    == [s \in Symbols |-> IF s \in held THEN Value(holdings[s]) ELSE 0]
           total    == SumFunctionOnSet(worth, held)
           Of(x)    == {s \in held : SectorOf[s] = x}
           In(x)    == SumFunctionOnSet(worth, Of(x))
<1>1. DOMAIN SectorOf = Symbols /\ IsFiniteSet(Symbols) /\ \A s \in Symbols : SectorOf[s] \in Sectors
  BY RebalancerAssumption
<1>2. held \subseteq Symbols /\ held \subseteq DOMAIN holdings /\ IsFiniteSet(held)
  BY <1>1, FS_Subset DEF Held, Partial
<1>3. worth \in [Symbols -> Nat]
  <2> SUFFICES ASSUME NEW s \in held PROVE Value(holdings[s]) \in Nat
    OBVIOUS
  <2>1. holdings[s] \in Rows
    BY <1>2 DEF Partial
  <2>2. BestPrice(holdings[s]) \in Nat /\ holdings[s].quantity + holdings[s].t1 \in Nat
    BY <2>1 DEF BestPrice, Rows
  <2> QED
    BY <2>2 DEF Value
<1>4. /\ v.holdings = held /\ v.value = worth /\ v.aum = total /\ v.cash = money
      /\ v.weight = [s \in Symbols |-> Weight(worth[s], total)]
      /\ v.sectors = {SectorOf[s] : s \in held}
      /\ v.sectorWeight = [x \in Sectors |-> Weight(In(x), total)]
      /\ DOMAIN v = {"holdings", "value", "weight", "sectors", "sectorWeight", "aum", "cash"}
  BY <1>1 DEF PortfolioValuation
<1>5. v = [holdings |-> v.holdings, value |-> v.value, weight |-> v.weight, sectors |-> v.sectors,
           sectorWeight |-> v.sectorWeight, aum |-> v.aum, cash |-> v.cash]
  BY DEF PortfolioValuation
<1> HIDE DEF v, worth, held
<1>6. total \in Nat
  BY <1>2, <1>3, SumType
<1>7. ASSUME NEW S \in SUBSET held
      PROVE  SumFunctionOnSet(worth, S) \in Nat /\ (total = 0 => SumFunctionOnSet(worth, S) = 0)
  <2>1. IsFiniteSet(S) /\ \A s \in S : worth[s] \in Nat
    BY <1>2, <1>3, FS_Subset
  <2>2. ASSUME total = 0, NEW s \in S PROVE worth[s] = 0
    <3>1. total = worth[s] + SumFunctionOnSet(worth, held \ {s})
      BY <1>2, <1>3, SumTakeOut
    <3>2. IsFiniteSet(held \ {s}) /\ \A y \in held \ {s} : worth[y] \in Nat
      BY <1>2, <1>3, FS_Subset
    <3>3. SumFunctionOnSet(worth, held \ {s}) \in Nat /\ worth[s] \in Nat
      BY <2>1, <3>2, SumType
    <3> HIDE DEF total
    <3> QED
      BY <2>2, <3>1, <3>3
  <2>3. SumFunctionOnSet(worth, S) \in Nat
    BY <2>1, SumType
  <2>4. total = 0 => SumFunctionOnSet(worth, S) = 0
    BY <2>1, <2>2, SumOfZeros
  <2> QED
    BY <2>3, <2>4
<1>8. ASSUME NEW s \in Symbols PROVE Weight(worth[s], total) \in Nat
  <2>1. worth[s] \in Nat
    BY <1>3
  <2>2. total = 0 => worth[s] = 0
    <3>1. CASE s \in held
      <4>1. total = worth[s] + SumFunctionOnSet(worth, held \ {s})
        BY <1>2, <1>3, <3>1, SumTakeOut
      <4>2. SumFunctionOnSet(worth, held \ {s}) \in Nat
        BY <1>7
      <4> HIDE DEF total
      <4> QED
        BY <2>1, <4>1, <4>2
    <3>2. CASE s \notin held
      BY <3>2 DEF worth
    <3> QED
      BY <3>1, <3>2
  <2> HIDE DEF total
  <2> QED
    BY <1>6, <2>1, <2>2, WeightIsShare
<1>9. ASSUME NEW s \in held PROVE IsShare(Weight(worth[s], total), worth[s], total)
  <2>1. worth[s] \in Nat
    BY <1>2, <1>3
  <2>2. total = worth[s] + SumFunctionOnSet(worth, held \ {s})
    BY <1>2, <1>3, SumTakeOut
  <2>3. SumFunctionOnSet(worth, held \ {s}) \in Nat
    BY <1>7
  <2> HIDE DEF total
  <2>4. total = 0 => worth[s] = 0
    BY <2>1, <2>2, <2>3
  <2> QED
    BY <1>6, <2>1, <2>4, WeightIsShare
<1>10. ASSUME NEW x PROVE Weight(In(x), total) \in Nat /\ IsShare(Weight(In(x), total), In(x), total)
  <2>1. Of(x) \in SUBSET held
    OBVIOUS
  <2> HIDE DEF Of
  <2>2. In(x) \in Nat /\ (total = 0 => In(x) = 0)
    BY <1>7, <2>1
  <2> HIDE DEF In, total
  <2> QED
    BY <1>6, <2>2, WeightIsShare
<1>11. v \in Valuations
  <2> HIDE DEF In, total
  <2>1. v.holdings \in SUBSET Symbols /\ v.sectors \in SUBSET Sectors /\ v.cash \in Int
    BY <1>1, <1>2, <1>4
  <2>2. v.value \in [Symbols -> Nat] /\ v.aum \in Nat
    BY <1>3, <1>4, <1>6
  <2>3. v.weight \in [Symbols -> Nat]
    BY <1>4, <1>8
  <2>4. v.sectorWeight \in [Sectors -> Nat]
    BY <1>4, <1>10
  <2> QED
    BY <1>5, <2>1, <2>2, <2>3, <2>4 DEF Valuations
<1>12. ASSUME NEW s \in v.holdings PROVE IsShare(v.weight[s], v.value[s], v.aum)
  BY <1>2, <1>4, <1>9
<1>13. ASSUME NEW x \in v.sectors PROVE IsShare(v.sectorWeight[x], SectorWorth(v, x), v.aum)
  <2>1. SectorWorth(v, x) = In(x) /\ x \in Sectors
    BY <1>1, <1>2, <1>4 DEF SectorWorth
  <2> HIDE DEF In, total
  <2>2. v.sectorWeight[x] = Weight(In(x), total) /\ v.aum = total
    BY <1>4, <2>1
  <2> QED
    BY <1>10, <2>1, <2>2
<1>14. WeighsRight(v)
  BY <1>12, <1>13 DEF WeighsRight
<1> QED
  BY <1>11, <1>14 DEF v

-----------------------------------------------------------------------------
(* The backtest *)

\* The types the argument needs.
ClosedTrade == [buy : Int, sell : Int, charges : Int, net : Int]
Kept ==
  /\ stage \in {"calibrate", "trade", "close", "done"}
  /\ fold \in Nat /\ bar \in Nat /\ read \in Int
  /\ cash \in Int /\ shares \in Nat /\ drag \in Int
  /\ entry \in [price : Int, cost : Int, at : Int]
  /\ trades \in Seq(ClosedTrade)

\* The first bar whose prices may still be used: nothing yet made is from it.
Now ==
  CASE stage = "calibrate" -> B!TestStart(fold)
    [] stage = "trade" -> bar
    [] OTHER -> bar + 1

\* A purchase is decided on only when nothing is held, what is not held was not paid for,
\* and with nothing held the last value is the cash.
OnePosition ==
  /\ pending.side = "BUY" => shares = 0
  /\ shares = 0 => entry = B!NoEntry
  /\ stage = "close" /\ shares = 0 => equity = cash

\* Everything was done before now, and in order.
InOrder ==
  /\ stage = "trade" => B!TestStart(fold) <= bar /\ bar < B!TestStop(fold) /\ read < B!TestStart(fold)
  /\ entry.at < Now
  /\ \A i \in DOMAIN trades : trades[i].sell < Now
  /\ shares > 0 => \A i \in DOMAIN trades : trades[i].sell <= entry.at
  /\ \A i \in DOMAIN trades :
       /\ trades[i].buy < trades[i].sell \/ (stage = "done" /\ trades[i].buy = trades[i].sell)
       /\ i > 1 => trades[i - 1].sell <= trades[i].buy

\* The cash, what is held at what was paid, and the trades add up.
Booked ==
  LET held == IF shares > 0 THEN shares * entry.price + entry.cost ELSE 0
      net == SumFunction([i \in DOMAIN trades |-> trades[i].net])
      charges == SumFunction([i \in DOMAIN trades |-> trades[i].charges])
  IN  cash + held = Capital + net /\ drag = charges + entry.cost
Money == Booked /\ (stage = "done" => shares = 0 /\ equity = cash)

WInv == Kept /\ OnePosition /\ InOrder /\ Money

\* A fold's test window ends before the next one begins.
LEMMA FoldsAreApart ==
  ASSUME B!FoldsAssumption, NEW k \in Nat
  PROVE  B!TestStart(k) \in Nat /\ B!TestStart(k) < B!TestStop(k) /\ B!TestStop(k) <= B!TestStart(k + 1)
         /\ B!TestStop(k) \in Nat
<1>1. k * FoldStep \in Nat /\ (k + 1) * FoldStep = k * FoldStep + FoldStep
  BY DEF B!FoldsAssumption
<1> QED
  BY <1>1 DEF B!FoldsAssumption, B!TestStart, B!TestStop

\* A backtest begins with its capital and no trade.
LEMMA InitW == ASSUME B!FoldsAssumption PROVE B!Init => WInv
<1> SUFFICES ASSUME B!Init PROVE WInv
  OBVIOUS
<1>1. Kept
  BY DEF B!Init, Kept, B!NoEntry, B!FoldsAssumption
<1>2. OnePosition
  BY DEF B!Init, OnePosition
<1>3. InOrder
  BY FoldsAreApart DEF B!Init, InOrder, Now, B!NoEntry
<1>4. Money
  <2>1. DOMAIN trades = {}
    BY DEF B!Init
  <2> DEFINE f == [i \in DOMAIN trades |-> trades[i].net]
             g == [i \in DOMAIN trades |-> trades[i].charges]
  <2>2. DOMAIN f = {} /\ DOMAIN g = {}
    BY <2>1
  <2> HIDE DEF f, g
  <2>3. SumFunction(f) = 0 /\ SumFunction(g) = 0
    BY <2>2, SumEmpty DEF SumFunction
  <2> QED
    BY <2>3 DEF Money, Booked, B!Init, f, g, B!FoldsAssumption, B!NoEntry
<1> QED
  BY <1>1, <1>2, <1>3, <1>4 DEF WInv

\* The calibration reads nothing from the window it is for.
LEMMA CalibrateKeeps == ASSUME B!FoldsAssumption, WInv, B!Calibrate PROVE WInv'
<1>1. Kept'
  <2>1. fold \in Nat /\ B!TestStart(fold) \in Nat
    BY FoldsAreApart DEF WInv, Kept
  <2>2. B!Calibrated(fold) \in Int
    BY <2>1 DEF B!Calibrated, B!Reads, B!FoldsAssumption
  <2> QED
    BY <2>1, <2>2 DEF WInv, Kept, B!Calibrate
<1>2. OnePosition'
  BY DEF WInv, OnePosition, B!Calibrate
<1>3. InOrder'
  <2>1. fold \in Nat /\ B!TestStart(fold) \in Nat /\ B!TestStart(fold) < B!TestStop(fold)
    BY FoldsAreApart DEF WInv, Kept
  <2>2. B!Calibrated(fold) < B!TestStart(fold)
    BY <2>1 DEF B!Calibrated, B!Reads, B!FoldsAssumption
  <2>3. /\ stage' = "trade" /\ stage = "calibrate" /\ fold' = fold
        /\ bar' = B!TestStart(fold) /\ read' = B!Calibrated(fold)
        /\ entry' = entry /\ trades' = trades /\ shares' = shares
    BY DEF B!Calibrate
  <2>4. Now' = B!TestStart(fold) /\ Now = B!TestStart(fold)
    BY <2>3 DEF Now
  <2>5. B!TestStart(fold)' = B!TestStart(fold) /\ B!TestStop(fold)' = B!TestStop(fold)
    BY <2>3 DEF B!TestStart, B!TestStop
  <2> QED
    BY <2>1, <2>2, <2>3, <2>4, <2>5 DEF WInv, InOrder
<1>4. Money'
  BY DEF WInv, Money, Booked, B!Calibrate
<1> QED
  BY <1>1, <1>2, <1>3, <1>4 DEF WInv

-----------------------------------------------------------------------------
(* What a fill does *)

\* The net results and the charges of a list of trades are integers.
LEMMA SumsAreInts ==
  ASSUME NEW ts \in Seq(ClosedTrade)
  PROVE  /\ SumFunction([i \in DOMAIN ts |-> ts[i].net]) \in Int
         /\ SumFunction([i \in DOMAIN ts |-> ts[i].charges]) \in Int
<1> DEFINE f == [i \in DOMAIN ts |-> ts[i].net]
           g == [i \in DOMAIN ts |-> ts[i].charges]
<1>1. IsFiniteSet(DOMAIN ts)
  BY FS_Interval
<1>2. /\ DOMAIN f = DOMAIN ts /\ DOMAIN g = DOMAIN ts
      /\ \A i \in DOMAIN ts : f[i] \in Int /\ g[i] \in Int
  <2>1. \A i \in DOMAIN ts : ts[i] \in ClosedTrade
    OBVIOUS
  <2> QED
    BY <2>1 DEF ClosedTrade
<1> HIDE DEF f, g
<1>3. SumFunction(f) \in Int /\ SumFunction(g) \in Int
  BY <1>1, <1>2, SumType DEF SumFunction
<1> QED
  BY <1>3 DEF f, g

\* One more trade adds its result and its charges.
LEMMA OneTradeMore ==
  ASSUME NEW ts \in Seq(ClosedTrade), NEW t \in ClosedTrade
  PROVE  LET us == Append(ts, t)
         IN  /\ SumFunction([i \in DOMAIN us |-> us[i].net])
                  = SumFunction([i \in DOMAIN ts |-> ts[i].net]) + t.net
             /\ SumFunction([i \in DOMAIN us |-> us[i].charges])
                  = SumFunction([i \in DOMAIN ts |-> ts[i].charges]) + t.charges
<1> DEFINE us == Append(ts, t)
           n == Len(ts)
           f == [i \in DOMAIN ts |-> ts[i].net]
           g == [i \in DOMAIN us |-> us[i].net]
           h == [i \in DOMAIN ts |-> ts[i].charges]
           k == [i \in DOMAIN us |-> us[i].charges]
<1>1. /\ n \in Nat /\ DOMAIN ts = 1..n /\ DOMAIN us = 1..(n + 1) /\ us[n + 1] = t
      /\ \A i \in 1..n : us[i] = ts[i]
      /\ \A i \in 1..(n + 1) : us[i] \in ClosedTrade
  OBVIOUS
<1>2. /\ DOMAIN f = 1..n /\ DOMAIN g = 1..(n + 1) /\ g[n + 1] = t.net
      /\ \A i \in 1..(n + 1) : g[i] \in Int
      /\ \A i \in 1..n : f[i] = g[i]
  BY <1>1 DEF ClosedTrade
<1>3. /\ DOMAIN h = 1..n /\ DOMAIN k = 1..(n + 1) /\ k[n + 1] = t.charges
      /\ \A i \in 1..(n + 1) : k[i] \in Int
      /\ \A i \in 1..n : h[i] = k[i]
  BY <1>1 DEF ClosedTrade
<1>4. n \in Nat
  BY <1>1
<1> HIDE DEF f, g, h, k, n
<1>5. SumFunction(g) = SumFunction(f) + t.net
  BY <1>2, <1>4, SumAppend
<1>6. SumFunction(k) = SumFunction(h) + t.charges
  BY <1>3, <1>4, SumAppend
<1> QED
  BY <1>5, <1>6 DEF f, g, h, k

\* A purchase, filled or not, when nothing is held.
LEMMA BoughtKeeps ==
  ASSUME B!FoldsAssumption, WInv, NEW price \in Nat \ {0}, B!Bought(price), shares = 0, stage = "trade"
  PROVE  /\ shares' \in Nat /\ cash' \in Int /\ drag' \in Int /\ trades' = trades
         /\ entry' \in [price : Int, cost : Int, at : Int]
         /\ entry' # entry => entry'.at = bar /\ shares' > 0
         /\ shares' = 0 => entry' = B!NoEntry
         /\ Booked'
<1>1. /\ cash \in Int /\ drag \in Int /\ bar \in Int /\ entry = B!NoEntry /\ trades \in Seq(ClosedTrade)
      /\ Charge \in Nat /\ Capital \in Nat
  BY DEF WInv, Kept, OnePosition, B!FoldsAssumption
<1> DEFINE n == B!Affordable(price)
           net == SumFunction([i \in DOMAIN trades |-> trades[i].net])
           charges == SumFunction([i \in DOMAIN trades |-> trades[i].charges])
<1>2. n \in Int
  BY <1>1 DEF B!Affordable
<1>3. net \in Int /\ charges \in Int
  BY <1>1, SumsAreInts
<1>4. cash = Capital + net /\ drag = charges
  BY <1>1, <1>3 DEF WInv, Money, Booked, B!NoEntry
<1>5. CASE shares' = n /\ n > 0 /\ entry' = [price |-> price, cost |-> Charge, at |-> bar]
           /\ cash' = cash - n * price - Charge /\ drag' = drag + Charge /\ trades' = trades
  <2> HIDE DEF n
  <2>1. n * price \in Int
    BY <1>2
  <2>2. Booked'
    <3> DEFINE m == n * price
    <3>1. /\ m \in Int /\ cash' = cash - m - Charge /\ shares' * entry'.price = m
          /\ entry'.cost = Charge /\ shares' > 0
      BY <1>5, <2>1
    <3> HIDE DEF m
    <3>2. cash' + (m + Charge) = Capital + net /\ drag' = charges + Charge
      BY <3>1, <1>1, <1>3, <1>4, <1>5
    <3>3. net' = net /\ charges' = charges
      BY <1>5
    <3> HIDE DEF net, charges
    <3> QED
      BY <3>1, <3>2, <3>3 DEF Booked, net, charges
  <2> QED
    BY <1>1, <1>2, <1>5, <2>1, <2>2
<1>6. CASE UNCHANGED <<shares, entry, cash, drag, trades>>
  <2>1. Booked'
    BY <1>1, <1>3, <1>4, <1>6 DEF Booked, B!NoEntry
  <2> QED
    BY <1>1, <1>6, <2>1 DEF WInv, Kept
<1> QED
  BY <1>5, <1>6 DEF B!Bought

\* A sale of the whole position.
LEMMA SoldKeeps ==
  ASSUME B!FoldsAssumption, WInv, NEW price \in Int, B!Sold(price), shares > 0
  PROVE  /\ shares' = 0 /\ cash' \in Int /\ drag' \in Int /\ entry' = B!NoEntry
         /\ trades' = Append(trades, B!Closed(price)) /\ B!Closed(price) \in ClosedTrade
         /\ Booked'
<1>1. /\ cash \in Int /\ drag \in Int /\ bar \in Int /\ trades \in Seq(ClosedTrade)
      /\ entry \in [price : Int, cost : Int, at : Int] /\ shares \in Nat
      /\ Charge \in Nat /\ Capital \in Nat
  BY DEF WInv, Kept, B!FoldsAssumption
<1> DEFINE net == SumFunction([i \in DOMAIN trades |-> trades[i].net])
           charges == SumFunction([i \in DOMAIN trades |-> trades[i].charges])
           got == shares * price
           paid == shares * entry.price
<1>2. entry.price \in Int /\ entry.cost \in Int /\ entry.at \in Int /\ got \in Int /\ paid \in Int
  BY <1>1
<1>3. net \in Int /\ charges \in Int
  BY <1>1, SumsAreInts
<1>4. cash + (paid + entry.cost) = Capital + net /\ drag = charges + entry.cost
  BY <1>1, <1>2, <1>3 DEF WInv, Money, Booked
<1>5. /\ B!Closed(price).net = got - Charge - paid - entry.cost
      /\ B!Closed(price).charges = entry.cost + Charge
      /\ B!Closed(price).buy = entry.at /\ B!Closed(price).sell = bar
      /\ B!Closed(price) \in ClosedTrade
  BY <1>1, <1>2 DEF B!Closed, ClosedTrade
<1>6. /\ cash' = cash + got - Charge /\ drag' = drag + Charge /\ shares' = 0 /\ entry' = B!NoEntry
      /\ trades' = Append(trades, B!Closed(price))
  BY DEF B!Sold
<1>7. net' = net + B!Closed(price).net /\ charges' = charges + B!Closed(price).charges
  BY <1>1, <1>5, <1>6, OneTradeMore
<1> HIDE DEF net, charges, got, paid
<1>8. cash' = Capital + net' /\ drag' = charges'
  <2> DEFINE cost == entry.cost
             result == B!Closed(price).net
             fees == B!Closed(price).charges
  <2>1. /\ result = got - Charge - paid - cost /\ fees = cost + Charge
        /\ net' = net + result /\ charges' = charges + fees
        /\ cash + (paid + cost) = Capital + net /\ drag = charges + cost
        /\ cost \in Int
    BY <1>2, <1>4, <1>5, <1>7
  <2> HIDE DEF cost, result, fees
  <2> QED
    BY <1>1, <1>2, <1>3, <1>6, <2>1
<1>9. Booked'
  <2>1. net' \in Int /\ charges' \in Int
    BY <1>2, <1>3, <1>5, <1>7, <1>1
  <2>2. shares' = 0 /\ entry'.cost = 0
    BY <1>6 DEF B!NoEntry
  <2> QED
    BY <1>1, <1>8, <2>1, <2>2 DEF Booked, net, charges
<1> QED
  BY <1>1, <1>2, <1>5, <1>6, <1>9

-----------------------------------------------------------------------------
\* One bar of trading.
LEMMA TradeKeeps == ASSUME B!FoldsAssumption, WInv, B!Trade PROVE WInv'
<1> USE DEF WInv
<1>1. /\ stage = "trade" /\ fold \in Nat /\ bar \in Int /\ shares \in Nat
      /\ trades \in Seq(ClosedTrade) /\ Now = bar
  BY DEF B!Trade, Kept, Now
<1>0. bar \in Nat /\ bar + 1 \in Nat
  BY DEF Kept
<1>2. PICK open \in Prices, close \in Prices, impact \in Impacts, said \in {"BUY", "HOLD", "SELL"} :
        /\ CASE pending.at = bar /\ pending.side = "BUY" -> B!Bought(open + impact)
             [] pending.at = bar /\ pending.side = "SELL" /\ shares > 0 -> B!Sold(open - impact)
             [] OTHER -> UNCHANGED <<shares, entry, cash, drag, trades>>
        /\ pending' = IF (said = "BUY" /\ shares' = 0) \/ (said = "SELL" /\ shares' > 0)
                      THEN [side |-> said, at |-> bar + 1] ELSE B!NoOrder
        /\ equity' = cash' + shares' * close
  BY DEF B!Trade
<1>3. open + impact \in Nat \ {0} /\ open - impact \in Int
  BY <1>2 DEF B!FoldsAssumption
\* What the fill did.
<1> DEFINE Filled ==
     /\ shares' \in Nat /\ cash' \in Int /\ drag' \in Int
     /\ entry' \in [price : Int, cost : Int, at : Int] /\ trades' \in Seq(ClosedTrade)
     /\ shares' = 0 => entry' = B!NoEntry
     /\ entry'.at < bar + 1 /\ (\A i \in DOMAIN trades' : trades'[i].sell < bar + 1)
     /\ (shares' > 0 => \A i \in DOMAIN trades' : trades'[i].sell <= entry'.at)
     /\ (\A i \in DOMAIN trades' :
          /\ trades'[i].buy < trades'[i].sell
          /\ i > 1 => trades'[i - 1].sell <= trades'[i].buy)
     /\ Booked'
<1>4. /\ \A i \in DOMAIN trades : trades[i] \in ClosedTrade /\ trades[i].sell < bar
      /\ entry.at < bar /\ entry.at \in Int
      /\ \A i \in DOMAIN trades :
          /\ trades[i].buy < trades[i].sell
          /\ i > 1 => trades[i - 1].sell <= trades[i].buy
  BY <1>1 DEF Kept, InOrder
<1>5. ASSUME UNCHANGED <<shares, entry, cash, drag, trades>> PROVE Filled
  <2>1. \A i \in DOMAIN trades : trades[i].sell < bar + 1
    <3> SUFFICES ASSUME NEW i \in DOMAIN trades PROVE trades[i].sell < bar + 1
      OBVIOUS
    <3>1. trades[i].sell \in Int
      BY <1>4 DEF ClosedTrade
    <3> QED
      BY <3>1, <1>1, <1>4
  <2>2. Booked'
    BY <1>5 DEF Money, Booked
  <2> QED
    BY <1>1, <1>4, <1>5, <2>1, <2>2 DEF Kept, OnePosition, InOrder
<1>6. ASSUME pending.at = bar /\ pending.side = "BUY" /\ B!Bought(open + impact) PROVE Filled
  <2>1. shares = 0
    BY <1>6 DEF OnePosition
  <2>2. /\ shares' \in Nat /\ cash' \in Int /\ drag' \in Int /\ trades' = trades
        /\ entry' \in [price : Int, cost : Int, at : Int]
        /\ entry' # entry => entry'.at = bar /\ shares' > 0
        /\ shares' = 0 => entry' = B!NoEntry
        /\ Booked'
    BY <1>1, <1>3, <1>6, <2>1, BoughtKeeps
  <2>3. entry = B!NoEntry
    BY <2>1 DEF OnePosition
  <2>4. \A i \in DOMAIN trades : trades[i].sell < bar + 1 /\ trades[i].sell <= bar
    <3> SUFFICES ASSUME NEW i \in DOMAIN trades
                 PROVE  trades[i].sell < bar + 1 /\ trades[i].sell <= bar
      OBVIOUS
    <3>1. trades[i].sell \in Int
      BY <1>4 DEF ClosedTrade
    <3> QED
      BY <3>1, <1>1, <1>4
  <2>5. shares' > 0 => entry' # entry
    BY <2>1, <1>6, <2>3, <1>3 DEF B!Bought, B!NoEntry
  <2> QED
    BY <1>1, <1>4, <2>2, <2>4, <2>5
<1>7. ASSUME shares > 0 /\ B!Sold(open - impact) PROVE Filled
  <2>1. /\ shares' = 0 /\ cash' \in Int /\ drag' \in Int /\ entry' = B!NoEntry
        /\ trades' = Append(trades, B!Closed(open - impact)) /\ B!Closed(open - impact) \in ClosedTrade
        /\ Booked'
    BY <1>3, <1>7, SoldKeeps
  <2>2. B!Closed(open - impact).buy = entry.at /\ B!Closed(open - impact).sell = bar
    BY DEF B!Closed
  <2>3. \A i \in DOMAIN trades : trades[i].sell <= entry.at
    BY <1>7 DEF InOrder
  <2> DEFINE t == B!Closed(open - impact)
             n == Len(trades)
  <2>4. /\ n \in Nat /\ DOMAIN trades = 1..n /\ DOMAIN trades' = 1..(n + 1) /\ trades'[n + 1] = t
        /\ \A i \in 1..n : trades'[i] = trades[i]
        /\ trades' \in Seq(ClosedTrade)
    BY <1>1, <2>1
  <2>5. t.buy = entry.at /\ t.sell = bar
    BY <2>2
  <2> HIDE DEF t, n
  <2>6. ASSUME NEW i \in DOMAIN trades'
        PROVE  /\ trades'[i].sell < bar + 1 /\ trades'[i].buy < trades'[i].sell
               /\ i > 1 => trades'[i - 1].sell <= trades'[i].buy
    <3>1. CASE i = n + 1
      <4>1. i > 1 => i - 1 \in 1..n /\ trades'[i - 1] = trades[i - 1]
        BY <2>4, <3>1
      <4> QED
        BY <3>1, <4>1, <2>3, <2>4, <2>5, <1>1, <1>4
    <3>2. CASE i \in 1..n
      <4>1. /\ trades'[i] = trades[i] /\ i \in DOMAIN trades
            /\ i > 1 => i - 1 \in 1..n /\ trades'[i - 1] = trades[i - 1]
        BY <2>4, <3>2
      <4>2. trades[i].sell \in Int /\ trades[i].sell < bar
        BY <4>1, <1>4 DEF ClosedTrade
      <4>3. trades'[i].sell < bar + 1
        BY <4>1, <4>2, <1>1
      <4> QED
        BY <4>1, <4>3, <1>4
    <3> QED
      BY <2>4, <3>1, <3>2
  <2>7. B!NoEntry \in [price : Int, cost : Int, at : Int] /\ B!NoEntry.at < bar + 1
    BY <1>1, <1>4, FoldsAreApart DEF B!NoEntry, InOrder
  <2> QED
    BY <2>1, <2>4, <2>6, <2>7
<1>8. Filled
  BY <1>2, <1>5, <1>6, <1>7
<1> HIDE DEF Filled
\* Where it goes on.
<1>9. /\ stage' \in {"trade", "calibrate", "close"} /\ fold' \in Nat /\ bar' \in Nat /\ read' = read
      /\ Now' >= bar + 1 /\ Now' \in Int
      /\ stage' = "trade" => B!TestStart(fold') <= bar' /\ bar' < B!TestStop(fold') /\ fold' = fold
  <2>1. B!TestStart(fold) <= bar /\ bar < B!TestStop(fold) /\ read < B!TestStart(fold)
    BY <1>1 DEF InOrder
  <2>2. /\ B!TestStart(fold) \in Nat /\ B!TestStop(fold) \in Nat /\ B!TestStop(fold) <= B!TestStart(fold + 1)
        /\ B!TestStart(fold + 1) \in Nat
    <3>1. fold + 1 \in Nat
      BY <1>1
    <3> QED
      BY <1>1, <3>1, FoldsAreApart
  <2>3. read' = read
    BY DEF B!Trade
  <2>4. CASE bar + 1 < B!TestStop(fold) /\ bar' = bar + 1 /\ stage' = stage /\ fold' = fold
    BY <1>0, <1>1, <2>1, <2>2, <2>3, <2>4 DEF Now
  <2>5. CASE fold' = fold + 1 /\ stage' = "calibrate" /\ bar' = bar
    <3>1. Now' = B!TestStart(fold + 1)
      BY <2>5 DEF Now, B!TestStart
    <3> QED
      BY <1>0, <1>1, <2>1, <2>2, <2>3, <2>5, <3>1
  <2>6. CASE stage' = "close" /\ fold' = fold /\ bar' = bar
    BY <1>0, <1>1, <2>3, <2>6 DEF Now
  <2> QED
    BY <2>4, <2>5, <2>6 DEF B!Trade
<1>10. Kept'
  BY <1>8, <1>9 DEF Kept, Filled
<1>11. OnePosition'
  <2>1. shares' = 0 => equity' = cash'
    BY <1>2, <1>8 DEF Filled, B!FoldsAssumption
  <2> QED
    BY <1>2, <1>8, <2>1 DEF OnePosition, Filled, B!NoOrder
<1>12. InOrder'
  <2>1. \A i \in DOMAIN trades' : trades'[i] \in ClosedTrade
    BY <1>8 DEF Filled
  <2>2. entry'.at < Now'
    <3>1. entry'.at \in Int /\ entry'.at < bar + 1
      BY <1>8 DEF Filled
    <3> QED
      BY <1>1, <1>9, <3>1
  <2>4. ASSUME NEW i \in DOMAIN trades' PROVE trades'[i].sell < Now'
    <3>1. trades'[i].sell \in Int
      BY <2>1 DEF ClosedTrade
    <3>2. trades'[i].sell < bar + 1
      BY <1>8 DEF Filled
    <3> QED
      BY <1>1, <1>9, <3>1, <3>2
  <2>3. stage' = "trade" => read' < B!TestStart(fold')
    BY <1>1, <1>9 DEF InOrder
  <2> QED
    BY <1>8, <1>9, <2>2, <2>3, <2>4 DEF InOrder, Filled
<1>13. Money'
  BY <1>8, <1>9 DEF Filled, Booked, Money
<1> QED
  BY <1>10, <1>11, <1>12, <1>13

\* The last sale, if anything is left.
LEMMA CloseKeeps == ASSUME B!FoldsAssumption, WInv, B!Close PROVE WInv'
<1> USE DEF WInv
<1>1. /\ stage = "close" /\ stage' = "done" /\ fold' = fold /\ bar' = bar /\ read' = read
      /\ pending' = pending /\ fold \in Nat /\ bar \in Nat /\ read \in Int /\ shares \in Nat
      /\ trades \in Seq(ClosedTrade) /\ Now = bar + 1 /\ Now' = bar + 1
      /\ entry \in [price : Int, cost : Int, at : Int]
  BY DEF B!Close, Kept, Now
<1>2. /\ \A i \in DOMAIN trades : trades[i] \in ClosedTrade /\ trades[i].sell < bar + 1
      /\ entry.at < bar + 1
      /\ \A i \in DOMAIN trades :
          /\ trades[i].buy < trades[i].sell
          /\ i > 1 => trades[i - 1].sell <= trades[i].buy
  BY <1>1 DEF InOrder
<1>3. CASE shares = 0
  <2>1. UNCHANGED <<shares, entry, cash, drag, trades, equity>>
    BY <1>3 DEF B!Close
  <2>2. equity' = cash'
    BY <1>1, <1>3, <2>1 DEF OnePosition
  <2>3. Kept' /\ OnePosition'
    BY <1>1, <2>1 DEF Kept, OnePosition
  <2>4. InOrder'
    BY <1>1, <1>2, <1>3, <2>1 DEF InOrder
  <2>5. Money'
    BY <1>3, <2>1, <2>2 DEF Money, Booked
  <2> QED
    BY <2>3, <2>4, <2>5
<1>4. CASE shares > 0
  <2>1. PICK price \in Prices, impact \in Impacts : B!Sold(price - impact) /\ equity' = cash'
    BY <1>4 DEF B!Close
  <2>2. price - impact \in Int
    BY DEF B!FoldsAssumption
  <2> DEFINE t == B!Closed(price - impact)
             n == Len(trades)
  <2>3. /\ shares' = 0 /\ cash' \in Int /\ drag' \in Int /\ entry' = B!NoEntry
        /\ trades' = Append(trades, t) /\ t \in ClosedTrade
        /\ Booked'
    BY <1>4, <2>1, <2>2, SoldKeeps
  <2>4. t.buy = entry.at /\ t.sell = bar
    BY DEF B!Closed
  <2>5. \A i \in DOMAIN trades : trades[i].sell <= entry.at
    BY <1>4 DEF InOrder
  <2>6. /\ n \in Nat /\ DOMAIN trades = 1..n /\ DOMAIN trades' = 1..(n + 1) /\ trades'[n + 1] = t
        /\ \A i \in 1..n : trades'[i] = trades[i]
        /\ trades' \in Seq(ClosedTrade)
    BY <1>1, <2>3
  <2> HIDE DEF t, n
  <2>7. ASSUME NEW i \in DOMAIN trades'
        PROVE  /\ trades'[i].sell < bar + 1
               /\ trades'[i].buy < trades'[i].sell \/ trades'[i].buy = trades'[i].sell
               /\ i > 1 => trades'[i - 1].sell <= trades'[i].buy
    <3>1. CASE i = n + 1
      <4>1. i > 1 => i - 1 \in 1..n /\ trades'[i - 1] = trades[i - 1]
        BY <2>6, <3>1
      <4>2. entry.at \in Int
        BY <1>1
      <4> QED
        BY <3>1, <4>1, <4>2, <2>4, <2>5, <2>6, <1>1, <1>2
    <3>2. CASE i \in 1..n
      <4>1. /\ trades'[i] = trades[i] /\ i \in DOMAIN trades
            /\ i > 1 => i - 1 \in 1..n /\ trades'[i - 1] = trades[i - 1]
        BY <2>6, <3>2
      <4> QED
        BY <4>1, <1>2
    <3> QED
      BY <2>6, <3>1, <3>2
  <2>8. B!NoEntry \in [price : Int, cost : Int, at : Int] /\ entry'.at < Now'
    BY <1>1, <2>3 DEF B!NoEntry
  <2>9. Kept' /\ OnePosition'
    BY <1>1, <2>3, <2>6, <2>8, <2>1 DEF Kept, OnePosition
  <2>10. InOrder'
    <3>1. \A i \in DOMAIN trades' : trades'[i].sell < Now'
      BY <1>1, <2>7
    <3>2. \A i \in DOMAIN trades' :
            /\ trades'[i].buy < trades'[i].sell \/ (stage' = "done" /\ trades'[i].buy = trades'[i].sell)
            /\ i > 1 => trades'[i - 1].sell <= trades'[i].buy
      BY <1>1, <2>7
    <3>3. ~(shares' > 0) /\ stage' # "trade"
      BY <1>1, <2>3
    <3> QED
      BY <3>1, <3>2, <3>3, <2>8 DEF InOrder
  <2>11. Money'
    BY <2>1, <2>3 DEF Money, Booked
  <2> QED
    BY <2>9, <2>10, <2>11
<1> QED
  BY <1>1, <1>3, <1>4

\* Every step keeps the invariant.
LEMMA NextW == ASSUME B!FoldsAssumption PROVE WInv /\ [B!Next]_B!vars => WInv'
<1>1. ASSUME WInv, UNCHANGED B!vars PROVE WInv'
  <2> USE <1>1 DEF B!vars
  <2>1. Kept' /\ OnePosition'
    BY DEF WInv, Kept, OnePosition
  <2>2. InOrder'
    <3>1. Now' = Now
      BY DEF Now, B!TestStart
    <3> QED
      BY <3>1 DEF WInv, InOrder, B!TestStart, B!TestStop
  <2>3. Money'
    BY DEF WInv, Money, Booked
  <2> QED
    BY <2>1, <2>2, <2>3 DEF WInv
<1> QED
  BY <1>1, CalibrateKeeps, TradeKeeps, CloseKeeps DEF B!Next

\* The invariant gives what is claimed of the order of things.
LEMMA WInvOrders == ASSUME B!FoldsAssumption, WInv PROVE B!NoLookahead
<1>1. ASSUME stage = "trade" PROVE read < B!TestStart(fold) /\ read < bar /\ entry.at < bar
  <2>1. /\ B!TestStart(fold) <= bar /\ bar < B!TestStop(fold) /\ read < B!TestStart(fold)
        /\ entry.at < Now /\ read \in Int /\ bar \in Int /\ B!TestStart(fold) \in Nat
    BY <1>1, FoldsAreApart DEF WInv, InOrder, Kept
  <2> QED
    BY <1>1, <2>1 DEF Now
<1> QED
  BY <1>1 DEF B!NoLookahead, B!CalibratedOnThePast, B!BoughtBeforeSold, WInv, InOrder

-----------------------------------------------------------------------------
\* Where in the history a backtest is: the folds that are left end before the history
\* does, an order waits for a bar there is, and what is held was paid for.
InHistory ==
  /\ stage # "done" => fold < B!FoldCount /\ TotalBars >= TrainWindow + TestWindow
  /\ bar <= TotalBars /\ read \in -1..(TotalBars - 1)
  /\ pending.side \in {"none", "BUY", "SELL"} /\ pending.at \in -1..TotalBars
  /\ (shares > 0 => cash >= 0) /\ equity \in Int /\ drag >= 0

\* The last fold ends before the history does.
LEMMA FoldsFit ==
  ASSUME B!FoldsAssumption, NEW k \in Nat, k < B!FoldCount, TotalBars >= TrainWindow + TestWindow
  PROVE  B!TestStop(k) <= TotalBars
<1> DEFINE room == TotalBars - TrainWindow - TestWindow
           last == room \div FoldStep
<1>1. room \in Nat /\ FoldStep \in Nat \ {0} /\ TrainWindow \in Nat /\ TestWindow \in Nat /\ TotalBars \in Nat
  BY DEF B!FoldsAssumption
<1> HIDE DEF room
<1>2. last \in Nat /\ last * FoldStep <= room
  BY <1>1
<1>3. k <= last
  BY <1>2 DEF B!FoldCount, room
<1> HIDE DEF last
<1>4. k * FoldStep <= last * FoldStep /\ k * FoldStep \in Nat /\ last * FoldStep \in Nat
  BY <1>1, <1>2, <1>3
<1>5. k * FoldStep <= room
  BY <1>1, <1>2, <1>4
<1> QED
  BY <1>1, <1>4, <1>5 DEF B!TestStop, B!TestStart, room

\* A backtest begins before the first bar.
LEMMA InitInHistory == ASSUME B!FoldsAssumption PROVE B!Init => InHistory
<1> SUFFICES ASSUME B!Init PROVE InHistory
  OBVIOUS
<1>1. ASSUME stage # "done" PROVE 0 < B!FoldCount /\ TotalBars >= TrainWindow + TestWindow
  <2> DEFINE room == TotalBars - TrainWindow - TestWindow
  <2>1. TotalBars >= TrainWindow + TestWindow
    BY <1>1 DEF B!Init, B!FoldsAssumption
  <2>2. room \in Nat /\ FoldStep \in Nat \ {0}
    BY <2>1 DEF B!FoldsAssumption
  <2> HIDE DEF room
  <2>3. room \div FoldStep >= 0 /\ room \div FoldStep \in Int
    BY <2>2
  <2> QED
    BY <2>1, <2>3 DEF B!FoldCount, room
<1> QED
  BY <1>1 DEF InHistory, B!Init, B!NoOrder, B!FoldsAssumption

\* A fold reads the history, and begins and ends in it.
LEMMA CalibrateInHistory ==
  ASSUME B!FoldsAssumption, WInv, InHistory, B!Calibrate PROVE InHistory'
<1>1. /\ fold \in Nat /\ fold < B!FoldCount /\ TotalBars >= TrainWindow + TestWindow
      /\ stage' = "trade" /\ fold' = fold /\ bar' = B!TestStart(fold) /\ read' = B!Calibrated(fold)
      /\ UNCHANGED <<pending, cash, shares, equity, drag>>
  BY DEF B!Calibrate, WInv, Kept, InHistory
<1>2. B!TestStart(fold) \in Nat /\ B!TestStart(fold) <= TotalBars /\ B!TestStart(fold) >= TrainWindow
  <2>1. B!TestStart(fold) \in Nat /\ B!TestStop(fold) \in Nat /\ B!TestStart(fold) < B!TestStop(fold)
    BY <1>1, FoldsAreApart
  <2>2. B!TestStop(fold) <= TotalBars
    BY <1>1, FoldsFit
  <2>3. fold * FoldStep \in Nat
    BY <1>1 DEF B!FoldsAssumption
  <2> QED
    BY <2>1, <2>2, <2>3 DEF B!FoldsAssumption, B!TestStart
<1> DEFINE start == B!TestStart(fold)
<1>3. read' \in -1..(TotalBars - 1)
  <2>1. /\ start \in Nat /\ start <= TotalBars /\ start >= TrainWindow
        /\ TrainWindow \in Nat /\ Horizon \in Nat /\ TrainWindow > Horizon /\ TotalBars \in Nat
    BY <1>2 DEF B!FoldsAssumption
  <2>2. read' = B!Reads(start - 1 - Horizon)
    BY <1>1, <2>1 DEF B!Calibrated
  <2> HIDE DEF start
  <2> QED
    BY <2>1, <2>2 DEF B!Reads
<1>4. B!FoldCount' = B!FoldCount
  BY DEF B!FoldCount
<1> QED
  BY <1>1, <1>2, <1>3, <1>4 DEF InHistory

\* A bar of trading is one there is, and the next one too or the fold has ended.
LEMMA TradeInHistory ==
  ASSUME B!FoldsAssumption, WInv, WInv', InHistory, B!Trade PROVE InHistory'
<1>1. /\ stage = "trade" /\ fold \in Nat /\ bar \in Nat /\ shares \in Nat /\ cash \in Int /\ drag \in Int
      /\ cash' \in Int /\ shares' \in Nat /\ drag' \in Int /\ Charge \in Nat /\ drag >= 0
      /\ fold < B!FoldCount /\ TotalBars >= TrainWindow + TestWindow /\ read' = read
      /\ TotalBars \in Nat
  BY DEF B!Trade, WInv, Kept, InHistory, B!FoldsAssumption
<1>2. bar + 1 <= TotalBars
  <2>1. B!TestStop(fold) <= TotalBars
    BY <1>1, FoldsFit
  <2>2. bar < B!TestStop(fold) /\ B!TestStop(fold) \in Nat
    BY <1>1, FoldsAreApart DEF WInv, InOrder
  <2> QED
    BY <1>1, <2>1, <2>2
<1>3. PICK open \in Prices, close \in Prices, impact \in Impacts, said \in {"BUY", "HOLD", "SELL"} :
        /\ CASE pending.at = bar /\ pending.side = "BUY" -> B!Bought(open + impact)
             [] pending.at = bar /\ pending.side = "SELL" /\ shares > 0 -> B!Sold(open - impact)
             [] OTHER -> UNCHANGED <<shares, entry, cash, drag, trades>>
        /\ pending' = IF (said = "BUY" /\ shares' = 0) \/ (said = "SELL" /\ shares' > 0)
                      THEN [side |-> said, at |-> bar + 1] ELSE B!NoOrder
        /\ equity' = cash' + shares' * close
  BY DEF B!Trade
<1>4. close \in Nat /\ open + impact \in Nat \ {0}
  BY <1>3 DEF B!FoldsAssumption
<1>5. equity' \in Int
  BY <1>1, <1>3, <1>4
<1>6. pending'.side \in {"none", "BUY", "SELL"} /\ pending'.at \in -1..TotalBars
  <2>1. pending' \in {[side |-> s, at |-> bar + 1] : s \in {"BUY", "SELL"}} \cup {B!NoOrder}
    BY <1>3
  <2>2. pending'.side \in {"none", "BUY", "SELL"} /\ (pending'.at = bar + 1 \/ pending'.at = -1)
    BY <2>1 DEF B!NoOrder
  <2> QED
    BY <1>1, <1>2, <2>2
<1>7. (shares' > 0 => cash' >= 0) /\ drag' >= 0
  <2>1. CASE UNCHANGED <<shares, entry, cash, drag, trades>>
    BY <2>1 DEF InHistory
  <2>2. CASE B!Bought(open + impact)
    <3> DEFINE n == B!Affordable(open + impact)
               spent == n * (open + impact)
    <3>1. CASE n > 0 /\ cash >= spent + Charge /\ cash' = cash - spent - Charge /\ drag' = drag + Charge
      <4>1. spent \in Int
        BY <1>1, <1>4 DEF B!Affordable
      <4> HIDE DEF spent
      <4> QED
        BY <1>1, <3>1, <4>1
    <3>2. CASE UNCHANGED <<shares, entry, cash, drag, trades>>
      BY <3>2 DEF InHistory
    <3> QED
      BY <2>2, <3>1, <3>2 DEF B!Bought
  <2>3. CASE B!Sold(open - impact)
    BY <1>1, <2>3 DEF B!Sold
  <2> QED
    BY <1>3, <2>1, <2>2, <2>3
<1>8. /\ stage' # "done" => fold' < B!FoldCount /\ TotalBars >= TrainWindow + TestWindow
      /\ bar' <= TotalBars
  BY <1>1, <1>2 DEF B!Trade
<1>9. B!FoldCount' = B!FoldCount
  BY DEF B!FoldCount
<1> QED
  BY <1>1, <1>5, <1>6, <1>7, <1>8, <1>9 DEF InHistory

\* The last sale leaves nothing held.
LEMMA CloseInHistory ==
  ASSUME B!FoldsAssumption, WInv, WInv', InHistory, B!Close PROVE InHistory'
<1>1. /\ stage' = "done" /\ UNCHANGED <<fold, bar, read, pending>>
      /\ shares \in Nat /\ cash' \in Int /\ drag \in Int /\ drag >= 0 /\ Charge \in Nat
  BY DEF B!Close, WInv, Kept, InHistory, B!FoldsAssumption
<1>2. CASE shares > 0
  <2>1. PICK price \in Prices, impact \in Impacts : B!Sold(price - impact) /\ equity' = cash'
    BY <1>2 DEF B!Close
  <2>2. shares' = 0 /\ drag' >= 0
    BY <1>1, <2>1 DEF B!Sold
  <2> QED
    BY <1>1, <2>1, <2>2 DEF InHistory
<1>3. CASE shares = 0
  BY <1>1, <1>3 DEF InHistory, B!Close
<1> QED
  BY <1>1, <1>2, <1>3

\* Every step stays in the history.
LEMMA NextInHistory ==
  ASSUME B!FoldsAssumption PROVE WInv /\ InHistory /\ [B!Next]_B!vars => InHistory'
<1> SUFFICES ASSUME WInv, InHistory, [B!Next]_B!vars PROVE InHistory'
  OBVIOUS
<1>1. WInv'
  BY NextW
<1>2. CASE UNCHANGED B!vars
  BY <1>2 DEF B!vars, InHistory, B!FoldCount
<1>3. CASE B!Next
  BY <1>1, <1>3, CalibrateInHistory, TradeInHistory, CloseInHistory DEF B!Next
<1> QED
  BY <1>2, <1>3

\* So every variable of a backtest keeps its values.
LEMMA WInvIsTyped == ASSUME B!FoldsAssumption, WInv, InHistory PROVE B!TypeOK
<1>1. /\ bar \in Nat /\ bar <= TotalBars /\ TotalBars \in Nat /\ cash \in Int /\ drag \in Int /\ drag >= 0
  BY DEF WInv, Kept, InHistory, B!FoldsAssumption
<1>2. bar \in 0..TotalBars /\ drag \in Nat /\ (shares > 0 => cash \in Nat)
  BY <1>1 DEF InHistory
<1> QED
  BY <1>2 DEF B!TypeOK, WInv, Kept, InHistory

-----------------------------------------------------------------------------
(* The allocation profiles *)

\* A transaction only ever turns off rows it holds, and turns its own row on once it
\* holds the one that is active.  Two transactions hold no row in common, so what one
\* of them holds cannot change under it.

States == {"absent", "inactive", "active"}

\* The types the argument needs.
Shapes ==
  /\ row \in [Ids -> States] /\ at \in [Requests -> {"idle", "select", "deactivate", "visit",
                                                     "commit", "done"}]
  /\ target \in [Requests -> Ids]
  /\ victims \in [Requests -> SUBSET Ids]
  /\ DOMAIN wrote = Requests /\ DOMAIN targets = Ids
  /\ \A r \in Requests : DOMAIN wrote[r] \subseteq Ids

\* No row is held by two transactions.
HeldByOne ==
  \A r, o \in Requests : r # o => DOMAIN wrote[r] \intersect DOMAIN wrote[o] = {}

\* What a transaction holds besides its target it is turning off.
TurnsOff(r) ==
  \A q \in DOMAIN wrote[r] \ {target[r]} : wrote[r][q] = "inactive" /\ row[q] = "active"

\* What a transaction holds in each of its statements.
Holding(r) ==
  /\ at[r] \in {"idle", "select", "done"} => DOMAIN wrote[r] = {}
  /\ at[r] \notin {"idle", "done"} => row[target[r]] # "absent"
  /\ at[r] \in {"deactivate", "visit", "commit"} => target[r] \in DOMAIN wrote[r] /\ TurnsOff(r)
  /\ at[r] = "deactivate" => DOMAIN wrote[r] = {target[r]}
  /\ at[r] \in {"deactivate", "visit"} => wrote[r][target[r]] = row[target[r]]
  /\ at[r] = "commit" =>
       /\ wrote[r][target[r]] = "active"
       /\ \E q \in DOMAIN wrote[r] : row[q] = "active"

\* A transaction goes through one other active row at most, not its target, and has none
\* left to go through once it holds an active row.
Visiting(r) ==
  /\ at[r] # "visit" => victims[r] = {}
  /\ target[r] \notin victims[r] /\ \A p, q \in victims[r] : p = q
  /\ (\E q \in DOMAIN wrote[r] : row[q] = "active") => victims[r] = {}

\* Those that hold, as the inactive row they mean to turn on, what a transaction has
\* still to go through.
Chased(r) ==
  {o \in Requests : target[o] \in victims[r] /\ target[o] \in DOMAIN wrote[o]
                     /\ row[target[o]] # "active"}

\* Nobody chases itself, through however many others: who is found active is chased by
\* nobody yet, and who takes an inactive row has not looked for others yet.
NoCircle ==
  ~\E circle \in SUBSET Requests :
     circle # {} /\ \A r \in circle : Chased(r) \intersect circle # {}

PInv == Shapes /\ HeldByOne /\ (\A r \in Requests : Holding(r)) /\ P!OneActive
VInv == (\A r \in Requests : Visiting(r)) /\ NoCircle

\* The empty function of a transaction that holds nothing.
LEMMA NothingHeld == DOMAIN << >> = {}
OBVIOUS

\* Migration 007 seeds one active profile and nobody has asked for another.
LEMMA InitPInv ==
  ASSUME P!ProfilesAssumption
  PROVE  P!Init => PInv
<1> SUFFICES ASSUME P!Init PROVE PInv
  OBVIOUS
<1> USE NothingHeld DEF P!ProfilesAssumption, P!Init
<1>1. Shapes /\ HeldByOne
  BY DEF Shapes, States, HeldByOne
<1>2. \A r \in Requests : Holding(r)
  BY DEF Holding
<1>3. P!OneActive
  BY DEF P!OneActive
<1> QED
  BY <1>1, <1>2, <1>3 DEF PInv

\* A transaction that is not at work keeps what it holds when the rows it holds, and
\* the presence of its target, stay as they are.
LEMMA HoldingStays ==
  ASSUME NEW r \in Requests, Holding(r), Shapes,
         at'[r] = at[r], target'[r] = target[r], wrote'[r] = wrote[r],
         \A q \in DOMAIN wrote[r] : row'[q] = row[q],
         row[target[r]] # "absent" => row'[target[r]] # "absent"
  PROVE  Holding(r)'
BY DEF Holding, TurnsOff, Shapes

\* A new profile is inactive, and no transaction holds a row that was not there.
LEMMA CreateKeeps ==
  ASSUME PInv, NEW p \in Ids, NEW ws \in Asked, P!Create(p, ws)
  PROVE  PInv'
<1> USE DEF PInv, P!Create
<1>1. Shapes'
  BY DEF Shapes, States
<1>2. HeldByOne'
  BY DEF HeldByOne
<1>3. ASSUME NEW r \in Requests PROVE Holding(r)'
  <2>1. \A q \in DOMAIN wrote[r] : row[q] # "absent"
    BY DEF Shapes, Holding, TurnsOff
  <2>2. \A q \in DOMAIN wrote[r] : row'[q] = row[q]
    BY <2>1 DEF Shapes
  <2>3. row[target[r]] # "absent" => row'[target[r]] # "absent"
    BY DEF Shapes
  <2> QED
    BY <2>2, <2>3, HoldingStays
<1>4. P!OneActive'
  BY DEF P!OneActive, Shapes
<1> QED
  BY <1>1, <1>2, <1>3, <1>4

\* The statements that take or drop no row of the table: all but the commit.
LEMMA StatementKeeps ==
  ASSUME PInv, NEW r \in Requests, UNCHANGED row, Shapes', HeldByOne', Holding(r)',
         \A o \in Requests \ {r} : at'[o] = at[o] /\ target'[o] = target[o] /\ wrote'[o] = wrote[o]
  PROVE  PInv'
<1>1. ASSUME NEW o \in Requests \ {r} PROVE Holding(o)'
  BY HoldingStays DEF PInv
<1>2. P!OneActive'
  BY DEF PInv, P!OneActive
<1> QED
  BY <1>1, <1>2 DEF PInv

\* A request starts or ends.
LEMMA EdgesKeep ==
  ASSUME PInv, NEW r \in Requests, (\E p \in Ids : P!Ask(r, p)) \/ P!RollBack(r), P!ProfilesAssumption
  PROVE  PInv'
<1> USE NothingHeld DEF PInv, P!Ask, P!RollBack, P!Ended, P!ProfilesAssumption
<1>1. Shapes'
  BY DEF Shapes
<1>2. HeldByOne'
  BY DEF HeldByOne, Shapes
<1>3. Holding(r)'
  BY DEF Holding, Shapes
<1> QED
  BY <1>1, <1>2, <1>3, StatementKeeps DEF Shapes

\* The row of the target is taken when nobody holds it.
LEMMA SelectKeeps ==
  ASSUME PInv, NEW r \in Requests, P!Select(r)
  PROVE  PInv'
<1> USE DEF PInv, P!Select, P!Hold
<1>1. Shapes'
  BY DEF Shapes
<1>2. DOMAIN wrote'[r] = {target[r]} /\ wrote'[r][target[r]] = row[target[r]]
  BY DEF Shapes, Holding
<1>3. \A o \in Requests \ {r} : target[r] \notin DOMAIN wrote[o] /\ wrote'[o] = wrote[o]
  BY DEF P!Holders, Shapes
<1>4. HeldByOne'
  BY <1>2, <1>3 DEF HeldByOne
<1>5. Holding(r)'
  BY <1>2 DEF Holding, TurnsOff, Shapes
<1> QED
  BY <1>1, <1>3, <1>4, <1>5, StatementKeeps DEF Shapes

\* The other active rows are found, and each is taken when it is free.
LEMMA VisitKeeps ==
  ASSUME PInv, NEW r \in Requests, P!Deactivate(r) \/ (\E p \in Ids : P!Visit(r, p))
  PROVE  PInv'
<1> USE DEF PInv
<1>1. CASE P!Deactivate(r)
  <2>1. Shapes' /\ HeldByOne'
    BY <1>1 DEF P!Deactivate, P!Found, Shapes, HeldByOne
  <2>2. Holding(r)'
    BY <1>1 DEF P!Deactivate, Holding, TurnsOff, Shapes
  <2> QED
    BY <1>1, <2>1, <2>2, StatementKeeps DEF P!Deactivate, Shapes
<1>2. ASSUME NEW p \in Ids, P!Visit(r, p) PROVE PInv'
  <2> USE <1>2 DEF P!Visit
  <2>1. CASE p \notin P!Found(r)
    <3>1. Shapes' /\ HeldByOne'
      BY <2>1 DEF Shapes, HeldByOne
    <3>2. Holding(r)'
      BY <2>1 DEF Holding, TurnsOff
    <3> QED
      BY <2>1, <3>1, <3>2, StatementKeeps
  <2>2. CASE p \in P!Found(r)
    <3> USE <2>2 DEF P!Found, P!Hold
    <3>1. Shapes'
      BY DEF Shapes
    <3>2. /\ DOMAIN wrote'[r] = DOMAIN wrote[r] \union {p}
          /\ wrote'[r] = [q \in DOMAIN wrote[r] \union {p} |->
                            IF q = p THEN "inactive" ELSE wrote[r][q]]
      BY DEF Shapes
    <3>3. \A o \in Requests \ {r} : p \notin DOMAIN wrote[o] /\ wrote'[o] = wrote[o]
      BY DEF P!Holders, Shapes
    <3>4. HeldByOne'
      BY <3>2, <3>3 DEF HeldByOne
    <3>5. Holding(r)'
      BY <3>2 DEF Holding, TurnsOff, Shapes
    <3> QED
      BY <3>1, <3>3, <3>4, <3>5, StatementKeeps
  <2> QED
    BY <2>1, <2>2
<1> QED
  BY <1>1, <1>2

\* The index lets a transaction turn its row on only when it holds the active one.
LEMMA ActivateKeeps ==
  ASSUME PInv, NEW r \in Requests, P!Activate(r)
  PROVE  PInv'
<1> USE DEF PInv, P!Activate, P!Hold
<1>1. Shapes'
  BY DEF Shapes
<1>2. target[r] \in DOMAIN wrote[r]
  BY DEF Holding
<1>3. wrote'[r] = [q \in DOMAIN wrote[r] |-> IF q = target[r] THEN "active" ELSE wrote[r][q]]
  <2>1. DOMAIN wrote[r] \union {target[r]} = DOMAIN wrote[r]
    BY <1>2
  <2> QED
    BY <2>1 DEF Shapes
<1>4. \A o \in Requests \ {r} : wrote'[o] = wrote[o]
  BY DEF Shapes
<1>5. HeldByOne'
  BY <1>3, <1>4 DEF HeldByOne
<1>6. \E q \in DOMAIN wrote[r] : row[q] = "active"
  <2>1. CASE row[target[r]] = "active"
    BY <2>1, <1>2
  <2>2. CASE row[target[r]] # "active"
    <3>1. PICK a \in Ids : {q \in Ids : row[q] = "active"} = {a}
      BY DEF P!OneActive
    <3>2. a # target[r] /\ row[a] = "active"
      BY <2>2, <3>1
    <3>3. P!Seen(r, a) # "active"
      BY <2>2, <3>2 DEF P!Conflicts
    <3> QED
      BY <3>2, <3>3 DEF P!Seen
  <2> QED
    BY <2>1, <2>2
<1>7. Holding(r)'
  BY <1>2, <1>3, <1>6 DEF Holding, TurnsOff, Shapes
<1> QED
  BY <1>1, <1>4, <1>5, <1>7, StatementKeeps DEF Shapes

\* A commit turns one row on and the one that was on off, or changes nothing; the rows
\* of the other transactions are not among them.
LEMMA CommitKeeps ==
  ASSUME PInv, NEW r \in Requests, P!Commit(r), P!ProfilesAssumption
  PROVE  PInv'
<1> USE NothingHeld DEF PInv, P!Commit, P!Ended
<1>1. /\ row' = [p \in Ids |-> P!Seen(r, p)]
      /\ target[r] \in DOMAIN wrote[r] /\ wrote[r][target[r]] = "active"
      /\ TurnsOff(r) /\ target[r] \in Ids /\ DOMAIN wrote[r] \subseteq Ids
  BY DEF Holding, Shapes
<1>2. /\ row'[target[r]] = "active"
      /\ \A q \in DOMAIN wrote[r] \ {target[r]} : row[q] = "active" /\ row'[q] = "inactive"
      /\ \A q \in Ids \ DOMAIN wrote[r] : row'[q] = row[q]
  BY <1>1 DEF P!Seen, TurnsOff
<1>3. row' \in [Ids -> States]
  <2>1. \A p \in Ids : P!Seen(r, p) \in States
    <3> SUFFICES ASSUME NEW p \in Ids PROVE row'[p] \in States
      BY <1>1
    <3>1. row[p] \in States
      BY DEF Shapes
    <3> QED
      BY <3>1, <1>2 DEF States
  <2> QED
    BY <2>1, <1>1
<1>4. Shapes'
  BY <1>3 DEF Shapes, P!ProfilesAssumption
<1>5. \A o \in Requests \ {r} : wrote'[o] = wrote[o] /\ at'[o] = at[o] /\ target'[o] = target[o]
  BY DEF Shapes
<1>6. HeldByOne'
  BY <1>5 DEF HeldByOne, Shapes
<1>7. Holding(r)'
  BY DEF Holding, Shapes
<1>8. ASSUME NEW o \in Requests \ {r} PROVE Holding(o)'
  <2>1. \A q \in DOMAIN wrote[o] : row'[q] = row[q]
    BY <1>2 DEF HeldByOne, Shapes
  <2>2. row[target[o]] # "absent" => row'[target[o]] # "absent"
    BY <1>2 DEF Shapes
  <2> QED
    BY <1>5, <2>1, <2>2, HoldingStays
<1>9. P!OneActive'
  <2>1. PICK a \in Ids : {q \in Ids : row[q] = "active"} = {a}
    BY DEF P!OneActive
  <2>2. a \in DOMAIN wrote[r]
    BY <2>1, <1>1 DEF Holding
  <2>3. ASSUME NEW q \in Ids PROVE row'[q] = "active" <=> q = target[r]
    <3>1. CASE q \in DOMAIN wrote[r]
      BY <1>2, <3>1
    <3>2. CASE q \notin DOMAIN wrote[r]
      <4>1. row'[q] = row[q] /\ q # target[r]
        BY <1>1, <1>2, <3>2
      <4>2. q # a
        BY <2>2, <3>2
      <4> QED
        BY <2>1, <4>1, <4>2
    <3> QED
      BY <3>1, <3>2
  <2> QED
    BY <1>1, <2>3 DEF P!OneActive
<1> QED
  BY <1>4, <1>6, <1>7, <1>8, <1>9

-----------------------------------------------------------------------------
(* Waiting *)

\* A step of one transaction after which it chases nobody adds no circle.
LEMMA CircleFree ==
  ASSUME NEW r \in Requests, NoCircle, Chased(r)' = {},
         \A o \in Requests \ {r} : Chased(o)' \subseteq Chased(o) \union {r}
  PROVE  NoCircle'
<1> SUFFICES ASSUME NEW circle \in SUBSET Requests, circle # {},
                    \A o \in circle : Chased(o)' \intersect circle # {}
             PROVE  FALSE
  BY DEF NoCircle
<1>1. r \notin circle
  OBVIOUS
<1>2. \A o \in circle : Chased(o) \intersect circle # {}
  BY <1>1
<1> QED
  BY <1>2 DEF NoCircle

\* A step of one transaction leaves the others' part of the invariant alone when it
\* changes nothing of theirs and no row they hold.
LEMMA OthersVisit ==
  ASSUME PInv, VInv, NEW r \in Requests,
         \A o \in Requests \ {r} : /\ at'[o] = at[o] /\ target'[o] = target[o]
                                  /\ wrote'[o] = wrote[o] /\ victims'[o] = victims[o]
                                  /\ \A q \in DOMAIN wrote[o] : row'[q] = row[q],
         Visiting(r)', Chased(r)' = {}
  PROVE  VInv'
<1>1. ASSUME NEW o \in Requests \ {r} PROVE Visiting(o)'
  BY DEF VInv, Visiting
<1>2. ASSUME NEW o \in Requests \ {r} PROVE Chased(o)' \subseteq Chased(o) \union {r}
  BY DEF Chased
<1>3. NoCircle'
  BY <1>2, CircleFree DEF VInv
<1> QED
  BY <1>1, <1>3 DEF VInv

\* A new row is nobody's.
LEMMA CreateVisits ==
  ASSUME PInv, VInv, NEW p \in Ids, NEW ws \in Asked, P!Create(p, ws)
  PROVE  VInv'
<1>1. UNCHANGED <<at, target, victims, wrote>> /\ row[p] = "absent"
  BY DEF P!Create
<1>2. \A q \in Ids : row'[q] = "active" <=> row[q] = "active"
  BY DEF P!Create, PInv, Shapes
<1>3. ASSUME NEW r \in Requests PROVE Visiting(r)' /\ Chased(r)' = Chased(r)
  <2>1. \A q \in DOMAIN wrote[r] : q \in Ids
    BY DEF PInv, Shapes
  <2>2. \A o \in Requests : target[o] \in Ids
    BY DEF PInv, Shapes
  <2> QED
    BY <1>1, <1>2, <2>1, <2>2 DEF VInv, Visiting, Chased
<1> QED
  BY <1>1, <1>3 DEF VInv, NoCircle

\* Whoever is not visiting chases nobody and has nothing to visit.
LEMMA StatementVisits ==
  ASSUME PInv, VInv, NEW r \in Requests, P!ProfilesAssumption,
         (\E p \in Ids : P!Ask(r, p)) \/ P!RollBack(r) \/ P!Select(r) \/ P!Activate(r)
  PROVE  VInv'
<1>1. victims'[r] = {}
  BY DEF P!Ask, P!RollBack, P!Ended, P!Select, P!Activate, PInv, Shapes, VInv, Visiting
<1>2. Visiting(r)' /\ Chased(r)' = {}
  BY <1>1 DEF Visiting, Chased
<1>3. \A o \in Requests \ {r} : /\ at'[o] = at[o] /\ target'[o] = target[o]
                                /\ wrote'[o] = wrote[o] /\ victims'[o] = victims[o]
  BY DEF P!Ask, P!RollBack, P!Ended, P!Select, P!Activate, P!Hold, PInv, Shapes
<1>4. row' = row
  BY DEF P!Ask, P!RollBack, P!Select, P!Activate
<1> QED
  BY <1>2, <1>3, <1>4, OthersVisit

\* The rows that are found are active: nobody means to turn them on.
LEMMA DeactivateVisits ==
  ASSUME PInv, VInv, NEW r \in Requests, P!Deactivate(r)
  PROVE  VInv'
<1>1. /\ row' = row /\ target' = target /\ wrote' = wrote
      /\ victims' = [victims EXCEPT ![r] = P!Found(r)] /\ at' = [at EXCEPT ![r] = "visit"]
      /\ at[r] = "deactivate"
  BY DEF P!Deactivate
<1>2. victims'[r] = P!Found(r) /\ at'[r] = "visit"
  BY <1>1 DEF PInv, Shapes
<1>3. \A o \in Requests \ {r} : at'[o] = at[o] /\ victims'[o] = victims[o]
  BY <1>1 DEF PInv, Shapes
<1>4. PICK a \in Ids : {q \in Ids : row[q] = "active"} = {a}
  BY DEF PInv, P!OneActive
<1>5. (\E q \in DOMAIN wrote[r] : row[q] = "active") => P!Found(r) = {}
  <2> SUFFICES ASSUME NEW q \in DOMAIN wrote[r], row[q] = "active" PROVE P!Found(r) = {}
    OBVIOUS
  <2>1. q = a
    BY <1>4 DEF PInv, Shapes
  <2>2. q = target[r]
    BY <1>1 DEF PInv, Holding
  <2> QED
    BY <1>4, <2>1, <2>2 DEF P!Found
<1>6. Visiting(r)'
  <2>1. \A p, q \in P!Found(r) : p = q
    BY <1>4 DEF P!Found
  <2>2. target[r] \notin P!Found(r)
    BY DEF P!Found
  <2> QED
    BY <1>1, <1>2, <1>5, <2>1, <2>2 DEF Visiting
<1>7. Chased(r)' = {}
  BY <1>1, <1>2 DEF Chased, P!Found
<1> QED
  BY <1>1, <1>3, <1>6, <1>7, OthersVisit

\* The one row that was to be visited has been.
LEMMA VisitVisits ==
  ASSUME PInv, VInv, NEW r \in Requests, NEW p \in Ids, P!Visit(r, p)
  PROVE  VInv'
<1>1. victims'[r] = {}
  BY DEF P!Visit, PInv, Shapes, VInv, Visiting
<1>2. Visiting(r)' /\ Chased(r)' = {}
  BY <1>1 DEF Visiting, Chased
<1>3. \A o \in Requests \ {r} : /\ at'[o] = at[o] /\ target'[o] = target[o]
                                /\ wrote'[o] = wrote[o] /\ victims'[o] = victims[o]
  BY DEF P!Visit, P!Hold, PInv, Shapes
<1>4. row' = row
  BY DEF P!Visit
<1> QED
  BY <1>2, <1>3, <1>4, OthersVisit

\* The rows a commit changes are its own.
LEMMA CommitVisits ==
  ASSUME PInv, VInv, NEW r \in Requests, P!Commit(r)
  PROVE  VInv'
<1>1. victims'[r] = {}
  BY DEF P!Commit, P!Ended, PInv, Shapes
<1>2. Visiting(r)' /\ Chased(r)' = {}
  BY <1>1 DEF Visiting, Chased
<1>3. \A o \in Requests \ {r} : /\ at'[o] = at[o] /\ target'[o] = target[o]
                                /\ wrote'[o] = wrote[o] /\ victims'[o] = victims[o]
  BY DEF P!Commit, P!Ended, PInv, Shapes
<1>4. ASSUME NEW o \in Requests \ {r}, NEW q \in DOMAIN wrote[o] PROVE row'[q] = row[q]
  <2>1. q \in Ids /\ q \notin DOMAIN wrote[r]
    BY DEF PInv, Shapes, HeldByOne
  <2> QED
    BY <2>1 DEF P!Commit, P!Seen
<1> QED
  BY <1>2, <1>3, <1>4, OthersVisit

\* A transaction that holds the active row waits for nobody.
LEMMA HolderIsFree ==
  ASSUME PInv, VInv, NEW o \in Requests, NEW a \in DOMAIN wrote[o], row[a] = "active",
         at[o] = "visit"
  PROVE  P!WaitsFor(o) = {}
<1>1. victims[o] = {}
  BY DEF VInv, Visiting
<1>2. \A q \in Ids : row[q] = "active" => q = a
  BY DEF PInv, Shapes, P!OneActive
<1>3. ASSUME NEW u \in P!Undecided(o) PROVE FALSE
  <2>1. PICK q \in DOMAIN wrote[u] : wrote[u][q] # row[q]
    BY DEF P!Undecided
  <2>2. u \in Requests /\ u # o
    BY DEF P!Undecided
  <2>3. \E b \in DOMAIN wrote[u] : row[b] = "active"
    BY <2>1, <2>2 DEF PInv, Shapes, Holding, TurnsOff
  <2>4. a \in DOMAIN wrote[u]
    BY <1>2, <2>2, <2>3 DEF PInv, Shapes
  <2> QED
    BY <2>2, <2>4 DEF PInv, HeldByOne
<1> QED
  BY <1>1, <1>3 DEF P!WaitsFor

\* Whoever waits in a circle chases another that does.
LEMMA NobodyWaitsInACircle == ASSUME PInv, VInv PROVE P!NoDeadlock
<1> SUFFICES ASSUME NEW circle \in SUBSET Requests, circle # {},
                    \A r \in circle : P!WaitsFor(r) \intersect circle # {}
             PROVE  FALSE
  BY DEF P!NoDeadlock
<1>1. ASSUME NEW r \in circle, NEW o \in P!WaitsFor(r) \intersect circle
      PROVE  at[o] = "visit"
  <2>1. DOMAIN wrote[o] # {}
    BY DEF P!WaitsFor, P!Holders, P!Undecided
  <2>2. at[o] # "select"
    BY <2>1 DEF PInv, Holding
  <2> QED
    BY <2>2 DEF P!WaitsFor
<1> DEFINE D == {r \in circle : at[r] = "visit"}
<1>2. D # {}
  BY <1>1
<1>3. ASSUME NEW r \in D PROVE Chased(r) \intersect D # {}
  <2>1. PICK o \in circle : o \in P!WaitsFor(r)
    OBVIOUS
  <2>2. o \in D /\ at[o] = "visit" /\ o \in Requests
    BY <1>1, <2>1
  <2>3. \A a \in DOMAIN wrote[o] : row[a] # "active"
    BY <2>2, HolderIsFree
  <2>4. CASE victims[r] # {}
    <3>1. PICK p \in victims[r] : p \in DOMAIN wrote[o]
      BY <2>1, <2>4 DEF P!WaitsFor, P!Holders
    <3>2. p = target[o]
      BY <2>2, <2>3, <3>1 DEF PInv, Holding, TurnsOff
    <3> QED
      BY <2>2, <2>3, <3>1, <3>2 DEF Chased
  <2>5. CASE victims[r] = {}
    <3>1. PICK q \in DOMAIN wrote[o] : wrote[o][q] # row[q]
      BY <2>1, <2>5 DEF P!WaitsFor, P!Undecided
    <3> QED
      BY <2>2, <2>3, <3>1 DEF PInv, Holding, TurnsOff
  <2> QED
    BY <2>4, <2>5
<1> HIDE DEF D
<1>4. D \in SUBSET Requests
  BY DEF D
<1> QED
  BY <1>2, <1>3, <1>4 DEF VInv, NoCircle

\* At first nobody has anything to visit.
LEMMA InitVInv == ASSUME P!ProfilesAssumption PROVE P!Init => VInv
<1> SUFFICES ASSUME P!Init PROVE VInv
  OBVIOUS
<1>1. \A r \in Requests : Visiting(r) /\ Chased(r) = {}
  BY NothingHeld DEF P!Init, Visiting, Chased
<1> QED
  BY <1>1 DEF VInv, NoCircle

-----------------------------------------------------------------------------
(* The weights that are saved *)

\* Saved targets that make a whole but for the rounding of each row.
AddsUp(t) ==
  LET n == Cardinality(DOMAIN t.stocks)
      sum == P!Total(t.stocks) + t.cash
  IN  2 * (sum - P!Full) \in -(n + 1)..(n + 3)

\* What a request saves: the rounded weights, and as cash the rounded rest.
LEMMA RequestIsWhole ==
  ASSUME P!ProfilesAssumption, NEW ws \in Asked, P!Accepted(ws), NEW rest \in P!Cash(ws),
         NEW stocks, DOMAIN stocks = DOMAIN ws, \A s \in DOMAIN ws : stocks[s] \in P!Rounded(ws[s])
  PROVE  AddsUp([stocks |-> stocks, cash |-> rest])
<1> DEFINE S == DOMAIN ws
           n == Cardinality(S)
           asked == SumFunctionOnSet(ws, S)
           saved == SumFunctionOnSet(stocks, S)
<1>1. IsFiniteSet(S) /\ \A s \in S : ws[s] \in Nat
  BY SameSizes DEF P!ProfilesAssumption
<1>2. \A s \in S : ws[s] \in Int /\ stocks[s] \in Int /\ 2 * ws[s] - 20 * stocks[s] \in -10..10
  <2> SUFFICES ASSUME NEW s \in S
               PROVE  ws[s] \in Int /\ stocks[s] \in Int /\ 2 * ws[s] - 20 * stocks[s] \in -10..10
    OBVIOUS
  <2>1. ws[s] \in Nat /\ stocks[s] \in P!Rounded(ws[s])
    BY <1>1
  <2> QED
    BY <2>1 DEF P!Rounded
<1> HIDE DEF S
<1>3. /\ asked \in Int /\ saved \in Int /\ n \in Nat
      /\ 2 * asked - 20 * saved \in -(10 * n)..(10 * n)
  BY <1>1, <1>2, RoundedSum
<1>4. P!Total(ws) = asked /\ P!Total(stocks) = saved /\ DOMAIN stocks = S
  BY SameSum DEF P!Total, SumFunction, S
<1> HIDE DEF n, asked, saved
<1>5. asked <= 10 * P!Full + 10
  BY <1>4 DEF P!Accepted
<1>6. 2 * ((saved + rest) - P!Full) \in -(n + 1)..(n + 3)
  <2>1. CASE asked > 10 * P!Full
    <3>1. rest = 0
      BY <1>4, <2>1 DEF P!Cash
    <3> QED
      BY <1>3, <1>5, <2>1, <3>1 DEF P!Full
  <2>2. CASE ~(asked > 10 * P!Full)
    <3>1. rest \in P!Rounded(10 * P!Full - asked)
      BY <1>4, <2>2 DEF P!Cash
    <3>2. rest \in Int /\ 2 * (10 * P!Full - asked) - 20 * rest \in -10..10
      BY <1>3, <3>1 DEF P!Rounded, P!Full
    <3> QED
      BY <1>3, <3>2 DEF P!Full
  <2> QED
    BY <2>1, <2>2
<1> DEFINE t == [stocks |-> stocks, cash |-> rest]
<1>7. t.stocks = stocks /\ t.cash = rest
  OBVIOUS
<1> HIDE DEF t
<1>8. Cardinality(DOMAIN t.stocks) = n /\ P!Total(t.stocks) = saved /\ t.cash = rest
  BY <1>4, <1>7 DEF n
<1>9. AddsUp(t)
  <2>1. 2 * ((P!Total(t.stocks) + t.cash) - P!Full)
          \in -(Cardinality(DOMAIN t.stocks) + 1)..(Cardinality(DOMAIN t.stocks) + 3)
    BY <1>6, <1>8
  <2> QED
    BY <2>1, Zenon DEF AddsUp
<1> QED
  BY <1>9 DEF t

\* A profile there is was saved whole, and nothing changes it.
LEMMA SavedStaysWhole ==
  ASSUME P!ProfilesAssumption, PInv, P!SavedIsWhole, [P!Next]_P!vars
  PROVE  P!SavedIsWhole'
<1> SUFFICES ASSUME NEW p \in Ids \ {Seeded}, row'[p] # "absent" PROVE AddsUp(targets'[p])
  BY SameSizes DEF P!SavedIsWhole, AddsUp
<1>1. row[p] # "absent" => AddsUp(targets[p])
  BY SameSizes DEF P!SavedIsWhole, AddsUp
<1>2. CASE \E q \in Ids, ws \in Asked : P!Create(q, ws)
  <2>1. PICK q \in Ids, ws \in Asked : P!Create(q, ws)
    BY <1>2
  <2>2. PICK rest \in P!Cash(ws), stocks \in [DOMAIN ws -> UNION {P!Rounded(ws[s]) : s \in DOMAIN ws}] :
          /\ \A s \in DOMAIN ws : stocks[s] \in P!Rounded(ws[s])
          /\ targets' = [targets EXCEPT ![q] = [stocks |-> stocks, cash |-> rest]]
    BY <2>1 DEF P!Create
  <2>3. CASE p = q
    <3>1. AddsUp([stocks |-> stocks, cash |-> rest])
      BY <2>1, <2>2, RequestIsWhole DEF P!Create
    <3> QED
      BY <2>2, <2>3, <3>1 DEF PInv, Shapes
  <2>4. CASE p # q
    <3>1. row'[p] = row[p] /\ targets'[p] = targets[p]
      BY <2>1, <2>2, <2>4 DEF P!Create, PInv, Shapes
    <3> QED
      BY <1>1, <3>1
  <2> QED
    BY <2>3, <2>4
<1>3. CASE \E r \in Requests : P!Commit(r)
  <2>1. PICK r \in Requests : P!Commit(r)
    BY <1>3
  <2>2. targets' = targets /\ row' = [q \in Ids |-> P!Seen(r, q)]
    BY <2>1 DEF P!Commit
  <2>3. p \in DOMAIN wrote[r] => row[p] # "absent"
    <3>1. at[r] = "commit"
      BY <2>1 DEF P!Commit
    <3> QED
      BY <3>1 DEF PInv, Holding, TurnsOff
  <2>4. row'[p] = P!Seen(r, p)
    BY <2>2
  <2>5. row[p] # "absent"
    BY <2>3, <2>4 DEF P!Seen
  <2> QED
    BY <1>1, <2>2, <2>5
<1>4. CASE UNCHANGED <<row, targets>>
  BY <1>1, <1>4
<1> QED
  BY <1>2, <1>3, <1>4 DEF P!Next, P!vars, P!Select, P!Deactivate, P!Activate, P!RollBack, P!Ask, P!Visit

\* Every step keeps the invariant.
LEMMA NextVInv ==
  ASSUME P!ProfilesAssumption
  PROVE  PInv /\ VInv /\ [P!Next]_P!vars => VInv'
<1> SUFFICES ASSUME PInv, VInv, [P!Next]_P!vars PROVE VInv'
  OBVIOUS
<1>1. CASE UNCHANGED P!vars
  BY <1>1 DEF P!vars, VInv, Visiting, NoCircle, Chased
<1>2. CASE P!Next
  BY <1>2, CreateVisits, StatementVisits, DeactivateVisits, VisitVisits, CommitVisits DEF P!Next
<1> QED
  BY <1>1, <1>2

\* Every step keeps the invariant.
LEMMA NextPInv ==
  ASSUME P!ProfilesAssumption
  PROVE  PInv /\ [P!Next]_P!vars => PInv'
<1> SUFFICES ASSUME PInv, [P!Next]_P!vars PROVE PInv'
  OBVIOUS
<1>1. CASE UNCHANGED P!vars
  BY <1>1 DEF P!vars, PInv, Shapes, HeldByOne, Holding, TurnsOff, P!OneActive
<1>2. CASE P!Next
  BY <1>2, CreateKeeps, EdgesKeep, SelectKeeps, VisitKeeps, ActivateKeeps, CommitKeeps DEF P!Next
<1> QED
  BY <1>1, <1>2

\* The invariant holds the values of the profiles as well.
LEMMA PInvIsTyped == ASSUME PInv PROVE P!TypeOK
BY DEF PInv, Shapes, States, P!TypeOK

-----------------------------------------------------------------------------
(* The lots of a sale *)

\* The operators of the library, likewise.
LEMMA SameTaxSums ==
  /\ \A f, S : T!SumFunctionOnSet(f, S) = SumFunctionOnSet(f, S)
  /\ \A S : T!IsFiniteSet(S) = IsFiniteSet(S) /\ T!Cardinality(S) = Cardinality(S)
BY DEF T!SumFunctionOnSet, T!FoldFunctionOnSet, T!MapThenFoldSet, SumFunctionOnSet,
       FoldFunctionOnSet, MapThenFoldSet, T!IsFiniteSet, IsFiniteSet, T!Cardinality, Cardinality

\* The lots before one, and the shares in them.
LotsBefore(own, i) == {j \in DOMAIN own : j < i}
Quantities(own) == [j \in DOMAIN own |-> own[j].quantity]
Older(own, i) == SumFunctionOnSet(Quantities(own), LotsBefore(own, i))

\* Nothing is older than the oldest lot, and each lot adds its shares.
LEMMA OlderGrows ==
  ASSUME NEW own \in Seq(T!TaxLot)
  PROVE  /\ Older(own, 1) = 0 /\ \A i \in 1 .. Len(own) + 1 : Older(own, i) \in Nat
         /\ \A i \in 1 .. Len(own) : /\ own[i].quantity \in Nat /\ own[i].quantity > 0
                                     /\ Older(own, i + 1) = Older(own, i) + own[i].quantity
<1>1. DOMAIN own = 1 .. Len(own) /\ Len(own) \in Nat /\ IsFiniteSet(1 .. Len(own))
  BY FS_Interval
<1>2. \A j \in DOMAIN own : Quantities(own)[j] \in Nat /\ Quantities(own)[j] = own[j].quantity /\ own[j].quantity > 0
  <2>1. \A j \in DOMAIN own : own[j] \in T!TaxLot
    BY <1>1, ElementOfSeq
  <2> QED
    BY <2>1 DEF T!TaxLot, Quantities
<1>3. \A i : IsFiniteSet(LotsBefore(own, i))
  BY <1>1, FS_Subset DEF LotsBefore
<1>4. LotsBefore(own, 1) = {}
  BY <1>1 DEF LotsBefore
<1>5. ASSUME NEW i \in 1 .. Len(own) PROVE Older(own, i + 1) = Older(own, i) + own[i].quantity
  <2>1. LotsBefore(own, i + 1) = LotsBefore(own, i) \union {i} /\ i \notin LotsBefore(own, i)
    BY <1>1 DEF LotsBefore
  <2>2. \A j \in LotsBefore(own, i) \union {i} : Quantities(own)[j] \in Int
    BY <1>1, <1>2 DEF LotsBefore
  <2>3. SumFunctionOnSet(Quantities(own), LotsBefore(own, i) \union {i})
          = Quantities(own)[i] + SumFunctionOnSet(Quantities(own), LotsBefore(own, i))
    BY <1>3, <2>1, <2>2, SumPutIn
  <2>4. SumFunctionOnSet(Quantities(own), LotsBefore(own, i)) \in Int
    BY <1>3, <2>2, SumType
  <2>5. Quantities(own)[i] = own[i].quantity /\ own[i].quantity \in Nat
    BY <1>1, <1>2
  <2>6. Older(own, i + 1) = Quantities(own)[i] + Older(own, i)
    BY <2>1, <2>3 DEF Older
  <2>7. Older(own, i) \in Int
    BY <2>4 DEF Older
  <2> QED
    BY <2>5, <2>6, <2>7
<1>6. \A i \in 1 .. Len(own) + 1 : Older(own, i) \in Nat
  BY <1>2, <1>3, SumType DEF Older, LotsBefore
<1> QED
  BY <1>1, <1>2, <1>4, <1>5, <1>6, SumEmpty DEF Older

\* What the loop of check_sell_tax_impact keeps: what is left, and what each lot gave.
SellState == [left : Nat, taken : Seq(Nat)]
OldestFirst(own, quantity, s, k) ==
  /\ s.left = IF quantity > Older(own, k + 1) THEN quantity - Older(own, k + 1) ELSE 0
  /\ Len(s.taken) <= k /\ (s.left > 0 => Len(s.taken) = k)
  /\ \A i \in 1 .. k :
       IF i <= Len(s.taken)
       THEN /\ quantity > Older(own, i)
            /\ s.taken[i] = IF quantity - Older(own, i) < own[i].quantity
                            THEN quantity - Older(own, i) ELSE own[i].quantity
       ELSE quantity <= Older(own, i)
  /\ SumFunction(s.taken) = quantity - s.left

\* The loop has a run.
LEMMA SellingRuns ==
  ASSUME NEW own \in Seq(T!TaxLot), NEW quantity \in Nat
  PROVE  LET run == T!Selling(own, quantity)
         IN  /\ run \in [0 .. Len(own) -> SellState]
             /\ run[0] = [left |-> quantity, taken |-> << >>]
             /\ \A i \in 1 .. Len(own) : run[i] = T!SellStep(own, run[i - 1], i)
<1> DEFINE n == Len(own)
           base == [left |-> quantity, taken |-> << >>]
           step == [si \in SellState \X (1 .. n) |-> T!SellStep(own, si[1], si[2])]
           IsLoop(run) == run = [i \in 0 .. n |-> IF i = 0 THEN base ELSE T!SellStep(own, run[i - 1], i)]
<1>1. n \in Nat /\ base \in SellState
  BY DEF SellState
<1>2. step \in [SellState \X (1 .. n) -> SellState]
  <2>1. ASSUME NEW s \in SellState, NEW i \in 1 .. n PROVE T!SellStep(own, s, i) \in SellState
    <3>1. own[i].quantity \in Nat
      BY OlderGrows
    <3> QED
      BY <3>1 DEF T!SellStep, SellState
  <2> QED
    BY <2>1
<1>3. PICK run \in [0 .. n -> SellState] : LoopRuns(run, n, base, step)
  <2> HIDE DEF base, step, n
  <2> QED
    BY <1>1, <1>2, RunExists
<1>4. ASSUME NEW i \in 1 .. n PROVE run[i] = T!SellStep(own, run[i - 1], i)
  <2>1. i - 1 \in 0 .. n
    BY <1>1
  <2>2. <<run[i - 1], i>> \in SellState \X (1 .. n)
    BY <1>3, <2>1
  <2> QED
    BY <1>3, <2>2 DEF LoopRuns
<1>5. IsLoop(run)
  <2> HIDE DEF base, step
  <2> QED
    BY <1>3, <1>4 DEF LoopRuns
<1>6. T!Selling(own, quantity) = CHOOSE r : IsLoop(r)
  BY DEF T!Selling
<1>7. IsLoop(T!Selling(own, quantity))
  <2> HIDE DEF IsLoop
  <2> QED
    BY <1>5, <1>6
<1> DEFINE r == T!Selling(own, quantity)
<1>8. r = [i \in 0 .. n |-> IF i = 0 THEN base ELSE T!SellStep(own, r[i - 1], i)]
  BY <1>7
<1> HIDE DEF r, base
<1>9. r[0] = base /\ \A i \in 1 .. n : r[i] = T!SellStep(own, r[i - 1], i)
  BY <1>1, <1>8
<1> DEFINE Bad == {i \in 0 .. n : r[i] \notin SellState}
<1>10. Bad = {}
  <2> SUFFICES ASSUME Bad # {} PROVE FALSE
    OBVIOUS
  <2>1. 0 \notin Bad /\ Bad \in SUBSET (0 .. n)
    BY <1>1, <1>9
  <2>2. PICK k \in 1 .. n : k \in Bad /\ k - 1 \notin Bad
    <3> HIDE DEF Bad
    <3> QED
      BY <1>1, <2>1, FirstFailure
  <2>3. k - 1 \in 0 .. n /\ r[k - 1] \in SellState /\ r[k] \notin SellState
    BY <1>1, <2>2
  <2>4. <<r[k - 1], k>> \in SellState \X (1 .. n)
    BY <2>3
  <2>5. step[<<r[k - 1], k>>] \in SellState /\ step[<<r[k - 1], k>>] = T!SellStep(own, r[k - 1], k)
    BY <1>2, <2>4
  <2> QED
    BY <1>9, <2>3, <2>5
<1>11. r \in [0 .. n -> SellState]
  BY <1>8, <1>10
<1> QED
  BY <1>9, <1>11 DEF r, base

\* One lot further, oldest first is kept.
LEMMA SellStepKeeps ==
  ASSUME NEW own \in Seq(T!TaxLot), NEW quantity \in Nat, NEW k \in 1 .. Len(own), NEW s \in SellState,
         OldestFirst(own, quantity, s, k - 1)
  PROVE  OldestFirst(own, quantity, T!SellStep(own, s, k), k)
<1> DEFINE old == Older(own, k)
           q == own[k].quantity
           take == IF s.left < q THEN s.left ELSE q
           t == T!SellStep(own, s, k)
<1>0. t = T!SellStep(own, s, k)
  OBVIOUS
<1>1. old \in Nat /\ q \in Nat /\ q > 0 /\ Older(own, k + 1) = old + q
      /\ (\A i \in 1 .. Len(own) : Older(own, i) \in Nat) /\ k - 1 + 1 = k
  BY OlderGrows
<1>2. s.left \in Nat /\ s.taken \in Seq(Nat) /\ Len(s.taken) \in Nat
  BY DEF SellState
<1>3. CASE s.left <= 0
  <2>1. t = s
    BY <1>3 DEF T!SellStep
  <2>2. s.left = 0 /\ quantity <= old
    BY <1>1, <1>2, <1>3 DEF OldestFirst
  <2>3. ASSUME NEW i \in 1 .. k
        PROVE  IF i <= Len(s.taken)
               THEN /\ quantity > Older(own, i)
                    /\ s.taken[i] = IF quantity - Older(own, i) < own[i].quantity
                                    THEN quantity - Older(own, i) ELSE own[i].quantity
               ELSE quantity <= Older(own, i)
    <3>1. CASE i = k
      <4>1. ~(i <= Len(s.taken))
        BY <1>1, <1>2, <3>1 DEF OldestFirst
      <4> QED
        BY <2>2, <3>1, <4>1
    <3>2. CASE i # k
      <4>1. i \in 1 .. (k - 1)
        BY <3>2
      <4> QED
        BY <4>1 DEF OldestFirst
    <3> QED
      BY <3>1, <3>2
  <2>4. Len(s.taken) <= k
    BY <1>2 DEF OldestFirst
  <2>5. s.left = IF quantity > Older(own, k + 1) THEN quantity - Older(own, k + 1) ELSE 0
    BY <1>1, <2>2
  <2>6. SumFunction(s.taken) = quantity - s.left
    BY DEF OldestFirst
  <2> HIDE DEF t, old, q, take
  <2> QED
    BY <1>0, <2>1, <2>2, <2>3, <2>4, <2>5, <2>6 DEF OldestFirst
<1>4. CASE s.left > 0
  <2>1. t.left = s.left - take /\ t.taken = Append(s.taken, take)
    BY <1>2, <1>4 DEF T!SellStep
  <2>2. quantity > old /\ s.left = quantity - old /\ Len(s.taken) = k - 1
    BY <1>1, <1>4 DEF OldestFirst
  <2>3. take \in Nat /\ take <= q /\ take <= s.left
    BY <1>1, <1>2
  <2>4. Len(t.taken) = k /\ t.taken[k] = take /\ (\A i \in 1 .. (k - 1) : t.taken[i] = s.taken[i])
        /\ DOMAIN t.taken = 1 .. k /\ DOMAIN s.taken = 1 .. (k - 1)
    <3> HIDE DEF take, t
    <3> QED
      BY <1>2, <2>1, <2>2, <2>3
  <2>5. t.left = IF quantity > Older(own, k + 1) THEN quantity - Older(own, k + 1) ELSE 0
    BY <1>1, <1>2, <2>1, <2>2
  <2>6. ASSUME NEW i \in 1 .. k
        PROVE  /\ quantity > Older(own, i)
               /\ t.taken[i] = IF quantity - Older(own, i) < own[i].quantity
                               THEN quantity - Older(own, i) ELSE own[i].quantity
    <3>1. CASE i = k
      BY <1>1, <2>2, <2>4, <3>1
    <3>2. CASE i # k
      <4>1. i \in 1 .. (k - 1) /\ i <= Len(s.taken)
        BY <2>2, <3>2
      <4>2. t.taken[i] = s.taken[i]
        BY <2>4, <4>1
      <4> HIDE DEF t
      <4> QED
        BY <4>1, <4>2 DEF OldestFirst
    <3> QED
      BY <3>1, <3>2
  <2>7. SumFunction(t.taken) = quantity - t.left
    <3>1. \A i \in 1 .. (k - 1) : s.taken[i] \in Nat
      BY <1>2, <2>2
    <3>2. \A i \in 1 .. (k - 1) + 1 : t.taken[i] \in Int
      <4> SUFFICES ASSUME NEW i \in 1 .. k PROVE t.taken[i] \in Int
        OBVIOUS
      <4>1. i = k \/ i \in 1 .. (k - 1)
        OBVIOUS
      <4> HIDE DEF t, take
      <4> QED
        BY <2>3, <2>4, <3>1, <4>1
    <3>3. \A i \in 1 .. (k - 1) : s.taken[i] = t.taken[i]
      BY <2>4
    <3>4. SumFunction(t.taken) = SumFunction(s.taken) + t.taken[(k - 1) + 1]
      <4>1. DOMAIN t.taken = 1 .. ((k - 1) + 1) /\ k - 1 \in Nat
        BY <2>4
      <4> HIDE DEF t, take
      <4> QED
        BY <2>4, <3>2, <3>3, <4>1, SumAppend
    <3>5. SumFunction(s.taken) = quantity - s.left
      BY DEF OldestFirst
    <3> HIDE DEF t
    <3> QED
      BY <1>1, <1>2, <2>1, <2>3, <2>4, <3>4, <3>5
  <2>8. \A i \in 1 .. k : i <= Len(t.taken)
    BY <2>4
  <2> HIDE DEF t, old, q, take
  <2> QED
    BY <1>0, <2>4, <2>5, <2>6, <2>7, <2>8 DEF OldestFirst
<1> QED
  BY <1>2, <1>3, <1>4

\* So it holds after each lot.
LEMMA SellingIsFifo ==
  ASSUME NEW own \in Seq(T!TaxLot), NEW quantity \in Nat, NEW k \in 0 .. Len(own)
  PROVE  OldestFirst(own, quantity, T!Selling(own, quantity)[k], k)
<1> DEFINE run == T!Selling(own, quantity)
           n == Len(own)
           Bad == {i \in 0 .. n : ~OldestFirst(own, quantity, run[i], i)}
<1>1. /\ run \in [0 .. n -> SellState] /\ run[0] = [left |-> quantity, taken |-> << >>]
      /\ \A i \in 1 .. n : run[i] = T!SellStep(own, run[i - 1], i)
  BY SellingRuns
<1> HIDE DEF run
<1>2. 0 \notin Bad
  <2>1. Older(own, 1) = 0
    BY OlderGrows
  <2>2. run[0].left = quantity /\ run[0].taken = << >>
    BY <1>1
  <2>3. SumFunction(<< >>) = 0
    BY SumEmpty DEF SumFunction
  <2>4. Len(<< >>) = 0
    OBVIOUS
  <2>5. OldestFirst(own, quantity, run[0], 0)
    BY <2>1, <2>2, <2>3, <2>4 DEF OldestFirst
  <2> QED
    BY <2>5
<1>3. SUFFICES ASSUME Bad # {} PROVE FALSE
  <2>1. k \notin Bad
    BY <1>3
  <2> QED
    BY <2>1 DEF run
<1>4. PICK i \in 1 .. n : i \in Bad /\ i - 1 \notin Bad
  <2>1. Bad \in SUBSET (0 .. n) /\ n \in Nat
    OBVIOUS
  <2> HIDE DEF Bad
  <2> QED
    BY <1>2, <1>3, <2>1, FirstFailure
<1>5. i - 1 \in 0 .. n /\ OldestFirst(own, quantity, run[i - 1], i - 1) /\ ~OldestFirst(own, quantity, run[i], i)
  BY <1>4
<1>6. run[i - 1] \in SellState /\ run[i] = T!SellStep(own, run[i - 1], i)
  BY <1>1, <1>5
<1> QED
  BY <1>5, <1>6, SellStepKeeps

\* A sale is split as SplitIsFifo has it, and no more is taken than was asked for.
LEMMA SaleIsSplit ==
  ASSUME NEW own \in Seq(T!TaxLot), NEW quantity \in Nat
  PROVE  LET taken == T!Selling(own, quantity)[Len(own)].taken
         IN  /\ taken \in Seq(Nat) /\ DOMAIN taken \subseteq DOMAIN own
             /\ \A S \in SUBSET (DOMAIN taken) :
                  SumFunctionOnSet([i \in S |-> taken[i]], S) \in 0 .. quantity
             /\ \A i \in DOMAIN own :
                  Cardinality({n \in 1 .. own[i].quantity : Older(own, i) + n <= quantity})
                    = IF i \in DOMAIN taken THEN taken[i] ELSE 0
<1> DEFINE s == T!Selling(own, quantity)[Len(own)]
           taken == s.taken
<1>1. s \in SellState /\ OldestFirst(own, quantity, s, Len(own))
  <2>1. Len(own) \in 0 .. Len(own)
    OBVIOUS
  <2> QED
    BY <2>1, SellingRuns, SellingIsFifo
<1> HIDE DEF s
<1>2. /\ s.left \in Nat /\ taken \in Seq(Nat) /\ Len(taken) \in Nat /\ Len(taken) <= Len(own)
      /\ DOMAIN taken = 1 .. Len(taken) /\ DOMAIN own = 1 .. Len(own) /\ Len(own) \in Nat
      /\ SumFunction(taken) = quantity - s.left
  BY <1>1 DEF SellState, OldestFirst
<1>3. ASSUME NEW i \in DOMAIN own
      PROVE  Cardinality({n \in 1 .. own[i].quantity : Older(own, i) + n <= quantity})
               = IF i \in DOMAIN taken THEN taken[i] ELSE 0
  <2> DEFINE old == Older(own, i)
             q == own[i].quantity
             most == IF quantity - old < q THEN quantity - old ELSE q
  <2>1. i \in 1 .. Len(own) /\ old \in Nat /\ q \in Nat /\ q > 0
    BY <1>2, OlderGrows
  <2>2. IF i <= Len(taken) THEN quantity > old /\ taken[i] = most ELSE quantity <= old
    BY <1>1, <1>2, <2>1 DEF OldestFirst
  <2> HIDE DEF old, q
  <2>3. {n \in 1 .. q : old + n <= quantity} = 1 .. most /\ most \in Int
    BY <2>1
  <2>4. Cardinality(1 .. most) = IF 1 > most THEN 0 ELSE most - 1 + 1
    BY <2>3, FS_Interval
  <2>5. CASE i <= Len(taken)
    <3>1. i \in DOMAIN taken /\ taken[i] = most /\ most >= 1
      BY <1>2, <2>1, <2>2, <2>5
    <3> HIDE DEF most
    <3>2. Cardinality(1 .. most) = most
      BY <2>3, <2>4, <3>1
    <3> QED
      BY <2>3, <3>1, <3>2 DEF old, q
  <2>6. CASE ~(i <= Len(taken))
    <3>1. i \notin DOMAIN taken /\ most <= 0
      BY <1>2, <2>1, <2>2, <2>6
    <3> HIDE DEF most
    <3>2. Cardinality(1 .. most) = 0
      BY <2>3, <2>4, <3>1
    <3> QED
      BY <2>3, <3>1, <3>2 DEF old, q
  <2> QED
    BY <2>5, <2>6
<1>4. ASSUME NEW S \in SUBSET (DOMAIN taken)
      PROVE  SumFunctionOnSet([i \in S |-> taken[i]], S) \in 0 .. quantity
  <2>1. IsFiniteSet(DOMAIN taken) /\ IsFiniteSet(S) /\ \A i \in DOMAIN taken : taken[i] \in Nat
    <3>1. IsFiniteSet(1 .. Len(taken))
      <4>1. \A k \in Nat : IsFiniteSet(1 .. k)
        BY FS_Interval
      <4> HIDE DEF taken
      <4> QED
        BY <1>2, <4>1
    <3>2. IsFiniteSet(DOMAIN taken) /\ IsFiniteSet(S)
      BY <1>2, <3>1, FS_Subset
    <3>3. \A i \in DOMAIN taken : taken[i] \in Nat
      BY <1>2, ElementOfSeq
    <3> QED
      BY <3>2, <3>3
  <2>2. /\ SumFunctionOnSet(taken, S) \in Nat /\ SumFunctionOnSet(taken, DOMAIN taken) \in Nat
        /\ SumFunctionOnSet(taken, S) <= SumFunctionOnSet(taken, DOMAIN taken)
    BY <2>1, SumOfPart
  <2>3. SumFunctionOnSet([i \in S |-> taken[i]], S) = SumFunctionOnSet(taken, S)
    <3> DEFINE f == [i \in S |-> taken[i]]
    <3>1. \A i \in S : f[i] = taken[i]
      OBVIOUS
    <3> HIDE DEF f
    <3> QED
      BY <2>1, <3>1, SumSame
  <2>4. SumFunctionOnSet(taken, DOMAIN taken) = quantity - s.left
    BY <1>2 DEF SumFunction
  <2> HIDE DEF taken
  <2> QED
    BY <1>2, <2>2, <2>3, <2>4
<1>5. DOMAIN taken \subseteq DOMAIN own
  BY <1>2
<1> QED
  BY <1>2, <1>3, <1>4, <1>5 DEF s

-----------------------------------------------------------------------------
(* The harvest of gains *)

\* The lots are finitely many, and each of them is one.
LEMMA LotsAreLots ==
  ASSUME T!LotsAssumption, lots \in [Holdings -> LotChoices]
  PROVE  IsFiniteSet(T!AllLots) /\ \A lot \in T!AllLots : T!LotAt(lot) \in T!TaxLot
<1> DEFINE Of(h) == {<<h, i>> : i \in DOMAIN lots[h]}
           of == [h \in Holdings |-> Of(h)]
<1>1. ASSUME NEW h \in Holdings
      PROVE  lots[h] \in Seq(T!TaxLot) /\ DOMAIN lots[h] = 1 .. Len(lots[h]) /\ Len(lots[h]) \in Nat
  BY <1>1 DEF T!LotsAssumption
<1>2. ASSUME NEW h \in Holdings PROVE IsFiniteSet(Of(h))
  <2> DEFINE f == [i \in DOMAIN lots[h] |-> <<h, i>>]
  <2>1. IsFiniteSet(DOMAIN lots[h])
    BY <1>1, FS_Interval
  <2>2. IsFiniteSet({f[i] : i \in DOMAIN lots[h]})
    <3> HIDE DEF f
    <3> QED
      BY <2>1, FiniteImage
  <2>3. {f[i] : i \in DOMAIN lots[h]} = Of(h)
    OBVIOUS
  <2> QED
    BY <2>2, <2>3
<1>3. IsFiniteSet({of[h] : h \in Holdings})
  <2>1. IsFiniteSet(Holdings)
    BY SameTaxSums DEF T!LotsAssumption
  <2> HIDE DEF of
  <2> QED
    BY <2>1, FiniteImage
<1>4. IsFiniteSet(UNION {of[h] : h \in Holdings})
  BY <1>2, <1>3, FS_UNION
<1>5. T!AllLots = UNION {of[h] : h \in Holdings}
  BY DEF T!AllLots
<1>6. ASSUME NEW lot \in T!AllLots PROVE T!LotAt(lot) \in T!TaxLot
  <2>0. PICK h \in Holdings : \E i \in DOMAIN lots[h] : lot = <<h, i>>
    BY DEF T!AllLots
  <2>1. PICK i \in DOMAIN lots[h] : lot = <<h, i>>
    BY <2>0
  <2>2. lots[h][i] \in T!TaxLot
    BY <1>1, <2>1, ElementOfSeq
  <2> QED
    BY <2>1, <2>2 DEF T!LotAt
<1> QED
  BY <1>4, <1>5, <1>6

\* What a list of gains to take has of a lot, and what it earns in all.
EntriesOf(gains, lot) == {k \in DOMAIN gains : gains[k].lot = lot}
HarvestedOf(gains, lot) ==
  SumFunctionOnSet([k \in EntriesOf(gains, lot) |-> gains[k].quantity], EntriesOf(gains, lot))
Earned(gains) ==
  SumFunctionOnSet([lot \in T!AllLots |-> HarvestedOf(gains, lot) * T!LotAt(lot).gain], T!AllLots)
GainsOf == Seq([lot : T!AllLots, quantity : Nat])

\* They are numbers,
LEMMA HarvestedIsNat ==
  ASSUME T!LotsAssumption, lots \in [Holdings -> LotChoices], NEW gains \in GainsOf
  PROVE  (\A lot : HarvestedOf(gains, lot) \in Nat) /\ Earned(gains) \in Int
<1>1. DOMAIN gains = 1 .. Len(gains) /\ Len(gains) \in Nat /\ IsFiniteSet(1 .. Len(gains))
  BY FS_Interval DEF GainsOf
<1>2. \A k \in DOMAIN gains : gains[k] \in [lot : T!AllLots, quantity : Nat]
  BY <1>1, ElementOfSeq DEF GainsOf
<1>3. ASSUME NEW lot PROVE HarvestedOf(gains, lot) \in Nat
  <2> DEFINE f == [k \in EntriesOf(gains, lot) |-> gains[k].quantity]
  <2>1. IsFiniteSet(EntriesOf(gains, lot))
    BY <1>1, FS_Subset DEF EntriesOf
  <2>2. \A k \in EntriesOf(gains, lot) : f[k] \in Nat
    BY <1>2 DEF EntriesOf
  <2> HIDE DEF f
  <2>3. SumFunctionOnSet(f, EntriesOf(gains, lot)) \in Nat
    BY <2>1, <2>2, SumType
  <2> QED
    BY <2>3 DEF f, HarvestedOf
<1>4. Earned(gains) \in Int
  <2> DEFINE f == [lot \in T!AllLots |-> HarvestedOf(gains, lot) * T!LotAt(lot).gain]
  <2>1. \A lot \in T!AllLots : f[lot] \in Int
    <3> SUFFICES ASSUME NEW lot \in T!AllLots PROVE HarvestedOf(gains, lot) * T!LotAt(lot).gain \in Int
      OBVIOUS
    <3>1. T!LotAt(lot).gain \in Int
      BY LotsAreLots DEF T!TaxLot
    <3> QED
      BY <1>3, <3>1
  <2> HIDE DEF f
  <2>2. SumFunctionOnSet(f, T!AllLots) \in Int
    BY <2>1, LotsAreLots, SumType
  <2> QED
    BY <2>2 DEF f, Earned
<1> QED
  BY <1>3, <1>4

\* and an entry for a lot that has none adds just that.
LEMMA OneGainMore ==
  ASSUME T!LotsAssumption, lots \in [Holdings -> LotChoices], NEW gains \in GainsOf,
         NEW lot \in T!AllLots, NEW n \in Nat, EntriesOf(gains, lot) = {}
  PROVE  LET more == Append(gains, [lot |-> lot, quantity |-> n])
         IN  /\ more \in GainsOf
             /\ \A l : l # lot => EntriesOf(more, l) = EntriesOf(gains, l)
             /\ \A l : l # lot => HarvestedOf(more, l) = HarvestedOf(gains, l)
             /\ HarvestedOf(gains, lot) = 0 /\ HarvestedOf(more, lot) = n
             /\ Earned(more) = Earned(gains) + n * T!LotAt(lot).gain
<1> DEFINE new == [lot |-> lot, quantity |-> n]
           more == Append(gains, new)
           m == Len(gains) + 1
<1>1. /\ DOMAIN gains = 1 .. Len(gains) /\ Len(gains) \in Nat /\ IsFiniteSet(1 .. Len(gains))
      /\ new \in [lot : T!AllLots, quantity : Nat]
  BY FS_Interval DEF GainsOf
<1>2. /\ more \in GainsOf /\ DOMAIN more = 1 .. m /\ more[m] = new
      /\ \A k \in 1 .. Len(gains) : more[k] = gains[k]
  <2> HIDE DEF new
  <2> QED
    BY <1>1 DEF GainsOf
<1> HIDE DEF more
<1>3. ASSUME NEW l, l # lot PROVE EntriesOf(more, l) = EntriesOf(gains, l)
  BY <1>1, <1>2, <1>3 DEF EntriesOf
<1>4. ASSUME NEW l, l # lot PROVE HarvestedOf(more, l) = HarvestedOf(gains, l)
  <2> DEFINE f == [k \in EntriesOf(gains, l) |-> gains[k].quantity]
             g == [k \in EntriesOf(more, l) |-> more[k].quantity]
  <2>1. f = g
    BY <1>1, <1>2, <1>3, <1>4 DEF EntriesOf
  <2> QED
    BY <1>3, <1>4, <2>1 DEF HarvestedOf
<1>5. HarvestedOf(gains, lot) = 0
  BY SumEmpty DEF HarvestedOf
<1>6. HarvestedOf(more, lot) = n
  <2> DEFINE f == [k \in EntriesOf(more, lot) |-> more[k].quantity]
  <2>1. EntriesOf(more, lot) = {m}
    BY <1>1, <1>2 DEF EntriesOf
  <2>2. f[m] = n /\ m \in {m} /\ IsFiniteSet({m})
    <3>1. more[m].quantity = n /\ m \in EntriesOf(more, lot)
      BY <1>2, <2>1
    <3>2. f[m] = more[m].quantity
      BY <3>1
    <3>3. IsFiniteSet({m})
      BY FS_Singleton
    <3> HIDE DEF m, f
    <3> QED
      BY <3>1, <3>2, <3>3
  <2>3. SumFunctionOnSet(f, {m}) = f[m]
    <3> HIDE DEF f, m
    <3> QED
      BY <2>2, SumOfOne
  <2> QED
    BY <2>1, <2>2, <2>3 DEF HarvestedOf
<1>7. Earned(more) = Earned(gains) + n * T!LotAt(lot).gain
  <2> DEFINE f == [l \in T!AllLots |-> HarvestedOf(gains, l) * T!LotAt(l).gain]
             g == [l \in T!AllLots |-> HarvestedOf(more, l) * T!LotAt(l).gain]
  <2>1. \A l \in T!AllLots : f[l] \in Int /\ g[l] \in Int
    <3> SUFFICES ASSUME NEW l \in T!AllLots PROVE f[l] \in Int /\ g[l] \in Int
      OBVIOUS
    <3>1. T!LotAt(l).gain \in Int
      BY LotsAreLots DEF T!TaxLot
    <3>2. HarvestedOf(gains, l) \in Int /\ HarvestedOf(more, l) \in Int
      BY <1>2, HarvestedIsNat
    <3> QED
      BY <3>1, <3>2
  <2>2. \A l \in T!AllLots \ {lot} : f[l] = g[l]
    BY <1>4
  <2>3. T!LotAt(lot).gain \in Int
    BY LotsAreLots DEF T!TaxLot
  <2>4. f[lot] = 0 /\ g[lot] = n * T!LotAt(lot).gain
    BY <1>5, <1>6, <2>3
  <2>5. Earned(gains) = SumFunctionOnSet(f, T!AllLots) /\ Earned(more) = SumFunctionOnSet(g, T!AllLots)
    BY DEF Earned
  <2> HIDE DEF f, g
  <2>6. SumFunctionOnSet(g, T!AllLots) = SumFunctionOnSet(f, T!AllLots) + g[lot] - f[lot]
    BY <2>1, <2>2, LotsAreLots, SumChanges
  <2>7. Earned(gains) \in Int /\ n * T!LotAt(lot).gain \in Int
    BY <2>3, HarvestedIsNat
  <2> QED
    BY <2>4, <2>5, <2>6, <2>7
<1> QED
  BY <1>2, <1>3, <1>4, <1>5, <1>6, <1>7 DEF more

\* What the loop over the candidates keeps: the budget is what is left of the exemption
\* after what was taken, and each candidate gave all it had, or all there was room for.
HarvestState == [budget : Nat, gains : GainsOf]
WithinBudget(realized, order, s, k) ==
  /\ s.budget = T!Above(Exemption, realized) - Earned(s.gains)
  /\ \A lot \in T!AllLots : HarvestedOf(s.gains, lot) \in 0 .. T!LotAt(lot).quantity
  /\ \A i \in 1 .. k : \/ HarvestedOf(s.gains, order[i]) = T!LotAt(order[i]).quantity
                       \/ T!LotAt(order[i]).gain = 0
                       \/ s.budget < T!LotAt(order[i]).gain
  /\ \A i \in k + 1 .. Len(order) : EntriesOf(s.gains, order[i]) = {}

\* What fits into a budget, by the share.
LEMMA WhatFits ==
  ASSUME NEW quantity \in Nat, quantity > 0, NEW gain \in Nat, gain > 0, NEW budget \in Nat
  PROVE  LET most == IF quantity * gain < budget THEN quantity * gain ELSE budget
             n == most \div gain
         IN  /\ n \in 0 .. quantity /\ n * gain \in Nat /\ n * gain <= budget
             /\ n = quantity \/ budget - n * gain < gain
<1> DEFINE most == IF quantity * gain < budget THEN quantity * gain ELSE budget
           n == most \div gain
<1>1. quantity * gain \in Nat /\ most \in Nat /\ most <= budget /\ most <= quantity * gain
  OBVIOUS
<1>2. n \in Nat /\ gain * n <= most /\ most < gain * n + gain
  <2> HIDE DEF most
  <2> QED
    BY <1>1
<1> HIDE DEF n
<1>3. n * gain = gain * n /\ n * gain \in Nat
  BY <1>2
<1>4. n <= quantity
  <2> SUFFICES ASSUME n > quantity PROVE FALSE
    BY <1>2
  <2>1. n * gain >= (quantity + 1) * gain
    BY <1>2
  <2>2. (quantity + 1) * gain = quantity * gain + gain
    OBVIOUS
  <2> HIDE DEF most
  <2> QED
    BY <1>1, <1>2, <1>3, <2>1, <2>2
<1>5. CASE quantity * gain < budget
  <2>1. most = quantity * gain
    BY <1>5
  <2>2. n = quantity
    <3> SUFFICES ASSUME n < quantity PROVE FALSE
      BY <1>2, <1>4
    <3>1. (n + 1) * gain <= quantity * gain
      BY <1>2
    <3>2. (n + 1) * gain = n * gain + gain
      BY <1>2
    <3> QED
      BY <1>1, <1>2, <1>3, <2>1, <3>1, <3>2
  <2> QED
    BY <1>1, <1>2, <1>3, <2>1, <2>2, <1>5 DEF n
<1>6. CASE ~(quantity * gain < budget)
  <2>1. most = budget
    BY <1>6
  <2> QED
    BY <1>2, <1>3, <1>4, <2>1 DEF n
<1> QED
  BY <1>5, <1>6

\* A candidate leaves the budget a number,
LEMMA GainStepStays ==
  ASSUME T!LotsAssumption, lots \in [Holdings -> LotChoices], NEW s \in HarvestState,
         NEW lot \in T!AllLots, T!Value(T!LotAt(lot)) >= 0
  PROVE  T!GainStep(s, lot) \in HarvestState
<1> DEFINE gain == T!LotAt(lot).gain
           q == T!LotAt(lot).quantity
           most == IF q * gain < s.budget THEN q * gain ELSE s.budget
           n == most \div gain
           t == T!GainStep(s, lot)
<1>1. gain \in Int /\ q \in Nat /\ q > 0 /\ T!Value(T!LotAt(lot)) = q * gain
  BY LotsAreLots DEF T!TaxLot, T!Value
<1>2. s.budget \in Nat /\ s.gains \in GainsOf
  BY DEF HarvestState
<1>3. t = IF s.budget <= 0 \/ (IF gain > 0 THEN n ELSE 0) = 0 THEN s
          ELSE [budget |-> s.budget - n * gain,
                gains |-> Append(s.gains, [lot |-> lot, quantity |-> n])]
  BY <1>1 DEF T!GainStep
<1>4. gain > 0 => n \in 0 .. q /\ n * gain \in Nat /\ n * gain <= s.budget
  <2> SUFFICES ASSUME gain > 0 PROVE n \in 0 .. q /\ n * gain \in Nat /\ n * gain <= s.budget
    OBVIOUS
  <2>1. gain \in Nat
    BY <1>1
  <2> HIDE DEF gain, q
  <2> QED
    BY <1>1, <1>2, <2>1, WhatFits
<1>5. CASE t = s
  BY <1>5
<1>6. CASE t # s
  <2>1. gain > 0 /\ t = [budget |-> s.budget - n * gain,
                         gains |-> Append(s.gains, [lot |-> lot, quantity |-> n])]
    BY <1>3, <1>6
  <2>2. n \in Nat /\ s.budget - n * gain \in Nat
    <3> HIDE DEF n, gain
    <3> QED
      BY <1>1, <1>2, <1>4, <2>1
  <2>3. Append(s.gains, [lot |-> lot, quantity |-> n]) \in GainsOf
    <3> HIDE DEF n
    <3> QED
      BY <1>2, <2>2 DEF GainsOf
  <2> HIDE DEF n, gain, t
  <2>4. t \in HarvestState
    BY <2>1, <2>2, <2>3 DEF HarvestState
  <2> QED
    BY <2>4 DEF t
<1> QED
  BY <1>5, <1>6

\* One candidate further, the budget is kept.
LEMMA GainStepKeeps ==
  ASSUME T!LotsAssumption, lots \in [Holdings -> LotChoices], NEW realized \in Int,
         NEW order \in Seq(T!AllLots), \A i, j \in 1 .. Len(order) : i # j => order[i] # order[j],
         NEW k \in 1 .. Len(order), T!Value(T!LotAt(order[k])) >= 0,
         NEW s \in HarvestState, WithinBudget(realized, order, s, k - 1)
  PROVE  /\ T!GainStep(s, order[k]) \in HarvestState
         /\ WithinBudget(realized, order, T!GainStep(s, order[k]), k)
<1> DEFINE lot == order[k]
           gain == T!LotAt(lot).gain
           q == T!LotAt(lot).quantity
           most == IF q * gain < s.budget THEN q * gain ELSE s.budget
           n == most \div gain
           t == T!GainStep(s, lot)
           room == T!Above(Exemption, realized)
<1>1. lot \in T!AllLots
  BY ElementOfSeq
<1>2. gain \in Int /\ q \in Nat /\ q > 0 /\ T!Value(T!LotAt(lot)) = q * gain
  BY <1>1, LotsAreLots DEF T!TaxLot, T!Value
<1>3. gain \in Nat
  <2> SUFFICES ASSUME gain < 0 PROVE FALSE
    BY <1>2
  <2>1. q * gain >= 0
    BY <1>2
  <2> HIDE DEF gain, q
  <2>2. q * gain < 0
    BY <1>2
  <2> QED
    BY <1>2, <2>1, <2>2
<1>4. /\ s.budget \in Nat /\ s.gains \in GainsOf /\ k - 1 + 1 = k
      /\ s.budget = room - Earned(s.gains) /\ EntriesOf(s.gains, lot) = {}
      /\ \A i \in k + 1 .. Len(order) : i \in k .. Len(order) /\ i \in 1 .. Len(order) /\ i # k
  <2>1. Len(order) \in Nat /\ k \in Nat /\ k \in 1 .. Len(order)
    OBVIOUS
  <2>2. k - 1 + 1 = k /\ k \in (k - 1) + 1 .. Len(order)
    BY <2>1
  <2>3. \A i \in k + 1 .. Len(order) : i \in k .. Len(order) /\ i \in 1 .. Len(order) /\ i # k
    BY <2>1
  <2>4. s.budget \in Nat /\ s.gains \in GainsOf
    BY DEF HarvestState
  <2>5. s.budget = T!Above(Exemption, realized) - Earned(s.gains) /\ EntriesOf(s.gains, lot) = {}
    BY <2>2 DEF WithinBudget
  <2> QED
    BY <2>2, <2>3, <2>4, <2>5
<1>5. room \in Nat
  BY DEF T!Above, T!LotsAssumption
<1>6. \A i \in 1 .. k : i = k \/ i \in 1 .. (k - 1)
  OBVIOUS
<1>t. t = IF s.budget <= 0 \/ (IF gain > 0 THEN n ELSE 0) = 0 THEN s
          ELSE [budget |-> s.budget - n * gain,
                gains |-> Append(s.gains, [lot |-> lot, quantity |-> n])]
  BY <1>2 DEF T!GainStep
<1>7. gain > 0 => /\ n \in 0 .. q /\ n * gain \in Nat /\ n * gain <= s.budget
                  /\ n = q \/ s.budget - n * gain < gain
  <2> HIDE DEF gain, q
  <2> QED
    BY <1>2, <1>3, <1>4, WhatFits
<1> HIDE DEF n, room
<1>8. CASE s.budget <= 0 \/ (IF gain > 0 THEN n ELSE 0) = 0
  <2>1. t = s
    BY <1>t, <1>8
  <2>2. gain = 0 \/ s.budget < gain
    <3> HIDE DEF gain, q
    <3>1. CASE gain > 0 /\ s.budget > 0
      <4>1. n = 0 /\ n * gain = 0
        <5>1. n = 0
          BY <1>3, <1>4, <1>8, <3>1
        <5> QED
          BY <1>3, <5>1
      <4> QED
        BY <1>2, <1>4, <1>7, <3>1, <4>1
    <3>2. CASE ~(gain > 0 /\ s.budget > 0)
      BY <1>3, <1>4, <3>2
    <3> QED
      BY <3>1, <3>2
  <2>3. ASSUME NEW i \in 1 .. k
        PROVE  \/ HarvestedOf(s.gains, order[i]) = T!LotAt(order[i]).quantity
               \/ T!LotAt(order[i]).gain = 0
               \/ s.budget < T!LotAt(order[i]).gain
    <3>1. CASE i = k
      BY <2>2, <3>1
    <3>2. CASE i \in 1 .. (k - 1)
      BY <3>2 DEF WithinBudget
    <3> QED
      BY <1>6, <3>1, <3>2
  <2>4. \A i \in k + 1 .. Len(order) : EntriesOf(s.gains, order[i]) = {}
    BY <1>4 DEF WithinBudget
  <2>5. WithinBudget(realized, order, s, k)
    BY <2>3, <2>4 DEF WithinBudget
  <2> QED
    BY <2>1, <2>5
<1>9. CASE ~(s.budget <= 0 \/ (IF gain > 0 THEN n ELSE 0) = 0)
  <2>0. gain > 0 /\ n \in Nat /\ n \in 0 .. q /\ n * gain \in Nat /\ n * gain <= s.budget
        /\ (n = q \/ s.budget - n * gain < gain)
    BY <1>7, <1>9
  <2>1. /\ t.budget = s.budget - n * gain
        /\ t.gains = Append(s.gains, [lot |-> lot, quantity |-> n])
        /\ t = [budget |-> t.budget, gains |-> t.gains]
    BY <1>t, <1>9
  <2>2. /\ t.gains \in GainsOf
        /\ \A l : l # lot => EntriesOf(t.gains, l) = EntriesOf(s.gains, l)
        /\ \A l : l # lot => HarvestedOf(t.gains, l) = HarvestedOf(s.gains, l)
        /\ HarvestedOf(t.gains, lot) = n
        /\ Earned(t.gains) = Earned(s.gains) + n * gain
    <3> HIDE DEF t, lot
    <3> QED
      BY <1>1, <1>4, <2>0, <2>1, OneGainMore
  <2>3. t.budget \in Nat /\ t.budget <= s.budget
    <3> HIDE DEF t, gain
    <3> QED
      BY <1>4, <2>0, <2>1
  <2>4. t \in HarvestState
    <3> HIDE DEF t
    <3> QED
      BY <2>1, <2>2, <2>3 DEF HarvestState
  <2>5. t.budget = room - Earned(t.gains)
    <3>1. Earned(s.gains) \in Int
      BY <1>4, HarvestedIsNat
    <3> HIDE DEF t, gain
    <3> QED
      BY <1>4, <1>5, <2>0, <2>1, <2>2, <3>1
  <2>6. \A l \in T!AllLots : HarvestedOf(t.gains, l) \in 0 .. T!LotAt(l).quantity
    <3> SUFFICES ASSUME NEW l \in T!AllLots PROVE HarvestedOf(t.gains, l) \in 0 .. T!LotAt(l).quantity
      OBVIOUS
    <3>1. CASE l = lot
      BY <2>0, <2>2, <3>1
    <3>2. CASE l # lot
      BY <2>2, <3>2 DEF WithinBudget
    <3> QED
      BY <3>1, <3>2
  <2>7. ASSUME NEW i \in 1 .. k
        PROVE  \/ HarvestedOf(t.gains, order[i]) = T!LotAt(order[i]).quantity
               \/ T!LotAt(order[i]).gain = 0
               \/ t.budget < T!LotAt(order[i]).gain
    <3>1. CASE i = k
      <4> HIDE DEF t
      <4> QED
        BY <2>0, <2>1, <2>2, <3>1
    <3>2. CASE i \in 1 .. (k - 1)
      <4>1. order[i] # lot /\ order[i] \in T!AllLots
        <5>1. i \in 1 .. Len(order) /\ i # k
          BY <3>2
        <5> QED
          BY <5>1, ElementOfSeq
      <4>2. HarvestedOf(t.gains, order[i]) = HarvestedOf(s.gains, order[i])
        BY <2>2, <4>1
      <4>3. \/ HarvestedOf(s.gains, order[i]) = T!LotAt(order[i]).quantity
            \/ T!LotAt(order[i]).gain = 0
            \/ s.budget < T!LotAt(order[i]).gain
        BY <3>2 DEF WithinBudget
      <4>4. T!LotAt(order[i]).gain \in Int
        BY <4>1, LotsAreLots DEF T!TaxLot
      <4> HIDE DEF t
      <4> QED
        BY <1>4, <2>3, <4>2, <4>3, <4>4
    <3> QED
      BY <1>6, <3>1, <3>2
  <2>8. ASSUME NEW i \in k + 1 .. Len(order) PROVE EntriesOf(t.gains, order[i]) = {}
    <3>1. i \in 1 .. Len(order) /\ i # k /\ i \in k .. Len(order)
      BY <1>4
    <3>2. order[i] # lot
      BY <3>1
    <3>3. EntriesOf(s.gains, order[i]) = {}
      BY <1>4, <3>1 DEF WithinBudget
    <3> QED
      BY <2>2, <3>2, <3>3
  <2>9. WithinBudget(realized, order, t, k)
    <3> HIDE DEF t
    <3> QED
      BY <2>5, <2>6, <2>7, <2>8 DEF WithinBudget, room
  <2> QED
    BY <2>4, <2>9
<1> QED
  BY <1>8, <1>9

\* The loop over the candidates has a run.
LEMMA HarvestingRuns ==
  ASSUME T!LotsAssumption, lots \in [Holdings -> LotChoices], NEW realized \in Int,
         NEW order \in Seq(T!AllLots), \A i \in 1 .. Len(order) : T!Value(T!LotAt(order[i])) >= 0
  PROVE  LET run == T!Harvesting(realized, order)
         IN  /\ run \in [0 .. Len(order) -> HarvestState]
             /\ run[0] = [budget |-> T!Above(Exemption, realized), gains |-> << >>]
             /\ \A i \in 1 .. Len(order) : run[i] = T!GainStep(run[i - 1], order[i])
<1> DEFINE n == Len(order)
           base == [budget |-> T!Above(Exemption, realized), gains |-> << >>]
           step == [si \in HarvestState \X (1 .. n) |-> T!GainStep(si[1], order[si[2]])]
           IsLoop(run) == run = [i \in 0 .. n |-> IF i = 0 THEN base ELSE T!GainStep(run[i - 1], order[i])]
<1>1. n \in Nat /\ base \in HarvestState
  BY DEF HarvestState, GainsOf, T!Above, T!LotsAssumption
<1>2. step \in [HarvestState \X (1 .. n) -> HarvestState]
  <2>1. ASSUME NEW s \in HarvestState, NEW i \in 1 .. n PROVE T!GainStep(s, order[i]) \in HarvestState
    <3>1. order[i] \in T!AllLots /\ T!Value(T!LotAt(order[i])) >= 0
      BY ElementOfSeq
    <3> QED
      BY <3>1, GainStepStays
  <2> QED
    BY <2>1
<1>3. PICK run \in [0 .. n -> HarvestState] : LoopRuns(run, n, base, step)
  <2> HIDE DEF base, step, n
  <2> QED
    BY <1>1, <1>2, RunExists
<1>4. ASSUME NEW i \in 1 .. n PROVE run[i] = T!GainStep(run[i - 1], order[i])
  <2>1. i - 1 \in 0 .. n
    BY <1>1
  <2>2. <<run[i - 1], i>> \in HarvestState \X (1 .. n)
    BY <1>3, <2>1
  <2> QED
    BY <1>3, <2>2 DEF LoopRuns
<1>5. IsLoop(run)
  <2> HIDE DEF base, step
  <2> QED
    BY <1>3, <1>4 DEF LoopRuns
<1>6. T!Harvesting(realized, order) = CHOOSE r : IsLoop(r)
  BY DEF T!Harvesting
<1>7. IsLoop(T!Harvesting(realized, order))
  <2> HIDE DEF IsLoop
  <2> QED
    BY <1>5, <1>6
<1> DEFINE r == T!Harvesting(realized, order)
<1>8. r = [i \in 0 .. n |-> IF i = 0 THEN base ELSE T!GainStep(r[i - 1], order[i])]
  BY <1>7
<1> HIDE DEF r, base
<1>9. r[0] = base /\ \A i \in 1 .. n : r[i] = T!GainStep(r[i - 1], order[i])
  BY <1>1, <1>8
<1> DEFINE Bad == {i \in 0 .. n : r[i] \notin HarvestState}
<1>10. Bad = {}
  <2> SUFFICES ASSUME Bad # {} PROVE FALSE
    OBVIOUS
  <2>1. 0 \notin Bad /\ Bad \in SUBSET (0 .. n)
    BY <1>1, <1>9
  <2>2. PICK k \in 1 .. n : k \in Bad /\ k - 1 \notin Bad
    <3> HIDE DEF Bad
    <3> QED
      BY <1>1, <2>1, FirstFailure
  <2>3. k - 1 \in 0 .. n /\ r[k - 1] \in HarvestState /\ r[k] \notin HarvestState
    BY <1>1, <2>2
  <2>4. <<r[k - 1], k>> \in HarvestState \X (1 .. n)
    BY <2>3
  <2>5. /\ step[<<r[k - 1], k>>] \in HarvestState
        /\ step[<<r[k - 1], k>>] = T!GainStep(r[k - 1], order[k])
    BY <1>2, <2>4
  <2> QED
    BY <1>9, <2>3, <2>5
<1>11. r \in [0 .. n -> HarvestState]
  BY <1>8, <1>10
<1> QED
  BY <1>9, <1>11 DEF r, base

\* So it stays within the budget to the end.
LEMMA HarvestingIsWithin ==
  ASSUME T!LotsAssumption, lots \in [Holdings -> LotChoices], NEW realized \in Int,
         NEW order \in Seq(T!AllLots), \A i \in 1 .. Len(order) : T!Value(T!LotAt(order[i])) >= 0,
         \A i, j \in 1 .. Len(order) : i # j => order[i] # order[j]
  PROVE  /\ T!Harvesting(realized, order)[Len(order)] \in HarvestState
         /\ WithinBudget(realized, order, T!Harvesting(realized, order)[Len(order)], Len(order))
<1> DEFINE run == T!Harvesting(realized, order)
           n == Len(order)
           Bad == {i \in 0 .. n : ~WithinBudget(realized, order, run[i], i)}
<1>1. /\ run \in [0 .. n -> HarvestState] /\ n \in 0 .. n
      /\ run[0] = [budget |-> T!Above(Exemption, realized), gains |-> << >>]
      /\ \A i \in 1 .. n : run[i] = T!GainStep(run[i - 1], order[i])
  BY HarvestingRuns
<1> HIDE DEF run
<1>2. 0 \notin Bad
  <2>1. run[0].gains = << >> /\ run[0].budget = T!Above(Exemption, realized)
    BY <1>1
  <2>2. \A lot : EntriesOf(<< >>, lot) = {}
    BY DEF EntriesOf
  <2>3. \A lot : HarvestedOf(<< >>, lot) = 0
    BY <2>2, SumEmpty DEF HarvestedOf
  <2>4. Earned(<< >>) = 0
    <3> DEFINE f == [lot \in T!AllLots |-> HarvestedOf(<< >>, lot) * T!LotAt(lot).gain]
    <3>1. \A lot \in T!AllLots : f[lot] = 0
      <4> SUFFICES ASSUME NEW lot \in T!AllLots PROVE f[lot] = 0
        OBVIOUS
      <4>1. T!LotAt(lot).gain \in Int
        BY LotsAreLots DEF T!TaxLot
      <4> QED
        BY <2>3, <4>1
    <3> HIDE DEF f
    <3>2. SumFunctionOnSet(f, T!AllLots) = 0
      BY <3>1, LotsAreLots, SumOfZeros
    <3> QED
      BY <3>2 DEF f, Earned
  <2>5. \A lot \in T!AllLots : 0 \in 0 .. T!LotAt(lot).quantity
    BY LotsAreLots DEF T!TaxLot
  <2>6. T!Above(Exemption, realized) \in Nat
    BY DEF T!Above, T!LotsAssumption
  <2>7. \A i \in 1 .. 0 : FALSE
    OBVIOUS
  <2>8. WithinBudget(realized, order, run[0], 0)
    BY <2>1, <2>2, <2>3, <2>4, <2>5, <2>6, <2>7 DEF WithinBudget
  <2> QED
    BY <2>8
<1>3. SUFFICES ASSUME Bad # {} PROVE FALSE
  <2>1. n \notin Bad
    BY <1>3
  <2> QED
    BY <1>1, <2>1 DEF run
<1>4. PICK i \in 1 .. n : i \in Bad /\ i - 1 \notin Bad
  <2>1. Bad \in SUBSET (0 .. n) /\ n \in Nat
    OBVIOUS
  <2> HIDE DEF Bad
  <2> QED
    BY <1>2, <1>3, <2>1, FirstFailure
<1>5. i - 1 \in 0 .. n /\ WithinBudget(realized, order, run[i - 1], i - 1)
      /\ ~WithinBudget(realized, order, run[i], i)
  BY <1>4
<1>6. run[i - 1] \in HarvestState /\ run[i] = T!GainStep(run[i - 1], order[i])
  BY <1>1, <1>5
<1> QED
  BY <1>5, <1>6, GainStepKeeps

-----------------------------------------------------------------------------
(* The tax estimates *)

\* What LotsAreUsedWell says of a split, and of an advice.
IsSplit(own, quantity, taken) ==
  \A i \in DOMAIN own :
    Cardinality({n \in 1 .. own[i].quantity : Older(own, i) + n <= quantity})
      = IF i \in DOMAIN taken THEN taken[i] ELSE 0
Fills(realized, gains, empty) ==
  \A lot \in T!Candidates(realized) :
    /\ HarvestedOf(gains, lot) <= T!LotAt(lot).quantity
    /\ \/ HarvestedOf(gains, lot) = T!LotAt(lot).quantity
       \/ T!LotAt(lot).gain = 0
       \/ realized + Earned(gains) + T!LotAt(lot).gain > Exemption
       \/ empty
IsFree(realized, gains) == Earned(gains) > 0 => realized + Earned(gains) <= Exemption

TInv ==
  /\ taxDay \in 0 .. LastDay /\ lots \in [Holdings -> LotChoices]
  /\ sale.holding \in Holdings /\ sale.quantity \in 0 .. MaxQuantity /\ sale.short \in 0 .. MaxQuantity
  /\ IsSplit(lots[sale.holding], sale.quantity, sale.taken)
  /\ advice.realized \in Realized \union {0} /\ advice.on \in Int /\ advice.on <= taxDay
  /\ IsFree(advice.realized, advice.gains)
  /\ advice.on = taxDay => Fills(advice.realized, advice.gains, advice = T!NoAdvice)
  /\ liability.total \in Nat

\* The lots of a holding are a sequence of lots.
LEMMA LotsOfHolding ==
  ASSUME T!LotsAssumption, lots \in [Holdings -> LotChoices], NEW h \in Holdings
  PROVE  lots[h] \in Seq(T!TaxLot)
BY DEF T!LotsAssumption

\* It is what the property says.
LEMMA TInvIsEnough == ASSUME T!LotsAssumption, TInv PROVE T!TypeOK /\ T!LotsAreUsedWell
<1>1. T!TypeOK
  BY DEF TInv, T!TypeOK
<1>2. T!SplitIsFifo
  <2> DEFINE own == lots[sale.holding]
             before(i) == {j \in DOMAIN own : j < i}
  <2>1. own \in Seq(T!TaxLot)
    BY LotsOfHolding DEF TInv
  <2>2. ASSUME NEW i PROVE SumFunctionOnSet([j \in before(i) |-> own[j].quantity], before(i)) = Older(own, i)
    <3> DEFINE f == [j \in before(i) |-> own[j].quantity]
    <3>1. IsFiniteSet(before(i))
      <4>1. IsFiniteSet(1 .. Len(own)) /\ DOMAIN own = 1 .. Len(own)
        BY <2>1, FS_Interval
      <4> QED
        BY <4>1, FS_Subset
    <3>2. before(i) = LotsBefore(own, i)
      BY DEF LotsBefore
    <3>3. \A j \in before(i) : f[j] = Quantities(own)[j]
      BY DEF Quantities
    <3> HIDE DEF f, before
    <3>4. SumFunctionOnSet(f, before(i)) = SumFunctionOnSet(Quantities(own), before(i))
      BY <3>1, <3>3, SumSame
    <3> QED
      BY <3>2, <3>4 DEF Older, f
  <2>3. IsSplit(own, sale.quantity, sale.taken)
    BY DEF TInv
  <2>4. \A i \in DOMAIN own :
          T!Cardinality({n \in 1 .. own[i].quantity :
                           T!SumFunctionOnSet([j \in before(i) |-> own[j].quantity], before(i)) + n <= sale.quantity})
            = IF i \in DOMAIN sale.taken THEN sale.taken[i] ELSE 0
    BY <2>2, <2>3, SameTaxSums DEF IsSplit
  <2> QED
    BY <2>4 DEF T!SplitIsFifo, T!Total
<1>3. T!HarvestFillsExemption
  <2> DEFINE harvested(lot) ==
        T!SumFunctionOnSet([k \in {j \in DOMAIN advice.gains : advice.gains[j].lot = lot} |-> advice.gains[k].quantity],
                           {j \in DOMAIN advice.gains : advice.gains[j].lot = lot})
  <2>1. ASSUME NEW lot PROVE harvested(lot) = HarvestedOf(advice.gains, lot)
    BY SameTaxSums DEF HarvestedOf, EntriesOf
  <2>2. T!SumFunctionOnSet([lot \in T!AllLots |-> harvested(lot) * T!LotAt(lot).gain], T!AllLots)
          = Earned(advice.gains)
    BY <2>1, SameTaxSums DEF Earned
  <2>3. /\ Earned(advice.gains) > 0 => advice.realized + Earned(advice.gains) <= Exemption
        /\ advice.on = taxDay =>
             \A lot \in T!Candidates(advice.realized) :
               /\ harvested(lot) <= T!LotAt(lot).quantity
               /\ \/ harvested(lot) = T!LotAt(lot).quantity
                  \/ T!LotAt(lot).gain = 0
                  \/ advice.realized + Earned(advice.gains) + T!LotAt(lot).gain > Exemption
                  \/ advice = T!NoAdvice
    BY <2>1 DEF TInv, Fills, IsFree
  <2> QED
    BY <2>2, <2>3 DEF T!HarvestFillsExemption, T!Total
<1> QED
  BY <1>1, <1>2, <1>3 DEF T!LotsAreUsedWell

\* A behaviour begins with any lots, and with nothing asked.
LEMMA InitT == ASSUME T!LotsAssumption PROVE T!Init => TInv
<1> SUFFICES ASSUME T!Init PROVE TInv
  OBVIOUS
<1>1. taxDay = 0 /\ lots \in [Holdings -> LotChoices] /\ sale = T!NoSale /\ advice = T!NoAdvice /\ liability = T!NoSummary
  BY DEF T!Init
<1>2. /\ sale.holding \in Holdings /\ sale.quantity = 0 /\ sale.short = 0 /\ sale.taken = << >>
      /\ advice.realized = 0 /\ advice.on = 0 /\ advice.gains = << >> /\ liability.total = 0
  BY <1>1 DEF T!NoSale, T!NoAdvice, T!NoSummary, T!LotsAssumption
<1>3. IsSplit(lots[sale.holding], sale.quantity, sale.taken)
  <2> DEFINE own == lots[sale.holding]
  <2> SUFFICES ASSUME NEW i \in DOMAIN own
               PROVE  Cardinality({n \in 1 .. own[i].quantity : Older(own, i) + n <= 0}) = 0
    BY <1>2 DEF IsSplit
  <2>1. own \in Seq(T!TaxLot)
    BY <1>1, <1>2, LotsOfHolding
  <2>2. i \in 1 .. Len(own)
    BY <2>1
  <2> HIDE DEF own
  <2>3. Older(own, i) \in Nat /\ own[i].quantity \in Nat
    BY <2>1, <2>2, OlderGrows
  <2>4. {n \in 1 .. own[i].quantity : Older(own, i) + n <= 0} = {}
    BY <2>3
  <2> QED
    BY <2>4, FS_EmptySet
<1>4. \A lot : EntriesOf(<< >>, lot) = {}
  BY DEF EntriesOf
<1>5. \A lot : HarvestedOf(<< >>, lot) = 0
  BY <1>4, SumEmpty DEF HarvestedOf
<1>6. Earned(<< >>) = 0
  <2> DEFINE f == [lot \in T!AllLots |-> HarvestedOf(<< >>, lot) * T!LotAt(lot).gain]
  <2>1. \A lot \in T!AllLots : f[lot] = 0
    <3> SUFFICES ASSUME NEW lot \in T!AllLots PROVE f[lot] = 0
      OBVIOUS
    <3>1. T!LotAt(lot).gain \in Int
      BY <1>1, LotsAreLots DEF T!TaxLot
    <3> QED
      BY <1>5, <3>1
  <2> HIDE DEF f
  <2>2. SumFunctionOnSet(f, T!AllLots) = 0
    BY <1>1, <2>1, LotsAreLots, SumOfZeros
  <2> QED
    BY <2>2 DEF f, Earned
<1>7. Fills(advice.realized, advice.gains, advice = T!NoAdvice)
  <2>1. \A lot \in T!Candidates(0) : T!LotAt(lot).quantity \in Nat
    BY <1>1, LotsAreLots DEF T!Candidates, T!TaxLot
  <2> QED
    BY <1>1, <1>2, <1>5, <2>1 DEF Fills
<1>8. IsFree(advice.realized, advice.gains)
  BY <1>2, <1>6 DEF IsFree
<1> QED
  BY <1>1, <1>2, <1>3, <1>7, <1>8 DEF TInv, T!LotsAssumption

\* What a list of gains earns depends on the lots alone.
LEMMA LotsStand == ASSUME lots' = lots PROVE \A gains : Earned(gains)' = Earned(gains)
BY DEF Earned, HarvestedOf, EntriesOf, T!AllLots, T!LotAt

\* Whether an advice fills the exemption depends on the day and the lots alone.
LEMMA AdviceStands ==
  ASSUME lots' = lots, taxDay' = taxDay
  PROVE  \A realized, gains, empty : Fills(realized, gains, empty)' = Fills(realized, gains, empty)
<1>1. \A lot : T!LotAt(lot)' = T!LotAt(lot)
  BY DEF T!LotAt
<1>2. \A realized : T!Candidates(realized)' = T!Candidates(realized)
  BY DEF T!Candidates, T!AllLots, T!LotAt, T!LongTerm, T!Held, T!Value
<1> QED
  BY <1>1, <1>2, LotsStand DEF Fills

\* A sale asked about is split oldest first, whatever was asked before.
LEMMA SaleKeeps == ASSUME T!LotsAssumption, TInv, T!AskSale PROVE TInv'
<1>1. PICK h \in Holdings, quantity \in 1 .. MaxQuantity : T!SellImpact(h, quantity)
  BY DEF T!AskSale
<1> DEFINE own == lots[h]
           taken == T!Selling(own, quantity)[Len(own)].taken
           new == {i \in DOMAIN taken : ~T!LongTerm(own[i])}
<1>2. own \in Seq(T!TaxLot) /\ quantity \in Nat
  BY <1>1, LotsOfHolding DEF TInv
<1>3. /\ sale'.holding = h /\ sale'.quantity = quantity /\ sale'.taken = taken
      /\ sale'.short = SumFunctionOnSet([i \in new |-> taken[i]], new)
  BY <1>1, SameTaxSums DEF T!SellImpact, T!Total
<1>4. IsSplit(own, quantity, taken) /\ SumFunctionOnSet([i \in new |-> taken[i]], new) \in 0 .. quantity
  <2>1. new \in SUBSET (DOMAIN taken)
    OBVIOUS
  <2> HIDE DEF own, new
  <2> QED
    BY <1>2, <2>1, SaleIsSplit DEF IsSplit
<1>5. UNCHANGED <<taxDay, lots, advice, liability>>
  BY DEF T!AskSale
<1> HIDE DEF taken, new
<1>6. sale'.short \in 0 .. MaxQuantity /\ sale'.quantity \in 0 .. MaxQuantity
  BY <1>1, <1>3, <1>4 DEF T!LotsAssumption
<1>7. IsSplit(lots[sale.holding], sale.quantity, sale.taken)'
  BY <1>3, <1>4, <1>5
<1>8. IsFree(advice.realized, advice.gains)'
  BY <1>5, LotsStand DEF TInv, IsFree
<1>9. (advice.on = taxDay => Fills(advice.realized, advice.gains, advice = T!NoAdvice))'
  <2>1. T!NoAdvice' = T!NoAdvice
    BY DEF T!NoAdvice
  <2> QED
    BY <1>5, <2>1, AdviceStands DEF TInv
<1> QED
  BY <1>3, <1>5, <1>6, <1>7, <1>8, <1>9 DEF TInv

\* The next day nothing of it changes.
LEMMA DayKeeps == ASSUME T!LotsAssumption, TInv, T!NewDay PROVE TInv'
<1>1. taxDay < LastDay /\ taxDay' = taxDay + 1 /\ UNCHANGED <<lots, sale, advice, liability>>
  BY DEF T!NewDay
<1>2. taxDay' \in 0 .. LastDay /\ advice'.on \in Int /\ advice'.on < taxDay'
  BY <1>1 DEF TInv, T!LotsAssumption
<1>3. IsFree(advice.realized, advice.gains)'
  BY <1>1, LotsStand DEF TInv, IsFree
<1>4. IsSplit(lots[sale.holding], sale.quantity, sale.taken)'
  BY <1>1 DEF TInv
<1>5. /\ (lots \in [Holdings -> LotChoices])' /\ (sale.holding \in Holdings)'
      /\ (sale.quantity \in 0 .. MaxQuantity)' /\ (sale.short \in 0 .. MaxQuantity)'
      /\ (advice.realized \in Realized \union {0})' /\ (liability.total \in Nat)'
  BY <1>1 DEF TInv
<1>6. advice'.on <= taxDay' /\ ~(advice'.on = taxDay')
  BY <1>2
<1> QED
  BY <1>2, <1>3, <1>4, <1>5, <1>6 DEF TInv

\* The candidates in an order are each of them once.
LEMMA OrderIsAll ==
  ASSUME T!LotsAssumption, TInv, NEW realized, NEW order \in T!SetToSeqs(T!Candidates(realized))
  PROVE  /\ order \in Seq(T!AllLots)
         /\ \A i \in 1 .. Len(order) : T!Value(T!LotAt(order[i])) >= 0
         /\ \A i, j \in 1 .. Len(order) : i # j => order[i] # order[j]
         /\ \A lot \in T!Candidates(realized) : \E i \in 1 .. Len(order) : order[i] = lot
<1> DEFINE S == T!Candidates(realized)
           n == Cardinality(S)
<1>1. S \subseteq T!AllLots /\ \A lot \in S : T!Value(T!LotAt(lot)) >= 0
  BY DEF T!Candidates
<1>2. IsFiniteSet(S) /\ n \in Nat
  <2>1. IsFiniteSet(T!AllLots)
    BY LotsAreLots DEF TInv
  <2>2. IsFiniteSet(S)
    BY <1>1, <2>1, FS_Subset
  <2> HIDE DEF S
  <2> QED
    BY <2>2, FS_CardinalityType
<1>3. order \in [1 .. n -> S] /\ \A i, j \in 1 .. n : i # j => order[i] # order[j]
  BY SameTaxSums DEF T!SetToSeqs
<1> HIDE DEF S, n
<1>4. order \in Seq(T!AllLots) /\ Len(order) = n
  BY <1>1, <1>2, <1>3
<1>5. order \in Surjection(1 .. n, S)
  <2>1. order \in Injection(1 .. n, S)
    BY <1>3 DEF Injection, IsInjective
  <2>2. Cardinality(1 .. n) = Cardinality(S)
    <3>1. Cardinality(1 .. n) = n
      BY <1>2, FS_Interval
    <3> QED
      BY <3>1 DEF n
  <2> QED
    BY <1>2, <2>1, <2>2, FS_Injection
<1>6. \A lot \in S : \E i \in 1 .. n : order[i] = lot
  BY <1>5 DEF Surjection
<1> QED
  BY <1>1, <1>3, <1>4, <1>6 DEF S

\* An advice stays within what is left of the exemption and fills it.
LEMMA HarvestKeeps == ASSUME T!LotsAssumption, TInv, T!AskHarvest PROVE TInv'
<1>1. PICK realized \in Realized : T!Harvest(realized)
  BY DEF T!AskHarvest
<1>2. PICK order \in T!SetToSeqs(T!Candidates(realized)) :
        /\ advice'.realized = realized /\ advice'.on = taxDay
        /\ advice'.gains = T!Harvesting(realized, order)[Len(order)].gains
  BY <1>1 DEF T!Harvest
<1> DEFINE s == T!Harvesting(realized, order)[Len(order)]
           room == T!Above(Exemption, realized)
<1>3. realized \in Int /\ Exemption \in Nat /\ taxDay \in Int /\ lots \in [Holdings -> LotChoices]
  BY <1>1 DEF T!LotsAssumption, TInv
<1>4. s \in HarvestState /\ WithinBudget(realized, order, s, Len(order))
  BY <1>3, OrderIsAll, HarvestingIsWithin
<1> HIDE DEF s
<1>5. s.budget \in Nat /\ s.gains \in GainsOf /\ s.budget = room - Earned(s.gains) /\ Earned(s.gains) \in Int
  BY <1>3, <1>4, HarvestedIsNat DEF HarvestState, WithinBudget
<1>6. room \in Nat /\ (room # 0 => room = Exemption - realized)
  BY <1>3 DEF T!Above
<1> HIDE DEF room
<1>7. IsFree(realized, s.gains)
  BY <1>3, <1>5, <1>6 DEF IsFree
<1>8. ASSUME NEW lot \in T!Candidates(realized)
      PROVE  /\ HarvestedOf(s.gains, lot) <= T!LotAt(lot).quantity
             /\ \/ HarvestedOf(s.gains, lot) = T!LotAt(lot).quantity
                \/ T!LotAt(lot).gain = 0
                \/ realized + Earned(s.gains) + T!LotAt(lot).gain > Exemption
  <2>1. lot \in T!AllLots /\ room # 0
    BY DEF T!Candidates, room
  <2>2. T!LotAt(lot).gain \in Int /\ T!LotAt(lot).quantity \in Nat
    BY <1>3, <2>1, LotsAreLots DEF T!TaxLot
  <2>3. PICK i \in 1 .. Len(order) : order[i] = lot
    BY OrderIsAll
  <2>4. HarvestedOf(s.gains, lot) \in 0 .. T!LotAt(lot).quantity
    BY <1>4, <2>1 DEF WithinBudget
  <2>5. \/ HarvestedOf(s.gains, lot) = T!LotAt(lot).quantity
        \/ T!LotAt(lot).gain = 0
        \/ s.budget < T!LotAt(lot).gain
    BY <1>4, <2>3 DEF WithinBudget
  <2> QED
    BY <1>3, <1>5, <1>6, <2>1, <2>2, <2>4, <2>5
<1>9. \A empty : Fills(realized, s.gains, empty)
  BY <1>8 DEF Fills
<1>10. UNCHANGED <<taxDay, lots, sale, liability>>
  BY DEF T!AskHarvest
<1>11. advice'.realized = realized /\ advice'.on = taxDay /\ advice'.gains = s.gains
  BY <1>2 DEF s
<1>12. IsFree(advice.realized, advice.gains)'
  BY <1>7, <1>10, <1>11, LotsStand DEF IsFree
<1>13. Fills(advice.realized, advice.gains, advice = T!NoAdvice)'
  BY <1>9, <1>10, <1>11, AdviceStands
<1>14. IsSplit(lots[sale.holding], sale.quantity, sale.taken)'
  BY <1>10 DEF TInv
<1>15. /\ (taxDay \in 0 .. LastDay)' /\ (lots \in [Holdings -> LotChoices])' /\ (sale.holding \in Holdings)'
       /\ (sale.quantity \in 0 .. MaxQuantity)' /\ (sale.short \in 0 .. MaxQuantity)'
       /\ (liability.total \in Nat)'
  BY <1>10 DEF TInv
<1>16. (advice.realized \in Realized \union {0})' /\ (advice.on \in Int)' /\ (advice.on <= taxDay)'
  BY <1>3, <1>10, <1>11
<1> QED
  BY <1>12, <1>13, <1>14, <1>15, <1>16 DEF TInv

\* The tax shown is a number.
LEMMA TaxIsNat ==
  ASSUME T!LotsAssumption, TInv, NEW h \in Holdings PROVE T!ShortTax(h) + T!LongTax(h) \in Nat
<1>1. lots[h] \in Seq(T!TaxLot)
  BY LotsOfHolding DEF TInv
<1>2. ASSUME NEW S \in SUBSET (DOMAIN lots[h])
      PROVE  SumFunctionOnSet([i \in S |-> T!Value(lots[h][i])], S) \in Int
  <2> DEFINE f == [i \in S |-> T!Value(lots[h][i])]
  <2>1. DOMAIN lots[h] = 1 .. Len(lots[h]) /\ IsFiniteSet(DOMAIN lots[h])
    <3>1. \A k \in Nat : IsFiniteSet(1 .. k)
      BY FS_Interval
    <3> HIDE DEF f
    <3> QED
      BY <1>1, <3>1
  <2>2. IsFiniteSet(S)
    BY <2>1, FS_Subset
  <2>3. \A i \in S : f[i] \in Int
    <3> SUFFICES ASSUME NEW i \in S PROVE T!Value(lots[h][i]) \in Int
      OBVIOUS
    <3>1. lots[h][i] \in T!TaxLot
      BY <1>1, <2>1, ElementOfSeq
    <3> QED
      BY <3>1 DEF T!TaxLot, T!Value
  <2> HIDE DEF f
  <2>4. SumFunctionOnSet(f, S) \in Int
    BY <2>2, <2>3, SumType
  <2> QED
    BY <2>4 DEF f
<1> DEFINE short == T!GainOf(h, FALSE)
           long == T!GainOf(h, TRUE)
<1>3. short \in Int /\ long \in Int
  BY <1>2, SameTaxSums DEF T!GainOf, T!Total, T!LotsOf
<1>4. T!ShortTax(h) = HalfUp(T!Above(short, 0) * 20, 1) /\ T!LongTax(h) = HalfUp(T!Above(long, Exemption) * 125, 10)
  BY DEF T!ShortTax, T!LongTax, T!HalfUp, HalfUp, T!Abs, Abs
<1> HIDE DEF short, long
<1>5. T!Above(short, 0) \in Nat /\ T!Above(long, Exemption) \in Nat
  BY <1>3 DEF T!Above, T!LotsAssumption
<1>6. \A n \in Nat : HalfUp(n * 20, 1) \in Nat /\ HalfUp(n * 125, 10) \in Nat
  BY DEF HalfUp, Abs
<1> QED
  BY <1>4, <1>5, <1>6

\* A summary changes nothing else.
LEMMA SummaryKeeps == ASSUME T!LotsAssumption, TInv, T!AskSummary PROVE TInv'
<1> DEFINE f == [h \in Holdings |-> T!ShortTax(h) + T!LongTax(h)]
<1>1. liability'.total = SumFunctionOnSet(f, Holdings) /\ UNCHANGED <<taxDay, lots, sale, advice>>
  BY SameTaxSums DEF T!AskSummary, T!Total
<1>2. IsFiniteSet(Holdings) /\ \A h \in Holdings : f[h] \in Nat
  BY SameTaxSums, TaxIsNat DEF T!LotsAssumption
<1> HIDE DEF f
<1>3. liability'.total \in Nat
  <2>1. SumFunctionOnSet(f, Holdings) \in Nat
    BY <1>2, SumType
  <2> QED
    BY <1>1, <2>1
<1>4. IsFree(advice.realized, advice.gains)'
  BY <1>1, LotsStand DEF TInv, IsFree
<1>5. (advice.on = taxDay => Fills(advice.realized, advice.gains, advice = T!NoAdvice))'
  <2>1. T!NoAdvice' = T!NoAdvice
    BY DEF T!NoAdvice
  <2> QED
    BY <1>1, <2>1, AdviceStands DEF TInv
<1>6. IsSplit(lots[sale.holding], sale.quantity, sale.taken)'
  BY <1>1 DEF TInv
<1>7. /\ (taxDay \in 0 .. LastDay)' /\ (lots \in [Holdings -> LotChoices])' /\ (sale.holding \in Holdings)'
      /\ (sale.quantity \in 0 .. MaxQuantity)' /\ (sale.short \in 0 .. MaxQuantity)'
      /\ (advice.realized \in Realized \union {0})' /\ (advice.on \in Int)' /\ (advice.on <= taxDay)'
  BY <1>1 DEF TInv
<1> QED
  BY <1>3, <1>4, <1>5, <1>6, <1>7 DEF TInv

\* Every step of the tax estimates keeps all of it.
LEMMA NextT == ASSUME T!LotsAssumption PROVE TInv /\ [T!Next]_T!vars => TInv'
<1> SUFFICES ASSUME TInv, [T!Next]_T!vars PROVE TInv'
  OBVIOUS
<1>1. CASE UNCHANGED T!vars
  <2>1. UNCHANGED <<taxDay, lots, sale, advice, liability>>
    BY <1>1 DEF T!vars
  <2>2. IsFree(advice.realized, advice.gains)'
    BY <2>1, LotsStand DEF TInv, IsFree
  <2>3. (advice.on = taxDay => Fills(advice.realized, advice.gains, advice = T!NoAdvice))'
    <3>1. T!NoAdvice' = T!NoAdvice
      BY DEF T!NoAdvice
    <3> QED
      BY <2>1, <3>1, AdviceStands DEF TInv
  <2> QED
    BY <2>1, <2>2, <2>3 DEF TInv
<1>2. CASE T!Next
  BY <1>2, SaleKeeps, HarvestKeeps, SummaryKeeps, DayKeeps DEF T!Next
<1> QED
  BY <1>1, <1>2

-----------------------------------------------------------------------------
(* The arithmetic of a unit NAV *)

\* The operators of the library, likewise.
LEMMA SameSnapshotOps ==
  /\ \A f, S : N!SumFunctionOnSet(f, S) = SumFunctionOnSet(f, S)
  /\ \A S : N!Cardinality(S) = Cardinality(S) /\ N!Max(S) = Max(S)
  /\ \A n : N!Abs(n) = Abs(n)
  /\ \A n, d : N!HalfUp(n, d) = HalfUp(n, d)
BY DEF N!SumFunctionOnSet, N!FoldFunctionOnSet, N!MapThenFoldSet, SumFunctionOnSet,
       FoldFunctionOnSet, MapThenFoldSet, N!Cardinality, Cardinality, N!Max, Max, N!Abs, Abs,
       N!HalfUp, HalfUp

\* Rounding is off by no more than half.
LEMMA HalfUpIsNear ==
  ASSUME NEW n \in Int, NEW d \in Nat, d > 0
  PROVE  /\ HalfUp(n, d) \in Int /\ 2 * (HalfUp(n, d) * d - n) \in -d .. d
         /\ n >= 0 => HalfUp(n, d) \in Nat
<1> DEFINE m == Abs(n)
           a == 2 * m + d
           b == 2 * d
           up == a \div b
<1>1. m \in Nat /\ a \in Nat /\ b \in Nat /\ b > 0
  BY DEF Abs
<1>2. up \in Nat /\ b * up <= a /\ a < b * up + b
  <2> HIDE DEF a, b
  <2> QED
    BY <1>1
<1>3. HalfUp(n, d) = IF n < 0 THEN -up ELSE up
  BY DEF HalfUp
<1> HIDE DEF up, m
<1>4. up * d \in Int /\ b * up = 2 * (up * d)
  BY <1>2
<1>5. 2 * (up * d) - 2 * m \in -d .. d
  BY <1>1, <1>2, <1>4
<1>6. CASE n < 0
  <2>1. m = -n /\ HalfUp(n, d) = -up /\ (-up) * d = -(up * d)
    BY <1>2, <1>3, <1>6 DEF m, Abs
  <2> QED
    BY <1>2, <1>4, <1>5, <1>6, <2>1
<1>7. CASE n >= 0
  <2>1. m = n /\ HalfUp(n, d) = up
    BY <1>3, <1>7 DEF m, Abs
  <2> QED
    BY <1>2, <1>4, <1>5, <2>1
<1> QED
  BY <1>6, <1>7

\* The scale of a unit's value: units have three decimals and the unit NAV one.
Scale == 10000

\* Units issued for what comes in, at the unit NAV there is, leave the unit NAV where it
\* is but for the rounding of the units and of the two unit NAVs.
LEMMA UnitNavStands ==
  ASSUME NEW units \in Nat, units > 0, NEW value \in Nat, value > 0, NEW worth \in Int, NEW flow \in Int,
         2 * (value * units - Scale * worth) \in -units .. units,
         2 * Scale * (worth + flow) > units + value,
         NEW issued \in Int, issued = IF flow = 0 THEN 0 ELSE HalfUp(flow * Scale, value)
  PROVE  LET now == units + issued
             then == HalfUp((worth + flow) * Scale, now)
         IN  now > 0 /\ 2 * now * Abs(then - value) <= units + value + now
<1> DEFINE now == units + issued
           then == HalfUp((worth + flow) * Scale, now)
<1>1. issued * value \in Int /\ 2 * (issued * value - Scale * flow) \in -value .. value
  <2>1. CASE flow = 0
    BY <2>1 DEF Scale
  <2>2. CASE flow # 0
    <3>1. flow * Scale \in Int /\ flow * Scale = Scale * flow
      BY DEF Scale
    <3>2. 2 * (HalfUp(flow * Scale, value) * value - flow * Scale) \in -value .. value
      BY <3>1, HalfUpIsNear
    <3> QED
      BY <2>2, <3>1, <3>2
  <2> QED
    BY <2>1, <2>2
<1>2. now \in Int /\ now * value = value * units + issued * value /\ value * units \in Int /\ now * value \in Int
  OBVIOUS
<1>3. Scale * worth \in Int /\ Scale * flow \in Int /\ (worth + flow) * Scale = Scale * worth + Scale * flow
      /\ 2 * Scale * (worth + flow) = 2 * (Scale * worth + Scale * flow)
      /\ (worth + flow) * Scale \in Int
  BY DEF Scale
<1> HIDE DEF now, then, Scale
<1>4. 2 * (now * value) - 2 * (Scale * worth + Scale * flow) \in -(units + value) .. (units + value)
  BY <1>1, <1>2, <1>3
<1>5. now * value > 0
  BY <1>2, <1>3, <1>4
<1>6. now > 0
  <2> SUFFICES ASSUME now <= 0 PROVE FALSE
    BY <1>2
  <2>1. now * value <= 0
    BY <1>2
  <2> QED
    BY <1>2, <1>5, <2>1
<1>7. then \in Int /\ 2 * (then * now - (worth + flow) * Scale) \in -now .. now
  <2> DEFINE whole == (worth + flow) * Scale
  <2>1. now \in Nat /\ whole \in Int
    BY <1>2, <1>3, <1>6
  <2>2. then = HalfUp(whole, now)
    BY DEF then
  <2> HIDE DEF whole
  <2>3. then \in Int /\ 2 * (then * now - whole) \in -now .. now
    BY <1>6, <2>1, <2>2, HalfUpIsNear
  <2> QED
    BY <2>3 DEF whole
<1>8. then * now \in Int /\ now * (then - value) = then * now - now * value
  BY <1>2, <1>7
<1>9. 2 * (now * (then - value)) \in -(units + value + now) .. (units + value + now)
  BY <1>2, <1>3, <1>4, <1>7, <1>8
<1>10. 2 * now * Abs(then - value) <= units + value + now
  <2>1. then - value \in Int /\ now * (then - value) \in Int
    BY <1>2, <1>7
  <2>2. CASE then - value < 0
    <3>1. Abs(then - value) = -(then - value) /\ 2 * now * (-(then - value)) = -(2 * (now * (then - value)))
      BY <1>2, <2>1, <2>2 DEF Abs
    <3> QED
      BY <1>2, <1>9, <2>1, <3>1
  <2>3. CASE ~(then - value < 0)
    <3>1. Abs(then - value) = then - value /\ 2 * now * (then - value) = 2 * (now * (then - value))
      BY <1>2, <2>1, <2>3 DEF Abs
    <3> QED
      BY <1>2, <1>9, <2>1, <3>1
  <2> QED
    BY <2>2, <2>3
<1> QED
  BY <1>6, <1>10 DEF now, then

-----------------------------------------------------------------------------
(* The ledger and the snapshots *)

\* The rows of the two tables.
SnapshotRow == [nav : Nat, units : Nat, unitNav : Nat, flow : Int, base : N!Days \union {0 - 1}]
FlowRow == [line : [day : N!Days, kind : Kinds, amount : Amounts], day : N!Days,
            source : {"manual", "ledger"}, copy : {0}]

\* A flow is the movement of its day.
FlowsAreMoves ==
  /\ IsFiniteSet(flows) /\ flows \subseteq FlowRow
  /\ \A f \in flows : f.line = N!Line(f.day) /\ moved[f.day].amount # 0

\* The row a day would have with a net worth and a flow.
RowOf(worth, flow, d) ==
  IF N!Prior(d) = {}
  THEN [nav |-> worth, unitNav |-> N!BaseNav, flow |-> flow, base |-> 0 - 1,
        units |-> IF worth > 0 THEN HalfUp(worth * N!UnitScale, 100) ELSE N!UnitScale]
  ELSE LET prev == snaps[Max(N!Prior(d))]
           units == IF N!Units(prev, flow) > 0 THEN N!Units(prev, flow) ELSE N!UnitScale
       IN  [nav |-> worth, units |-> units, flow |-> flow, base |-> Max(N!Prior(d)),
            unitNav |-> HalfUp(worth * N!UnitScale * N!NavScale, units)]

\* The unit NAV of a row is its value by the unit, and its units are those of the row it
\* rests on and what came in since.
IsSound(r) ==
  /\ r.units > 0
  /\ r.nav > 0 => 2 * (r.unitNav * r.units - Scale * r.nav) \in -(r.units) .. r.units
  /\ r.base # 0 - 1 =>
       LET issued == N!Units(snaps[r.base], r.flow)
       IN  /\ r.units = IF issued > 0 THEN issued ELSE N!UnitScale
           /\ r.unitNav = HalfUp(r.nav * N!UnitScale * N!NavScale, r.units)

SInv ==
  /\ date \in N!Days /\ nav \in Nat
  /\ moved \in [N!Days -> [kind : Kinds, amount : {0} \union Amounts]]
  /\ snaps \in [N!Days -> SnapshotRow]
  /\ N!Recorded \subseteq 0 .. date
  /\ FlowsAreMoves
  /\ date \in N!Recorded => snaps[date] = RowOf(snaps[date].nav, snaps[date].flow, date)
  /\ \A d \in N!Recorded : IsSound(snaps[d]) /\ (snaps[d].base # 0 - 1 => snaps[d].base \in N!Recorded /\ snaps[d].base < d)

\* What comes in on a day is a number.
LEMMA FlowIsInt == ASSUME N!SnapshotAssumption, SInv, NEW d PROVE N!NetFlow(d) \in Int
<1> DEFINE S == {f \in flows : f.day = d}
           g == [f \in S |-> N!Signed(f.line.kind, f.line.amount)]
<1>1. IsFiniteSet(S)
  BY FS_Subset DEF SInv, FlowsAreMoves
<1>2. \A f \in S : g[f] \in Int
  <2> SUFFICES ASSUME NEW f \in S PROVE N!Signed(f.line.kind, f.line.amount) \in Int
    OBVIOUS
  <2>1. f.line.kind \in Kinds /\ f.line.amount \in Nat
    BY DEF SInv, FlowsAreMoves, FlowRow, N!SnapshotAssumption
  <2> QED
    BY <2>1 DEF N!Signed
<1> HIDE DEF g, S
<1>3. SumFunctionOnSet(g, S) \in Int
  BY <1>1, <1>2, SumType
<1> QED
  BY <1>3, SameSnapshotOps DEF N!NetFlow, g, S

\* The rows before a day.
LEMMA PriorIs ==
  ASSUME N!SnapshotAssumption, SInv, NEW d \in N!Days, N!Prior(d) # {}
  PROVE  Max(N!Prior(d)) \in N!Recorded /\ Max(N!Prior(d)) < d /\ Max(N!Prior(d)) \in N!Days
<1>1. N!Prior(d) \in SUBSET (0 .. LastDay) /\ N!Prior(d) \subseteq N!Recorded /\ \A x \in N!Prior(d) : x < d
  BY DEF N!Prior, N!Visible, N!Recorded, N!Days
<1>2. Max(N!Prior(d)) \in N!Prior(d)
  BY <1>1, MaxIs DEF N!SnapshotAssumption
<1> QED
  BY <1>1, <1>2 DEF N!Days

\* Units are an integer, whatever came in.
LEMMA UnitsAreInt ==
  ASSUME NEW prev \in SnapshotRow, NEW flow \in Int
  PROVE  /\ N!Units(prev, flow) \in Int
         /\ prev.unitNav > 0 =>
              N!Units(prev, flow) = prev.units + (IF flow = 0 THEN 0 ELSE HalfUp(flow * Scale, prev.unitNav))
<1>1. prev.units \in Nat /\ prev.unitNav \in Nat
  BY DEF SnapshotRow
<1>2. flow * N!UnitScale * N!NavScale = flow * Scale /\ flow * Scale \in Int
  BY DEF N!UnitScale, N!NavScale, Scale
<1>3. prev.unitNav > 0 => HalfUp(flow * Scale, prev.unitNav) \in Int
  BY <1>1, <1>2, HalfUpIsNear
<1>4. N!Units(prev, flow) = IF prev.unitNav > 0 /\ flow # 0
                            THEN prev.units + HalfUp(flow * Scale, prev.unitNav) ELSE prev.units
  BY <1>2, SameSnapshotOps DEF N!Units
<1> HIDE DEF Scale
<1> QED
  BY <1>1, <1>3, <1>4

\* A row as record_daily_eod_snapshot makes it is a sound one.
LEMMA NewRowIsSound ==
  ASSUME N!SnapshotAssumption, SInv, NEW worth \in Nat, NEW flow \in Int
  PROVE  LET r == RowOf(worth, flow, date)
         IN  /\ r \in SnapshotRow /\ IsSound(r) /\ r.nav = worth /\ r.flow = flow
             /\ r.base # 0 - 1 => r.base \in N!Recorded /\ r.base < date
<1> DEFINE r == RowOf(worth, flow, date)
<1>1. CASE N!Prior(date) = {}
  <2> DEFINE units == IF worth > 0 THEN HalfUp(worth * N!UnitScale, 100) ELSE N!UnitScale
  <2>1. r = [nav |-> worth, unitNav |-> N!BaseNav, flow |-> flow, base |-> 0 - 1, units |-> units]
    BY <1>1 DEF RowOf
  <2>2. units \in Nat /\ units > 0 /\ (worth > 0 => units = 10 * worth)
    BY DEF HalfUp, Abs, N!UnitScale
  <2>3. N!BaseNav = 1000
    BY DEF N!BaseNav, N!NavScale
  <2> HIDE DEF units
  <2>4. r.nav = worth /\ r.unitNav = 1000 /\ r.flow = flow /\ r.base = 0 - 1 /\ r.units = units /\ r \in SnapshotRow
    BY <2>1, <2>2, <2>3 DEF SnapshotRow
  <2>5. worth > 0 => 2 * (1000 * units - Scale * worth) \in -units .. units
    BY <2>2 DEF Scale
  <2> HIDE DEF r
  <2>6. IsSound(r)
    BY <2>2, <2>4, <2>5 DEF IsSound
  <2> QED
    BY <2>4, <2>6 DEF r
<1>2. CASE N!Prior(date) # {}
  <2> DEFINE p == Max(N!Prior(date))
             prev == snaps[p]
             issued == N!Units(prev, flow)
             units == IF issued > 0 THEN issued ELSE N!UnitScale
             value == HalfUp(worth * N!UnitScale * N!NavScale, units)
  <2>1. p \in N!Recorded /\ p < date /\ p \in N!Days /\ p # 0 - 1
    BY <1>2, PriorIs DEF SInv, N!Days
  <2>2. prev \in SnapshotRow
    BY <2>1 DEF SInv
  <2>3. r = [nav |-> worth, units |-> units, flow |-> flow, base |-> p, unitNav |-> value]
    BY <1>2 DEF RowOf
  <2> HIDE DEF p, prev
  <2>4. units \in Nat /\ units > 0
    BY <2>2, UnitsAreInt DEF N!UnitScale
  <2> HIDE DEF issued
  <2>5. worth * N!UnitScale * N!NavScale = Scale * worth /\ Scale * worth \in Nat
    BY DEF N!UnitScale, N!NavScale, Scale
  <2>6. value \in Nat /\ 2 * (value * units - Scale * worth) \in -units .. units
    <3> HIDE DEF units
    <3> QED
      BY <2>4, <2>5, HalfUpIsNear
  <2>7. value = HalfUp(worth * N!UnitScale * N!NavScale, units)
    OBVIOUS
  <2>8. units = IF issued > 0 THEN issued ELSE N!UnitScale
    OBVIOUS
  <2> HIDE DEF units, value
  <2>9. r.nav = worth /\ r.units = units /\ r.flow = flow /\ r.base = p /\ r.unitNav = value /\ r \in SnapshotRow
    BY <2>1, <2>3, <2>4, <2>6 DEF SnapshotRow
  <2> HIDE DEF r
  <2>10. IsSound(r)
    BY <2>4, <2>6, <2>7, <2>8, <2>9 DEF IsSound, issued, prev
  <2> QED
    BY <2>1, <2>9, <2>10 DEF r
<1> QED
  BY <1>1, <1>2

\* It all begins with nothing recorded.
LEMMA InitS == ASSUME N!SnapshotAssumption PROVE N!Init => SInv
<1> SUFFICES ASSUME N!Init PROVE SInv
  OBVIOUS
<1>1. /\ date = 0 /\ nav = StartNav /\ moved = [d \in N!Days |-> N!NoMove] /\ flows = {}
      /\ snaps = [d \in N!Days |-> N!NoRow]
  BY DEF N!Init
<1>2. N!NoMove \in [kind : Kinds, amount : {0} \union Amounts] /\ N!NoRow \in SnapshotRow /\ N!NoRow.units = 0
  BY DEF N!NoMove, N!NoRow, SnapshotRow, N!SnapshotAssumption
<1>3. N!Recorded = {}
  BY <1>1, <1>2 DEF N!Recorded
<1>4. FlowsAreMoves
  BY <1>1, FS_EmptySet DEF FlowsAreMoves
<1> QED
  BY <1>1, <1>2, <1>3, <1>4 DEF SInv, N!SnapshotAssumption, N!Days

\* With the days before a day as they were, so is the row the day would have.
LEMMA RowStands ==
  ASSUME SInv, snaps' \in [N!Days -> SnapshotRow], NEW d \in N!Days,
         \A x \in N!Days : x < d => snaps'[x] = snaps[x]
  PROVE  N!Prior(d)' = N!Prior(d) /\ \A worth, flow : RowOf(worth, flow, d)' = RowOf(worth, flow, d)
<1>1. \A x \in N!Days : x \in Int
  BY DEF N!Days
<1>2. \A x \in N!Days : x < d => (x \in N!Recorded' <=> x \in N!Recorded)
  BY DEF N!Recorded
<1>3. N!Recorded \subseteq N!Days /\ N!Recorded' \subseteq N!Days
  BY DEF N!Recorded
<1>4. ASSUME NEW x \in N!Days, x < d
      PROVE  {y \in N!Recorded' : y < x} = {y \in N!Recorded : y < x}
  <2>1. \A y \in N!Days : y < x => y < d
    BY <1>1, <1>4
  <2> QED
    BY <1>2, <1>3, <2>1
<1>5. N!Prior(d)' = N!Prior(d)
  <2>1. \A x \in N!Days : x < d => (x \in N!Visible' <=> x \in N!Visible)
    BY <1>2, <1>4 DEF N!Visible
  <2>2. N!Visible \subseteq N!Days /\ N!Visible' \subseteq N!Days
    BY <1>3 DEF N!Visible
  <2> QED
    BY <2>1, <2>2 DEF N!Prior
<1>6. N!Prior(d) # {} => Max(N!Prior(d)) \in N!Days /\ Max(N!Prior(d)) < d
  <2> SUFFICES ASSUME N!Prior(d) # {} PROVE Max(N!Prior(d)) \in N!Days /\ Max(N!Prior(d)) < d
    OBVIOUS
  <2>1. N!Prior(d) \in SUBSET (0 .. LastDay) /\ \A x \in N!Prior(d) : x < d
    BY <1>3 DEF N!Prior, N!Visible, N!Days
  <2>2. LastDay \in Nat
    BY PlanningAssumption DEF PlanningAssumption, N!SnapshotAssumption
  <2>3. Max(N!Prior(d)) \in N!Prior(d)
    BY <2>1, <2>2, MaxIs
  <2> QED
    BY <2>1, <2>3 DEF N!Days
<1>7. N!Prior(d) # {} => snaps'[Max(N!Prior(d))] = snaps[Max(N!Prior(d))]
  BY <1>6
<1>8. \A prev, flow : N!Units(prev, flow)' = N!Units(prev, flow)
  BY DEF N!Units
<1> QED
  BY <1>5, <1>7, <1>8 DEF RowOf

\* Rows that stand on rows that stand are as sound as they were.
LEMMA SoundStands ==
  ASSUME NEW r, r.base # 0 - 1 => snaps'[r.base] = snaps[r.base], IsSound(r)
  PROVE  IsSound(r)'
BY DEF IsSound, N!Units

\* What does not touch the rows and the day keeps what is said of them.
RowsKept ==
  /\ snaps \in [N!Days -> SnapshotRow] /\ N!Recorded \subseteq 0 .. date
  /\ date \in N!Recorded => snaps[date] = RowOf(snaps[date].nav, snaps[date].flow, date)
  /\ \A d \in N!Recorded : IsSound(snaps[d]) /\ (snaps[d].base # 0 - 1 => snaps[d].base \in N!Recorded /\ snaps[d].base < d)

\* What touches neither the rows nor the day keeps what is said of them.
LEMMA RowsStay == ASSUME SInv, UNCHANGED <<date, snaps>> PROVE RowsKept'
<1>1. date \in N!Days /\ snaps' \in [N!Days -> SnapshotRow] /\ RowsKept
  BY DEF SInv, RowsKept
<1>2. \A worth, flow : RowOf(worth, flow, date)' = RowOf(worth, flow, date)
  BY <1>1, RowStands
<1>3. N!Recorded' = N!Recorded
  BY DEF N!Recorded
<1>4. \A r : IsSound(r) => IsSound(r)'
  BY SoundStands
<1> QED
  BY <1>1, <1>2, <1>3, <1>4 DEF RowsKept

\* The record of a day: the earlier rows stand.
LEMMA RecordKeeps == ASSUME N!SnapshotAssumption, SInv, N!Record PROVE SInv'
<1>0. PICK r : r = RowOf(nav, N!NetFlow(date), date)
  OBVIOUS
<1>1. snaps' = [snaps EXCEPT ![date] = N!Row(date)] /\ UNCHANGED <<date, nav, moved, flows>>
  BY DEF N!Record
<1>2. N!Row(date) = r
  BY <1>0, SameSnapshotOps DEF N!Row, RowOf
<1>3. r \in SnapshotRow /\ IsSound(r) /\ (r.base # 0 - 1 => r.base \in N!Recorded /\ r.base < date)
      /\ r.nav = nav /\ r.flow = N!NetFlow(date)
  BY <1>0, FlowIsInt, NewRowIsSound DEF SInv
<1>4. date \in N!Days /\ date \in Nat /\ snaps \in [N!Days -> SnapshotRow]
  BY DEF SInv, N!Days
<1>5. snaps' \in [N!Days -> SnapshotRow] /\ snaps'[date] = r /\ \A x \in N!Days : x # date => snaps'[x] = snaps[x]
  BY <1>1, <1>2, <1>3, <1>4
<1>6. N!Recorded' = N!Recorded \union {date} /\ N!Recorded \subseteq N!Days
  <2>1. r.units # 0
    BY <1>3 DEF SnapshotRow, IsSound
  <2>2. \A x \in N!Days : x \in N!Recorded' <=> x = date \/ x \in N!Recorded
    BY <1>5, <2>1 DEF N!Recorded
  <2>3. N!Recorded \subseteq N!Days /\ N!Recorded' \subseteq N!Days
    BY DEF N!Recorded
  <2> QED
    BY <1>4, <2>2, <2>3
<1>7. \A x \in N!Days : x < date => snaps'[x] = snaps[x]
  BY <1>4, <1>5
<1>8. \A worth, flow : RowOf(worth, flow, date)' = RowOf(worth, flow, date)
  <2>0. PICK d : d = date
    OBVIOUS
  <2>1. \A worth, flow : RowOf(worth, flow, d)' = RowOf(worth, flow, d)
    BY <1>4, <1>5, <1>7, <2>0, RowStands
  <2> QED
    BY <1>1, <2>0, <2>1
<1>9. ASSUME NEW d \in N!Recorded'
      PROVE  IsSound(snaps[d])' /\ (snaps'[d].base # 0 - 1 => snaps'[d].base \in N!Recorded' /\ snaps'[d].base < d)
  <2>1. CASE d = date
    <3>1. r.base # 0 - 1 => snaps'[r.base] = snaps[r.base]
      <4> SUFFICES ASSUME r.base # 0 - 1 PROVE snaps'[r.base] = snaps[r.base]
        OBVIOUS
      <4>1. r.base \in N!Days /\ r.base < date
        BY <1>3, <1>6
      <4>2. r.base \in Nat
        BY <4>1 DEF N!Days
      <4>3. r.base # date
        BY <1>4, <4>1, <4>2
      <4> QED
        BY <1>5, <4>1, <4>3
    <3>2. IsSound(r)'
      BY <1>3, <3>1, SoundStands
    <3> QED
      BY <1>3, <1>5, <1>6, <2>1, <3>2
  <2>2. CASE d # date
    <3>0. PICK s : s = snaps[d]
      OBVIOUS
    <3>1. d \in N!Recorded /\ d \in 0 .. date /\ d \in N!Days
      BY <1>6, <2>2 DEF SInv
    <3>2. IsSound(s) /\ (s.base # 0 - 1 => s.base \in N!Recorded /\ s.base < d)
      BY <3>0, <3>1 DEF SInv
    <3>3. snaps'[d] = s
      BY <1>5, <2>2, <3>0, <3>1
    <3>4. s.base # 0 - 1 => s.base \in N!Days /\ s.base # date
      <4> SUFFICES ASSUME s.base # 0 - 1 PROVE s.base \in N!Days /\ s.base # date
        OBVIOUS
      <4>1. s.base \in N!Days /\ s.base < d
        BY <1>6, <3>2
      <4>2. s.base \in Nat
        BY <4>1 DEF N!Days
      <4> QED
        BY <1>4, <3>1, <4>1, <4>2
    <3>5. s.base # 0 - 1 => snaps'[s.base] = snaps[s.base]
      BY <1>5, <3>4
    <3>6. IsSound(s)'
      BY <3>2, <3>5, SoundStands
    <3> QED
      BY <1>6, <3>2, <3>3, <3>6
  <2> QED
    BY <2>1, <2>2
<1>10. (date \in N!Recorded => snaps[date] = RowOf(snaps[date].nav, snaps[date].flow, date))'
  <2>1. r = RowOf(r.nav, r.flow, date)
    BY <1>0, <1>3
  <2> QED
    BY <1>1, <1>5, <1>8, <2>1
<1>11. (N!Recorded \subseteq 0 .. date)'
  BY <1>1, <1>4, <1>6 DEF SInv
<1>12. FlowsAreMoves'
  BY <1>1 DEF SInv, FlowsAreMoves, N!Line
<1> QED
  BY <1>1, <1>5, <1>9, <1>10, <1>11, <1>12 DEF SInv

\* On a new day nothing is recorded yet.
LEMMA SnapshotDayKeeps == ASSUME N!SnapshotAssumption, SInv, N!NewDay PROVE SInv'
<1>1. date < LastDay /\ date' = date + 1 /\ UNCHANGED <<moved, flows, snaps>>
  BY DEF N!NewDay
<1>2. date \in Nat /\ date' \in N!Days /\ LastDay \in Nat
  BY <1>1 DEF SInv, N!Days, N!SnapshotAssumption
<1>3. nav' \in Nat
  <2>1. PICK g \in Gains : nav' = N!Max({0, nav + g})
    BY DEF N!NewDay
  <2>2. nav + g \in Int
    BY DEF SInv, N!SnapshotAssumption
  <2> DEFINE x == nav + g
             m == IF x > 0 THEN x ELSE 0
  <2>3. m \in {0, x} /\ \A y \in {0, x} : m >= y
    BY <2>2
  <2>4. N!Max({0, x}) \in {0, x} /\ \A y \in {0, x} : N!Max({0, x}) >= y
    <3> HIDE DEF m, x
    <3> QED
      BY <2>3 DEF N!Max
  <2> QED
    BY <2>1, <2>2, <2>4
<1>4. N!Recorded' = N!Recorded /\ N!Recorded \subseteq 0 .. date /\ date' \notin N!Recorded'
  <2>1. N!Recorded' = N!Recorded /\ N!Recorded \subseteq 0 .. date
    BY <1>1 DEF N!Recorded, SInv
  <2>2. date' \notin 0 .. date
    BY <1>1, <1>2
  <2> QED
    BY <2>1, <2>2
<1>5. \A r : IsSound(r) => IsSound(r)'
  BY <1>1, SoundStands
<1>6. FlowsAreMoves'
  BY <1>1 DEF SInv, FlowsAreMoves, N!Line
<1>7. (N!Recorded \subseteq 0 .. date)'
  BY <1>1, <1>2, <1>4
<1> QED
  BY <1>1, <1>2, <1>3, <1>4, <1>5, <1>6, <1>7 DEF SInv

\* Cash moves on a day for which there is no flow yet.
LEMMA MoveKeeps ==
  ASSUME N!SnapshotAssumption, SInv, NEW k \in Kinds, NEW a \in Amounts, N!Move(k, a) PROVE SInv'
<1>1. /\ moved[date].amount = 0 /\ nav' >= 0 /\ UNCHANGED <<date, flows, snaps>>
      /\ nav' = nav + (IF k = "DIVIDEND" THEN a ELSE N!Signed(k, a))
      /\ moved' = [moved EXCEPT ![date] = [kind |-> k, amount |-> a]]
  BY DEF N!Move
<1>2. nav' \in Nat
  <2>1. a \in Nat /\ nav \in Nat
    BY DEF N!SnapshotAssumption, SInv
  <2>2. N!Signed(k, a) \in Int
    BY <2>1 DEF N!Signed
  <2> QED
    BY <1>1, <2>1, <2>2
<1>3. /\ moved' \in [N!Days -> [kind : Kinds, amount : {0} \union Amounts]]
      /\ \A d \in N!Days : d # date => moved'[d] = moved[d]
  BY <1>1 DEF SInv
<1>4. FlowsAreMoves'
  <2>1. \A f \in flows : f.day \in N!Days /\ f.day # date /\ f.line = N!Line(f.day) /\ moved[f.day].amount # 0
    BY <1>1 DEF SInv, FlowsAreMoves, FlowRow
  <2>2. \A f \in flows : moved'[f.day] = moved[f.day]
    BY <1>3, <2>1
  <2>3. \A f \in flows : f.line = N!Line(f.day)' /\ moved'[f.day].amount # 0
    BY <2>1, <2>2 DEF N!Line
  <2> QED
    BY <1>1, <2>3 DEF SInv, FlowsAreMoves
<1>5. RowsKept' /\ date' \in N!Days
  BY <1>1, RowsStay DEF SInv
<1> QED
  BY <1>2, <1>3, <1>4, <1>5 DEF SInv, RowsKept

\* What is added to the flows is the movement of a day.
FlowOf(d, source) == [line |-> N!Line(d), day |-> d, source |-> source, copy |-> 0]

\* New rows of the ledger, each of a move there was, leave the snapshots alone.
LEMMA MoreFlows ==
  ASSUME N!SnapshotAssumption, SInv, UNCHANGED <<date, nav, moved, snaps>>, NEW S, IsFiniteSet(S),
         flows' = flows \union S,
         \A f \in S : \E d \in N!Days, source \in {"manual", "ledger"} : moved[d].amount # 0 /\ f = FlowOf(d, source)
  PROVE  SInv'
<1>1. ASSUME NEW f \in S PROVE f \in FlowRow /\ f.line = N!Line(f.day) /\ moved[f.day].amount # 0
  <2>1. PICK d \in N!Days, source \in {"manual", "ledger"} : moved[d].amount # 0 /\ f = FlowOf(d, source)
    BY <1>1
  <2>2. moved[d].kind \in Kinds /\ moved[d].amount \in Amounts
    BY <2>1 DEF SInv
  <2>3. N!Line(d) \in [day : N!Days, kind : Kinds, amount : Amounts]
    BY <2>2 DEF N!Line
  <2>4. f.line = N!Line(d) /\ f.day = d
    BY <2>1 DEF FlowOf
  <2>5. f \in FlowRow
    BY <2>1, <2>3 DEF FlowOf, FlowRow
  <2> QED
    BY <2>1, <2>4, <2>5
<1>2. IsFiniteSet(flows')
  BY FS_Union DEF SInv, FlowsAreMoves
<1>3. \A d : N!Line(d)' = N!Line(d)
  BY DEF N!Line
<1>4. FlowsAreMoves'
  BY <1>1, <1>2, <1>3 DEF SInv, FlowsAreMoves
<1>5. RowsKept'
  BY RowsStay
<1> QED
  BY <1>4, <1>5 DEF SInv, RowsKept

\* A flow posted by hand is of a move there was.
LEMMA PostKeeps == ASSUME N!SnapshotAssumption, SInv, NEW d \in N!Days, N!PostFlow(d) PROVE SInv'
<1>1. /\ moved[d].amount # 0 /\ UNCHANGED <<date, nav, moved, snaps>>
      /\ flows' = flows \union {FlowOf(d, "manual")}
  BY DEF N!PostFlow, FlowOf
<1>2. IsFiniteSet({FlowOf(d, "manual")})
  BY FS_Singleton
<1> QED
  BY <1>1, <1>2, MoreFlows

\* So are those a broker's ledger brings.
LEMMA ImportKeeps ==
  ASSUME N!SnapshotAssumption, SInv, NEW a \in N!Days, NEW b \in N!Days, N!ImportLedger(a, b) PROVE SInv'
<1> DEFINE X == {x \in a .. b : moved[x].amount # 0}
           S == UNION {N!Added(d) : d \in X}
           added == [d \in X |-> N!Added(d)]
<1>1. flows' = flows \union S /\ UNCHANGED <<date, nav, moved, snaps>>
  BY DEF N!ImportLedger
<1>2. a \in Nat /\ b \in Nat /\ a .. b \subseteq N!Days
  BY DEF N!Days, N!SnapshotAssumption
<1>3. IsFiniteSet(X)
  <2>1. IsFiniteSet(a .. b)
    BY <1>2, FS_Interval
  <2> QED
    BY <2>1, FS_Subset
<1>4. ASSUME NEW d PROVE N!Added(d) \subseteq {FlowOf(d, "ledger")}
  BY DEF N!Added, FlowOf
<1>5. IsFiniteSet(S)
  <2>1. \A d \in X : IsFiniteSet(added[d])
    <3> SUFFICES ASSUME NEW d \in X PROVE IsFiniteSet(N!Added(d))
      OBVIOUS
    <3>1. IsFiniteSet({FlowOf(d, "ledger")})
      BY FS_Singleton
    <3> QED
      BY <1>4, <3>1, FS_Subset
  <2>2. S = UNION {added[d] : d \in X}
    OBVIOUS
  <2> HIDE DEF added, X, S
  <2>3. IsFiniteSet({added[d] : d \in X})
    BY <1>3, FiniteImage
  <2>4. IsFiniteSet(UNION {added[d] : d \in X})
    BY <2>1, <2>3, FS_UNION
  <2> QED
    BY <2>2, <2>4
<1>6. \A f \in S : \E d \in N!Days, source \in {"manual", "ledger"} : moved[d].amount # 0 /\ f = FlowOf(d, source)
  BY <1>2, <1>4
<1> HIDE DEF S
<1> QED
  BY <1>1, <1>5, <1>6, MoreFlows

\* Every step keeps the invariant.
LEMMA NextS == ASSUME N!SnapshotAssumption PROVE SInv /\ [N!Next]_N!vars => SInv'
<1> SUFFICES ASSUME SInv, [N!Next]_N!vars PROVE SInv'
  OBVIOUS
<1>1. CASE UNCHANGED N!vars
  <2>1. UNCHANGED <<date, nav, moved, flows, snaps>>
    BY <1>1 DEF N!vars
  <2>2. RowsKept'
    BY <2>1, RowsStay
  <2>3. FlowsAreMoves'
    BY <2>1 DEF SInv, FlowsAreMoves, N!Line
  <2> QED
    BY <2>1, <2>2, <2>3 DEF SInv, RowsKept
<1>2. CASE N!NewDay
  BY <1>2, SnapshotDayKeeps
<1>3. CASE N!Record
  BY <1>3, RecordKeeps
<1>4. CASE \E k \in Kinds, a \in Amounts : N!Move(k, a)
  BY <1>4, MoveKeeps
<1>5. CASE \E d \in N!Days : N!PostFlow(d)
  BY <1>5, PostKeeps
<1>6. CASE \E a, b \in N!Days : a <= b /\ b <= date /\ N!ImportLedger(a, b)
  BY <1>6, ImportKeeps
<1> QED
  BY <1>1, <1>2, <1>3, <1>4, <1>5, <1>6 DEF N!Next
-----------------------------------------------------------------------------
(* What the invariant says of them *)

\* A line of the broker's ledger is one flow: all its rows are the same row.
LEMMA LinesAreOnce == ASSUME SInv PROVE N!LineIsOneFlow
<1> SUFFICES ASSUME NEW d \in N!Days PROVE Cardinality(N!LedgerFlows(d)) <= 1
  BY SameSnapshotOps DEF N!LineIsOneFlow
<1>1. ASSUME NEW f \in N!LedgerFlows(d) PROVE f = FlowOf(d, "ledger")
  <2>1. f \in FlowRow /\ f.source = "ledger" /\ f.line = N!Line(d) /\ f.line = N!Line(f.day)
    BY DEF N!LedgerFlows, SInv, FlowsAreMoves
  <2>2. f.day = d
    BY <2>1 DEF N!Line
  <2> QED
    BY <2>1, <2>2 DEF FlowRow, FlowOf
<1>2. N!LedgerFlows(d) \subseteq {FlowOf(d, "ledger")}
  BY <1>1
<1>3. IsFiniteSet({FlowOf(d, "ledger")}) /\ Cardinality({FlowOf(d, "ledger")}) = 1
  BY FS_Singleton
<1>4. Cardinality(N!LedgerFlows(d)) <= Cardinality({FlowOf(d, "ledger")})
  BY <1>2, <1>3, FS_Subset
<1> QED
  BY <1>3, <1>4

\* A day recorded again has the row it had: the invariant says so.
LEMMA AgainIsSame == ASSUME SInv PROVE N!AgainIsTheSame
BY SameSnapshotOps DEF SInv, N!AgainIsTheSame, N!Row, RowOf

\* A day whose only change is a flow moves the unit NAV by no more than rounding does.
LEMMA FlowsAreNoGains == ASSUME N!SnapshotAssumption, SInv PROVE N!FlowsAreNotGains
<1> DEFINE Flat(d) ==
      LET p == N!Max(N!Before(d))
          slack == snaps[p].units + snaps[p].unitNav
      IN (/\ N!Before(d) # {} /\ snaps[d].flow = N!Truly(d)
          /\ snaps[p].nav > 0 /\ snaps[p].unitNav > 0
          /\ 2 * N!UnitScale * N!NavScale * snaps[d].nav > slack
          /\ snaps[d].nav - snaps[p].nav = snaps[d].flow
          /\ snaps[d].base = p)
         => 2 * snaps[d].units * N!Abs(snaps[d].unitNav - snaps[p].unitNav) <= slack + snaps[d].units
<1>1. SUFFICES ASSUME NEW d \in N!Recorded PROVE Flat(d)
  BY DEF N!FlowsAreNotGains
<1> DEFINE p == Max(N!Before(d))
           slack == snaps[p].units + snaps[p].unitNav
<1>2. N!Max(N!Before(d)) = p
  BY SameSnapshotOps
<1>3. SUFFICES ASSUME N!Before(d) # {},
                      snaps[p].nav > 0, snaps[p].unitNav > 0,
                      2 * N!UnitScale * N!NavScale * snaps[d].nav > slack,
                      snaps[d].nav - snaps[p].nav = snaps[d].flow,
                      snaps[d].base = p
               PROVE  2 * snaps[d].units * Abs(snaps[d].unitNav - snaps[p].unitNav) <= slack + snaps[d].units
  BY <1>2, SameSnapshotOps
<1>4. p \in N!Recorded /\ p \in N!Days /\ p # 0 - 1
  <2>1. N!Before(d) \in SUBSET (0 .. LastDay) /\ N!Before(d) \subseteq N!Recorded
    BY DEF N!Before, N!Recorded, N!Days
  <2>2. LastDay \in Nat
    BY DEF N!SnapshotAssumption
  <2>3. p \in N!Before(d)
    BY <1>3, <2>1, <2>2, MaxIs
  <2> QED
    BY <2>1, <2>3 DEF N!Days
<1> DEFINE prev == snaps[p]
           r == snaps[d]
           issued == IF r.flow = 0 THEN 0 ELSE HalfUp(r.flow * Scale, prev.unitNav)
<1> HIDE DEF p
<1>5. prev \in SnapshotRow /\ r \in SnapshotRow /\ IsSound(prev) /\ IsSound(r) /\ d \in N!Days
  BY <1>1, <1>4 DEF SInv, N!Recorded
<1>6. /\ prev.units \in Nat /\ prev.unitNav \in Nat /\ prev.nav \in Nat /\ prev.units > 0 /\ prev.unitNav > 0
      /\ r.nav \in Nat /\ r.flow \in Int /\ r.units \in Nat /\ r.unitNav \in Nat /\ r.base = p
      /\ r.nav = prev.nav + r.flow
      /\ 2 * (prev.unitNav * prev.units - Scale * prev.nav) \in -(prev.units) .. prev.units
      /\ 2 * Scale * (prev.nav + r.flow) > prev.units + prev.unitNav
  <2>1. 2 * N!UnitScale * N!NavScale * r.nav = 2 * Scale * r.nav
    BY <1>5 DEF N!UnitScale, N!NavScale, Scale, SnapshotRow
  <2>2. /\ prev.units \in Nat /\ prev.unitNav \in Nat /\ prev.nav \in Nat /\ prev.units > 0 /\ prev.unitNav > 0
        /\ r.nav \in Nat /\ r.flow \in Int /\ r.units \in Nat /\ r.unitNav \in Nat /\ r.base = p
    BY <1>3, <1>5 DEF SnapshotRow, IsSound
  <2>3. r.nav = prev.nav + r.flow
    BY <1>3, <2>2
  <2>4. 2 * (prev.unitNav * prev.units - Scale * prev.nav) \in -(prev.units) .. prev.units
    BY <1>3, <1>5 DEF IsSound
  <2>5. 2 * Scale * r.nav > prev.units + prev.unitNav
    BY <1>3, <2>1
  <2> QED
    BY <2>2, <2>3, <2>4, <2>5
<1>7. issued \in Int /\ N!Units(prev, r.flow) = prev.units + issued
  <2>1. r.flow * Scale \in Int
    BY <1>6 DEF Scale
  <2>2. HalfUp(r.flow * Scale, prev.unitNav) \in Int
    BY <1>6, <2>1, HalfUpIsNear
  <2> QED
    BY <1>5, <1>6, <2>2, UnitsAreInt
<1> DEFINE now == prev.units + issued
           value == HalfUp((prev.nav + r.flow) * Scale, now)
<1>8. now > 0 /\ 2 * now * Abs(value - prev.unitNav) <= prev.units + prev.unitNav + now
  <2> HIDE DEF prev, r
  <2>1. issued = IF r.flow = 0 THEN 0 ELSE HalfUp(r.flow * Scale, prev.unitNav)
    OBVIOUS
  <2>2. prev.nav \in Int
    BY <1>6
  <2> HIDE DEF issued
  <2> QED
    BY <1>6, <1>7, <2>1, <2>2, UnitNavStands
<1>9. r.units = now
  <2>1. r.units = IF N!Units(prev, r.flow) > 0 THEN N!Units(prev, r.flow) ELSE N!UnitScale
    BY <1>4, <1>5, <1>6 DEF IsSound
  <2> QED
    BY <1>7, <1>8, <2>1
<1>10. r.unitNav = value
  <2>1. r.unitNav = HalfUp(r.nav * N!UnitScale * N!NavScale, r.units)
    BY <1>4, <1>5, <1>6 DEF IsSound
  <2>2. r.nav * N!UnitScale * N!NavScale = (prev.nav + r.flow) * Scale
    BY <1>6 DEF N!UnitScale, N!NavScale, Scale
  <2> QED
    BY <1>9, <2>1, <2>2
<1> QED
  <2> HIDE DEF issued, value, now
  <2>1. 2 * r.units * Abs(r.unitNav - prev.unitNav) <= slack + r.units
    BY <1>8, <1>9, <1>10
  <2> QED
    BY <2>1

\* It is what the property says.
LEMMA SInvIsEnough == ASSUME N!SnapshotAssumption, SInv PROVE N!TypeOK /\ N!FlowsCountOnce
BY LinesAreOnce, AgainIsSame, FlowsAreNoGains DEF SInv, SnapshotRow, N!TypeOK, N!FlowsCountOnce

-----------------------------------------------------------------------------
(* The parts together *)

AllInv == WInv /\ InHistory /\ PInv /\ VInv /\ P!SavedIsWhole /\ TInv /\ SInv

\* Every part begins as it does alone.
LEMMA AllBegins == AllInit => AllInv
<1> SUFFICES ASSUME AllInit PROVE AllInv
  OBVIOUS
<1>1. /\ B!Init /\ P!Init /\ T!Init /\ N!Init
      /\ B!FoldsAssumption /\ P!ProfilesAssumption /\ T!LotsAssumption /\ N!SnapshotAssumption
  BY PlanningAssumption DEF AllInit, PlanningAssumption
<1>2. P!SavedIsWhole
  BY <1>1 DEF P!Init, P!SavedIsWhole
<1> QED
  BY <1>1, <1>2, InitW, InitInHistory, InitPInv, InitVInv, InitT, InitS DEF AllInv

\* A step of the whole is a step of one part, and the others stand still.
LEMMA AllGoesOn == AllInv /\ [AllNext]_allVars => AllInv'
<1> SUFFICES ASSUME AllInv, [AllNext]_allVars PROVE AllInv'
  OBVIOUS
<1>1. [B!Next]_(B!vars) /\ [P!Next]_(P!vars)
  BY DEF AllNext, allVars, backtestVars, profileVars, B!vars, P!vars
<1>2. [T!Next]_(T!vars) /\ [N!Next]_(N!vars)
  BY DEF AllNext, allVars, taxVars, snapshotVars, T!vars, N!vars
<1>3. B!FoldsAssumption /\ P!ProfilesAssumption /\ T!LotsAssumption /\ N!SnapshotAssumption
  BY PlanningAssumption DEF PlanningAssumption
<1> QED
  BY <1>1, <1>2, <1>3, NextW, NextInHistory, NextPInv, NextVInv, SavedStaysWhole, NextT, NextS DEF AllInv

\* All of it holds all the time.
LEMMA AllStays == AllSpec => []AllInv
BY AllBegins, AllGoesOn, PTL DEF AllSpec

\* The part a behaviour is about.
OneOfTheParts == part \in {"rebalance", "snapshots", "backtest", "tax", "profiles"}

\* It stays with that part.
LEMMA StaysAPart == AllSpec => []OneOfTheParts
<1>1. AllInit => OneOfTheParts
  BY DEF AllInit, OneOfTheParts
<1>2. OneOfTheParts /\ [AllNext]_allVars => OneOfTheParts'
  BY DEF AllNext, allVars, OneOfTheParts
<1> QED
  BY <1>1, <1>2, PTL DEF AllSpec

\* What the rebalancer does among the other parts it does alone.
LEMMA AllRebalances == AllSpec => Spec
<1>1. AllInit => Init
  BY DEF AllInit
<1>2. [AllNext]_allVars => [Next]_vars
  BY DEF AllNext, allVars, rebalanceVars, vars
<1> QED
  BY <1>1, <1>2, PTL DEF AllSpec, Spec

\* No calibration has read a bar of the window it is for, a position was bought before
\* the bar at work and sold after it was bought: run_walk_forward_backtest, for any
\* number of folds that share no bar.
THEOREM BacktestLooksBack == AllSpec => []NoLookahead
<1>1. AllInv => NoLookahead
  BY PlanningAssumption, WInvOrders DEF AllInv, NoLookahead, PlanningAssumption
<1> QED
  BY <1>1, AllStays, PTL

\* The net results of the closed trades are what happened to the cash, and their charges
\* the cost drag, whatever prices, fills and signals there are.
THEOREM BacktestAddsUp == AllSpec => []TradesAreTheMoney
<1>1. AllInv => TradesAreTheMoney
  BY SameSum DEF AllInv, WInv, Money, Booked, TradesAreTheMoney, B!TradesAreTheMoney
<1> QED
  BY <1>1, AllStays, PTL

\* Drift detection and the rebalancer always find the targets of exactly one profile,
\* whatever activations are open, refused or broken off.
THEOREM OneProfileInForce == AllSpec => []OneActive
<1>1. AllInv => OneActive
  BY DEF AllInv, PInv, OneActive
<1> QED
  BY <1>1, AllStays, PTL

\* Activations never wait for each other in a circle, however many there are, and what
\* create_allocation_profile saves adds up to the whole, but for the rounding of each row.
THEOREM ProfilesStaySound == AllSpec => []ProfilesAreSound
<1>1. AllInv => ProfilesAreSound
  BY NobodyWaitsInACircle DEF AllInv, ProfilesAreSound, P!ProfilesAreSound
<1> QED
  BY <1>1, AllStays, PTL

\* A sale takes the oldest shares first, lot by lot; the gains a harvest names stay within
\* what is left of the year's exemption, no more of a lot than it has, and leave no share
\* that would still fit: check_sell_tax_impact and get_annual_tax_harvesting_summary,
\* whatever lots there are.
THEOREM LotsUsedWell == AllSpec => []LotsAreUsedWell
<1>1. AllInv => LotsAreUsedWell
  BY PlanningAssumption, TInvIsEnough DEF AllInv, LotsAreUsedWell, PlanningAssumption
<1> QED
  BY <1>1, AllStays, PTL

\* A line of the broker's ledger is recorded as one flow, a snapshot recorded again on its
\* day is the one it was, and a day whose only change is a flow moves the unit NAV by no
\* more than the rounding: record_daily_eod_snapshot, whatever comes in and when.
THEOREM FlowsCounted == AllSpec => []FlowsCountOnce
<1>1. AllInv => FlowsCountOnce
  BY PlanningAssumption, SInvIsEnough DEF AllInv, FlowsCountOnce, PlanningAssumption
<1> QED
  BY <1>1, AllStays, PTL

\* Every part keeps its variables to their values: what a backtest holds it has paid for
\* and where it is there is history left, units and NAVs are never negative.
THEOREM PlanningTypes == AllSpec => []TypesOK
<1>1. AllInv /\ TypeOK /\ OneOfTheParts => TypesOK
  <2> SUFFICES ASSUME AllInv, TypeOK, OneOfTheParts PROVE TypesOK
    OBVIOUS
  <2>1. N!TypeOK /\ B!TypeOK /\ T!TypeOK /\ P!TypeOK
    BY PlanningAssumption, SInvIsEnough, WInvIsTyped, TInvIsEnough, PInvIsTyped
    DEF AllInv, PlanningAssumption
  <2> QED
    BY <2>1 DEF TypesOK, OneOfTheParts
<1> QED
  BY <1>1, AllStays, AllRebalances, StaysAPart, RebalancerTypes, PTL
=============================================================================
