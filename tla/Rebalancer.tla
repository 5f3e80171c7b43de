----------------------------- MODULE Rebalancer -----------------------------
(***************************************************************************)
(* generate_rebalance_plan of src/analytics/rebalancer.py: a valuation and *)
(* its drift signals are turned into sell orders, then buy orders, then    *)
(* tactical buys, most severe signal first, under five limits: the day's   *)
(* turnover, the cash buffer, the volume of a stock, the least value of a  *)
(* trade and the number of orders.                                         *)
(*                                                                         *)
(* The plan reads the holdings once for the valuation and each row again   *)
(* before the order about it (_get_holding_details), in transactions of    *)
(* their own: the quote poller and the broker sync move the book between   *)
(* them.  The second read prefers a live price that is stale to the        *)
(* broker's, the first does not.  Left out: charges other than the DP      *)
(* charge, tax warnings, scanner and limit notes, badges and the counters  *)
(* of what was suppressed, which inform and never resize an order.         *)
(***************************************************************************)
EXTENDS DriftDetector, Sequences, FiniteSets, Functions

CONSTANTS
    SectorOf,         \* the sector of each symbol
    Books,            \* the states the table of holdings can be in
    Valuation(_),     \* the valuation of a book (module Valuator)
    MaxAdv,           \* partial: the shares of a symbol the volume guard allows
    Lot,              \* lot size of each symbol
    Arguments,        \* the limits a caller may ask for
    MaxOrders,        \* max_rebalance_orders
    Tactical,         \* symbols with a tactical signal that says buy
    Evidence,         \* evidence status of each symbol
    SuppressUnproven, \* suppress_unproven_buys
    None,             \* no drift signal
    MaxChanges        \* bound: how often the book moves during a plan

Rows == [ quantity : Nat, t1 : Nat, quote : {"none", "fresh", "stale"}, live : Nat,
          broker : Nat, close : Nat ]

\* Weights are shares of the total, rounded to the nearest hundredth of a percent.
SectorWorth(v, x) == SumFunctionOnSet(v.value, {s \in v.holdings : SectorOf[s] = x})
IsShare(weight, worth, total) == 2 * Abs(weight * total - worth * Whole) <= total
WeighsRight(v) ==
    /\ \A s \in v.holdings : IsShare(v.weight[s], v.value[s], v.aum)
    /\ \A x \in v.sectors : IsShare(v.sectorWeight[x], SectorWorth(v, x), v.aum)

ASSUME RebalancerAssumption ==
    /\ IsFiniteSet(Symbols)
    /\ SectorOf \in [Symbols -> Sectors]
    /\ \A b \in Books : Partial(b, Symbols, Rows)
    /\ \A b \in Books : Valuation(b) \in Valuations /\ WeighsRight(Valuation(b))
    /\ Partial(MaxAdv, Symbols, Nat)
    /\ Lot \in [Symbols -> Nat]
    /\ \A a \in Arguments :
         a \in [minTrade : Nat, bufferPct : Nat, bufferFloor : Nat, capPct : Nat]
    /\ MaxOrders \in Nat \ {0}
    /\ Tactical \subseteq Symbols
    /\ Evidence \in [Symbols -> {"PROVEN_EDGE", "UNPROVEN_NOISE", "PENDING"}]
    /\ SuppressUnproven \in BOOLEAN
    /\ None \notin DriftSignals
    /\ MaxChanges \in Nat

VARIABLES
    phase,       \* where the plan is
    args,        \* its limits
    book,        \* the holdings and prices in the database
    changes,     \* how often they moved since the valuation
    val,         \* the valuation
    todo,        \* signals, or tactical symbols, the loop has not reached
    signal,      \* the signal of the sector the inner loop is in
    sectorTodo,  \* the holdings of it that the inner loop has not reached
    needed,      \* sell_value_needed
    orders,      \* the plan
    sold, bought,\* total_sell_value, total_buy_value
    usable,      \* usable_cash
    seen         \* seen_sell_symbols

plan == <<orders, sold, bought, seen>>
vars == <<phase, args, book, changes, val, todo, signal, sectorTodo, needed,
          orders, sold, bought, usable, seen>>

Phases == {"idle", "sells", "sector", "buys", "tactical", "done"}

Lesser(a, b) == IF a < b THEN a ELSE b
Greater(a, b) == IF a > b THEN a ELSE b
-----------------------------------------------------------------------------
(* The limits.                                                             *)

NetWorth == val.aum + val.cash
TurnoverCap == HalfUp(args.capPct * NetWorth, Whole)
CashBuffer == Greater(HalfUp(args.bufferPct * NetWorth, Whole), args.bufferFloor)

Turnover == sold + bought
Remaining == TurnoverCap - Turnover

\* Mutant of Full: the limit on orders is looked at with > instead of >=.
FullOffByOne == Len(orders) > MaxOrders \/ Turnover >= TurnoverCap

\* The conditions that end each of the loops.
Full == Len(orders) >= MaxOrders \/ Turnover >= TurnoverCap

\* _round_to_lot_size
ToLot(quantity, s) ==
    IF Lot[s] <= 1 THEN Greater(quantity, 0) ELSE (quantity \div Lot[s]) * Lot[s]

UnderVolume(quantity, s) == IF s \in DOMAIN MaxAdv THEN Lesser(quantity, MaxAdv[s]) ELSE quantity

Actionable == {x \in DetectDrift(val) : IsActionable(x)}
MostSevere(x) == \A y \in todo : Abs(y.drift) <= Abs(x.drift)
-----------------------------------------------------------------------------
(* One order.                                                              *)

\* COALESCE(lp.last_price, h.last_price): stale or not, and zero too.
Price(s) == IF book[s].quote # "none" THEN book[s].live ELSE book[s].broker
Priced(s) == s \in DOMAIN book /\ Price(s) > 0
Sellable(s) == Priced(s) /\ book[s].quantity > 0

Wanted(s, need) == Lesser(need \div Price(s), book[s].quantity)
Exits(s, need) == Wanted(s, need) >= book[s].quantity /\ book[s].t1 = 0

\* The quantity before the turnover cap.  A full exit undoes the volume guard.
Sized(s, need) ==
    IF Exits(s, need) /\ Lot[s] <= 1 THEN book[s].quantity
    ELSE ToLot(UnderVolume(Wanted(s, need), s), s)

\* Mutant of SellQuantity: the cap on turnover is forgotten for full exits.
SellQuantityExit(s, need) ==
    IF Sized(s, need) * Price(s) > Remaining /\ ~Exits(s, need)
    THEN ToLot(Remaining \div Price(s), s)
    ELSE Sized(s, need)

SellQuantity(s, need) ==
    IF Sized(s, need) * Price(s) > Remaining
    THEN ToLot(Remaining \div Price(s), s)
    ELSE Sized(s, need)

\* Mutant of Sells: an order of no shares is not dropped.
SellsNothing(s, need) ==
    /\ Sellable(s)
    /\ SellQuantity(s, need) * Price(s) >= args.minTrade \/ Exits(s, need)

Sells(s, need) ==
    /\ Sellable(s)
    /\ SellQuantity(s, need) > 0
    /\ SellQuantity(s, need) * Price(s) >= args.minTrade \/ Exits(s, need)

\* Mutant of DpDue: every sell is the first of its stock, the default of an order.
DpAlwaysDue(s) == TRUE

\* is_first_sell
DpDue(s) == s \notin seen

Sell(s, need, why) ==
    LET quantity == SellQuantity(s, need)
    IN  /\ orders' = Append(orders,
             [ symbol |-> s, side |-> "SELL", quantity |-> quantity, price |-> Price(s),
               dp |-> DpDue(s), why |-> why ])
        /\ sold' = sold + quantity * Price(s)
        /\ seen' = seen \cup {s}
        /\ UNCHANGED bought

BuyQuantity(s, money) == ToLot(UnderVolume(money \div Price(s), s), s)

Buys(s, money) ==
    /\ Priced(s)
    /\ money >= Price(s)
    /\ BuyQuantity(s, money) > 0
    /\ BuyQuantity(s, money) * Price(s) >= args.minTrade

Buy(s, money, why) ==
    LET value == BuyQuantity(s, money) * Price(s)
    IN  /\ orders' = Append(orders,
             [ symbol |-> s, side |-> "BUY", quantity |-> BuyQuantity(s, money),
               price |-> Price(s), dp |-> FALSE, why |-> why ])
        /\ bought' = bought + value
        /\ usable' = usable - value
        /\ UNCHANGED <<sold, seen>>

-----------------------------------------------------------------------------
(* The plan.                                                               *)

Init ==
    /\ phase = "idle"
    /\ args \in Arguments
    /\ book \in Books
    /\ changes = 0
    /\ val = Valuation(book)
    /\ todo = {}
    /\ signal = None
    /\ sectorTodo = {}
    /\ needed = 0
    /\ orders = << >>
    /\ sold = 0
    /\ bought = 0
    /\ usable = 0
    /\ seen = {}

\* The valuation has been read; with nothing to act on the plan is empty.
Start ==
    /\ phase = "idle"
    /\ todo' = Actionable
    /\ phase' = IF Actionable = {} /\ Tactical = {} THEN "done" ELSE "sells"
    /\ UNCHANGED <<args, book, changes, val, signal, sectorTodo, needed, plan, usable>>

\* Outer loop over the signals: an overweight stock is sold at once.
SellHolding ==
    /\ phase = "sells" /\ ~Full
    /\ \E x \in todo :
         /\ MostSevere(x)
         /\ x.type = "HOLDING" /\ Overweight(x)
         /\ todo' = todo \ {x}
         /\ IF Sells(x.name, Abs(x.amount)) THEN Sell(x.name, Abs(x.amount), x) ELSE UNCHANGED plan
    /\ UNCHANGED <<phase, args, book, changes, val, signal, sectorTodo, needed, usable>>

\* An overweight sector: the inner loop begins.
EnterSector ==
    /\ phase = "sells" /\ ~Full
    /\ \E x \in todo :
         /\ MostSevere(x)
         /\ x.type = "SECTOR" /\ Overweight(x)
         /\ todo' = todo \ {x}
         /\ signal' = x
         /\ needed' = Abs(x.amount)
         /\ sectorTodo' = {s \in val.holdings : SectorOf[s] = x.name}
    /\ phase' = "sector"
    /\ UNCHANGED <<args, book, changes, val, plan, usable>>

SkipSignal ==
    /\ phase = "sells" /\ ~Full
    /\ \E x \in todo :
         /\ MostSevere(x)
         /\ x.type = "CASH" \/ ~Overweight(x)
         /\ todo' = todo \ {x}
    /\ UNCHANGED <<phase, args, book, changes, val, signal, sectorTodo, needed, plan, usable>>

\* Mutant of StillNeeded: each holding is asked for the whole amount.
NeededAgain(s) == needed

\* sell_value_needed after a sell.
StillNeeded(s) == needed - SellQuantity(s, needed) * Price(s)

\* Inner loop: the heaviest holding of the sector first.
SellInSector ==
    /\ phase = "sector" /\ ~Full /\ needed > 0
    /\ \E s \in sectorTodo :
         /\ \A o \in sectorTodo : val.weight[o] <= val.weight[s]
         /\ sectorTodo' = sectorTodo \ {s}
         /\ IF Sells(s, needed)
            THEN /\ Sell(s, needed, signal)
                 /\ needed' = StillNeeded(s)
            ELSE UNCHANGED <<plan, needed>>
    /\ UNCHANGED <<phase, args, book, changes, val, todo, signal, usable>>

LeaveSector ==
    /\ phase = "sector"
    /\ Full \/ needed <= 0 \/ sectorTodo = {}
    /\ phase' = "sells"
    /\ signal' = None
    /\ sectorTodo' = {}
    /\ needed' = 0
    /\ UNCHANGED <<args, book, changes, val, todo, plan, usable>>

\* Mutant of UsableCash: the buffer is not held back.
CashAndSales == Greater(0, val.cash + sold)

UsableCash == Greater(0, val.cash + sold - CashBuffer)

\* The buys go through the same signals again, with what the sells bring in.
BeginBuys ==
    /\ phase = "sells"
    /\ Full \/ todo = {}
    /\ phase' = "buys"
    /\ todo' = Actionable
    /\ usable' = UsableCash
    /\ UNCHANGED <<args, book, changes, val, signal, sectorTodo, needed, plan>>

IsBuySignal(x) == ~Overweight(x) /\ x.type # "CASH"

\* What an underweight signal buys: the stock, or the lightest one of the sector.
Bought(x) ==
    IF x.type = "HOLDING" THEN {x.name}
    ELSE {s \in val.holdings :
            /\ SectorOf[s] = x.name
            /\ \A o \in val.holdings : SectorOf[o] = x.name => val.weight[s] <= val.weight[o]}

BuyMoney(x) == Lesser(Lesser(Abs(x.amount), usable), Remaining)

Suppressed(s) == SuppressUnproven /\ Evidence[s] = "UNPROVEN_NOISE"

\* Usable cash of zero ends the loop; so does going through all the signals.
ConsiderBuy ==
    /\ phase = "buys" /\ ~Full /\ usable > 0
    /\ \E x \in todo :
         /\ MostSevere(x)
         /\ todo' = todo \ {x}
         /\ IF IsBuySignal(x)
            THEN \E s \in Bought(x) :
                   IF Buys(s, BuyMoney(x)) /\ ~Suppressed(s)
                   THEN Buy(s, BuyMoney(x), x)
                   ELSE UNCHANGED <<plan, usable>>
            ELSE UNCHANGED <<plan, usable>>
    /\ UNCHANGED <<phase, args, book, changes, val, signal, sectorTodo, needed>>

BeginTactical ==
    /\ phase = "buys"
    /\ Full \/ usable <= 0 \/ todo = {}
    /\ phase' = "tactical"
    /\ todo' = Tactical
    /\ UNCHANGED <<args, book, changes, val, signal, sectorTodo, needed, plan, usable>>

\* 5% of net worth or the least trade, whichever is more, within what is left.
TacticalMoney ==
    LET tilt == Lesser(Lesser(HalfEven(500 * NetWorth, Whole), usable), Remaining)
    IN  Lesser(Lesser(Greater(tilt, args.minTrade), usable), Remaining)

\* Only a proven edge buys.
ConsiderTactical ==
    /\ phase = "tactical" /\ ~Full /\ usable > 0
    /\ \E s \in todo :
         /\ todo' = todo \ {s}
         /\ IF Evidence[s] = "PROVEN_EDGE" /\ Buys(s, TacticalMoney)
            THEN Buy(s, TacticalMoney, None)
            ELSE UNCHANGED <<plan, usable>>
    /\ UNCHANGED <<phase, args, book, changes, val, signal, sectorTodo, needed>>

Finish ==
    /\ phase = "tactical"
    /\ Full \/ usable <= 0 \/ todo = {}
    /\ phase' = "done"
    /\ UNCHANGED <<args, book, changes, val, todo, signal, sectorTodo, needed, plan, usable>>

\* A poll of quotes or a sync of holdings while the plan is being made.
BookMoves ==
    /\ phase \notin {"idle", "done"}
    /\ changes < MaxChanges
    /\ \E b \in Books \ {book} : book' = b
    /\ changes' = changes + 1
    /\ UNCHANGED <<phase, args, val, todo, signal, sectorTodo, needed, plan, usable>>

Next ==
    \/ Start \/ SellHolding \/ EnterSector \/ SkipSignal \/ SellInSector \/ LeaveSector
    \/ BeginBuys \/ ConsiderBuy \/ BeginTactical \/ ConsiderTactical \/ Finish
    \/ BookMoves

Spec == Init /\ [][Next]_vars
-----------------------------------------------------------------------------
(* Properties.                                                             *)

Orders ==
    [ symbol : Symbols, side : {"BUY", "SELL"}, quantity : Nat \ {0}, price : Nat \ {0},
      dp : BOOLEAN, why : DriftSignals \cup {None} ]

\* The type invariant.
TypeOK ==
    /\ phase \in Phases
    /\ args \in Arguments
    /\ book \in Books
    /\ changes \in 0 .. MaxChanges
    /\ val \in Valuations
    /\ todo \subseteq (IF phase \in {"tactical", "done"} THEN Symbols ELSE DriftSignals)
    /\ signal \in DriftSignals \cup {None}
    /\ sectorTodo \subseteq Symbols
    /\ needed \in Int
    /\ orders \in Seq(Orders)
    /\ sold \in Nat /\ bought \in Nat /\ usable \in Int
    /\ seen \subseteq Symbols

\* The orders of a plan never turn over more than the cap, whatever moved in the
\* book between two reads; with a net worth below zero nothing is traded.
TurnoverWithinCap == Turnover <= Greater(TurnoverCap, 0)

\* Executed in their order, the orders never take the cash below the buffer: after
\* each of them the cash, less what the sells brought, is at least the buffer, or
\* nothing has been bought (generate_rebalance_plan, usable_cash).
BufferIsKept == bought > 0 => val.cash + sold - bought >= CashBuffer

\* A plan has at most max_rebalance_orders orders, over its three loops and the
\* inner one.
AtMostMaxOrders == Len(orders) <= MaxOrders

\* The plan keeps every limit it is made under.
PlanKeepsLimits == TurnoverWithinCap /\ BufferIsKept /\ AtMostMaxOrders

ValueOf(S) == SumFunctionOnSet([i \in DOMAIN orders |-> orders[i].quantity * orders[i].price], S)
SalesFor(x) == {i \in DOMAIN orders : orders[i].side = "SELL" /\ orders[i].why = x}

TargetFor(x) ==
    IF x.type = "SECTOR" THEN SectorTargets[x.name].target
    ELSE IF x.threshold = 0 THEN ConcentrationLimit
    ELSE StockTargets[x.name].target

WorthFor(x) == IF x.type = "SECTOR" THEN SectorWorth(val, x.name) ELSE val.value[x.name]

\* The sells made for one signal leave the sector or the stock at its target or above,
\* over all holdings of the sector and at the prices each was sold at.  The weight of
\* a sector is rounded to hundredths of a percent and an amount to a unit, by half of
\* which the sells may go too far (detect_drift, sell_value_needed).
SalesStopAtTarget ==
    \A i \in DOMAIN orders : orders[i].side = "SELL" =>
      LET x    == orders[i].why
          left == WorthFor(x) - ValueOf(SalesFor(x))
      IN  2 * Whole * left + val.aum + Whole >= 2 * TargetFor(x) * val.aum

\* The DP charge, due once per stock and day, is on exactly one of the sells of a
\* stock, whichever loops they come from (seen_sell_symbols).
DpChargedOnce ==
    \A i \in DOMAIN orders : orders[i].side = "SELL" =>
      Cardinality({j \in DOMAIN orders :
         orders[j].symbol = orders[i].symbol /\ orders[j].side = "SELL" /\ orders[j].dp}) = 1

\* What is sold is sold once: no further than the target, at one DP charge a stock.
SalesAreSound == SalesStopAtTarget /\ DpChargedOnce

\* "Minimum trade value in INR below which rebalance orders are suppressed (unless
\* liquidating)" (settings.py:116): a sell of less leaves nothing of the holding.
SmallSalesLiquidate ==
    changes = 0 =>
      \A i \in DOMAIN orders :
        /\ orders[i].side = "SELL"
        /\ orders[i].quantity * orders[i].price < args.minTrade
        => orders[i].quantity = book[orders[i].symbol].quantity
=============================================================================
