----------------------------- MODULE WalkForward -----------------------------
(***************************************************************************)
(* The rolling backtest of src/analytics/walk_forward.py, as POST          *)
(* /signals/backtest of src/api/v1/blueprint.py starts it.                 *)
(*                                                                         *)
(* Each fold calibrates the indicators on a window of bars and then trades *)
(* on the window after it: the close of one bar decides and the open of    *)
(* the next one fills.  One cash balance and one position go through all   *)
(* the folds.  What the indicators say is a choice; what matters is which  *)
(* bars a decision, a fill and a sale have read, and that the money of the *)
(* trades is the money of the balance.                                     *)
(***************************************************************************)
EXTENDS Integers, Sequences, Functions

CONSTANTS TotalBars,    \* bars of history; 0 is the oldest
          TrainWindow,  \* train_window_days of the request
          TestWindow,   \* test_window_days of the request
          FoldStep,     \* step: always 63, the request does not reach it
          Horizon,      \* forward_horizon: bars a forward return looks ahead
          Capital,      \* initial_capital
          Prices,       \* bound: what a share may cost
          Impacts,      \* bound: the market impact on a fill, per share
          Charge        \* compute_indian_delivery_charges of a trade

\* Folds that share no bar, and a window longer than the returns it blanks, as those of
\* the default request.
FoldsAssumption ==
  /\ TotalBars \in Nat /\ TrainWindow \in Nat /\ TestWindow \in Nat \ {0} /\ FoldStep \in Nat
  /\ Horizon \in Nat /\ TrainWindow > Horizon /\ FoldStep >= TestWindow
  /\ Capital \in Nat /\ Prices \subseteq Nat \ {0} /\ Impacts \subseteq Nat /\ Charge \in Nat

VARIABLES phase,     \* "calibrate", "trade", "close", "done"
          fold, bar, \* the fold and the bar at work
          read,      \* the newest bar whose price the calibration has read
          pending,   \* the order decided on, and the bar it fills at
          cash, shares, entry,   \* the position, and what was paid for it
          trades,    \* closed_trades, with the bars they were made at
          nav, drag  \* the last of daily_nav_history; total_cost_drag_inr

vars == <<phase, fold, bar, read, pending, cash, shares, entry, trades, nav, drag>>

NoOrder == [side |-> "none", at |-> -1]
NoEntry == [price |-> 0, cost |-> 0, at |-> -1]

\* generate_walk_forward_folds, folds counted from 0.
\* Mutant: the folds move on by one bar less.
TestStartEarly(k) == k * (FoldStep - 1) + TrainWindow
TestStart(k) == k * FoldStep + TrainWindow
TestStop(k) == TestStart(k) + TestWindow
FoldCount == 1 + (TotalBars - TrainWindow - TestWindow) \div FoldStep

\* run_walk_forward_backtest up to the first fold; fewer bars raise.
Init ==
  /\ phase = IF TotalBars < TrainWindow + TestWindow THEN "done" ELSE "calibrate"
  /\ fold = 0 /\ bar = 0 /\ read = -1
  /\ pending = NoOrder
  /\ cash = Capital /\ shares = 0 /\ entry = NoEntry
  /\ trades = <<>> /\ nav = Capital /\ drag = 0

\* compute_forward_returns: the return at a bar needs the close Horizon bars later, if
\* there is one.
Reads(last) == IF last + Horizon < TotalBars THEN last + Horizon ELSE TotalBars - 1

\* evaluate_indicators on the window, whose last Horizon returns are blanked when it
\* has more of them.
\* Mutant: nothing is blanked.
CalibratedUncut(k) == Reads(TestStart(k) - 1)
Calibrated(k) ==
  Reads(IF TrainWindow > Horizon THEN TestStart(k) - 1 - Horizon ELSE TestStart(k) - 1)

Calibrate ==
  /\ phase = "calibrate"
  /\ read' = Calibrated(fold)
  /\ bar' = TestStart(fold)
  /\ phase' = "trade"
  /\ UNCHANGED <<fold, pending, cash, shares, entry, trades, nav, drag>>

\* A purchase at a price: what fits in the cash less a quarter of a percent.
Affordable(price) == (cash * 10000) \div (price * 10025)

\* Mutant: whether the charges fit is not looked at.
BoughtOnCredit(price) ==
  LET n == Affordable(price)
  IN  IF n > 0
      THEN /\ shares' = n
           /\ entry' = [price |-> price, cost |-> Charge, at |-> bar]
           /\ cash' = cash - n * price - Charge
           /\ drag' = drag + Charge
           /\ UNCHANGED trades
      ELSE UNCHANGED <<shares, entry, cash, drag, trades>>

Bought(price) ==
  LET n == Affordable(price)
  IN  IF n > 0 /\ cash >= n * price + Charge
      THEN /\ shares' = n
           /\ entry' = [price |-> price, cost |-> Charge, at |-> bar]
           /\ cash' = cash - n * price - Charge
           /\ drag' = drag + Charge
           /\ UNCHANGED trades
      ELSE UNCHANGED <<shares, entry, cash, drag, trades>>

\* The trade that a sale of the whole position closes.
\* Mutant: the charges of the purchase are forgotten.
ClosedEntryFree(price) ==
  [buy |-> entry.at, sell |-> bar, charges |-> entry.cost + Charge,
   net |-> shares * price - Charge - shares * entry.price]
Closed(price) ==
  [buy |-> entry.at, sell |-> bar, charges |-> entry.cost + Charge,
   net |-> shares * price - Charge - shares * entry.price - entry.cost]

Sold(price) ==
  /\ cash' = cash + shares * price - Charge
  /\ drag' = drag + Charge
  /\ trades' = Append(trades, Closed(price))
  /\ shares' = 0 /\ entry' = NoEntry

\* One bar: fill what the bar before decided, decide, value the position.
Trade ==
  /\ phase = "trade"
  /\ \E open \in Prices, close \in Prices, impact \in Impacts,
        signal \in {"BUY", "HOLD", "SELL"} :
       /\ CASE pending.at = bar /\ pending.side = "BUY" -> Bought(open + impact)
            [] pending.at = bar /\ pending.side = "SELL" /\ shares > 0 -> Sold(open - impact)
            [] OTHER -> UNCHANGED <<shares, entry, cash, drag, trades>>
       /\ pending' = IF (signal = "BUY" /\ shares' = 0) \/ (signal = "SELL" /\ shares' > 0)
                     THEN [side |-> signal, at |-> bar + 1] ELSE NoOrder
       /\ nav' = cash' + shares' * close
  /\ IF bar + 1 < TestStop(fold)
     THEN bar' = bar + 1 /\ UNCHANGED <<phase, fold>>
     ELSE IF fold + 1 < FoldCount
     THEN fold' = fold + 1 /\ phase' = "calibrate" /\ UNCHANGED bar
     ELSE phase' = "close" /\ UNCHANGED <<fold, bar>>
  /\ UNCHANGED read

\* What is still held after the last bar is sold at its close.
Close ==
  /\ phase = "close"
  /\ phase' = "done"
  /\ IF shares > 0
     THEN \E price \in Prices, impact \in Impacts : Sold(price - impact) /\ nav' = cash'
     ELSE UNCHANGED <<shares, entry, cash, drag, trades, nav>>
  /\ UNCHANGED <<fold, bar, read, pending>>

Next == Calibrate \/ Trade \/ Close

Spec == Init /\ [][Next]_vars
-----------------------------------------------------------------------------
\* The values the variables may have.
TypeOK ==
  /\ phase \in {"calibrate", "trade", "close", "done"}
  /\ fold \in Nat /\ (phase = "done" \/ fold < FoldCount) /\ bar \in 0..TotalBars
  /\ read \in -1..(TotalBars - 1)
  /\ pending.side \in {"none", "BUY", "SELL"} /\ pending.at \in -1..TotalBars
  /\ cash \in Int /\ shares \in Nat /\ (shares > 0 => cash \in Nat) /\ nav \in Int /\ drag \in Nat

\* What the backtest knows is older than what it trades on: no calibration has read
\* a bar from the window it is about to trade, whose prices it could not have known
\* (the truncation of train_fwd in run_walk_forward_backtest).
CalibratedOnThePast == phase = "trade" => read < TestStart(fold) /\ read < bar

\* Time moves forward for the position: it was bought before the bar at work, it is
\* sold later than it was bought, and nothing is bought before the last sale.
\* Folds that share bars take the simulation back to days it has already traded,
\* with the position it came out of them with.
BoughtBeforeSold ==
  /\ phase = "trade" => entry.at < bar
  /\ \A i \in DOMAIN trades :
       /\ trades[i].buy < trades[i].sell \/ (phase = "done" /\ trades[i].buy = trades[i].sell)
       /\ i > 1 => trades[i - 1].sell <= trades[i].buy

\* Nothing the simulation decides or holds comes from a later bar.
NoLookahead == CalibratedOnThePast /\ BoughtBeforeSold

\* The net results of the closed trades, which win rate, profit factor and the
\* evidence hurdle are made of, are exactly what happened to the cash, and the
\* charges of the trades are the cost drag: nothing is charged twice or forgotten
\* over a chain of fills, unfilled orders and the final liquidation.
TradesAreTheMoney ==
  LET held == IF shares > 0 THEN shares * entry.price + entry.cost ELSE 0
      net == SumFunction([i \in DOMAIN trades |-> trades[i].net])
      charges == SumFunction([i \in DOMAIN trades |-> trades[i].charges])
  IN  /\ cash + held = Capital + net
      /\ drag = charges + entry.cost
      /\ phase = "done" => shares = 0 /\ nav = cash
=============================================================================
