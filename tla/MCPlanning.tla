------------------------------ MODULE MCPlanning ------------------------------
(***************************************************************************)
(* The parts a plan is made and judged with, for TLC: Rebalancer, Profiles,*)
(* TaxGuard, Snapshots and WalkForward.  A behaviour picks one of them at  *)
(* its start and the others stay as they began.                            *)
(***************************************************************************)
EXTENDS MCRebalancer

CONSTANTS TotalBars, TrainWindow, TestWindow, FoldStep, Horizon, Capital,   \* of WalkForward
          Prices, Impacts, Charge,
          Ids, Seeded, Requests, Asked,                                    \* of Profiles
          MarketDays, Limit, Amounts, Gains, StartNav, Kinds,              \* of Snapshots
          Holdings, LotChoices, MaxQuantity, Year, Window, Exemption,      \* of TaxGuard
          LastQuarter, Realized,
          LastDay

VARIABLES part,
          date, nav, moved, flows, snaps,
          stage, fold, bar, read, pending, cash, shares, entry, trades, equity, drag,
          taxDay, lots, sale, advice, liability,
          row, targets, at, target, victims, wrote

rebalanceVars == <<phase, args, book, changes, val, todo, signal, sectorTodo, needed,
                   orders, sold, bought, usable, seen>>
snapshotVars == <<date, nav, moved, flows, snaps>>
backtestVars == <<stage, fold, bar, read, pending, cash, shares, entry, trades, equity, drag>>
taxVars == <<taxDay, lots, sale, advice, liability>>
profileVars == <<row, targets, at, target, victims, wrote>>

N == INSTANCE Snapshots WITH day <- date

B == INSTANCE WalkForward WITH phase <- stage, nav <- equity

T == INSTANCE TaxGuard WITH day <- taxDay

P == INSTANCE Profiles

\* Weights that round up, down or either way.
MCAsked == {[a |-> 333335, b |-> 333335, c |-> 333335], [a |-> 500005, b |-> 500005], [a |-> 400004]}

\* Lots of a holding; a gain is long-term after more than three days.
Lots(b, q, g) == [bought |-> b, quantity |-> q, gain |-> g]
MCLots == {<<Lots(-4, 2, 1), Lots(-3, 1, 3), Lots(0, 2, -1)>>, <<Lots(-5, 2, 3), Lots(-1, 2, 2)>>,
           <<Lots(-4, 1, -2), Lots(-2, 3, 1)>>, <<Lots(-4, 3, 2), Lots(-4, 1, 0)>>}

ASSUME PlanningAssumption ==
  N!SnapshotAssumption /\ B!FoldsAssumption /\ P!ProfilesAssumption
  /\ T!LotsAssumption

AllInit ==
  /\ part \in {"rebalance", "snapshots", "backtest", "tax", "profiles"}
  /\ Init /\ (part # "rebalance" => /\ \A a \in Arguments : args.minTrade <= a.minTrade
                                   /\ book = CHOOSE b \in Books : TRUE)
  /\ N!Init /\ B!Init /\ P!Init
  /\ T!Init /\ (part # "tax" => \A h \in Holdings : Len(lots[h]) = 3)

AllNext ==
  /\ UNCHANGED part
  /\ \/ part = "rebalance" /\ Next /\ UNCHANGED <<snapshotVars, backtestVars, taxVars, profileVars>>
     \/ part = "snapshots" /\ N!Next /\ UNCHANGED <<rebalanceVars, backtestVars, taxVars, profileVars>>
     \/ part = "backtest" /\ B!Next /\ UNCHANGED <<rebalanceVars, snapshotVars, taxVars, profileVars>>
     \/ part = "tax" /\ T!Next /\ UNCHANGED <<rebalanceVars, snapshotVars, backtestVars, profileVars>>
     \/ /\ part = "profiles" /\ P!Next
        /\ UNCHANGED <<rebalanceVars, snapshotVars, backtestVars, taxVars>>

allVars == <<part, rebalanceVars, snapshotVars, backtestVars, taxVars, profileVars>>

AllSpec == AllInit /\ [][AllNext]_allVars
-----------------------------------------------------------------------------
\* The values every variable may have.
TypesOK ==
  CASE part = "snapshots" -> N!TypeOK [] part = "backtest" -> B!TypeOK
    [] part = "tax" -> T!TypeOK [] part = "profiles" -> P!TypeOK [] part = "rebalance" -> TypeOK

\* Snapshots: a flow is recorded once, issues units once and is no gain.
FlowsCountOnce == part = "snapshots" => N!FlowsCountOnce
\* WalkForward: time only moves forward, for what is known and for what is held.
NoLookahead == part = "backtest" => B!NoLookahead
\* WalkForward: the closed trades are what happened to the cash.
TradesAreTheMoney == part = "backtest" => B!TradesAreTheMoney
\* TaxGuard: a sale takes the oldest shares, a harvest what the exemption has room for.
LotsAreUsedWell == part = "tax" => T!LotsAreUsedWell
\* Profiles: the targets in force are those of exactly one profile.
OneActive == part = "profiles" => P!OneActive
\* Profiles: no circle of waiting activations, and saved weights that make a whole.
ProfilesAreSound == part = "profiles" => P!ProfilesAreSound
\* Does not hold.  TaxGuard: the total tax shown grants the exemption once.
OneExemption == part = "tax" => T!OneExemption
=============================================================================
