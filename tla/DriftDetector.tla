---------------------------- MODULE DriftDetector ----------------------------
(***************************************************************************)
(* detect_drift of src/analytics/drift_detector.py: which sectors, stocks  *)
(* and cash of a valuation are away from their targets, by how much, and   *)
(* what it would take to go back.  Severity is left out: the plan sorts by *)
(* the size of the drift and never reads it.                               *)
(***************************************************************************)
EXTENDS Rounding

CONSTANTS
    Symbols, Sectors,
    SectorTargets,      \* the active targets: partial functions from sectors,
    StockTargets,       \* from symbols and from {"CASH"} to records
    CashTargets,        \* [target, threshold]
    ConcentrationLimit  \* the greatest weight of one stock

Partial(f, S, R) == DOMAIN f \subseteq S /\ f \in [DOMAIN f -> R]
Targets == [target : Nat, threshold : Nat]

ASSUME TargetsAssumption ==
    /\ Partial(SectorTargets, Sectors, Targets)
    /\ Partial(StockTargets, Symbols, Targets)
    /\ Partial(CashTargets, {"CASH"}, Targets)
    /\ ConcentrationLimit \in Nat

Valuations ==
    [ holdings : SUBSET Symbols,
      value : [Symbols -> Nat],
      weight : [Symbols -> Nat],
      sectors : SUBSET Sectors,
      sectorWeight : [Sectors -> Nat],
      aum : Nat,
      cash : Int ]

DriftSignals ==
    [ type : {"SECTOR", "HOLDING", "CASH"},
      name : Symbols \cup Sectors \cup {"CASH"},
      drift : Int, threshold : Nat, amount : Int ]

\* A threshold of zero counts as not given: 5% (row.get(...) or 5).
Threshold(t) == IF t.threshold = 0 THEN 500 ELSE t.threshold

\* What a target is worth now, and what is missing to it (negative: too much).
Missing(v, target, present) == HalfEven(target * v.aum - present * Whole, Whole)

SectorDrift(v) ==
    { [ type |-> "SECTOR", name |-> x,
        drift |-> v.sectorWeight[x] - SectorTargets[x].target,
        threshold |-> Threshold(SectorTargets[x]),
        amount |-> HalfEven((SectorTargets[x].target - v.sectorWeight[x]) * v.aum, Whole) ]
      : x \in {y \in v.sectors \cap DOMAIN SectorTargets : v.aum > 0} }

\* Every breach of the concentration limit is a signal.
ConcentrationDrift(v) ==
    { [ type |-> "HOLDING", name |-> s,
        drift |-> v.weight[s] - ConcentrationLimit,
        threshold |-> 0,
        amount |-> Missing(v, ConcentrationLimit, v.value[s]) ]
      : s \in {h \in v.holdings : v.weight[h] > ConcentrationLimit} }

\* Mutant of StockDrift: the drift with its sign the wrong way round.
StockDriftReversed(v) ==
    { [ type |-> "HOLDING", name |-> s,
        drift |-> StockTargets[s].target - v.weight[s],
        threshold |-> Threshold(StockTargets[s]),
        amount |-> Missing(v, StockTargets[s].target, v.value[s]) ]
      : s \in v.holdings \cap DOMAIN StockTargets }

StockDrift(v) ==
    { [ type |-> "HOLDING", name |-> s,
        drift |-> v.weight[s] - StockTargets[s].target,
        threshold |-> Threshold(StockTargets[s]),
        amount |-> Missing(v, StockTargets[s].target, v.value[s]) ]
      : s \in v.holdings \cap DOMAIN StockTargets }

\* For information only: its amount is zero.
CashDrift(v) ==
    { [ type |-> "CASH", name |-> "CASH",
        drift |-> HalfUp(v.cash * Whole, v.aum + v.cash) - CashTargets[c].target,
        threshold |-> Threshold(CashTargets[c]),
        amount |-> 0 ]
      : c \in {d \in DOMAIN CashTargets : v.aum + v.cash > 0} }

\* detect_drift, and the property is_actionable of its signals.
DetectDrift(v) == SectorDrift(v) \cup ConcentrationDrift(v) \cup StockDrift(v) \cup CashDrift(v)
IsActionable(signal) == Abs(signal.drift) > signal.threshold
Overweight(signal) == signal.drift > 0
==============================================================================
