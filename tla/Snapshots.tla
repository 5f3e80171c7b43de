------------------------------ MODULE Snapshots ------------------------------
(***************************************************************************)
(* The daily portfolio snapshots and the cash-flow ledger they rest on:    *)
(* snapshot_recorder.py, the snapshot and cash-flow functions of           *)
(* db/repository.py and the import of a broker ledger.                     *)
(*                                                                         *)
(* A snapshot divides the net worth into units, so that a deposit buys     *)
(* units at the previous snapshot's unit NAV and is no gain.  Units carry  *)
(* three decimals here and the unit NAV one; in the code, six and four.    *)
(***************************************************************************)
EXTENDS Integers, FiniteSetsExt, Functions, Rounding

CONSTANTS LastDay,      \* bound: days
          MarketDays,   \* the days the evening job works
          Limit,        \* rows get_daily_snapshots returns: 500 in the code
          Amounts,      \* sizes of a movement of cash
          Gains,        \* what the market does in a day
          StartNav,
          Kinds         \* the kinds of movement the bank side may have

Days == 0..LastDay
\* What a ledger line that moves cash is taken for, by its words.
FlowKinds == {"DEPOSIT", "INTEREST", "WITHDRAWAL", "CHARGE", "DIVIDEND"}

\* What is asked of the constants.
SnapshotAssumption ==
  /\ Kinds \subseteq FlowKinds /\ Kinds # {} /\ LastDay \in Nat /\ MarketDays \subseteq Days /\ Limit \in Nat \ {0}
  /\ Amounts \subseteq Nat \ {0} /\ Gains \subseteq Int /\ StartNav \in Nat

VARIABLES
  day,
  nav,       \* external: the net worth compute_portfolio_valuation sees
  moved,     \* external, per day: the movement on the bank side, amount 0 for none
  flows,     \* portfolio_cash_flows: [day, kind, amount, source, copy]
  snaps      \* portfolio_daily_snapshots, per day: units 0 for no row

vars == <<day, nav, moved, flows, snaps>>

NoRow == [nav |-> 0, units |-> 0, unitNav |-> 0, flow |-> 0, base |-> 0 - 1]
NoMove == [kind |-> CHOOSE k \in Kinds : TRUE, amount |-> 0]
UnitScale == 1000
NavScale == 10
BaseNav == 100 * NavScale

Init ==
  /\ day = 0 /\ nav = StartNav
  /\ moved = [d \in Days |-> NoMove] /\ flows = {} /\ snaps = [d \in Days |-> NoRow]
-----------------------------------------------------------------------------
(* Outside *)

\* The sign with which a recorded flow is external: dividends are return.
Signed(kind, amount) ==
  CASE kind \in {"DEPOSIT", "INTEREST"} -> amount
    [] kind \in {"WITHDRAWAL", "CHARGE"} -> -amount
    [] OTHER -> 0

NewDay ==
  /\ day < LastDay /\ day' = day + 1
  /\ \E g \in Gains : nav' = Max({0, nav + g})
  /\ UNCHANGED <<moved, flows, snaps>>

\* Cash comes or goes at the bank; the ledger has a line, the flows not yet.
Move(kind, a) ==
  /\ moved[day].amount = 0
  /\ nav' = nav + (IF kind = "DIVIDEND" THEN a ELSE Signed(kind, a)) /\ nav' >= 0
  /\ moved' = [moved EXCEPT ![day] = [kind |-> kind, amount |-> a]]
  /\ UNCHANGED <<day, flows, snaps>>
-----------------------------------------------------------------------------
(* The ledger *)

Line(d) == [day |-> d, kind |-> moved[d].kind, amount |-> moved[d].amount]

\* post_portfolio_cash_flow: the user's own entry, with no key.
PostFlow(d) ==
  /\ moved[d].amount # 0
  /\ ~\E f \in flows : f.day = d /\ f.source = "manual"
  /\ flows' = flows \union {[line |-> Line(d), day |-> d, source |-> "manual", copy |-> 0]}
  /\ UNCHANGED <<day, nav, moved, snaps>>

LedgerFlows(d) == {f \in flows : f.source = "ledger" /\ f.line = Line(d)}

\* Mutant: each import adds the line again.
AddedAgain(d) ==
  {[line |-> Line(d), day |-> d, source |-> "ledger", copy |-> Cardinality(LedgerFlows(d))]}

\* The line's hash is the key: a line imported before adds nothing.
Added(d) ==
  IF LedgerFlows(d) # {} THEN {}
  ELSE {[line |-> Line(d), day |-> d, source |-> "ledger", copy |-> 0]}

\* A statement of the days from a to b, in one transaction.
ImportLedger(a, b) ==
  /\ \E d \in a..b : moved[d].amount # 0
  /\ flows' = flows \union UNION {Added(d) : d \in {x \in a..b : moved[x].amount # 0}}
  /\ Cardinality(flows') <= LastDay + 2
  /\ UNCHANGED <<day, nav, moved, snaps>>
-----------------------------------------------------------------------------
(* record_daily_eod_snapshot *)

Recorded == {d \in Days : snaps[d].units # 0}

\* get_daily_snapshots: the oldest rows first, and no more than the limit.
Visible == {d \in Recorded : Cardinality({x \in Recorded : x < d}) < Limit}

\* Mutant: the row of the day itself counts as a prior one.
PriorOrToday(d) == {x \in Visible : x <= d}
Prior(d) == {x \in Visible : x < d}

NetFlow(d) ==
  LET entered == {f \in flows : f.day = d}
  IN  SumFunctionOnSet([f \in entered |-> Signed(f.line.kind, f.line.amount)], entered)

\* Mutant: the deposit buys its units at the day's own value.
UnitsAtToday(prev, flow) ==
  IF nav = 0 THEN prev.units ELSE prev.units + HalfUp(flow * prev.units, nav)

\* Units issued or redeemed at the previous unit NAV.
Units(prev, flow) ==
  IF prev.unitNav > 0 /\ flow # 0
  THEN prev.units + HalfUp(flow * UnitScale * NavScale, prev.unitNav) ELSE prev.units

Row(d) ==
  LET flow == NetFlow(d)
  IN IF Prior(d) = {}
     THEN [nav |-> nav, unitNav |-> BaseNav, flow |-> flow, base |-> 0 - 1,
           units |-> IF nav > 0 THEN HalfUp(nav * UnitScale, 100) ELSE UnitScale]
     ELSE LET prev == snaps[Max(Prior(d))]
              units == IF Units(prev, flow) > 0 THEN Units(prev, flow) ELSE UnitScale
          IN [nav |-> nav, units |-> units, flow |-> flow, base |-> Max(Prior(d)),
              unitNav |-> HalfUp(nav * UnitScale * NavScale, units)]

\* The evening job on a market day, or the chart's request while no row is there.
Record ==
  /\ day \in MarketDays \/ Recorded = {}
  /\ snaps' = [snaps EXCEPT ![day] = Row(day)]
  /\ UNCHANGED <<day, nav, moved, flows>>

Next ==
  \/ NewDay \/ Record
  \/ \E k \in Kinds, a \in Amounts : Move(k, a)
  \/ \E d \in Days : PostFlow(d)
  \/ \E a, b \in Days : a <= b /\ b <= day /\ ImportLedger(a, b)

Spec == Init /\ [][Next]_vars
-----------------------------------------------------------------------------
TypeOK ==
  /\ day \in Days /\ nav \in Nat
  /\ moved \in [Days -> [kind : Kinds, amount : {0} \union Amounts]]
  /\ snaps \in [Days -> [nav : Nat, units : Nat, unitNav : Nat, flow : Int, base : Days \union {0 - 1}]]

\* However often and in whatever pieces a ledger is imported, a line of it is one
\* cash flow.
LineIsOneFlow == \A d \in Days : Cardinality(LedgerFlows(d)) <= 1

\* Recording a day again with nothing changed since writes the row that is there:
\* the units are not issued a second time.
AgainIsTheSame ==
  (day \in Recorded /\ snaps[day].nav = nav /\ snaps[day].flow = NetFlow(day))
    => Row(day) = snaps[day]

\* The snapshot before, among all there are.
Before(d) == {x \in Recorded : x < d}
Truly(d) == Signed(moved[d].kind, moved[d].amount)

\* Between two snapshots in a row whose net worth differs by exactly what came in
\* or went out on the later day, and was entered by then, the unit NAV stands
\* still but for what rounding the units and the unit NAV can move it: a deposit is
\* no gain and a withdrawal no loss.  (Cash that moved on a day without a snapshot is
\* taken for a gain, and when all is withdrawn, or all but what the rounding
\* amounts to, the count starts over: both are left out here.)
FlowsAreNotGains ==
  \A d \in Recorded :
    LET p == Max(Before(d))
        slack == snaps[p].units + snaps[p].unitNav
    IN (/\ Before(d) # {} /\ snaps[d].flow = Truly(d)
        /\ snaps[p].nav > 0 /\ snaps[p].unitNav > 0
        /\ 2 * UnitScale * NavScale * snaps[d].nav > slack
        /\ snaps[d].nav - snaps[p].nav = snaps[d].flow
        /\ snaps[d].base = p)
       => 2 * snaps[d].units * Abs(snaps[d].unitNav - snaps[p].unitNav)
            <= slack + snaps[d].units

\* Cash that moves is counted once and as what it is.
FlowsCountOnce == LineIsOneFlow /\ AgainIsTheSame /\ FlowsAreNotGains

\* A day's return is against the latest snapshot before it, as the docstring of
\* record_daily_eod_snapshot has it.
ReturnIsAgainstPriorDay ==
  \A d \in Recorded : Before(d) # {} => snaps[d].base = Max(Before(d))
=============================================================================
