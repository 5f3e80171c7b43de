--------------------------- MODULE MCResearchRuns ---------------------------
(***************************************************************************)
(* What runs in the background, for TLC: ResearchRuns, ScannerRuns, the    *)
(* settlement of calls (Outcomes) and the start of the process (Startup).  *)
(*                                                                         *)
(* ResearchRuns has three requests, the first sent twice with one key.  A  *)
(* behaviour has one of two regimes: either no call outlasts the sweep's   *)
(* margin and no statement fails (the module as it is extended here), or   *)
(* both happen, on one day with a limit of its own (Faulty).  The other    *)
(* modules share nothing with it: each is a regime of its own, in which    *)
(* the variables of the rest stay as they began.                           *)
(***************************************************************************)
EXTENDS ResearchRuns

CONSTANTS None,
          FaultyLimit,                                       \* the limit of Faulty
          MaxScans,                                          \* of ScannerRuns
          Kinds, LastDay, MaxCalls, Horizons, Lookback, Cut, \* of Outcomes
          Instances, Releases, Broken, MaxFile, MaxKills     \* of Startup

VARIABLES regime,
          scanStatus, finished, old, starter, mine, scanThread, pushed, before, scanCrashes,
          kind, today, stock, index, outcome, todo, bench,
          recorded, effects, baselined, at, release, live, command, pending, feed, kills

\* Three requests, the first sent twice.
RetriedKey == [r \in Requests |-> IF r = "retry" THEN "first" ELSE r]
\* The middle horizon is as long as an entry's bars reach.
ShortHorizons == [k \in {"signal", "rating", "entry"} |-> IF k = "entry" THEN {2} ELSE {1, 2}]
ShortLookback == [k \in {"signal", "rating", "entry"} |-> IF k = "entry" THEN 2 ELSE 3]
OneDayEarlier == [h \in {1, 2} |-> h - 1]
\* A release, the next one, one with an edited file, and one whose second file fails.
SomeReleases == {<<"a", "a">>, <<"a", "a", "a">>, <<"b", "a">>, <<"a", "x", "a">>}

Faulty == INSTANCE ResearchRuns
            WITH Faults <- TRUE, MarginHolds <- FALSE, Limit <- FaultyLimit, MaxDay <- 0

Scanner == INSTANCE ScannerRuns
             WITH status <- scanStatus, thread <- scanThread, crashes <- scanCrashes

Outcome == INSTANCE Outcomes WITH day <- today
Start == INSTANCE Startup WITH pc <- at

outcomeVars == <<kind, today, stock, index, outcome, todo, bench>>
startVars == <<recorded, effects, baselined, at, release, live, command, pending, feed, kills>>
scanVars == <<scanStatus, finished, old, starter, mine, scanThread, pushed, before, scanCrashes>>
allVars == <<regime, vars, scanVars, outcomeVars, startVars>>

\* The first regime is the one its name says.
ASSUME MarginAssumption == ~Faults /\ MarginHolds
ASSUME BackgroundAssumption ==
  FaultyLimit \in Nat /\ MaxScans \in Nat /\ Outcome!OutcomesAssumption /\ Start!StartupAssumption

AllInit ==
  /\ regime \in {"margin", "faults", "scanner", "outcomes", "startup"}
  /\ Init /\ Scanner!Init
  /\ Outcome!Init /\ (regime # "outcomes" => kind = CHOOSE k \in Kinds : TRUE)
  /\ Start!Init
  /\ regime # "startup" =>
       \A i \in Instances : ~live[i] /\ release[i] = CHOOSE rel \in Releases : TRUE

AllNext ==
  /\ UNCHANGED regime
  /\ \/ regime = "margin"  /\ Next /\ UNCHANGED <<scanVars, outcomeVars, startVars>>
     \/ regime = "faults"  /\ Faulty!Next /\ UNCHANGED <<scanVars, outcomeVars, startVars>>
     \/ regime = "scanner" /\ Scanner!Next /\ UNCHANGED <<vars, outcomeVars, startVars>>
     \/ regime = "outcomes" /\ Outcome!Next /\ UNCHANGED <<vars, scanVars, startVars>>
     \/ regime = "startup" /\ Start!Next /\ UNCHANGED <<vars, scanVars, outcomeVars>>

\* The fairness of each module, in the regime whose liveness is checked.
AllFairness ==
  /\ \A r \in Requests :
       /\ WF_vars(regime = "faults" /\ pc[r] # "idle" /\ Faulty!Enqueue(r))
       /\ WF_vars(regime = "faults" /\ Faulty!Execute(r))
       /\ WF_vars(regime = "faults" /\ Faulty!Ages(r))
  /\ WF_vars(regime = "faults" /\ Faulty!Sweep)
  /\ \A i \in Scanner!Scans : WF_scanVars(regime = "scanner" /\ Scanner!ThreadStep(i))
  /\ WF_scanVars(regime = "scanner" /\ Scanner!HoursPass)
  /\ WF_scanVars(regime = "scanner" /\ Scanner!StartStep("job"))
  /\ WF_outcomeVars(regime = "outcomes" /\ Outcome!Begin)
  /\ \A h \in UNION {Horizons[k] : k \in Kinds} :
       SF_outcomeVars(regime = "outcomes" /\ \E d \in Outcome!Days : Outcome!Settle(<<d, h>>))
  /\ \A i \in Instances : WF_startVars(regime = "startup" /\ Start!Start(i))

AllSpec == AllInit /\ [][AllNext]_allVars /\ AllFairness
-----------------------------------------------------------------------------
\* The values every variable may have.
TypesOK == TypeOK /\ Scanner!TypeOK /\ Outcome!TypeOK /\ Start!TypeOK

\* ResearchRuns: the row of a run tells what became of it.  Its cost is on it, whoever
\* was late; where no call outlasts the sweep's margin and no statement fails, it is not
\* left running and the runs of a day stay within the limit.  (With late answers a run
\* that failed before it paid may be paid for afterwards.)
RowsTellWhatHappened ==
  CostStillRecorded /\ (regime = "margin" => DailyLimit /\ NoRunLeftRunning)

\* ScannerRuns: scans work, are shown and are compared one after the other.
ScansInTurn == Scanner!ScansInTurn
\* Outcomes: a settled return is over the days of its call.
WindowIsTheCalls == regime = "outcomes" => Outcome!WindowIsTheCalls
\* Outcomes: every call whose bars are there is settled in the end, and for good.
SettledOnce == Outcome!SettledOnce
\* Startup: the database has exactly the migrations it records, in order, and an
\* instance serves only on those of its release.
SchemaIsSound == regime = "startup" => Start!SchemaIsSound

\* ResearchRuns!RunsSettle for the finitely many requests of an instance: in the
\* end no run holds up the user, whatever became of its thread.
RunsSettleUnderFaults == <>[](regime = "faults" => ActiveRuns = {})
\* ScannerRuns!ScansSettle for the finitely many scans of an instance.
ScansSettle == <>[](Scanner!Running = {})
\* Startup!DryRunComesUp for the instances there are.
DryRunComesUp ==
  \A i \in Instances :
    <>[](regime = "startup" /\ ~live[i] /\ Start!Fits(i) => at[i] = "serving")
\* Whatever was begun in the background comes to its end, over crashes and kills.
WorkSettles == RunsSettleUnderFaults /\ ScansSettle /\ DryRunComesUp
=============================================================================
