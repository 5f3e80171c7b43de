-------------------------- MODULE Committee_proofs --------------------------
(***************************************************************************)
(* A committee run never passes its budget, whatever the number of roles,  *)
(* threads and debate turns and whatever the calls cost, as long as        *)
(* worst_case is an upper bound of a call's cost.  And it ends in order:   *)
(* what decided was complete, and nothing of it is left at work, and its   *)
(* record holds every call that cost something and their sum.              *)
(***************************************************************************)
EXTENDS Committee, SequenceTheorems, LibraryLemmas, TLAPS

\* What the assumptions say of the stages.
LEMMA StageFacts ==
  /\ Len(Debate) \in Nat \ {0} /\ "warmup" \in Stages /\ Roles \subseteq Stages
  /\ \A n \in 1 .. Len(Debate) : Debate[n] \in Stages
  /\ \A s \in Stages : Worst[s] \in Nat /\ \A p \in Prices[s] : p \in 0 .. Worst[s]
BY CommitteeAssumption, LenProperties DEF CommitteeAssumption, Stages, Turns

\* A stage that starts keeps the job's type and the budget.
LEMMA RequestKeeps ==
  ASSUME TypeOK, WithinBudget, NEW s \in Stages, Request(s), UNCHANGED spent
  PROVE  job' \in [Stages -> JobStates] /\ reserved' \in Int /\ WithinBudget'
<1> USE StageFacts, CommitteeAssumption
    DEF TypeOK, CommitteeAssumption, WithinBudget, JobStates, Finished, Answers, Stopped
<1>1. CASE UNCHANGED reserved /\ job' = [job EXCEPT ![s] = "abandoned"]
  BY <1>1
<1>2. CASE UNCHANGED reserved /\ job' = [job EXCEPT ![s] = "skipped"]
  BY <1>2
<1>3. CASE CanReserve(s) /\ job' = [job EXCEPT ![s] = "calling"] /\ reserved' = reserved + Worst[s]
  BY <1>3 DEF CanReserve
<1> QED
  BY <1>1, <1>2, <1>3 DEF Request

\* The end of a run keeps the types.
LEMMA EndKeeps ==
  ASSUME TypeOK, NEW st \in Statuses, End(st)
  PROVE  /\ status' \in {"running"} \union Statuses /\ main' \in Mains
         /\ cost' \in Nat
         /\ calls' = calls => saved' \in [cost : Nat, calls : SUBSET Stages]
BY DEF TypeOK, End, Mains

\* Initially nothing is spent or reserved.
LEMMA InitBudgeted == Init => Budgeted
BY StageFacts, CommitteeAssumption
   DEF CommitteeAssumption, Init, Budgeted, TypeOK, WithinBudget, JobStates, Mains

\* The API's and the pool's steps.
LEMMA CallSteps ==
  ASSUME Budgeted, NEW s \in Stages, Answer(s) \/ CallFails(s) \/ Record(s)
  PROVE  Budgeted'
<1> USE StageFacts DEF Budgeted, TypeOK, WithinBudget, JobStates, Finished, Answers, Stopped
<1>1. CASE Answer(s)
  <2>1. PICK price \in Prices[s] : spent' = spent + price /\ paid' = [paid EXCEPT ![s] = price]
    BY <1>1 DEF Answer
  <2>2. price \in Nat /\ price <= Worst[s] /\ Worst[s] \in Nat
    OBVIOUS
  <2>3. WithinBudget'
    BY <1>1, <2>1, <2>2, CommitteeAssumption DEF Answer, CommitteeAssumption
  <2>4. /\ spent' \in Nat /\ reserved' \in Int /\ paid' \in [Stages -> Nat]
        /\ job' \in [Stages -> JobStates]
    BY <1>1, <2>1, <2>2 DEF Answer
  <2> QED
    BY <1>1, <2>3, <2>4 DEF Answer
<1>2. CASE CallFails(s)
  <2>1. Worst[s] \in Nat /\ Cap \in Nat
    BY CommitteeAssumption DEF CommitteeAssumption
  <2>2. reserved' = reserved - Worst[s] /\ job' \in [Stages -> JobStates]
    BY <1>2 DEF CallFails
  <2>3. reserved' \in Int /\ WithinBudget'
    BY <1>2, <2>1, <2>2 DEF CallFails
  <2> QED
    BY <1>2, <2>2, <2>3 DEF CallFails
<1>3. CASE Record(s)
  BY <1>3 DEF Record, budget
<1> QED
  BY <1>1, <1>2, <1>3

\* The steps that start a call.
LEMMA StartSteps ==
  ASSUME Budgeted, StartWarmup \/ StartTurn \/ \E a \in Roles : StartAnalyst(a)
  PROVE  Budgeted'
<1> USE StageFacts, RequestKeeps DEF Budgeted
<1>1. CASE StartWarmup
  BY <1>1 DEF StartWarmup, TypeOK
<1>2. CASE StartTurn
  <2>1. Debate[turn] \in Stages
    BY DEF TypeOK
  <2> QED
    BY <1>2, <2>1 DEF StartTurn, TypeOK
<1>3. CASE \E a \in Roles : StartAnalyst(a)
  BY <1>3 DEF StartAnalyst, TypeOK
<1> QED
  BY <1>1, <1>2, <1>3

\* The main thread's steps between calls.
LEMMA MainSteps ==
  ASSUME Budgeted,
         \/ \E a \in Roles : Collect(a) \/ Cancel(a) \/ CollectCancelled(a)
         \/ CancelDone \/ Escape \/ ReadCost \/ Save
  PROVE  Budgeted'
<1> USE StageFacts DEF Budgeted, TypeOK, WithinBudget, budget, Mains
<1>1. ASSUME NEW a \in Roles, Collect(a) \/ Cancel(a) \/ CollectCancelled(a) PROVE Budgeted'
  BY <1>1 DEF Collect, Cancel, CollectCancelled, StopStatus, JobStates, Finished
<1>2. CASE CancelDone \/ Escape
  BY <1>2 DEF CancelDone, Escape, Statuses
<1>3. CASE ReadCost \/ Save
  BY <1>3 DEF ReadCost, Save
<1> QED
  BY <1>1, <1>2, <1>3

\* The steps that may end the run.
LEMMA EndSteps ==
  ASSUME Budgeted, AfterWarmup \/ AnalystsStop \/ AfterTurn \/ AfterManager
  PROVE  Budgeted'
<1> USE StageFacts, EndKeeps DEF Budgeted, WithinBudget, budget
<1>1. /\ \A s \in Stages : StopStatus(s) \in Statuses
      /\ {"completed", "budget_exceeded", "declined", "failed", "abandoned"} \subseteq Statuses
      /\ stop # "none" => stop \in Statuses
  BY DEF TypeOK, StopStatus, Statuses
<1>2. CASE AfterWarmup
  BY <1>1, <1>2 DEF AfterWarmup, TypeOK, Mains
<1>3. CASE AnalystsStop
  <2>1. PICK st \in Statuses : End(st)
    BY <1>1, <1>3 DEF AnalystsStop
  <2> QED
    BY <1>3, <2>1 DEF AnalystsStop, TypeOK
<1>4. CASE AfterTurn
  <2>1. Debate[turn] \in Stages /\ (turn < Len(Debate) => turn + 1 \in 1 .. Len(Debate))
    BY DEF TypeOK
  <2> QED
    BY <1>1, <1>4, <2>1 DEF AfterTurn, TypeOK, Mains
<1>5. CASE AfterManager
  <2>1. Debate[turn] \in Stages
    BY DEF TypeOK
  <2>2. PICK st \in Statuses : End(st)
    BY <1>1, <1>5, <2>1 DEF AfterManager
  <2> QED
    BY <1>5, <2>2 DEF AfterManager, TypeOK
<1> QED
  BY <1>2, <1>3, <1>4, <1>5

\* Every step keeps the budget's invariant.
LEMMA NextBudgeted == Budgeted /\ [Next]_vars => Budgeted'
<1> SUFFICES ASSUME Budgeted, [Next]_vars PROVE Budgeted'
  OBVIOUS
<1>1. CASE Work
  BY <1>1, CallSteps, StartSteps, MainSteps, EndSteps DEF Work
<1>2. CASE PassDeadline \/ UNCHANGED vars
  BY <1>2 DEF PassDeadline, vars, budget, Budgeted, TypeOK, WithinBudget
<1> QED
  BY <1>1, <1>2 DEF Next

\* The hard cap: for any number of analysts, threads and turns, what is spent plus
\* what the calls in flight have reserved stays within the run's budget.
THEOREM BudgetIsHard == Spec => []Budgeted
BY InitBudgeted, NextBudgeted, PTL DEF Spec
-----------------------------------------------------------------------------
(* How a run ends *)

\* What the debate stands on, from its first turn to the end of the run.
Basis == /\ collected = Roles /\ stop = "none" /\ Cardinality(Views) >= 2
         /\ main \in {"debate", "cost", "save", "ended"}

\* A result is taken once it is there, and a call that stopped the run is remembered.
CollectedKept ==
  \A a \in collected : /\ job[a] \in Finished
                       /\ job[a] \in Stopped => stop # "none"

\* The debate begins with the analysts' results on the table, and goes turn by turn.
DebateKept ==
  /\ main = "debate" => collected = Roles
  /\ (turn > 1 \/ \E t \in Turns : job[t] # "queued") => Basis
  /\ \A n \in 1 .. Len(Debate) : n < turn => job[Debate[n]] \in Answers

\* Which calls may be open, by where the main thread is.
CallsKept ==
  /\ main = "warmup" => \A a \in Roles : job[a] = "queued"
  /\ main # "warmup" => job["warmup"] \in Finished
  /\ \A t \in Turns : job[t] \in {"queued"} \union Finished
                      \/ (main = "debate" /\ t = Debate[turn])
  /\ main = "ended" => InFlight = {}

\* A decision keeps what it was made on.
DecisionKept ==
  status = "completed" =>
    main = "ended" /\ Basis /\ \A t \in Turns : job[t] \in Answers

EInv == Budgeted /\ CollectedKept /\ DebateKept /\ CallsKept /\ DecisionKept

\* The three kinds of stages differ.
LEMMA StagesDiffer ==
  /\ "warmup" \notin Roles /\ "warmup" \notin Turns /\ Turns \intersect Roles = {}
  /\ Turns \subseteq Stages
  /\ \A n \in 1 .. Len(Debate) : Debate[n] \in Turns
  /\ \A t \in Turns : \E n \in 1 .. Len(Debate) : t = Debate[n]
BY CommitteeAssumption DEF CommitteeAssumption, Stages, Turns

\* Initially no stage has run.
LEMMA InitEnds == Init => EInv
<1> SUFFICES ASSUME Init PROVE EInv
  OBVIOUS
<1>1. Budgeted
  BY InitBudgeted
<1>2. \A s \in Stages : job[s] = IF s = "warmup" THEN "ready" ELSE "queued"
  BY DEF Init
<1> QED
  BY <1>1, <1>2, StageFacts, StagesDiffer
     DEF Init, EInv, CollectedKept, DebateKept, CallsKept, DecisionKept

\* What is finished stays so when no finished job changes.
LEMMA ViewsStay ==
  ASSUME \A a \in Roles : job[a] \in Finished, \A s \in Stages : job[s] \in Finished => job'[s] = job[s]
  PROVE  Views' = Views
BY StageFacts DEF Views

\* A call that goes on, of a stage whose turn it is, disturbs nothing.
LEMMA JobStep ==
  ASSUME EInv, NEW s \in Stages, NEW x \in JobStates, job' = [job EXCEPT ![s] = x],
         UNCHANGED <<main, turn, collected, stop, status>>,
         job[s] \notin Finished, main # "ended",
         s = "warmup" => main = "warmup",
         s \in Roles => main # "warmup",
         s \in Turns => main = "debate" /\ s = Debate[turn] /\ Basis
  PROVE  CollectedKept' /\ DebateKept' /\ CallsKept' /\ DecisionKept'
<1>1. \A r \in Stages : job'[r] = IF r = s THEN x ELSE job[r]
  BY DEF EInv, Budgeted, TypeOK
<1>2. CollectedKept'
  BY <1>1, StageFacts DEF EInv, Budgeted, TypeOK, CollectedKept
<1>3. ASSUME Basis PROVE Basis'
  <2>1. \A a \in Roles : job[a] \in Finished
    BY <1>3 DEF Basis, EInv, CollectedKept
  <2>2. Views' = Views
    BY <2>1, <1>1, ViewsStay
  <2> QED
    BY <1>3, <2>2 DEF Basis
<1>4. DebateKept'
  <2>1. (turn > 1 \/ \E t \in Turns : job'[t] # "queued") => Basis
    BY <1>1, StagesDiffer DEF EInv, DebateKept
  <2>2. \A n \in 1 .. Len(Debate) : n < turn => job'[Debate[n]] \in Answers
    BY <1>1, StagesDiffer DEF EInv, DebateKept, Finished
  <2> QED
    BY <1>3, <2>1, <2>2 DEF EInv, DebateKept
<1>5. CallsKept'
  BY <1>1, StageFacts, StagesDiffer DEF EInv, CallsKept
<1>6. DecisionKept'
  BY DEF EInv, DecisionKept
<1> QED
  BY <1>2, <1>4, <1>5, <1>6

\* The steps of a call keep the order, wherever they come.
LEMMA CallsInOrder ==
  ASSUME EInv,
         \/ StartWarmup \/ StartTurn \/ \E a \in Roles : StartAnalyst(a) \/ Cancel(a)
         \/ \E s \in Stages : Answer(s) \/ CallFails(s) \/ Record(s)
  PROVE  CollectedKept' /\ DebateKept' /\ CallsKept' /\ DecisionKept'
<1> DEFINE Kept == CollectedKept' /\ DebateKept' /\ CallsKept' /\ DecisionKept'
           Going == {"calling", "skipped", "abandoned"}
<1> USE StageFacts, StagesDiffer
<1>1. \A x \in Going \union Answers \union {"settled", "bad_key", "api_error", "cancelled"} :
        x \in JobStates
  BY DEF JobStates, Finished, Stopped
<1>2. CASE StartWarmup
  <2>1. PICK x \in Going : job' = [job EXCEPT !["warmup"] = x]
    BY <1>2 DEF StartWarmup, Request
  <2> HIDE DEF Kept
  <2> QED
    BY <1>1, <1>2, <2>1, JobStep DEF StartWarmup, Kept, Finished, Answers, Stopped
<1>3. CASE StartTurn
  <2>1. PICK x \in Going : job' = [job EXCEPT ![Debate[turn]] = x]
    BY <1>3 DEF StartTurn, Request
  <2>2. Debate[turn] \in Turns /\ Debate[turn] \in Stages
    BY DEF EInv, Budgeted, TypeOK
  <2>3. Basis
    BY <1>3 DEF StartTurn, EInv, DebateKept, Basis, Budgeted, TypeOK
  <2> QED
    BY <1>1, <1>3, <2>1, <2>2, <2>3, JobStep DEF StartTurn, Finished, Answers, Stopped
<1>4. ASSUME NEW a \in Roles, StartAnalyst(a) \/ Cancel(a) PROVE Kept
  <2>1. PICK x \in Going \union {"cancelled"} : job' = [job EXCEPT ![a] = x]
    BY <1>4 DEF StartAnalyst, Cancel, Request
  <2> QED
    BY <1>1, <1>4, <2>1, JobStep DEF StartAnalyst, Cancel, Finished, Answers, Stopped
<1>5. ASSUME NEW s \in Stages, Answer(s) \/ CallFails(s) \/ Record(s) PROVE Kept
  <2>1. PICK x \in Answers \union {"settled", "bad_key", "api_error"} : job' = [job EXCEPT ![s] = x]
    BY <1>5 DEF Answer, CallFails, Record
  <2>2. job[s] \in {"calling", "settled"} /\ UNCHANGED <<main, turn, collected, stop, status>>
    BY <1>5 DEF Answer, CallFails, Record
  <2>3. s \in InFlight /\ main # "ended"
    BY <2>2 DEF EInv, CallsKept, InFlight
  <2>4. job[s] \notin Finished /\ job[s] # "queued"
    BY <2>2 DEF Finished, Answers, Stopped
  <2>5. s \in Turns => main = "debate" /\ s = Debate[turn] /\ Basis
    BY <2>4 DEF EInv, CallsKept, DebateKept
  <2>6. (s = "warmup" => main = "warmup") /\ (s \in Roles => main # "warmup")
    BY <2>4 DEF EInv, CallsKept
  <2> QED
    BY <1>1, <2>1, <2>2, <2>3, <2>4, <2>5, <2>6, JobStep
<1> QED
  BY <1>2, <1>3, <1>4, <1>5

\* The steps between calls.
LEMMA MainInOrder ==
  ASSUME EInv, UNCHANGED job,
         \/ \E a \in Roles : Collect(a) \/ CollectCancelled(a)
         \/ CancelDone \/ Escape \/ ReadCost \/ Save \/ AfterWarmup \/ AnalystsStop
  PROVE  CollectedKept' /\ DebateKept' /\ CallsKept' /\ DecisionKept'
<1> DEFINE Kept == CollectedKept' /\ DebateKept' /\ CallsKept' /\ DecisionKept'
<1> USE StageFacts, StagesDiffer
        DEF EInv, CollectedKept, DebateKept, CallsKept, DecisionKept, Basis, Views, InFlight
<1>1. ASSUME NEW a \in Roles, Collect(a) PROVE Kept
  BY <1>1 DEF Collect, StopStatus
<1>2. ASSUME NEW a \in Roles, CollectCancelled(a) PROVE Kept
  BY <1>2 DEF CollectCancelled
<1>3. CASE CancelDone
  BY <1>3 DEF CancelDone
<1>4. CASE Escape
  BY <1>4 DEF Escape, Finished, Answers, Stopped, Stages
<1>5. CASE ReadCost
  BY <1>5 DEF ReadCost
<1>6. CASE Save
  BY <1>6 DEF Save
<1>7. CASE AfterWarmup
  BY <1>7 DEF AfterWarmup, End, StopStatus, Finished, Answers, Stopped, Stages
<1>8. CASE AnalystsStop
  <2>1. /\ main = "debate" /\ main' = "ended" /\ status' # "completed"
        /\ UNCHANGED <<turn, collected, stop>>
    BY <1>8 DEF AnalystsStop, End, Budgeted, TypeOK
  <2>2. \A s \in Stages : job[s] \in {"queued"} \union Finished
    BY <1>8 DEF AnalystsStop, Stages
  <2>3. InFlight' = {}
    BY <2>2 DEF Finished, Answers, Stopped
  <2> QED
    BY <2>1, <2>2, <2>3
<1> QED
  BY <1>1, <1>2, <1>3, <1>4, <1>5, <1>6, <1>7, <1>8

\* The steps that take a turn's answer.
LEMMA TurnsInOrder ==
  ASSUME EInv, AfterTurn \/ AfterManager
  PROVE  CollectedKept' /\ DebateKept' /\ CallsKept' /\ DecisionKept'
<1> DEFINE Kept == CollectedKept' /\ DebateKept' /\ CallsKept' /\ DecisionKept'
<1> USE StageFacts, StagesDiffer
<1>1. /\ main = "debate" /\ collected = Roles /\ UNCHANGED <<job, collected, stop>>
      /\ job[Debate[turn]] \in Finished /\ turn \in 1 .. Len(Debate)
  BY DEF AfterTurn, AfterManager, EInv, DebateKept, Budgeted, TypeOK
<1>2. Basis
  BY <1>1 DEF EInv, DebateKept, Finished, Answers, Stopped
<1>3. \A s \in Stages : job[s] \in {"queued"} \union Finished
  BY <1>1 DEF EInv, CollectedKept, CallsKept, Stages
<1>4. InFlight' = {} /\ Views' = Views /\ CollectedKept'
  BY <1>1, <1>3 DEF InFlight, Finished, Answers, Stopped, Views, EInv, CollectedKept
<1>5. CASE main' = "cost" /\ turn' = turn + 1 /\ job[Debate[turn]] \in Answers /\ UNCHANGED status
  <2>1. Basis'
    BY <1>1, <1>2, <1>4, <1>5 DEF Basis
  <2>2. DebateKept'
    BY <1>1, <1>5, <2>1 DEF EInv, DebateKept
  <2>3. CallsKept'
    BY <1>1, <1>3, <1>4, <1>5 DEF EInv, CallsKept
  <2>4. DecisionKept'
    BY <1>1, <1>5 DEF EInv, DecisionKept
  <2> QED
    BY <1>4, <2>2, <2>3, <2>4
<1>6. CASE /\ main' = "ended" /\ UNCHANGED turn
           /\ status' = "completed" => turn = Len(Debate) /\ job[Debate[turn]] \in Answers
  <2>1. Basis'
    BY <1>1, <1>2, <1>4, <1>6 DEF Basis
  <2>2. DebateKept'
    BY <1>1, <1>6, <2>1 DEF EInv, DebateKept
  <2>3. CallsKept'
    BY <1>1, <1>3, <1>4, <1>6 DEF EInv, CallsKept
  <2>4. ASSUME status' = "completed", NEW t \in Turns PROVE job[t] \in Answers
    <3>1. PICK n \in 1 .. Len(Debate) : t = Debate[n]
      OBVIOUS
    <3> QED
      BY <1>6, <2>4, <3>1 DEF EInv, DebateKept
  <2>5. DecisionKept'
    BY <1>1, <1>6, <2>1, <2>4 DEF DecisionKept
  <2> QED
    BY <1>4, <2>2, <2>3, <2>5
<1>7. CASE AfterTurn
  BY <1>5, <1>6, <1>7 DEF AfterTurn, End, StopStatus
<1>8. CASE AfterManager
  BY <1>6, <1>8 DEF AfterManager, End, StopStatus, Answers
<1> QED
  BY <1>7, <1>8

\* Every step of the run keeps its order.
LEMMA NextEnds == EInv /\ [Next]_vars => EInv'
<1> SUFFICES ASSUME EInv, [Next]_vars PROVE EInv'
  OBVIOUS
<1> DEFINE Kept == CollectedKept' /\ DebateKept' /\ CallsKept' /\ DecisionKept'
<1>1. Budgeted'
  BY NextBudgeted DEF EInv
<1>2. CASE UNCHANGED <<job, main, turn, collected, stop, status>>
  <2>1. Kept
    BY <1>2 DEF EInv, CollectedKept, DebateKept, CallsKept, DecisionKept, Basis, Views, InFlight
  <2> QED
    BY <1>1, <2>1 DEF EInv
<1>3. CASE Work
  <2>1. ASSUME AfterTurn \/ AfterManager PROVE Kept
    BY <2>1, TurnsInOrder
  <2>2. ASSUME \/ \E a \in Roles : Collect(a) \/ CollectCancelled(a)
               \/ CancelDone \/ Escape \/ ReadCost \/ Save \/ AfterWarmup \/ AnalystsStop
        PROVE  Kept
    <3>1. UNCHANGED job
      BY <2>2 DEF Collect, CollectCancelled, CancelDone, Escape, ReadCost, Save, AfterWarmup,
                  AnalystsStop
    <3> QED
      BY <2>2, <3>1, MainInOrder
  <2>3. ASSUME \/ StartWarmup \/ StartTurn \/ \E a \in Roles : StartAnalyst(a) \/ Cancel(a)
               \/ \E s \in Stages : Answer(s) \/ CallFails(s) \/ Record(s)
        PROVE  Kept
    BY <2>3, CallsInOrder
  <2>4. Kept
    BY <1>3, <2>1, <2>2, <2>3 DEF Work
  <2> QED
    BY <1>1, <2>4 DEF EInv
<1> QED
  BY <1>2, <1>3 DEF Next, PassDeadline, vars

\* A run ends in order, for any number of analysts, threads and turns: a decision rests
\* on at least two usable views, no analyst that stopped the run and a debate that was
\* answered to the end; and however the run ends, no call of it is in flight any more.
THEOREM RunEndsInOrder == Spec => []EndsInOrder
<1>1. EInv => DecisionHasBasis
  BY StagesDiffer DEF EInv, DecisionKept, CollectedKept, Basis, DecisionHasBasis
<1>2. EInv => EndedMeansIdle
  BY DEF EInv, CallsKept, EndedMeansIdle
<1> QED
  BY <1>1, <1>2, InitEnds, NextEnds, PTL DEF Spec, EndsInOrder
-----------------------------------------------------------------------------
(* The money of a run *)

Calling == {s \in Stages : job[s] = "calling"}

\* Only an answered call has cost anything, and it is settled or on record.
PaidKept ==
  \A s \in Stages : /\ job[s] \in {"ready", "queued", "calling"} => paid[s] = 0
                    /\ paid[s] > 0 => job[s] = "settled" \/ s \in calls

\* What was spent is what the calls cost.
SpentKept == spent = SumFunctionOnSet(paid, Stages)

\* The last record is read from the run when it ends.
LastRecordKept ==
  main = "ended" /\ status # "internal_error" => saved = [cost |-> spent, calls |-> calls]

MoneyKept == ReservedIsInFlight /\ SpentKept /\ PaidKept /\ LastRecordKept
MInv == EInv /\ MoneyKept

\* The stages of a run are finitely many: the turns are the debate's.
LEMMA StagesFinite == IsFiniteSet(Stages)
<1>1. Debate \in [1 .. Len(Debate) -> STRING] /\ Len(Debate) \in Nat
  BY CommitteeAssumption, LenProperties DEF CommitteeAssumption
<1>2. Debate \in [1 .. Len(Debate) -> Turns] /\ \A t \in Turns : \E n \in 1 .. Len(Debate) : Debate[n] = t
  BY <1>1 DEF Turns
<1>3. Debate \in Surjection(1 .. Len(Debate), Turns)
  BY <1>2 DEF Surjection
<1>4. IsFiniteSet(Turns)
  BY <1>1, <1>3, FS_Interval, FS_Surjection
<1> QED
  BY <1>4, CommitteeAssumption, FS_Union, FS_Singleton DEF CommitteeAssumption, Stages

\* Initially no call is in flight and nothing is spent.
LEMMA InitMoney == Init => MInv
<1> SUFFICES ASSUME Init PROVE MInv
  OBVIOUS
<1>1. \A s \in Stages : job[s] # "calling" /\ paid[s] = 0
  BY DEF Init
<1>2. SpentKept
  BY <1>1, StagesFinite, SumOfZeros DEF SpentKept, Init
<1>3. ReservedIsInFlight
  <2>1. {s \in Stages : job[s] = "calling"} = {}
    BY <1>1
  <2> QED
    BY <2>1, SumEmpty DEF ReservedIsInFlight, Init
<1>4. PaidKept /\ LastRecordKept
  BY <1>1 DEF PaidKept, LastRecordKept, Init
<1> QED
  BY <1>2, <1>3, <1>4, InitEnds DEF MInv, MoneyKept

\* The reservation follows a call that begins or is over.
LEMMA ReservationSteps ==
  ASSUME TypeOK, ReservedIsInFlight, NEW s \in Stages, NEW x \in JobStates,
         job' = [job EXCEPT ![s] = x],
         \/ job[s] # "calling" /\ x # "calling" /\ UNCHANGED reserved
         \/ job[s] # "calling" /\ x = "calling" /\ reserved' = reserved + Worst[s]
         \/ job[s] = "calling" /\ x # "calling" /\ reserved' = reserved - Worst[s]
  PROVE  ReservedIsInFlight'
<1>1. \A r \in Stages : job'[r] = IF r = s THEN x ELSE job[r]
  BY DEF TypeOK
<1>2. reserved = SumFunctionOnSet(Worst, Calling) /\ Calling \subseteq Stages
  BY DEF ReservedIsInFlight, Calling
<1>3. IsFiniteSet(Calling) /\ \A r \in Stages : Worst[r] \in Int
  BY <1>2, StagesFinite, FS_Subset, StageFacts
<1>4. SumFunctionOnSet(Worst, Calling \ {s}) \in Int
  BY <1>2, <1>3, FS_RemoveElement, SumType
<1>5. CASE job[s] # "calling" /\ x # "calling" /\ UNCHANGED reserved
  <2>1. Calling' = Calling
    BY <1>1, <1>5 DEF Calling
  <2> QED
    BY <1>2, <1>5, <2>1 DEF ReservedIsInFlight, Calling
<1>6. CASE job[s] # "calling" /\ x = "calling" /\ reserved' = reserved + Worst[s]
  <2>1. Calling' = Calling \union {s} /\ s \notin Calling
    BY <1>1, <1>6 DEF Calling
  <2>2. SumFunctionOnSet(Worst, Calling \union {s}) = Worst[s] + SumFunctionOnSet(Worst, Calling)
    BY <2>1, <1>2, <1>3, SumPutIn
  <2>3. SumFunctionOnSet(Worst, Calling) \in Int /\ Worst[s] \in Int
    BY <1>2, <1>3, SumType
  <2>4. reserved' = SumFunctionOnSet(Worst, Calling \union {s})
    BY <1>2, <1>6, <2>2, <2>3
  <2> QED
    BY <2>1, <2>4 DEF ReservedIsInFlight, Calling
<1>7. CASE job[s] = "calling" /\ x # "calling" /\ reserved' = reserved - Worst[s]
  <2>1. Calling' = Calling \ {s} /\ s \in Calling
    BY <1>1, <1>7 DEF Calling
  <2>2. SumFunctionOnSet(Worst, Calling) = Worst[s] + SumFunctionOnSet(Worst, Calling \ {s})
    BY <2>1, <1>2, <1>3, SumTakeOut
  <2>3. reserved' = SumFunctionOnSet(Worst, Calling \ {s})
    BY <1>2, <1>3, <1>4, <1>7, <2>2
  <2> QED
    BY <2>1, <2>3 DEF ReservedIsInFlight, Calling
<1> QED
  BY <1>5, <1>6, <1>7

\* A stage that starts.
LEMMA RequestMoney ==
  ASSUME MInv, NEW s \in Stages, Request(s), job[s] \in {"ready", "queued"}, main # "ended",
         UNCHANGED <<spent, paid, calls, main, saved, status>>
  PROVE  MoneyKept'
<1> USE DEF MInv, EInv, Budgeted, TypeOK, MoneyKept
<1>1. \A x \in {"abandoned", "skipped", "calling"} : x \in JobStates
  BY DEF JobStates, Finished, Answers, Stopped
<1>2. PICK x \in {"abandoned", "skipped", "calling"} :
        /\ job' = [job EXCEPT ![s] = x]
        /\ IF x = "calling" THEN reserved' = reserved + Worst[s] ELSE UNCHANGED reserved
  BY DEF Request
<1>3. ReservedIsInFlight'
  BY <1>1, <1>2, ReservationSteps
<1>4. \A r \in Stages : job'[r] = IF r = s THEN x ELSE job[r]
  BY <1>2
<1>5. PaidKept'
  BY <1>4 DEF PaidKept
<1> QED
  BY <1>3, <1>5 DEF SpentKept, LastRecordKept

\* The summand of one stage apart from the sum of the others.
LEMMA OneStageApart ==
  ASSUME NEW s \in Stages, NEW f, \A r \in Stages : f[r] \in Int
  PROVE  SumFunctionOnSet(f, Stages) = f[s] + SumFunctionOnSet(f, Stages \ {s})
  BY StagesFinite, SumTakeOut

\* The steps of a call keep the money.
LEMMA CallsMoney ==
  ASSUME MInv, NEW s \in Stages, Answer(s) \/ CallFails(s) \/ Record(s)
  PROVE  MoneyKept'
<1> USE DEF MInv, EInv, Budgeted, TypeOK, MoneyKept
<1>1. \A x \in {"settled", "bad_key", "api_error"} \union Answers : x \in JobStates
  BY DEF JobStates, Finished, Answers, Stopped
<1>2. main # "ended"
  BY DEF CallsKept, InFlight, Answer, CallFails, Record
<1>3. CASE Answer(s)
  <2>1. PICK price \in Prices[s] : spent' = spent + price /\ paid' = [paid EXCEPT ![s] = price]
    BY <1>3 DEF Answer
  <2>2. price \in Nat /\ paid[s] = 0
    BY <1>3, StageFacts DEF Answer, PaidKept
  <2>3. ReservedIsInFlight'
    BY <1>1, <1>3, ReservationSteps DEF Answer
  <2>4. \A r \in Stages : job'[r] = (IF r = s THEN "settled" ELSE job[r])
                          /\ paid'[r] = IF r = s THEN price ELSE paid[r]
    BY <1>3, <2>1 DEF Answer
  <2>5. SpentKept'
    <3>1. SumFunctionOnSet(paid, Stages) = paid[s] + SumFunctionOnSet(paid, Stages \ {s})
      BY StagesFinite, SumTakeOut
    <3>2. SumFunctionOnSet(paid', Stages) = paid'[s] + SumFunctionOnSet(paid', Stages \ {s})
      <4>1. \A r \in Stages : paid'[r] \in Int
        BY <2>2, <2>4
      <4> QED
        BY <4>1, OneStageApart
    <3>3. SumFunctionOnSet(paid', Stages \ {s}) = SumFunctionOnSet(paid, Stages \ {s})
      BY <2>4, StagesFinite, FS_RemoveElement, SumSame
    <3>4. SumFunctionOnSet(paid, Stages \ {s}) \in Int
      BY StagesFinite, FS_RemoveElement, SumType
    <3> QED
      BY <2>1, <2>2, <2>4, <3>1, <3>2, <3>3, <3>4 DEF SpentKept
  <2>6. PaidKept'
    BY <1>3, <2>4 DEF PaidKept, Answer
  <2> QED
    BY <1>2, <1>3, <2>3, <2>5, <2>6 DEF LastRecordKept, Answer
<1>4. CASE CallFails(s)
  <2>1. PICK x \in {"bad_key", "api_error"} : job' = [job EXCEPT ![s] = x]
    BY <1>4 DEF CallFails
  <2>2. ReservedIsInFlight'
    BY <1>1, <1>4, <2>1, ReservationSteps DEF CallFails
  <2>3. PaidKept'
    BY <1>4, <2>1 DEF PaidKept, CallFails
  <2> QED
    BY <1>2, <1>4, <2>2, <2>3 DEF CallFails, SpentKept, LastRecordKept
<1>5. CASE Record(s)
  <2>1. PICK x \in Answers : job' = [job EXCEPT ![s] = x]
    BY <1>5 DEF Record
  <2>2. ReservedIsInFlight'
    BY <1>1, <1>5, <2>1, ReservationSteps DEF Record, budget, Answers
  <2>3. PaidKept'
    BY <1>5, <2>1 DEF PaidKept, Record, budget, Answers
  <2> QED
    BY <1>2, <1>5, <2>2, <2>3 DEF Record, budget, SpentKept, LastRecordKept
<1> QED
  BY <1>3, <1>4, <1>5

\* The main thread's own steps, the end of the run among them.
LEMMA MainMoney ==
  ASSUME MInv,
         \/ AfterWarmup \/ CancelDone \/ Escape \/ ReadCost \/ Save
         \/ AnalystsStop \/ AfterTurn \/ AfterManager \/ PassDeadline \/ UNCHANGED vars
         \/ \E a \in Roles : Collect(a) \/ CollectCancelled(a)
  PROVE  MoneyKept'
<1> USE DEF MInv, MoneyKept
<1>1. UNCHANGED <<budget, job>> /\ calls \subseteq calls'
  BY DEF AfterWarmup, CancelDone, Escape, ReadCost, Save, AnalystsStop, AfterTurn,
         AfterManager, PassDeadline, vars, Collect, CollectCancelled
<1>2. ReservedIsInFlight' /\ SpentKept' /\ PaidKept'
  BY <1>1 DEF budget, ReservedIsInFlight, SpentKept, PaidKept
<1>3. ASSUME NEW st, End(st), calls' = calls PROVE LastRecordKept'
  BY <1>1, <1>3 DEF End, LastRecordKept, budget
<1>4. ASSUME main' # "ended" \/ status' = "internal_error" PROVE LastRecordKept'
  BY <1>4 DEF LastRecordKept
<1>5. ASSUME UNCHANGED <<main, status, saved, calls>> PROVE LastRecordKept'
  BY <1>1, <1>5 DEF LastRecordKept, budget
<1>6. LastRecordKept'
  <2>1. CASE AfterWarmup \/ AnalystsStop \/ AfterTurn \/ AfterManager
    BY <1>3, <1>4, <2>1 DEF AfterWarmup, AnalystsStop, AfterTurn, AfterManager
  <2>2. CASE CancelDone \/ Escape \/ ReadCost \/ Save \/ \E a \in Roles : Collect(a) \/ CollectCancelled(a)
    BY <1>4, <2>2 DEF CancelDone, Escape, ReadCost, Save, Collect, CollectCancelled
  <2>3. CASE PassDeadline \/ UNCHANGED vars
    BY <1>5, <2>3 DEF PassDeadline, vars
  <2> QED
    BY <2>1, <2>2, <2>3
<1> QED
  BY <1>2, <1>6

\* Every step keeps what the money's invariant says.
LEMMA NextMoney == MInv /\ [Next]_vars => MInv'
<1> SUFFICES ASSUME MInv, [Next]_vars PROVE MInv'
  OBVIOUS
<1>1. EInv'
  BY NextEnds DEF MInv
<1>2. ASSUME NEW a \in Roles, StartAnalyst(a) PROVE MoneyKept'
  BY <1>2, RequestMoney, StageFacts DEF StartAnalyst
<1>3. ASSUME StartWarmup PROVE MoneyKept'
  <2>1. /\ "warmup" \in Stages /\ Request("warmup") /\ job["warmup"] \in {"ready", "queued"}
        /\ main # "ended" /\ UNCHANGED <<spent, paid, calls, main, saved, status>>
    BY <1>3, StageFacts DEF StartWarmup
  <2> QED
    BY <2>1, RequestMoney
<1>4. ASSUME StartTurn PROVE MoneyKept'
  <2>1. Debate[turn] \in Stages
    BY StageFacts DEF MInv, EInv, Budgeted, TypeOK
  <2>2. /\ Request(Debate[turn]) /\ job[Debate[turn]] \in {"ready", "queued"}
        /\ main # "ended" /\ UNCHANGED <<spent, paid, calls, main, saved, status>>
    BY <1>4 DEF StartTurn
  <2> QED
    BY <2>1, <2>2, RequestMoney
<1>5. ASSUME NEW a \in Roles, Cancel(a) PROVE MoneyKept'
  <2>1. a \in Stages /\ job[a] = "queued" /\ job' = [job EXCEPT ![a] = "cancelled"]
        /\ UNCHANGED <<budget, calls, main, saved, status>>
    BY <1>5, StageFacts DEF Cancel
  <2>2. TypeOK /\ "cancelled" \in JobStates
    BY DEF MInv, EInv, Budgeted, JobStates, Finished
  <2>3. ReservedIsInFlight'
    BY <2>1, <2>2, ReservationSteps DEF MInv, MoneyKept, budget
  <2>4. PaidKept'
    BY <2>1, <2>2 DEF MInv, MoneyKept, PaidKept, budget, TypeOK
  <2> QED
    BY <2>1, <2>3, <2>4 DEF MInv, MoneyKept, SpentKept, LastRecordKept, budget
<1>6. ASSUME NEW s \in Stages, Answer(s) \/ CallFails(s) \/ Record(s) PROVE MoneyKept'
  BY <1>6, CallsMoney
<1>7. ASSUME \/ AfterWarmup \/ CancelDone \/ Escape \/ ReadCost \/ Save
           \/ AnalystsStop \/ AfterTurn \/ AfterManager \/ PassDeadline \/ UNCHANGED vars
           \/ \E a \in Roles : Collect(a) \/ CollectCancelled(a)
      PROVE MoneyKept'
  BY <1>7, MainMoney
<1>8. MoneyKept'
  BY <1>2, <1>3, <1>4, <1>5, <1>6, <1>7 DEF Next, Work
<1> QED
  BY <1>1, <1>8 DEF MInv

\* The last record adds up, when the run ended through a decision or a _Stop.
LEMMA RecordFromInv == MInv => RecordAddsUp
<1> SUFFICES ASSUME MInv, main = "ended", status # "internal_error"
             PROVE  /\ \A s \in Stages : paid[s] > 0 => s \in saved.calls
                    /\ saved.cost = SumFunctionOnSet(paid, saved.calls)
  BY DEF RecordAddsUp
<1>1. saved.cost = spent /\ saved.calls = calls /\ calls \subseteq Stages
  BY DEF MInv, MoneyKept, LastRecordKept, EInv, Budgeted, TypeOK
<1>2. \A s \in Stages : paid[s] > 0 => s \in calls
  BY DEF MInv, MoneyKept, PaidKept, EInv, CallsKept, InFlight
<1>3. \A s \in Stages : paid[s] \in Nat
  BY DEF MInv, EInv, Budgeted, TypeOK
<1>4. SumFunctionOnSet(paid, calls) = SumFunctionOnSet(paid, Stages)
  BY <1>1, <1>2, <1>3, StagesFinite, SumExtends
<1> QED
  BY <1>1, <1>2, <1>4 DEF MInv, MoneyKept, SpentKept

\* The money of a run adds up, for any number of analysts, threads and turns and whatever
\* the calls cost: what is reserved is the worst case of the calls in flight and no more,
\* and the record of a run that ended in order holds every call that cost something and
\* their sum.
THEOREM RunMoneyAddsUp == Spec => []MoneyAddsUp
<1>1. MInv => MoneyAddsUp
  BY RecordFromInv DEF MInv, MoneyKept, MoneyAddsUp
<1> QED
  BY <1>1, InitMoney, NextMoney, PTL DEF Spec
=============================================================================
