------------------------------ MODULE Committee ------------------------------
(***************************************************************************)
(* One research committee run: run_committee in src/research/committee.py. *)
(*                                                                         *)
(* The main thread makes a warm-up call, hands the analyst roles to a      *)
(* thread pool and collects their results as they finish, then makes the   *)
(* debate calls and the portfolio manager's call one after the other.      *)
(* Every call reserves its worst-case cost in a shared Budget, and settles *)
(* its actual cost when the API answers.  After each result the main       *)
(* thread reads the cost and then saves the run's record (progress).       *)
(*                                                                         *)
(* Money is in whole units, a call is named by its stage, and what a model *)
(* writes is reduced to whether the output can be used.                    *)
(***************************************************************************)
EXTENDS Integers, Sequences, FiniteSets, Functions

CONSTANTS Roles,        \* the analyst stages
          Debate,       \* the debate stages in order, the manager's stage last
          MaxParallel,  \* MAX_PARALLEL, threads of the pool
          Cap,          \* budget_usd
          Worst,        \* worst_case of each stage's call
          Prices        \* the costs a call may really have, per stage

Turns == {Debate[n] : n \in 1 .. Len(Debate)}
Stages == {"warmup"} \union Roles \union Turns

ASSUME CommitteeAssumption ==
  /\ IsFiniteSet(Roles) /\ "warmup" \notin Roles
  /\ Debate \in Seq(STRING) /\ Len(Debate) > 0 /\ Turns \intersect Roles = {} /\ "warmup" \notin Turns
  /\ MaxParallel \in Nat \ {0}
  /\ Cap \in Nat
  /\ Worst \in [Stages -> Nat]
  \* worst_case is "Upper bound for one call".
  /\ \A s \in Stages : Prices[s] \subseteq 0 .. Worst[s]

VARIABLES
  overdue,    \* the deadline has passed
  spent, reserved,   \* Budget
  job,        \* per stage: where its call is
  paid,       \* per stage: what its call cost
  calls,      \* out["calls"]: the stages with an audit record
  main,       \* where the main thread is
  turn,       \* the next stage of Debate
  collected,  \* the analyst results the main thread has taken
  stop,       \* the status of the first _Stop, "none" before
  cost,       \* out["cost_usd"]
  saved,      \* the record the caller has: cost and calls
  status      \* how the run ended, "running" before

budget == <<spent, reserved, paid>>
vars == <<overdue, budget, job, calls, main, turn, collected, stop, cost, saved, status>>

\* A call that was answered: what _read made of it.
Answers == {"ok", "declined", "unusable"}
\* Why a call raised _Stop: a passed deadline, a bad key, or any other API error.
Stopped == {"abandoned", "bad_key", "api_error"}
Finished == Answers \union Stopped \union {"skipped", "cancelled"}

\* The status a _Stop carries.
StopStatus(s) == IF job[s] = "abandoned" THEN "abandoned" ELSE "failed"

InFlight == {s \in Stages : job[s] \in {"calling", "settled"}}
-----------------------------------------------------------------------------
(* One request: check the deadline, reserve, call, settle, record *)

\* Mutant: the calls in flight are not counted.
ReserveIgnoresOthers(s) == spent + Worst[s] <= Cap
CanReserve(s) == spent + reserved + Worst[s] <= Cap

\* The stage starts: the deadline has passed, the budget is too small, or it calls.
Request(s) ==
  \/ /\ overdue
     /\ job' = [job EXCEPT ![s] = "abandoned"]
     /\ UNCHANGED reserved
  \/ /\ ~overdue /\ ~CanReserve(s)
     /\ job' = [job EXCEPT ![s] = "skipped"]
     /\ UNCHANGED reserved
  \/ /\ ~overdue /\ CanReserve(s)
     /\ job' = [job EXCEPT ![s] = "calling"]
     /\ reserved' = reserved + Worst[s]

\* A pool thread takes an analyst from the queue.
StartAnalyst(a) ==
  /\ main \in {"collect", "cancel", "cost", "save", "join"}
  /\ job[a] = "queued" /\ Cardinality(InFlight) < MaxParallel
  /\ Request(a)
  /\ UNCHANGED <<overdue, spent, paid, calls, main, turn, collected, stop, cost, saved, status>>

\* The API answers: settle the actual cost.
Answer(s) ==
  /\ job[s] = "calling"
  /\ \E price \in Prices[s] : /\ spent' = spent + price
                              /\ paid' = [paid EXCEPT ![s] = price]
  /\ reserved' = reserved - Worst[s]
  /\ job' = [job EXCEPT ![s] = "settled"]
  /\ UNCHANGED <<overdue, calls, main, turn, collected, stop, cost, saved, status>>

\* Mutant: a failed call keeps its reservation.
CallFailsUnsettled(s) ==
  /\ job[s] = "calling"
  /\ \E why \in {"bad_key", "api_error"} : job' = [job EXCEPT ![s] = why]
  /\ UNCHANGED <<overdue, budget, calls, main, turn, collected, stop, cost, saved, status>>

\* The API refuses, fails or times out: nothing is spent.
CallFails(s) ==
  /\ job[s] = "calling"
  /\ \E why \in {"bad_key", "api_error"} : job' = [job EXCEPT ![s] = why]
  /\ reserved' = reserved - Worst[s]
  /\ UNCHANGED <<overdue, spent, paid, calls, main, turn, collected, stop, cost, saved, status>>

\* The answered call gets its audit record, and its output is read.
Record(s) ==
  /\ job[s] = "settled"
  /\ \E answer \in Answers : job' = [job EXCEPT ![s] = answer]
  /\ calls' = calls \union {s}
  /\ UNCHANGED <<overdue, budget, main, turn, collected, stop, cost, saved, status>>
-----------------------------------------------------------------------------
(* The main thread *)

Init == /\ overdue \in BOOLEAN
        /\ spent = 0 /\ reserved = 0
        /\ paid = [s \in Stages |-> 0]
        /\ job = [s \in Stages |-> IF s = "warmup" THEN "ready" ELSE "queued"]
        /\ calls = {}
        /\ main = "warmup"
        /\ turn = 1
        /\ collected = {}
        /\ stop = "none"
        /\ cost = 0
        /\ saved = [cost |-> 0, calls |-> {}]
        /\ status = "running"

\* Mutant: the final cost is the one of the last progress.
EndWithOldCost(st) ==
  /\ status' = st
  /\ main' = "ended"
  /\ UNCHANGED cost
  /\ saved' = [cost |-> cost, calls |-> calls]

\* Leave the pipeline with this status; the caller saves the final record.
End(st) ==
  /\ status' = st
  /\ main' = "ended"
  /\ cost' = spent
  /\ saved' = [cost |-> spent, calls |-> calls]

StartWarmup ==
  /\ main = "warmup" /\ job["warmup"] = "ready"
  /\ Request("warmup")
  /\ UNCHANGED <<overdue, spent, paid, calls, main, turn, collected, stop, cost, saved, status>>

\* Budget, deadline and a rejected key end the run; another error of the warm-up
\* gets a record of its own and the run goes on.
AfterWarmup ==
  /\ main = "warmup" /\ job["warmup"] \in Finished
  /\ \/ /\ job["warmup"] = "skipped"
        /\ End("budget_exceeded") /\ UNCHANGED calls
     \/ /\ job["warmup"] \in {"abandoned", "bad_key"}
        /\ End(StopStatus("warmup")) /\ UNCHANGED calls
     \/ /\ job["warmup"] \in Answers \union {"api_error"}
        /\ main' = "collect"
        /\ calls' = calls \union {"warmup"}
        /\ UNCHANGED <<cost, saved, status>>
  /\ UNCHANGED <<overdue, budget, job, turn, collected, stop>>

\* as_completed yields a finished analyst: its stage is kept, or its _Stop is
\* remembered and the others are cancelled.
Collect(a) ==
  /\ main = "collect" /\ a \notin collected
  /\ job[a] \in Finished \ {"cancelled"}
  /\ collected' = collected \union {a}
  /\ IF job[a] \in Stopped
       THEN /\ stop' = IF stop = "none" THEN StopStatus(a) ELSE stop
            /\ main' = "cancel"
       ELSE main' = "cost" /\ UNCHANGED stop
  /\ UNCHANGED <<overdue, budget, job, calls, turn, cost, saved, status>>

\* f.cancel() for each future: one that has not started will not run.
Cancel(a) ==
  /\ main = "cancel" /\ job[a] = "queued"
  /\ job' = [job EXCEPT ![a] = "cancelled"]
  /\ UNCHANGED <<overdue, budget, calls, main, turn, collected, stop, cost, saved, status>>

CancelDone ==
  /\ main = "cancel" /\ \A a \in Roles : job[a] # "queued"
  /\ main' = "cost"
  /\ UNCHANGED <<overdue, budget, job, calls, turn, collected, stop, cost, saved, status>>

\* result() of a cancelled future raises CancelledError, which is no _Stop: it
\* leaves the loop and, once the pool has drained, run_committee.
CollectCancelled(a) ==
  /\ main = "collect" /\ a \notin collected /\ job[a] = "cancelled"
  /\ main' = "join"
  /\ UNCHANGED <<overdue, budget, job, calls, turn, collected, stop, cost, saved, status>>

\* Mutant: the pool is not waited for.
EscapeAtOnce ==
  /\ main = "join"
  /\ main' = "ended"
  /\ status' = "internal_error"
  /\ UNCHANGED <<overdue, budget, job, calls, turn, collected, stop, cost, saved>>

\* The exception reaches execute_run, which fails the run without its record.
Escape ==
  /\ main = "join" /\ \A a \in Roles : job[a] \in Finished
  /\ main' = "ended"
  /\ status' = "internal_error"
  /\ UNCHANGED <<overdue, budget, job, calls, turn, collected, stop, cost, saved>>

\* progress(): read the cost, then hand the record to the caller.
ReadCost ==
  /\ main = "cost"
  /\ cost' = spent
  /\ main' = "save"
  /\ UNCHANGED <<overdue, budget, job, calls, turn, collected, stop, saved, status>>
\* Mutant: the loop over the analysts does not end.
SaveAndWait ==
  /\ main = "save"
  /\ saved' = [cost |-> cost, calls |-> calls]
  /\ main' = "collect"
  /\ UNCHANGED <<overdue, budget, job, calls, turn, collected, stop, cost, status>>
Save ==
  /\ main = "save"
  /\ saved' = [cost |-> cost, calls |-> calls]
  /\ main' = IF collected = Roles THEN "debate" ELSE "collect"
  /\ UNCHANGED <<overdue, budget, job, calls, turn, collected, stop, cost, status>>

Views == {a \in Roles : job[a] = "ok"}

\* What stops the run between the analysts and the debate.
AnalystsStop ==
  /\ main = "debate" /\ turn = 1 /\ job[Debate[1]] = "queued"
  /\ stop # "none" \/ Cardinality(Views) < 2
  /\ End(IF stop # "none" THEN stop
         ELSE IF \E a \in Roles : job[a] = "skipped" THEN "budget_exceeded"
         ELSE IF \E a \in Roles : job[a] = "declined" THEN "declined"
         ELSE "failed")
  /\ UNCHANGED <<overdue, budget, job, calls, turn, collected, stop>>

\* Mutant: one usable view is enough.
StartTurnAnyway ==
  /\ main = "debate" /\ job[Debate[turn]] = "queued"
  /\ turn = 1 => stop = "none" /\ Cardinality(Views) >= 1
  /\ Request(Debate[turn])
  /\ UNCHANGED <<overdue, spent, paid, calls, main, turn, collected, stop, cost, saved, status>>

\* The next debate turn, or the portfolio manager.
StartTurn ==
  /\ main = "debate" /\ job[Debate[turn]] = "queued"
  /\ turn = 1 => stop = "none" /\ Cardinality(Views) >= 2
  /\ Request(Debate[turn])
  /\ UNCHANGED <<overdue, spent, paid, calls, main, turn, collected, stop, cost, saved, status>>

\* Mutant: the manager is treated as one more turn of the debate.
AfterTurnOrManager ==
  /\ main = "debate" /\ job[Debate[turn]] \in Answers
  /\ turn' = turn + 1 /\ main' = "cost"
  /\ UNCHANGED <<overdue, budget, job, calls, collected, stop, cost, saved, status>>

\* A turn the budget cannot pay, or that raised, ends the run; one whose output
\* cannot be used is left out of the transcript.
AfterTurn ==
  /\ main = "debate" /\ turn < Len(Debate) /\ job[Debate[turn]] \in Finished
  /\ \/ /\ job[Debate[turn]] \in Answers
        /\ turn' = turn + 1 /\ main' = "cost"
        /\ UNCHANGED <<cost, saved, status>>
     \/ /\ job[Debate[turn]] = "skipped"
        /\ End("budget_exceeded") /\ UNCHANGED turn
     \/ /\ job[Debate[turn]] \in Stopped
        /\ End(StopStatus(Debate[turn])) /\ UNCHANGED turn
  /\ UNCHANGED <<overdue, budget, job, calls, collected, stop>>

\* The manager's answer decides how the run ends.
AfterManager ==
  /\ main = "debate" /\ turn = Len(Debate) /\ job[Debate[turn]] \in Finished
  /\ LET pm == job[Debate[turn]]
     IN  End(CASE pm = "ok"       -> "completed"
               [] pm = "declined" -> "declined"
               [] pm = "unusable" -> "failed"
               [] pm = "skipped"  -> "budget_exceeded"
               [] OTHER           -> StopStatus(Debate[turn]))
  /\ UNCHANGED <<overdue, budget, job, calls, turn, collected, stop>>

PassDeadline ==
  /\ ~overdue /\ overdue' = TRUE
  /\ UNCHANGED <<budget, job, calls, main, turn, collected, stop, cost, saved, status>>

\* What the run's own threads and the API do.
Work == \/ StartWarmup \/ AfterWarmup
        \/ \E a \in Roles : StartAnalyst(a) \/ Collect(a) \/ Cancel(a) \/ CollectCancelled(a)
        \/ CancelDone \/ Escape \/ ReadCost \/ Save
        \/ AnalystsStop \/ StartTurn \/ AfterTurn \/ AfterManager
        \/ \E s \in Stages : Answer(s) \/ CallFails(s) \/ Record(s)

Next == Work \/ PassDeadline

\* Threads keep running and every request answers, fails or times out.
Spec == Init /\ [][Next]_vars /\ WF_vars(Work)
-----------------------------------------------------------------------------
(* Properties *)

JobStates == {"ready", "queued", "calling", "settled"} \union Finished
Mains == {"warmup", "collect", "cancel", "cost", "save", "join", "debate", "ended"}
Statuses == {"completed", "budget_exceeded", "declined", "failed", "abandoned", "internal_error"}

\* The type of every variable.
TypeOK == /\ overdue \in BOOLEAN
          /\ spent \in Nat /\ reserved \in Int
          /\ paid \in [Stages -> Nat]
          /\ job \in [Stages -> JobStates]
          /\ calls \subseteq Stages
          /\ main \in Mains
          /\ turn \in 1 .. Len(Debate)
          /\ collected \subseteq Roles
          /\ stop \in {"none", "failed", "abandoned"}
          /\ cost \in Nat
          /\ saved \in [cost : Nat, calls : SUBSET Stages]
          /\ status \in {"running"} \union Statuses

\* "Hard spending cap": what is spent and what the calls in flight may still cost
\* never pass the run's budget, however the pool threads interleave.
WithinBudget == spent + reserved <= Cap

\* Every step of every thread keeps both: the type and the cap are inductive together.
Budgeted == TypeOK /\ WithinBudget

\* The reservation is exactly the worst case of the calls in flight: no failed,
\* answered or cancelled call leaves money reserved, none is released twice.
ReservedIsInFlight ==
  reserved = SumFunctionOnSet(Worst, {s \in Stages : job[s] = "calling"})

\* The last record of a run that ended through a _Stop or a decision adds up: it
\* has every answered call, and its cost is what those calls cost.
RecordAddsUp ==
  main = "ended" /\ status # "internal_error" =>
    /\ \A s \in Stages : paid[s] > 0 => s \in saved.calls
    /\ saved.cost = SumFunctionOnSet(paid, saved.calls)

\* The money adds up: while the run works in what is reserved, and at its end in what
\* is recorded.
MoneyAddsUp == ReservedIsInFlight /\ RecordAddsUp

\* The same of every run: "every call ... leaves an audit record".
EveryPaidCallOnRecord ==
  main = "ended" => \A s \in Stages : paid[s] > 0 => s \in saved.calls

\* A completed run rests on at least two usable views, a debate the budget paid
\* for to the end and no analyst that stopped the run.
DecisionHasBasis ==
  status = "completed" =>
    /\ Cardinality(Views) >= 2
    /\ stop = "none" /\ \A a \in Roles : job[a] \notin Stopped
    /\ \A n \in 1 .. Len(Debate) : job[Debate[n]] \in Answers

\* When the run has ended nothing of it is still calling or being recorded.
EndedMeansIdle == main = "ended" => InFlight = {}

\* However a run ends, it ends in order: what decided was complete and nothing of it
\* is left at work.
EndsInOrder == DecisionHasBasis /\ EndedMeansIdle

\* A run ends: each call answers or fails, and no thread waits for ever.
RunEnds == <>(main = "ended")
=============================================================================
