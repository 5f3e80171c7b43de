----------------------------- MODULE ResearchRuns -----------------------------
(***************************************************************************)
(* The lifecycle of a user's research runs: src/research/runs.py and the   *)
(* endpoints that call it.                                                 *)
(*                                                                         *)
(* POST /research/runs inserts a row in one transaction under a per-user   *)
(* advisory lock and then starts a thread, which claims the row, runs the  *)
(* committee and writes its cost and its final status back.  The sweep     *)
(* marks rows abandoned that are older than the time limit: inside the     *)
(* transaction of a POST, and on each GET.  Everything the threads and the *)
(* requests hold in memory is lost when the server process stops.          *)
(*                                                                         *)
(* All statements are for one user.  A run is named by the request that    *)
(* inserts its row; the isolation is READ COMMITTED, with row locks held   *)
(* to the end of the transaction.  What happens inside the committee is    *)
(* module Committee.                                                       *)
(***************************************************************************)
EXTENDS Integers, FiniteSets

CONSTANTS Requests,      \* the POSTs
          Key,           \* their idempotency keys
          Limit,         \* research_daily_run_limit
          Outcomes,      \* the statuses run_committee returns
          MaxPaid,       \* bound: the cost of a run
          MaxDay,        \* bound: midnights
          MaxCrashes,    \* bound: stops of the server process
          Faults,        \* can a statement of a run's thread fail?
          MarginHolds    \* is a call always over before the sweep's limit?

Active == {"queued", "running"}
Terminal == {"completed", "budget_exceeded", "declined", "failed", "abandoned"}

ASSUME RunsAssumption ==
  /\ IsFiniteSet(Requests) /\ DOMAIN Key = Requests
  /\ Limit \in Nat /\ MaxPaid \in Nat /\ MaxDay \in Nat /\ MaxCrashes \in Nat
  /\ Outcomes \subseteq Terminal
  /\ Faults \in BOOLEAN /\ MarginHolds \in BOOLEAN

VARIABLES
  status, runDate, cost,   \* columns of research_runs; a status of "absent": no row
  age,        \* created_at against now: "fresh", "closing" past the deadline, "old"
  day,        \* _today()
  pc,         \* per request: where it is
  swept,      \* per request: the rows its open transaction has swept
  answer,     \* per request: the runs it was answered with
  thread,     \* per run: where execute_run is
  result,     \* the status execute_run is about to write
  paid,       \* out["cost_usd"], in memory
  crashes

table == <<status, runDate, cost>>
requests == <<pc, swept, answer>>
threads == <<thread, result, paid>>
vars == <<table, age, day, requests, threads, crashes>>

Runs == {i \in Requests : status[i] # "absent"}
ActiveRuns == {i \in Runs : status[i] \in Active}

\* The rows _sweep updates.
Overdue == {i \in ActiveRuns : age[i] = "old"}

\* A row an open transaction has updated is locked for every other.
Locked(i) == \E r \in Requests : i \in swept[r]

\* The run counts for the daily limit: it did not fail before spending anything.
Counts(st, c) == ~(st \in {"failed", "abandoned"} /\ c = 0)
CountedOn(d) == {i \in Runs : runDate[i] = d /\ Counts(status[i], cost[i])}

Init == /\ status = [i \in Requests |-> "absent"]
        /\ runDate = [i \in Requests |-> 0]
        /\ cost = [i \in Requests |-> 0]
        /\ age = [i \in Requests |-> "fresh"]
        /\ day = 0
        /\ pc = [r \in Requests |-> "idle"]
        /\ swept = [r \in Requests |-> {}]
        /\ answer = [r \in Requests |-> {}]
        /\ thread = [i \in Requests |-> "none"]
        /\ result = [i \in Requests |-> "none"]
        /\ paid = [i \in Requests |-> 0]
        /\ crashes = 0
-----------------------------------------------------------------------------
(* enqueue_run and start_run *)

InTransaction == {"sweep", "count", "insert"}

\* Mutant: there is no lock.
LockIgnored == TRUE
LockFree == \A r \in Requests : pc[r] \notin InTransaction

\* Mutant: only a run in progress answers a repeated key.
FoundActive(r) == {i \in ActiveRuns : Key[i] = Key[r]}
Found(r) == {i \in Runs : Key[i] = Key[r]}

\* Take the lock and look the key up: a repeated key is answered with its run.
Lock(r) ==
  /\ pc[r] = "idle" /\ LockFree
  /\ pc' = [pc EXCEPT ![r] = IF Found(r) = {} THEN "sweep" ELSE "answered"]
  /\ answer' = [answer EXCEPT ![r] = Found(r)]
  /\ UNCHANGED <<table, age, day, swept, threads, crashes>>

SweepInTransaction(r) ==
  /\ pc[r] = "sweep" /\ \A i \in Overdue : ~Locked(i)
  /\ swept' = [swept EXCEPT ![r] = Overdue]
  /\ pc' = [pc EXCEPT ![r] = "count"]
  /\ UNCHANGED <<table, age, day, answer, threads, crashes>>

\* What the transaction sees: its own sweep too.
SeenActive(r) == ActiveRuns \ swept[r]
SeenToday(r) ==
  {i \in Runs : /\ runDate[i] = day
                /\ Counts(IF i \in swept[r] THEN "abandoned" ELSE status[i], cost[i])}

\* Mutant: one run too many.
QuotaLoose(r) == SeenActive(r) = {} /\ Cardinality(SeenToday(r)) <= Limit
QuotaAllows(r) == SeenActive(r) = {} /\ Cardinality(SeenToday(r)) < Limit

\* The quota: QuotaError rolls the transaction back, its sweep included.
Count(r) ==
  /\ pc[r] = "count"
  /\ \/ /\ QuotaAllows(r)
        /\ pc' = [pc EXCEPT ![r] = "insert"] /\ UNCHANGED swept
     \/ /\ ~QuotaAllows(r)
        /\ pc' = [pc EXCEPT ![r] = "refused"]
        /\ swept' = [swept EXCEPT ![r] = {}]
  /\ UNCHANGED <<table, age, day, answer, threads, crashes>>

\* Insert the row, for what _today() says now, and commit.
Insert(r) ==
  /\ pc[r] = "insert"
  /\ status' = [i \in Requests |-> IF i = r THEN "queued"
                                   ELSE IF i \in swept[r] THEN "abandoned" ELSE status[i]]
  /\ runDate' = [runDate EXCEPT ![r] = day]
  /\ swept' = [swept EXCEPT ![r] = {}]
  /\ answer' = [answer EXCEPT ![r] = {r}]
  /\ pc' = [pc EXCEPT ![r] = "created"]
  /\ UNCHANGED <<cost, age, day, threads, crashes>>

StartRun(r) ==
  /\ pc[r] = "created"
  /\ pc' = [pc EXCEPT ![r] = "answered"]
  /\ thread' = [thread EXCEPT ![r] = "started"]
  /\ UNCHANGED <<table, age, day, swept, answer, result, paid, crashes>>

\* A statement of the request fails: its transaction rolls back.
RequestFails(r) ==
  /\ Faults /\ pc[r] \in InTransaction
  /\ pc' = [pc EXCEPT ![r] = "lost"]
  /\ swept' = [swept EXCEPT ![r] = {}]
  /\ UNCHANGED <<table, age, day, answer, threads, crashes>>

\* Mutant: a run that no thread has claimed is left alone.
SweepRunning ==
  LET rows == {i \in Overdue : status[i] = "running"}
  IN  /\ rows # {} /\ \A i \in rows : ~Locked(i)
      /\ status' = [i \in Requests |-> IF i \in rows THEN "abandoned" ELSE status[i]]
      /\ UNCHANGED <<runDate, cost, age, day, requests, threads, crashes>>

\* sweep_abandoned, on each GET /research/runs.
Sweep ==
  /\ Overdue # {} /\ \A i \in Overdue : ~Locked(i)
  /\ status' = [i \in Requests |-> IF i \in Overdue THEN "abandoned" ELSE status[i]]
  /\ UNCHANGED <<runDate, cost, age, day, requests, threads, crashes>>
-----------------------------------------------------------------------------
(* execute_run *)

\* UPDATE ... WHERE status = 'queued': no row, no run.
Claim(i) ==
  /\ thread[i] = "started" /\ ~Locked(i)
  /\ IF status[i] = "queued"
       THEN /\ status' = [status EXCEPT ![i] = "running"]
            /\ thread' = [thread EXCEPT ![i] = "claimed"]
       ELSE thread' = [thread EXCEPT ![i] = "done"] /\ UNCHANGED status
  /\ UNCHANGED <<runDate, cost, age, day, requests, result, paid, crashes>>

\* Mutant: the run gets no status.
SnapshotFailsWithoutStatus(i) ==
  /\ thread[i] = "claimed"
  /\ thread' = [thread EXCEPT ![i] = "finish"]
  /\ UNCHANGED <<table, age, day, requests, result, paid, crashes>>

\* The snapshot cannot be built: the run fails, without a record.
SnapshotFails(i) ==
  /\ thread[i] = "claimed"
  /\ thread' = [thread EXCEPT ![i] = "finish"]
  /\ result' = [result EXCEPT ![i] = "failed"]
  /\ UNCHANGED <<table, age, day, requests, paid, crashes>>

\* Store the snapshot and start the committee; past the deadline it makes no call.
StartCommittee(i) ==
  /\ thread[i] = "claimed" /\ ~Locked(i)
  /\ IF age[i] = "fresh"
       THEN thread' = [thread EXCEPT ![i] = "committee"] /\ UNCHANGED result
       ELSE /\ thread' = [thread EXCEPT ![i] = "save"]
            /\ result' = [result EXCEPT ![i] = "abandoned"]
  /\ UNCHANGED <<table, age, day, requests, paid, crashes>>

\* A call of the committee is answered and paid for.
Pay(i) ==
  /\ thread[i] = "committee" /\ paid[i] < MaxPaid
  /\ paid' = [paid EXCEPT ![i] = @ + 1]
  /\ UNCHANGED <<table, age, day, requests, thread, result, crashes>>

\* progress: _save writes the cost whatever the row's status is.
Progress(i) ==
  /\ thread[i] = "committee" /\ ~Locked(i) /\ cost[i] # paid[i]
  /\ cost' = [cost EXCEPT ![i] = paid[i]]
  /\ UNCHANGED <<status, runDate, age, day, requests, threads, crashes>>

CommitteeReturns(i) ==
  /\ thread[i] = "committee"
  /\ \E st \in Outcomes : result' = [result EXCEPT ![i] = st]
  /\ thread' = [thread EXCEPT ![i] = "save"]
  /\ UNCHANGED <<table, age, day, requests, paid, crashes>>

\* Mutant: a bug in the committee ends the thread.
RaiseEndsThread(i) ==
  /\ thread[i] = "committee"
  /\ thread' = [thread EXCEPT ![i] = "done"]
  /\ UNCHANGED <<table, age, day, requests, result, paid, crashes>>

\* run_committee, or a _save in it, raises: the run fails, its record is lost.
CommitteeRaises(i) ==
  /\ thread[i] = "committee"
  /\ thread' = [thread EXCEPT ![i] = "finish"]
  /\ result' = [result EXCEPT ![i] = "failed"]
  /\ UNCHANGED <<table, age, day, requests, paid, crashes>>

\* Mutant: only a row that is still running gets its cost.
SaveIfRunning(i) ==
  /\ thread[i] = "save" /\ ~Locked(i)
  /\ cost' = [cost EXCEPT ![i] = IF status[i] = "running" THEN paid[i] ELSE @]
  /\ thread' = [thread EXCEPT ![i] = "written"]
  /\ UNCHANGED <<status, runDate, age, day, requests, result, paid, crashes>>

\* _finish, first statement: the record, whatever the row's status is.
Save(i) ==
  /\ thread[i] = "save" /\ ~Locked(i)
  /\ cost' = [cost EXCEPT ![i] = paid[i]]
  /\ thread' = [thread EXCEPT ![i] = "written"]
  /\ UNCHANGED <<status, runDate, age, day, requests, result, paid, crashes>>

\* Mutant: the final status overwrites the sweep's.
SetStatusAnyway(i) ==
  /\ thread[i] \in {"written", "finish"} /\ ~Locked(i)
  /\ status' = [status EXCEPT ![i] = result[i]]
  /\ thread' = [thread EXCEPT ![i] = "done"]
  /\ UNCHANGED <<runDate, cost, age, day, requests, result, paid, crashes>>

\* _finish, second statement: the status, if the row is still running.
SetStatus(i) ==
  /\ thread[i] \in {"written", "finish"} /\ ~Locked(i)
  /\ status' = [status EXCEPT ![i] = IF @ = "running" THEN result[i] ELSE @]
  /\ thread' = [thread EXCEPT ![i] = "done"]
  /\ UNCHANGED <<runDate, cost, age, day, requests, result, paid, crashes>>

\* A statement of the thread fails outside the try blocks: the thread ends.
Fault(i) ==
  /\ Faults /\ thread[i] \in {"started", "claimed", "save", "written", "finish"}
  /\ thread' = [thread EXCEPT ![i] = "dead"]
  /\ UNCHANGED <<table, age, day, requests, result, paid, crashes>>
-----------------------------------------------------------------------------
(* Time and crashes *)

\* The margin of CALL_TIMEOUT_SEC + 20 lets a committee that started in time
\* save what it paid before the row is old.
Ages(i) ==
  /\ i \in Runs /\ age[i] # "old"
  /\ MarginHolds /\ age[i] = "closing" => thread[i] \notin {"committee", "save"}
  /\ age' = [age EXCEPT ![i] = IF @ = "fresh" THEN "closing" ELSE "old"]
  /\ UNCHANGED <<table, day, requests, threads, crashes>>

Midnight ==
  /\ day < MaxDay
  /\ day' = day + 1
  /\ UNCHANGED <<table, age, requests, threads, crashes>>

\* The server stops: open transactions roll back, requests and threads are lost.
Crash ==
  /\ crashes < MaxCrashes
  /\ crashes' = crashes + 1
  /\ pc' = [r \in Requests |-> IF pc[r] \in InTransaction \union {"created"} THEN "lost" ELSE pc[r]]
  /\ swept' = [r \in Requests |-> {}]
  /\ thread' = [i \in Requests |-> IF thread[i] \in {"none", "done", "dead"} THEN thread[i]
                                   ELSE "lost"]
  /\ UNCHANGED <<table, age, day, answer, result, paid>>

Enqueue(r) == Lock(r) \/ SweepInTransaction(r) \/ Count(r) \/ Insert(r) \/ StartRun(r)
              \/ RequestFails(r)

Execute(i) == \/ Claim(i) \/ SnapshotFails(i) \/ StartCommittee(i)
              \/ Pay(i) \/ Progress(i) \/ CommitteeReturns(i) \/ CommitteeRaises(i)
              \/ Save(i) \/ SetStatus(i) \/ Fault(i)

Next == \/ \E r \in Requests : Enqueue(r) \/ Execute(r) \/ Ages(r)
        \/ Sweep \/ Midnight \/ Crash

\* A transaction the database has begun ends, a thread runs, a row grows old, and
\* somebody opens the page again.
Fairness == /\ \A r \in Requests : /\ WF_vars(pc[r] # "idle" /\ Enqueue(r))
                                   /\ WF_vars(Execute(r)) /\ WF_vars(Ages(r))
            /\ WF_vars(Sweep)

Spec == Init /\ [][Next]_vars /\ Fairness
-----------------------------------------------------------------------------
(* Properties *)

\* The type of every variable.
TypeOK ==
  /\ status \in [Requests -> {"absent"} \union Active \union Terminal]
  /\ runDate \in [Requests -> 0 .. MaxDay] /\ cost \in [Requests -> Nat]
  /\ age \in [Requests -> {"fresh", "closing", "old"}]
  /\ day \in 0 .. MaxDay
  /\ pc \in [Requests -> {"idle", "created", "answered", "refused", "lost"} \union InTransaction]
  /\ swept \in [Requests -> SUBSET Requests] /\ answer \in [Requests -> SUBSET Requests]
  /\ thread \in [Requests -> {"none", "started", "claimed", "committee", "save", "written",
                              "finish", "done", "dead", "lost"}]
  /\ result \in [Requests -> {"none"} \union Terminal]
  /\ paid \in [Requests -> Nat]
  /\ crashes \in 0 .. MaxCrashes

\* "A research run is already in progress": never two queued or running rows, with
\* racing requests, a sweep inside an open transaction and late threads.
OneActiveRun == Cardinality(ActiveRuns) <= 1

\* A repeated key never makes a second run, and each request that was answered got
\* the run of its key.
OneRunPerKey ==
  /\ \A i, j \in Runs : Key[i] = Key[j] => i = j
  /\ \A r \in Requests : pc[r] = "answered" =>
       \E i \in Runs : answer[r] = {i} /\ Key[i] = Key[r]

\* However often it is asked for, a piece of work is one run, and one at a time.
RunsAreSingle == OneActiveRun /\ OneRunPerKey

\* "Maximum research committee runs per IST day. A run that failed before spending
\* anything does not count."
DailyLimit == \A d \in 0 .. MaxDay : Cardinality(CountedOn(d)) <= Limit

\* "A run the sweep already marked abandoned keeps that status": no terminal status
\* changes, whoever is late.
TerminalIsFinal ==
  [][\A i \in Runs : status[i] \in Terminal => status'[i] = status[i]]_vars

\* "... its cost is still recorded": a run whose thread has finished, with any outcome
\* but a failure, has its whole cost on its row, swept in the meantime or not.
CostStillRecorded ==
  \A i \in Requests : thread[i] = "done" /\ result[i] # "failed" => cost[i] = paid[i]

\* "Every outcome, including a crash, ends in a terminal status": no row a thread has
\* claimed is left running when the thread has ended.
NoRunLeftRunning ==
  \A i \in Runs : thread[i] \in {"done", "dead"} => status[i] # "running"

\* No run holds up the user for good, whatever became of its thread.
RunsSettle == \A i \in Requests : status[i] \in Active ~> status[i] \in Terminal
=============================================================================
