----------------------------- MODULE ScannerRuns -----------------------------
(***************************************************************************)
(* The runs of the market scanner: start_scan, run_scan and what reads     *)
(* their results, of src/analytics/scanner.py.                             *)
(*                                                                         *)
(* A scan is started by the evening job or by a button.  Its row says      *)
(* running until its thread writes the end of it, or until somebody starts *)
(* a scan three hours later and gives it up; the thread of a scan that was *)
(* given up may still be at work, and it writes without a look at its row. *)
(* What a scan finds is left out: here it is the scan's number.            *)
(***************************************************************************)
EXTENDS Integers, SequencesExt

CONSTANTS MaxScans,     \* bound: rows
          MaxCrashes    \* bound: stops of the server

Scans == 1..MaxScans
Starters == {"job", "button"}

VARIABLES
  status,     \* scanner_runs: "none", "running", "completed", "failed"
  finished,   \* the completed rows in the order of finished_at
  old,        \* the rows started more than three hours ago
  starter,    \* per starter: "idle", "swept", "launching", "busy"
  mine,       \* per starter: the scan it inserted, 0 for none
  thread,     \* per scan: "none", "fetch", "write", "notify", "error"
  pushed,     \* history, per scan: the scan its result was compared with
  before,     \* history, per scan: the scan that was the latest before it
  crashes

table == <<status, finished, old>>
vars == <<table, starter, mine, thread, pushed, before, crashes>>

Running == {i \in Scans : status[i] = "running"}
Working == {i \in Scans : thread[i] # "none"}

Init ==
  /\ status = [i \in Scans |-> "none"]
  /\ finished = <<>> /\ old = {}
  /\ starter = [c \in Starters |-> "idle"] /\ mine = [c \in Starters |-> 0]
  /\ thread = [i \in Scans |-> "none"]
  /\ pushed = [i \in Scans |-> 0] /\ before = [i \in Scans |-> 0]
  /\ crashes = 0
-----------------------------------------------------------------------------
(* start_scan *)

\* Mutant: nothing is ever given up.
GivenUpNever == {}
\* Mutant: every running row is given up.
GivenUpAlways == Running

\* The rows the first statement fails.
GivenUp == Running \intersect old

\* The job has one instance: it starts nothing while its own scan is at work.
Sweep(c) ==
  /\ starter[c] = "idle"
  /\ status' = [i \in Scans |-> IF i \in GivenUp THEN "failed" ELSE status[i]]
  /\ starter' = [starter EXCEPT ![c] = "swept"]
  /\ UNCHANGED <<mine, finished, old, thread, pushed, before, crashes>>

\* The unique index refuses a second running row: "already running".
Refused(c) ==
  /\ starter[c] = "swept" /\ Running # {}
  /\ starter' = [starter EXCEPT ![c] = "idle"]
  /\ UNCHANGED <<mine, table, thread, pushed, before, crashes>>

Insert(c) ==
  /\ starter[c] = "swept" /\ Running = {}
  /\ \E i \in Scans :
       /\ status[i] = "none" /\ \A j \in 1..(i - 1) : status[j] # "none"
       /\ status' = [status EXCEPT ![i] = "running"]
       /\ starter' = [starter EXCEPT ![c] = "launching"]
       /\ mine' = [mine EXCEPT ![c] = i]
  /\ UNCHANGED <<finished, old, thread, pushed, before, crashes>>

\* The job runs the scan itself and is busy until it ends; the request leaves a
\* thread behind.
Launch(c) ==
  /\ starter[c] = "launching"
  /\ thread' = [thread EXCEPT ![mine[c]] = "fetch"]
  /\ starter' = [starter EXCEPT ![c] = IF c = "job" THEN "busy" ELSE "idle"]
  /\ UNCHANGED <<mine, table, pushed, before, crashes>>

\* The end of a thread; the job that ran it is free again.
Ends(i) ==
  /\ thread' = [thread EXCEPT ![i] = "none"]
  /\ starter' = [c \in Starters |-> IF starter[c] = "busy" /\ mine[c] = i
                                     THEN "idle" ELSE starter[c]]
  /\ UNCHANGED mine
-----------------------------------------------------------------------------
(* run_scan *)

\* The index members (the stored list serves a week, and while the exchange
\* cannot be reached), each symbol's full history once and its latest bars (one
\* that cannot be fetched is left to the next scan), then compute_scan.
Fetch(i) ==
  /\ thread[i] = "fetch"
  /\ thread' = [thread EXCEPT ![i] = "write"]
  /\ UNCHANGED <<table, starter, mine, pushed, before, crashes>>

Latest == IF finished = <<>> THEN 0 ELSE Last(finished)

\* The row is written whatever it says by now; it has one thread, so once.
WriteCompleted(i) ==
  /\ thread[i] = "write"
  /\ status' = [status EXCEPT ![i] = "completed"]
  /\ finished' = Append(finished, i)
  /\ before' = [before EXCEPT ![i] = Latest]
  /\ thread' = [thread EXCEPT ![i] = "notify"]
  /\ UNCHANGED <<old, starter, mine, pushed, crashes>>

\* Mutant: the newest completed result, which is the scan's own.
PreviousCompletedOwn == Latest

\* _previous_completed: the last but one in the order of finishing.
PreviousCompleted ==
  IF Len(finished) < 2 THEN 0 ELSE finished[Len(finished) - 1]

\* A verdict that differs from the previous one is pushed.
NotifyChanges(i) ==
  /\ thread[i] = "notify"
  /\ pushed' = [pushed EXCEPT ![i] = PreviousCompleted]
  /\ Ends(i)
  /\ UNCHANGED <<table, before, crashes>>

\* Anything before the write may raise: no list at all, too few prices, the
\* database.  (What the notification raises is caught where it is raised.)
Raises(i) ==
  /\ thread[i] \in {"fetch", "write"}
  /\ thread' = [thread EXCEPT ![i] = "error"]
  /\ UNCHANGED <<table, starter, mine, pushed, before, crashes>>

WriteFailed(i) ==
  /\ thread[i] = "error"
  /\ status' = [status EXCEPT ![i] = "failed"]
  /\ Ends(i)
  /\ UNCHANGED <<finished, old, pushed, before, crashes>>

\* The handler's own statement fails.
LoseError(i) ==
  /\ thread[i] = "error" /\ Ends(i)
  /\ UNCHANGED <<table, pushed, before, crashes>>
-----------------------------------------------------------------------------
\* Three hours pass for the rows of now.
HoursPass ==
  /\ old' = {i \in Scans : status[i] # "none"} /\ old' # old
  /\ UNCHANGED <<status, finished, starter, mine, thread, pushed, before, crashes>>

\* The server stops: its threads and requests are gone.
Crash ==
  /\ crashes < MaxCrashes /\ crashes' = crashes + 1
  /\ starter' = [c \in Starters |-> "idle"] /\ UNCHANGED mine
  /\ thread' = [i \in Scans |-> "none"]
  /\ UNCHANGED <<table, pushed, before>>

ThreadStep(i) ==
  \/ Fetch(i) \/ WriteCompleted(i) \/ NotifyChanges(i) \/ Raises(i) \/ WriteFailed(i) \/ LoseError(i)
StartStep(c) == Sweep(c) \/ Refused(c) \/ Insert(c) \/ Launch(c)

Next == (\E i \in Scans : ThreadStep(i)) \/ (\E c \in Starters : StartStep(c))
        \/ HoursPass \/ Crash

\* Threads go on; hours pass; the job comes round every evening.
Fairness == /\ \A i \in Scans : WF_vars(ThreadStep(i))
            /\ WF_vars(HoursPass) /\ WF_vars(StartStep("job"))

Spec == Init /\ [][Next]_vars /\ Fairness
-----------------------------------------------------------------------------
TypeOK ==
  /\ status \in [Scans -> {"none", "running", "completed", "failed"}]
  /\ finished \in Seq(Scans) /\ old \subseteq Scans
  /\ starter \in [Starters -> {"idle", "swept", "launching", "busy"}]
  /\ mine \in [Starters -> 0..MaxScans]
  /\ thread \in [Scans -> {"none", "fetch", "write", "notify", "error"}]
  /\ pushed \in [Scans -> 0..MaxScans] /\ before \in [Scans -> 0..MaxScans]
  /\ crashes \in 0..MaxCrashes

\* Two scans are at work at one time only when one of them has outlived the three
\* hours (or is only telling what it found): the table keeps one running row, and
\* a row that runs has the only thread.
OneScanAtWork ==
  \A i, j \in Working : i # j => \/ i \in old \/ j \in old
                                 \/ thread[i] = "notify" \/ thread[j] = "notify"

\* The result the pages show is of the scan started last among the completed,
\* unless its own scan was given up and finished all the same.
LatestIsNewest ==
  finished # <<>> => \/ \A j \in Scans : status[j] = "completed" => j <= Last(finished)
                     \/ Last(finished) \in old

\* A change of the verdict is pushed against the verdict it replaces, not against
\* the scan's own: as long as no other scan completed before the push.
ComparedWithPredecessor ==
  [][\A i \in Scans : (/\ thread[i] = "notify" /\ thread'[i] = "none"
                        /\ Last(finished) = i /\ crashes' = crashes)
                         => pushed'[i] = before[i]]_vars

\* A row does not stay running: its thread ends it, or a later start gives it up.
ScansSettle == \A i \in Scans : (status[i] = "running") ~> (status[i] # "running")

\* Scans come one after the other: at work, in what is shown, and in what each is
\* compared with.
ScansInTurn == [](OneScanAtWork /\ LatestIsNewest) /\ ComparedWithPredecessor
=============================================================================
