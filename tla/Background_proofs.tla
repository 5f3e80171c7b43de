--------------------------- MODULE Background_proofs ---------------------------
(***************************************************************************)
(* What runs in the background, for any number of requests, scans, calls,  *)
(* instances, releases and stops of the processes.                         *)
(*                                                                         *)
(* Research runs: the lock makes the transactions exclusive                *)
(* (OneTransaction).  That its holder's checks still hold when it inserts  *)
(* is the rest of IInv: after its count no row is active that it has not   *)
(* swept (CheckedActive), and its key has no row (CheckedKey).  MarginInv  *)
(* adds, where no statement fails and no answer is late, how rows end      *)
(* (RowsEnd) and that a request which has counted may still insert         *)
(* (WithinLimit).                                                          *)
(*                                                                         *)
(* The start of an instance: no row of schema_migrations ever changes, so  *)
(* what an instance has once compared stays compared, whatever the others  *)
(* apply meanwhile; and the files it has still to do are the only ones     *)
(* that may not be in (SInv).                                              *)
(*                                                                         *)
(* Outcomes: bars are of the past, and a call on the job's list is not     *)
(* settled by anybody else (OutcomesInv).                                  *)
(*                                                                         *)
(* Scans: the row that runs is the newest, and a thread whose row does not *)
(* run is of an old one (ScannerInv).                                      *)
(***************************************************************************)
EXTENDS MCResearchRuns, LibraryLemmas, TLAPS

OneTransaction ==
  /\ \A r, q \in Requests : pc[r] \in InTransaction /\ pc[q] \in InTransaction => r = q
  /\ \A r \in Requests : swept[r] # {} => pc[r] \in {"count", "insert"}

\* The row locks: what a transaction has swept does not change before it ends.
LocksHold == \A r \in Requests : swept[r] \subseteq ActiveRuns

CheckedActive == \A r \in Requests : pc[r] = "insert" => ActiveRuns \subseteq swept[r]

CheckedKey ==
  \A r \in Requests : /\ pc[r] \in InTransaction => Found(r) = {}
                      /\ pc[r] \in {"idle"} \union InTransaction => status[r] = "absent"

\* What the properties say, without cardinalities.
AtMostOne == \A i, j \in ActiveRuns : i = j
KeysUnique == \A i, j \in Runs : Key[i] = Key[j] => i = j
Answered == \A r \in Requests :
  /\ pc[r] \in {"created", "answered"} => \E i \in Runs : answer[r] = {i} /\ Key[i] = Key[r]

IInv == /\ TypeOK /\ OneTransaction /\ LocksHold /\ CheckedActive /\ CheckedKey
        /\ AtMostOne /\ KeysUnique /\ Answered

\* A thread that is about to write a status has one to write.
Ready == \A i \in Requests : thread[i] \in {"written", "finish", "save"} => result[i] \in Terminal

\* What either regime may do and more: a limit that refuses at will, and statements
\* that fail and rows that grow old at any time.
AnyCount(r) ==
  /\ pc[r] = "count"
  /\ \/ /\ SeenActive(r) = {}
        /\ pc' = [pc EXCEPT ![r] = "insert"] /\ UNCHANGED swept
     \/ /\ pc' = [pc EXCEPT ![r] = "refused"]
        /\ swept' = [swept EXCEPT ![r] = {}]
  /\ UNCHANGED <<table, age, day, answer, threads, crashes>>
AnyFailure(r) ==
  /\ pc[r] \in InTransaction
  /\ pc' = [pc EXCEPT ![r] = "lost"]
  /\ swept' = [swept EXCEPT ![r] = {}]
  /\ UNCHANGED <<table, age, day, answer, threads, crashes>>
AnyFault(i) ==
  /\ thread[i] \in {"started", "claimed", "save", "written", "finish"}
  /\ thread' = [thread EXCEPT ![i] = "dead"]
  /\ UNCHANGED <<table, age, day, requests, result, paid, crashes>>
AnyAges(i) ==
  /\ age' = [age EXCEPT ![i] = IF @ = "fresh" THEN "closing" ELSE "old"]
  /\ UNCHANGED <<table, day, requests, threads, crashes>>

AnyEnqueue(r) == \/ Lock(r) \/ SweepInTransaction(r) \/ AnyCount(r) \/ Insert(r) \/ StartRun(r)
                 \/ AnyFailure(r)
AnyExecute(i) == \/ Claim(i) \/ SnapshotFails(i) \/ StartCommittee(i)
                 \/ Pay(i) \/ Progress(i) \/ CommitteeReturns(i) \/ CommitteeRaises(i)
                 \/ Save(i) \/ SetStatus(i) \/ AnyFault(i)
AnyStep == \/ \E r \in Requests : AnyEnqueue(r) \/ AnyExecute(r) \/ AnyAges(r)
           \/ Sweep \/ Midnight \/ Crash

\* The steps of a run are such steps.
LEMMA RegularSteps == Next => AnyStep
BY DEF Next, AnyStep, Enqueue, AnyEnqueue, Execute, AnyExecute, Count, AnyCount, QuotaAllows,
       RequestFails, AnyFailure, Fault, AnyFault, Ages, AnyAges

\* And so are those of a run with faults and late answers.
LEMMA FaultySteps == TypeOK /\ Faulty!Next => AnyStep
<1> SUFFICES ASSUME TypeOK, Faulty!Next PROVE AnyStep
  OBVIOUS
<1> USE DEF table, requests, threads, vars, Faulty!table, Faulty!requests, Faulty!threads, Runs,
            ActiveRuns, Active, Overdue, Locked, Found, Terminal, Faulty!Runs, Faulty!ActiveRuns,
            Faulty!Active, Faulty!Overdue, Faulty!Locked, Faulty!Found, Faulty!Terminal
<1>1. ASSUME NEW r \in Requests, Faulty!Enqueue(r) PROVE AnyEnqueue(r)
  <2>1. CASE Faulty!Lock(r)
    BY <2>1 DEF Faulty!Lock, Lock, LockFree, Faulty!LockFree, InTransaction,
                Faulty!InTransaction, AnyEnqueue
  <2>2. CASE Faulty!SweepInTransaction(r)
    BY <2>2 DEF Faulty!SweepInTransaction, SweepInTransaction, AnyEnqueue
  <2>3. CASE Faulty!Count(r)
    BY <2>3 DEF Faulty!Count, AnyCount, Faulty!QuotaAllows, SeenActive, Faulty!SeenActive, AnyEnqueue
  <2>4. CASE Faulty!Insert(r) \/ Faulty!StartRun(r)
    BY <2>4 DEF Faulty!Insert, Faulty!StartRun, Insert, StartRun, AnyEnqueue
  <2>5. CASE Faulty!RequestFails(r)
    BY <2>5 DEF Faulty!RequestFails, AnyFailure, InTransaction, Faulty!InTransaction, AnyEnqueue
  <2> QED
    BY <1>1, <2>1, <2>2, <2>3, <2>4, <2>5 DEF Faulty!Enqueue
<1>2. ASSUME NEW i \in Requests, Faulty!Execute(i) PROVE AnyExecute(i)
  <2>1. CASE Faulty!Claim(i) \/ Faulty!SnapshotFails(i) \/ Faulty!StartCommittee(i)
    BY <2>1 DEF Faulty!Claim, Claim, Faulty!SnapshotFails, SnapshotFails, Faulty!StartCommittee,
                StartCommittee, AnyExecute
  <2>2. CASE Faulty!Pay(i) \/ Faulty!Progress(i) \/ Faulty!CommitteeReturns(i) \/ Faulty!CommitteeRaises(i)
    BY <2>2 DEF Faulty!Pay, Pay, Faulty!Progress, Progress, Faulty!CommitteeReturns,
                CommitteeReturns, Faulty!CommitteeRaises, CommitteeRaises, AnyExecute
  <2>3. CASE Faulty!Save(i) \/ Faulty!SetStatus(i) \/ Faulty!Fault(i)
    BY <2>3 DEF Faulty!Save, Save, Faulty!SetStatus, SetStatus, Faulty!Fault, AnyFault, AnyExecute
  <2> QED
    BY <1>2, <2>1, <2>2, <2>3 DEF Faulty!Execute
<1>3. ASSUME NEW i \in Requests, Faulty!Ages(i) PROVE AnyAges(i)
  BY <1>3 DEF Faulty!Ages, AnyAges
<1>4. Faulty!Sweep => Sweep
  BY DEF Faulty!Sweep, Sweep
<1>5. ~Faulty!Midnight
  BY DEF Faulty!Midnight, TypeOK
<1>6. Faulty!Crash => Crash
  BY DEF Faulty!Crash, Crash, InTransaction, Faulty!InTransaction
<1> QED
  BY <1>1, <1>2, <1>3, <1>4, <1>5, <1>6 DEF Faulty!Next, AnyStep

\* Initially there is no row and no transaction.
THEOREM InitInv == Init => IInv /\ Ready
BY RunsAssumption DEF RunsAssumption, Init, IInv, Ready, TypeOK, OneTransaction, LocksHold, CheckedActive, CheckedKey,
   AtMostOne, KeysUnique, Answered, Runs, ActiveRuns, Active, Found, InTransaction

\* A step of no request that adds and removes no row and starts no row again, and
\* leaves the locked rows alone.
RowsOnlyEnd ==
  /\ UNCHANGED requests
  /\ \A i \in Requests : /\ status'[i] = "absent" <=> status[i] = "absent"
                         /\ status'[i] \in Active => status[i] \in Active
                         /\ Locked(i) => status'[i] = status[i]

\* Such a step keeps everything but the types.
LEMMA RowsOnlyEndKeeps ==
  ASSUME IInv, TypeOK', RowsOnlyEnd
  PROVE  IInv'
<1> USE DEF IInv, requests, RowsOnlyEnd
<1>1. Runs' = Runs /\ ActiveRuns' \subseteq ActiveRuns
  BY DEF Runs, ActiveRuns
<1>2. \A r \in Requests : Found(r)' = Found(r)
  BY <1>1 DEF Found
<1>3. OneTransaction' /\ LocksHold'
  BY DEF OneTransaction, LocksHold, Locked, ActiveRuns, Runs
<1>4. CheckedActive' /\ AtMostOne'
  BY <1>1 DEF CheckedActive, AtMostOne
<1>5. CheckedKey' /\ KeysUnique' /\ Answered'
  BY <1>1, <1>2 DEF CheckedKey, KeysUnique, Answered
<1> QED
  BY <1>3, <1>4, <1>5

\* Each step of execute_run.
LEMMA ExecuteSteps ==
  ASSUME IInv, Ready, NEW k \in Requests, AnyExecute(k)
  PROVE  IInv' /\ Ready'
<1> USE DEF requests, threads, table, RowsOnlyEnd
<1>0. TypeOK
  BY DEF IInv
<1>1. ASSUME Claim(k) PROVE TypeOK' /\ Ready' /\ RowsOnlyEnd
  BY <1>0, <1>1 DEF Claim, TypeOK, Ready, Active
<1>2. ASSUME SnapshotFails(k) \/ CommitteeRaises(k) PROVE TypeOK' /\ Ready' /\ RowsOnlyEnd
  BY <1>0, <1>2 DEF SnapshotFails, CommitteeRaises, TypeOK, Ready, Terminal
<1>3. ASSUME StartCommittee(k) PROVE TypeOK' /\ Ready' /\ RowsOnlyEnd
  BY <1>0, <1>3 DEF StartCommittee, TypeOK, Ready, Terminal
<1>4. ASSUME Pay(k) PROVE TypeOK' /\ Ready' /\ RowsOnlyEnd
  BY <1>0, <1>4 DEF Pay, TypeOK, Ready
<1>5. ASSUME Progress(k) PROVE TypeOK' /\ Ready' /\ RowsOnlyEnd
  BY <1>0, <1>5 DEF Progress, TypeOK, Ready
<1>6. ASSUME CommitteeReturns(k) PROVE TypeOK' /\ Ready' /\ RowsOnlyEnd
  BY <1>0, <1>6, RunsAssumption DEF CommitteeReturns, TypeOK, Ready, RunsAssumption
<1>7. ASSUME Save(k) PROVE TypeOK' /\ Ready' /\ RowsOnlyEnd
  BY <1>0, <1>7 DEF Save, TypeOK, Ready
<1>8. ASSUME SetStatus(k) PROVE TypeOK' /\ Ready' /\ RowsOnlyEnd
  BY <1>0, <1>8 DEF SetStatus, TypeOK, Ready, Active, Terminal
<1>9. ASSUME AnyFault(k) PROVE TypeOK' /\ Ready' /\ RowsOnlyEnd
  BY <1>0, <1>9 DEF AnyFault, TypeOK, Ready
<1> QED
  BY <1>1, <1>2, <1>3, <1>4, <1>5, <1>6, <1>7, <1>8, <1>9, RowsOnlyEndKeeps DEF AnyExecute

\* The sweep of a GET, the clock and the calendar.
LEMMA OtherSteps ==
  ASSUME IInv, Ready, Sweep \/ Midnight \/ \E i \in Requests : AnyAges(i)
  PROVE  IInv' /\ Ready'
<1> USE DEF requests, threads, table, RowsOnlyEnd
<1>0. TypeOK
  BY DEF IInv
<1>1. ASSUME Sweep PROVE TypeOK' /\ Ready' /\ RowsOnlyEnd
  BY <1>0, <1>1 DEF Sweep, TypeOK, Ready, Locked, Overdue, ActiveRuns, Runs, Active, Terminal
<1>2. ASSUME Midnight PROVE TypeOK' /\ Ready' /\ RowsOnlyEnd
  BY <1>0, <1>2, RunsAssumption DEF Midnight, TypeOK, Ready, RunsAssumption
<1>3. ASSUME \E i \in Requests : AnyAges(i) PROVE TypeOK' /\ Ready' /\ RowsOnlyEnd
  BY <1>0, <1>3 DEF AnyAges, TypeOK, Ready
<1> QED
  BY <1>1, <1>2, <1>3, RowsOnlyEndKeeps

\* Each step of a request.
LEMMA EnqueueSteps ==
  ASSUME IInv, Ready, NEW k \in Requests, AnyEnqueue(k)
  PROVE  IInv' /\ Ready'
<1> USE DEF IInv, threads, table, InTransaction
<1>1. CASE Lock(k)
  <2> USE <1>1 DEF Lock
  <2>1. TypeOK' /\ Ready'
    BY DEF TypeOK, Ready, Found, Runs
  <2>2. Runs' = Runs /\ ActiveRuns' = ActiveRuns /\ \A r \in Requests : Found(r)' = Found(r)
    BY DEF Runs, ActiveRuns, Found
  <2>3. OneTransaction' /\ LocksHold' /\ CheckedActive' /\ AtMostOne' /\ KeysUnique'
    BY <2>2 DEF TypeOK, LocksHold, LockFree, OneTransaction, CheckedActive, AtMostOne, KeysUnique
  <2>4. CheckedKey'
    BY <2>2 DEF TypeOK, CheckedKey
  <2>5. Found(k) # {} => \E i \in Runs : Found(k) = {i} /\ Key[i] = Key[k]
    BY DEF Found, KeysUnique
  <2>6. Answered'
    BY <2>2, <2>5 DEF TypeOK, Answered
  <2> QED
    BY <2>1, <2>3, <2>4, <2>6
<1>2. CASE SweepInTransaction(k)
  <2> USE <1>2 DEF SweepInTransaction
  <2>1. TypeOK' /\ Ready'
    BY DEF TypeOK, Ready, Overdue, ActiveRuns, Runs
  <2>2. Runs' = Runs /\ ActiveRuns' = ActiveRuns /\ \A r \in Requests : Found(r)' = Found(r)
    BY DEF Runs, ActiveRuns, Found
  <2>3. OneTransaction' /\ LocksHold' /\ CheckedActive' /\ AtMostOne' /\ KeysUnique'
    BY <2>2 DEF TypeOK, Overdue, LocksHold, OneTransaction, CheckedActive, AtMostOne, KeysUnique
  <2>4. CheckedKey' /\ Answered'
    BY <2>2 DEF TypeOK, CheckedKey, Answered
  <2> QED
    BY <2>1, <2>3, <2>4
<1>3. CASE AnyCount(k)
  <2> USE <1>3 DEF AnyCount
  <2>1. TypeOK' /\ Ready'
    BY DEF TypeOK, Ready
  <2>2. Runs' = Runs /\ ActiveRuns' = ActiveRuns /\ \A r \in Requests : Found(r)' = Found(r)
    BY DEF Runs, ActiveRuns, Found
  <2>3. OneTransaction' /\ LocksHold' /\ AtMostOne' /\ KeysUnique'
    BY <2>2 DEF TypeOK, LocksHold, OneTransaction, AtMostOne, KeysUnique
  <2>4. CheckedActive'
    BY <2>2 DEF TypeOK, CheckedActive, OneTransaction, SeenActive
  <2>5. CheckedKey' /\ Answered'
    BY <2>2 DEF TypeOK, CheckedKey, Answered
  <2> QED
    BY <2>1, <2>3, <2>4, <2>5
<1>4. CASE Insert(k)
  <2> USE <1>4 DEF Insert
  <2>1. TypeOK' /\ Ready'
    BY DEF TypeOK, Ready, Active, Terminal
  <2>2. status[k] = "absent" /\ Found(k) = {} /\ ActiveRuns \subseteq swept[k]
    BY DEF CheckedKey, CheckedActive
  <2>3. swept[k] \subseteq Runs /\ k \notin swept[k]
    BY <2>2 DEF LocksHold, ActiveRuns, Runs
  <2>4. Runs' = Runs \union {k} /\ ActiveRuns' = {k}
    BY <2>2, <2>3 DEF TypeOK, Runs, ActiveRuns, Active
  <2>5. \A r \in Requests : swept'[r] = {} /\ (r # k => pc'[r] = pc[r] /\ pc[r] \notin InTransaction)
    BY DEF TypeOK, OneTransaction
  <2>6. OneTransaction' /\ LocksHold' /\ CheckedActive' /\ AtMostOne'
    BY <2>4, <2>5 DEF TypeOK, OneTransaction, LocksHold, CheckedActive, AtMostOne
  <2>7. KeysUnique'
    BY <2>2, <2>4 DEF Found, KeysUnique
  <2>8. Answered'
    BY <2>4, <2>5 DEF TypeOK, Answered
  <2>9. CheckedKey'
    <3>1. \A r \in Requests : r # k /\ status[r] = "absent" => status'[r] = "absent"
      BY <2>3 DEF Runs
    <3> QED
      BY <2>5, <3>1 DEF TypeOK, CheckedKey
  <2> QED
    BY <2>1, <2>6, <2>7, <2>8, <2>9
<1>5. CASE StartRun(k)
  <2> USE <1>5 DEF StartRun
  <2>1. TypeOK' /\ Ready'
    BY DEF TypeOK, Ready
  <2>2. Runs' = Runs /\ ActiveRuns' = ActiveRuns /\ \A r \in Requests : Found(r)' = Found(r)
    BY DEF Runs, ActiveRuns, Found
  <2>3. OneTransaction' /\ LocksHold' /\ CheckedActive' /\ AtMostOne' /\ KeysUnique'
    BY <2>2 DEF TypeOK, LocksHold, OneTransaction, CheckedActive, AtMostOne, KeysUnique
  <2>4. CheckedKey' /\ Answered'
    BY <2>2 DEF TypeOK, CheckedKey, Answered
  <2> QED
    BY <2>1, <2>3, <2>4
<1>6. CASE AnyFailure(k)
  <2> USE <1>6 DEF AnyFailure
  <2>1. TypeOK' /\ Ready'
    BY DEF TypeOK, Ready
  <2>2. Runs' = Runs /\ ActiveRuns' = ActiveRuns /\ \A r \in Requests : Found(r)' = Found(r)
    BY DEF Runs, ActiveRuns, Found
  <2>3. OneTransaction' /\ LocksHold' /\ CheckedActive' /\ AtMostOne' /\ KeysUnique'
    BY <2>2 DEF TypeOK, LocksHold, OneTransaction, CheckedActive, AtMostOne, KeysUnique
  <2>4. CheckedKey' /\ Answered'
    BY <2>2 DEF TypeOK, CheckedKey, Answered
  <2> QED
    BY <2>1, <2>3, <2>4
<1> QED
  BY <1>1, <1>2, <1>3, <1>4, <1>5, <1>6 DEF AnyEnqueue

\* A stop of the server releases every lock.
LEMMA CrashStep == IInv /\ Ready /\ Crash => IInv' /\ Ready'
<1> SUFFICES ASSUME IInv, Ready, Crash PROVE IInv' /\ Ready'
  OBVIOUS
<1> USE DEF IInv, threads, table, InTransaction, Crash
<1>1. TypeOK' /\ Ready'
  BY RunsAssumption DEF RunsAssumption, TypeOK, Ready
<1>2. Runs' = Runs /\ ActiveRuns' = ActiveRuns /\ \A r \in Requests : Found(r)' = Found(r)
  BY DEF Runs, ActiveRuns, Found
<1>3. \A r \in Requests : /\ pc'[r] \notin InTransaction /\ swept'[r] = {}
                          /\ pc'[r] \in {"idle", "answered"} => pc[r] = pc'[r]
                          /\ pc'[r] # "created"
  BY DEF TypeOK
<1>4. OneTransaction' /\ LocksHold' /\ CheckedActive' /\ AtMostOne' /\ KeysUnique'
  BY <1>2, <1>3 DEF OneTransaction, LocksHold, CheckedActive, AtMostOne, KeysUnique
<1>5. CheckedKey' /\ Answered'
  BY <1>2, <1>3 DEF CheckedKey, Answered
<1> QED
  BY <1>1, <1>4, <1>5

\* Every step keeps the invariant.
THEOREM AnyStepInv == IInv /\ Ready /\ [AnyStep]_vars => IInv' /\ Ready'
<1> SUFFICES ASSUME IInv, Ready, [AnyStep]_vars PROVE IInv' /\ Ready'
  OBVIOUS
<1>1. CASE UNCHANGED vars
  <2>1. RowsOnlyEnd /\ TypeOK' /\ Ready'
    BY <1>1 DEF vars, RowsOnlyEnd, requests, threads, table, IInv, TypeOK, Ready
  <2> QED
    BY <2>1, RowsOnlyEndKeeps
<1>2. CASE AnyStep
  BY <1>2, EnqueueSteps, ExecuteSteps, OtherSteps, CrashStep DEF AnyStep
<1> QED
  BY <1>1, <1>2

\* Whatever the regime, a step of the background is a step of a run or of nobody.
LEMMA BackgroundSteps == TypeOK /\ [AllNext]_allVars => [AnyStep]_vars
BY RegularSteps, FaultySteps DEF AllNext, allVars

\* The inductive invariant holds in every state.
THEOREM Invariance == AllSpec => [](IInv /\ Ready)
<1>1. AllInit => IInv /\ Ready
  BY InitInv DEF AllInit
<1>2. IInv /\ Ready /\ [AllNext]_allVars => IInv' /\ Ready'
  BY BackgroundSteps, AnyStepInv DEF IInv
<1> QED
  BY <1>1, <1>2, PTL DEF AllSpec

\* Never two runs in progress, for any number of requests, crashes and late threads.
THEOREM NeverTwoActive == AllSpec => []OneActiveRun
<1>1. IInv => OneActiveRun
  <2> SUFFICES ASSUME IInv PROVE Cardinality(ActiveRuns) <= 1
    BY DEF OneActiveRun
  <2>1. CASE ActiveRuns = {}
    BY <2>1, FS_EmptySet
  <2>2. CASE ActiveRuns # {}
    <3>1. PICK i \in ActiveRuns : ActiveRuns = {i}
      BY <2>2 DEF IInv, AtMostOne
    <3>2. Cardinality(ActiveRuns) = 1
      BY <3>1, FS_Singleton
    <3> QED
      BY <3>2
  <2> QED
    BY <2>1, <2>2
<1> QED
  BY <1>1, Invariance, PTL

\* A key never makes two runs, and an answered request got its key's run.
THEOREM KeysAreIdempotent == AllSpec => []OneRunPerKey
<1>1. IInv => OneRunPerKey
  BY DEF IInv, KeysUnique, Answered, OneRunPerKey
<1> QED
  BY <1>1, Invariance, PTL

\* No terminal status changes: the sweep, the commit of a request that swept and the
\* last write of a thread all leave it alone.
THEOREM NoStatusComesBack == AllSpec => TerminalIsFinal
<1> DEFINE Final == \A i \in Runs : status[i] \in Terminal => status'[i] = status[i]
<1>1. IInv /\ [AnyStep]_vars => [Final]_vars
  <2> SUFFICES ASSUME IInv, AnyStep PROVE Final
    OBVIOUS
  <2> USE DEF Runs, table, requests, threads, Active, Terminal
  <2>0. TypeOK
    BY DEF IInv
  <2>1. ASSUME NEW r \in Requests, Insert(r) PROVE Final
    BY <2>1 DEF Insert, IInv, LocksHold, CheckedKey, ActiveRuns, InTransaction
  <2>2. ASSUME NEW i \in Requests, Claim(i) PROVE Final
    BY <2>0, <2>2 DEF Claim, TypeOK
  <2>3. ASSUME NEW i \in Requests, SetStatus(i) PROVE Final
    BY <2>0, <2>3 DEF SetStatus, TypeOK
  <2>4. CASE Sweep
    BY <2>4 DEF Sweep, Overdue, ActiveRuns
  <2>5. CASE UNCHANGED status
    BY <2>5
  <2>6. \/ UNCHANGED status \/ Sweep
        \/ \E r \in Requests : Insert(r) \/ Claim(r) \/ SetStatus(r)
    BY DEF AnyStep, AnyEnqueue, AnyExecute, Lock, SweepInTransaction, AnyCount, StartRun, AnyFailure,
       SnapshotFails, StartCommittee, Pay, Progress, CommitteeReturns, CommitteeRaises, Save,
       AnyFault, AnyAges, Midnight, Crash
  <2> QED
    BY <2>1, <2>2, <2>3, <2>4, <2>5, <2>6
<1>2. IInv /\ [AllNext]_allVars => [AnyStep]_vars
  BY BackgroundSteps DEF IInv
<1> QED
  BY <1>1, <1>2, Invariance, PTL DEF AllSpec, TerminalIsFinal

\* One run at a time, and one for a key.
THEOREM SingleRuns == AllSpec => []RunsAreSingle
BY NeverTwoActive, KeysAreIdempotent, PTL DEF RunsAreSingle
-----------------------------------------------------------------------------
(* Startup *)

\* A baseline records files and does nothing else.
BaselineRecorded == \A f \in baselined : f \in Start!Files /\ recorded[f] # None

\* What is not left to do is in, in the text of the release.
DoneIsIn(i) ==
  \A f \in Start!Brought(i) \ pending[i] : recorded[f] = release[i][f]

\* What an instance has made sure of in each of its steps.
Knows(i) ==
  /\ at[i] = "apply" => pending[i] \subseteq Start!Brought(i) /\ DoneIsIn(i)
  /\ at[i] \in {"check", "serving"} => \A f \in Start!Brought(i) : recorded[f] = release[i][f]

SInv == Start!TypeOK /\ BaselineRecorded /\ Start!EffectIffRecorded /\ Start!AppliedInOrder
        /\ \A i \in Instances : Knows(i)

\* A release is files numbered from one, each with a content.
LEMMA ReleaseFacts ==
  ASSUME Start!StartupAssumption, Start!TypeOK, NEW i \in Instances
  PROVE  /\ Start!Brought(i) \subseteq Start!Files
         /\ \A f \in Start!Brought(i) : 1 .. f \subseteq Start!Brought(i)
         /\ \A f \in Start!Brought(i) : release[i][f] \in Start!Contents /\ release[i][f] # None
<1>1. release[i] \in Releases
  BY DEF Start!TypeOK
<1>2. PICK n \in Start!Files : DOMAIN release[i] = 1 .. n
  BY <1>1 DEF Start!StartupAssumption
<1>3. Start!Brought(i) \subseteq Start!Files /\ \A f \in Start!Brought(i) : 1 .. f \subseteq Start!Brought(i)
  BY <1>2 DEF Start!StartupAssumption, Start!Files, Start!Brought
<1>4. \A f \in Start!Brought(i) : release[i][f] \in Start!Contents
  BY <1>1 DEF Start!Brought, Start!Contents
<1> QED
  BY <1>3, <1>4 DEF Start!StartupAssumption

\* An empty database, and nobody started.
LEMMA InitSInv == Start!Init => SInv
<1> SUFFICES ASSUME Start!Init PROVE SInv
  OBVIOUS
<1>1. 0 \in 0 .. MaxKills
  BY BackgroundAssumption DEF BackgroundAssumption, Start!StartupAssumption
<1>2. Start!TypeOK
  BY <1>1 DEF Start!Init, Start!TypeOK
<1> QED
  BY <1>2 DEF Start!Init, SInv, BaselineRecorded, Start!EffectIffRecorded, Start!AppliedInOrder, Knows, Start!Files

\* What an instance knows stays true when it does nothing and no row changes.
LEMMA KnowsStays ==
  ASSUME Start!StartupAssumption, Start!TypeOK, NEW i \in Instances, Knows(i),
         at'[i] = at[i], release'[i] = release[i], pending'[i] = pending[i],
         \A f \in Start!Files : recorded[f] # None => recorded'[f] = recorded[f]
  PROVE  Knows(i)'
<1>1. \A f \in Start!Brought(i) : recorded[f] = release[i][f] => recorded'[f] = release[i][f]
  BY ReleaseFacts
<1>2. Start!Brought(i)' = Start!Brought(i)
  BY DEF Start!Brought
<1> QED
  BY <1>1, <1>2 DEF Knows, DoneIsIn

\* The steps of an instance that leave the database alone.
LEMMA DatabaseStays ==
  ASSUME Start!StartupAssumption, SInv, NEW i \in Instances, UNCHANGED <<recorded, effects, baselined>>,
         Start!TypeOK', Knows(i)',
         \A o \in Instances \ {i} :
           at'[o] = at[o] /\ release'[o] = release[o] /\ pending'[o] = pending[o]
  PROVE  SInv'
<1>1. ASSUME NEW o \in Instances \ {i} PROVE Knows(o)'
  BY KnowsStays DEF SInv
<1>2. BaselineRecorded' /\ Start!EffectIffRecorded' /\ Start!AppliedInOrder'
  BY DEF SInv, BaselineRecorded, Start!EffectIffRecorded, Start!AppliedInOrder
<1> QED
  BY <1>1, <1>2 DEF SInv

\* What an instance does without the database, and a stop anywhere.
LEMMA ProcessSteps ==
  ASSUME Start!StartupAssumption, SInv, NEW i \in Instances,
         Start!Boot(i) \/ Start!Kill(i) \/ Start!Poll(i) \/ Start!Applied(i) \/ Start!Check(i)
  PROVE  SInv'
<1> USE DEF Start!Goto, Start!Stop, Start!processVars
<1>1. CASE Start!Boot(i)
  <2>1. Start!TypeOK' /\ Knows(i)'
    BY <1>1 DEF Start!Boot, SInv, Start!TypeOK, Knows
  <2> QED
    BY <1>1, <2>1, DatabaseStays DEF Start!Boot, SInv, Start!TypeOK
<1>2. CASE Start!Kill(i)
  <2>1. kills' \in 0 .. MaxKills /\ at' = [at EXCEPT ![i] = "down"]
    <3>1. kills \in 0 .. MaxKills /\ kills < MaxKills /\ kills' = kills + 1
      BY <1>2 DEF Start!Kill, SInv, Start!TypeOK
    <3> QED
      BY <1>2, <3>1 DEF Start!Kill, Start!StartupAssumption
  <2>4. release' \in [Instances -> Releases] /\ live' \in [Instances -> BOOLEAN]
        /\ command' \in [Instances -> {"serve", "baseline"}]
    <3>1. PICK rel \in Releases : release' = [release EXCEPT ![i] = rel]
      BY <1>2 DEF Start!Kill
    <3>2. PICK b \in BOOLEAN : live' = [live EXCEPT ![i] = b]
      BY <1>2 DEF Start!Kill
    <3>3. PICK c \in {"serve", "baseline"} : command' = [command EXCEPT ![i] = c]
      BY <1>2 DEF Start!Kill
    <3> QED
      BY <3>1, <3>2, <3>3 DEF SInv, Start!TypeOK
  <2>2. Start!TypeOK'
    BY <1>2, <2>1, <2>4 DEF Start!Kill, SInv, Start!TypeOK
  <2>3. Knows(i)'
    BY <2>1 DEF SInv, Start!TypeOK, Knows
  <2> QED
    BY <1>2, <2>2, <2>3, DatabaseStays DEF Start!Kill, SInv, Start!TypeOK
<1>3. CASE Start!Poll(i)
  <2>1. Start!TypeOK' /\ Knows(i)'
    BY <1>3 DEF Start!Poll, SInv, Start!TypeOK, Knows, DoneIsIn, Start!Brought
  <2> QED
    BY <1>3, <2>1, DatabaseStays DEF Start!Poll
<1>4. CASE Start!Applied(i)
  <2>1. Start!TypeOK'
    BY <1>4 DEF Start!Applied, SInv, Start!TypeOK
  <2>2. \A f \in Start!Brought(i) : recorded[f] = release[i][f]
    BY <1>4 DEF Start!Applied, SInv, Knows, DoneIsIn
  <2>3. at'[i] # "apply" /\ Start!Brought(i)' = Start!Brought(i)
    BY <1>4 DEF Start!Applied, SInv, Start!TypeOK, Start!Brought
  <2>4. Knows(i)'
    BY <1>4, <2>2, <2>3 DEF Start!Applied, Knows
  <2> QED
    BY <1>4, <2>1, <2>4, DatabaseStays DEF Start!Applied, SInv, Start!TypeOK
<1>5. CASE Start!Check(i)
  <2>1. at[i] = "check" /\ \E where \in {"serving", "down"} : at' = [at EXCEPT ![i] = where]
    BY <1>5 DEF Start!Check
  <2>2. Start!TypeOK'
    BY <1>5, <2>1 DEF Start!Check, SInv, Start!TypeOK
  <2>3. Knows(i)'
    BY <1>5, <2>1 DEF Start!Check, SInv, Start!TypeOK, Knows, Start!Brought
  <2> QED
    BY <1>5, <2>1, <2>2, <2>3, DatabaseStays DEF Start!Check, SInv, Start!TypeOK
<1> QED
  BY <1>1, <1>2, <1>3, <1>4, <1>5

\* The comparison before anything is executed.
LEMMA ReadStep ==
  ASSUME Start!StartupAssumption, SInv, NEW i \in Instances, Start!Read(i)
  PROVE  SInv'
<1> USE DEF Start!Read, Start!Goto, Start!Stop, Start!processVars
<1>1. Start!Brought(i) \subseteq Start!Files /\ Start!Brought(i)' = Start!Brought(i)
  BY ReleaseFacts DEF SInv, Start!Brought
<1>2. Start!TypeOK'
  BY <1>1 DEF SInv, Start!TypeOK, Start!Unapplied
<1>3. CASE Start!Tampered(i) # {}
  <2>1. Knows(i)'
    BY <1>3 DEF Knows, SInv, Start!TypeOK
  <2> QED
    BY <1>2, <1>3, <2>1, DatabaseStays DEF SInv, Start!TypeOK
<1>4. CASE Start!Tampered(i) = {}
  <2>1. \A f \in Start!Brought(i) : recorded[f] \in {None, release[i][f]}
    BY <1>4 DEF Start!Tampered
  <2>2. pending'[i] = {f \in Start!Brought(i) : recorded[f] = None} /\ at'[i] = "apply"
    BY <1>4 DEF SInv, Start!TypeOK, Start!Unapplied
  <2>3. Knows(i)'
    BY <1>1, <2>1, <2>2 DEF Knows, DoneIsIn
  <2> QED
    BY <1>2, <1>4, <2>3, DatabaseStays DEF SInv, Start!TypeOK
<1> QED
  BY <1>3, <1>4

\* One file of the run.  The lower ones are done, so they are in; nobody has the file
\* among those that are in, so no other instance's knowledge is touched.
LEMMA ApplyStep ==
  ASSUME Start!StartupAssumption, SInv, NEW i \in Instances, Start!Apply(i)
  PROVE  SInv'
<1> USE DEF Start!processVars
<1>1. PICK f \in pending[i] :
        /\ \A g \in pending[i] : f <= g
        /\ IF Start!Fails(i, f)
           THEN Start!Failure(i, f) /\ UNCHANGED <<recorded, effects, baselined>>
           ELSE /\ Start!Committed(i, f) /\ UNCHANGED at
                /\ baselined' = IF command[i] = "baseline" THEN baselined \union {f} ELSE baselined
                /\ pending' = [pending EXCEPT ![i] = @ \ {f}]
  BY DEF Start!Apply
<1>2. at[i] = "apply" /\ UNCHANGED release /\ pending[i] \subseteq Start!Brought(i) /\ DoneIsIn(i)
  BY DEF Start!Apply, SInv, Knows
<1>3. CASE Start!Fails(i, f)
  <2>0. at' = [at EXCEPT ![i] = "down"] /\ pending' = [pending EXCEPT ![i] = {}]
        /\ UNCHANGED <<recorded, effects, baselined, release, live, command, feed, kills>>
    BY <1>1, <1>3 DEF Start!Apply, Start!Failure, Start!Stop, Start!Goto
  <2>1. Start!TypeOK' /\ Knows(i)'
    BY <2>0 DEF SInv, Start!TypeOK, Knows
  <2> QED
    BY <2>0, <2>1, DatabaseStays DEF SInv, Start!TypeOK
<1>4. CASE ~Start!Fails(i, f)
  <2>1. /\ f \in Start!Files /\ f \in Start!Brought(i) /\ recorded[f] = None
        /\ release[i][f] \in Start!Contents /\ release[i][f] # None
    BY <1>1, <1>2, <1>4, ReleaseFacts DEF Start!Fails, SInv
  <2>2. /\ recorded' = [recorded EXCEPT ![f] = release[i][f]]
        /\ effects' = IF command[i] = "baseline" THEN effects ELSE [effects EXCEPT ![f] = @ + 1]
        /\ UNCHANGED at
        /\ baselined' = IF command[i] = "baseline" THEN baselined \union {f} ELSE baselined
        /\ pending' = [pending EXCEPT ![i] = @ \ {f}]
    BY <1>1, <1>4 DEF Start!Committed
  <2>3. Start!TypeOK'
    <3>1. recorded' \in [Start!Files -> Start!Contents \union {None}] /\ baselined' \subseteq Start!Files
      BY <2>1, <2>2 DEF SInv, Start!TypeOK
    <3>2. effects' \in [Start!Files -> Nat] /\ pending' \in [Instances -> SUBSET Start!Files]
      BY <2>1, <2>2 DEF SInv, Start!TypeOK
    <3> QED
      BY <2>2, <3>1, <3>2 DEF Start!Apply, SInv, Start!TypeOK
  <2>4. recorded'[f] = release[i][f] /\ \A g \in Start!Files : g # f => recorded'[g] = recorded[g]
    BY <2>1, <2>2 DEF SInv, Start!TypeOK
  <2>5. BaselineRecorded'
    BY <2>1, <2>2, <2>4 DEF SInv, BaselineRecorded
  <2>6. Start!EffectIffRecorded'
    BY <2>1, <2>2, <2>4 DEF SInv, Start!TypeOK, BaselineRecorded, Start!EffectIffRecorded
  <2>7. Start!AppliedInOrder'
    <3>1. \A g \in 1 .. f : recorded'[g] # None
      <4> SUFFICES ASSUME NEW g \in 1 .. f, g # f PROVE recorded'[g] # None
        BY <2>1, <2>4
      <4>1. g \in Start!Brought(i) /\ g \in Start!Files /\ g < f
        BY <2>1, ReleaseFacts DEF SInv, Start!Files, Start!StartupAssumption
      <4>2. g \notin pending[i]
        BY <1>1, <2>1, <4>1 DEF Start!Files, Start!StartupAssumption
      <4> QED
        BY <1>2, <2>4, <4>1, <4>2, ReleaseFacts DEF DoneIsIn, SInv
    <3>2. \A h \in Start!Files : h # f /\ recorded[h] # None => \A g \in 1 .. h : recorded'[g] # None
      BY <2>1, <2>4 DEF SInv, Start!AppliedInOrder, Start!Files, Start!StartupAssumption
    <3> QED
      BY <2>4, <3>1, <3>2 DEF Start!AppliedInOrder
  <2>8. Knows(i)'
    <3>1. Start!Brought(i)' = Start!Brought(i) /\ pending'[i] = pending[i] \ {f} /\ at'[i] = "apply"
      BY <1>2, <2>2 DEF SInv, Start!TypeOK, Start!Brought
    <3> QED
      BY <1>2, <2>1, <2>4, <3>1, ReleaseFacts DEF Knows, DoneIsIn, SInv
  <2>9. ASSUME NEW o \in Instances \ {i} PROVE Knows(o)'
    BY <1>2, <2>1, <2>2, <2>4, KnowsStays DEF SInv, Start!TypeOK
  <2> QED
    BY <2>3, <2>5, <2>6, <2>7, <2>8, <2>9 DEF SInv
<1> QED
  BY <1>3, <1>4

\* Every step keeps the invariant.
LEMMA NextSInv ==
  ASSUME Start!StartupAssumption
  PROVE  SInv /\ [Start!Next]_Start!vars => SInv'
<1> SUFFICES ASSUME SInv, [Start!Next]_Start!vars PROVE SInv'
  OBVIOUS
<1>1. CASE UNCHANGED Start!vars \/ Start!QuotesAge
  <2>1. UNCHANGED <<recorded, effects, baselined, at, release, live, command, pending, kills>>
        /\ feed' \in BOOLEAN
    BY <1>1 DEF Start!QuotesAge, Start!vars, SInv, Start!TypeOK
  <2>2. Start!TypeOK'
    BY <2>1 DEF SInv, Start!TypeOK
  <2>3. BaselineRecorded' /\ Start!EffectIffRecorded' /\ Start!AppliedInOrder'
    BY <2>1 DEF SInv, BaselineRecorded, Start!EffectIffRecorded, Start!AppliedInOrder
  <2>4. ASSUME NEW i \in Instances PROVE Knows(i)'
    BY <2>1, KnowsStays DEF SInv
  <2> QED
    BY <2>2, <2>3, <2>4 DEF SInv
<1>2. ASSUME NEW i \in Instances, Start!Start(i) \/ Start!Kill(i) \/ Start!Poll(i) PROVE SInv'
  BY <1>2, ProcessSteps, ReadStep, ApplyStep DEF Start!Start
<1> QED
  BY <1>1, <1>2 DEF Start!Next

\* An empty database to begin with, and then steps of Startup or of nobody.
LEMMA ScheduleSInv == AllInit => SInv
BY InitSInv DEF AllInit

\* What the other regimes do is not about the database.
LEMMA BackgroundSInv == SInv /\ [AllNext]_allVars => SInv'
<1> SUFFICES ASSUME SInv, [AllNext]_allVars PROVE SInv'
  OBVIOUS
<1>1. [Start!Next]_startVars
  BY DEF AllNext, allVars
<1>2. startVars = Start!vars
  BY DEF startVars, Start!vars
<1> QED
  BY <1>1, <1>2, NextSInv, BackgroundAssumption DEF BackgroundAssumption, startVars, Start!vars

\* Wherever instances are killed, however their starts overlap and whichever releases
\* they bring, the database has the migrations its rows say, once and in order, and
\* who serves has the schema of its release.
THEOREM SoundSchema == AllSpec => []SchemaIsSound
<1>1. SInv => SchemaIsSound
  BY DEF SInv, SchemaIsSound, Start!SchemaIsSound, Start!ServesItsSchema, Knows
<1> QED
  BY <1>1, ScheduleSInv, BackgroundSInv, PTL DEF AllSpec
-----------------------------------------------------------------------------
(* ResearchRuns: the cost and the end of a run *)

\* A run has one thread and costs nothing before its committee; what the thread paid is
\* on the row once it is written, and where it is not written the run has failed.
CostInv ==
  \A i \in Requests :
    /\ pc[i] \in {"idle", "created"} \union InTransaction => thread[i] = "none"
    /\ thread[i] \in {"none", "started", "claimed"} => cost[i] = 0 /\ paid[i] = 0
    /\ thread[i] = "written" => cost[i] = paid[i]
    /\ thread[i] = "finish" => result[i] = "failed"
    /\ thread[i] = "done" /\ result[i] # "failed" => cost[i] = paid[i]

\* Each step keeps it.
LEMMA CostStep == TypeOK /\ CostInv /\ [AnyStep]_vars => CostInv'
<1> SUFFICES ASSUME TypeOK, CostInv, [AnyStep]_vars PROVE CostInv'
  OBVIOUS
<1> USE DEF table, requests, threads, InTransaction
<1>1. ASSUME NEW r \in Requests, AnyEnqueue(r) PROVE CostInv'
  <2>1. CASE StartRun(r)
    BY <2>1 DEF StartRun, TypeOK, CostInv
  <2>2. CASE ~StartRun(r)
    <3>1. UNCHANGED <<cost, threads>> /\ \E where \in {"answered", "refused", "lost", "sweep", "count", "insert", "created"} :
             pc' = [pc EXCEPT ![r] = where] /\ pc[r] \in {"idle"} \union InTransaction
      BY <1>1, <2>2 DEF AnyEnqueue, Lock, SweepInTransaction, AnyCount, Insert, AnyFailure
    <3> QED
      BY <3>1 DEF TypeOK, CostInv
  <2> QED
    BY <2>1, <2>2
<1>2. ASSUME NEW i \in Requests, AnyExecute(i) PROVE CostInv'
  <2>1. CASE Claim(i) \/ SnapshotFails(i) \/ StartCommittee(i)
    BY <2>1 DEF Claim, SnapshotFails, StartCommittee, TypeOK, CostInv
  <2>2. CASE Pay(i) \/ Progress(i) \/ CommitteeReturns(i) \/ CommitteeRaises(i)
    BY <2>2 DEF Pay, Progress, CommitteeReturns, CommitteeRaises, TypeOK, CostInv
  <2>3. CASE Save(i) \/ SetStatus(i) \/ AnyFault(i)
    BY <2>3 DEF Save, SetStatus, AnyFault, TypeOK, CostInv
  <2> QED
    BY <1>2, <2>1, <2>2, <2>3 DEF AnyExecute
<1>3. CASE Crash
  BY <1>3 DEF Crash, TypeOK, CostInv
<1>4. CASE Sweep \/ Midnight \/ UNCHANGED vars \/ \E i \in Requests : AnyAges(i)
  <2>1. UNCHANGED <<cost, pc, threads>>
    BY <1>4 DEF Sweep, Midnight, vars, AnyAges
  <2> QED
    BY <2>1 DEF CostInv
<1> QED
  BY <1>1, <1>2, <1>3, <1>4 DEF AnyStep

\* Where no statement fails and no answer is late: no thread dies, a row that runs has
\* its thread at work, a row that is old no longer pays, and a row has ended because it
\* was old or because its thread has ended.
RowsEnd ==
  \A i \in Requests :
    /\ thread[i] # "dead"
    /\ thread[i] \in {"none", "started", "done"} => status[i] # "running"
    /\ age[i] = "old" => thread[i] # "committee" /\ (thread[i] = "save" => paid[i] = 0)
    /\ status[i] \in Terminal => age[i] = "old" \/ thread[i] = "done"
    /\ \A j \in swept[i] : age[j] = "old"
    /\ i \in Runs => runDate[i] <= day

\* The limit, and that the request which has counted for it may insert its run.
WithinLimit ==
  /\ \A r \in Requests : pc[r] = "insert" => Cardinality(SeenToday(r)) < Limit
  /\ DailyLimit

MarginInv == IInv /\ Ready /\ CostInv /\ RowsEnd /\ WithinLimit

\* The steps of a request keep RowsEnd.
LEMMA EnqueueRowsEnd ==
  ASSUME MarginAssumption, IInv, CostInv, RowsEnd, NEW r \in Requests, Enqueue(r)
  PROVE  RowsEnd'
<1> USE DEF table, requests, threads, InTransaction
<1>0. TypeOK
  BY DEF IInv
<1>1. CASE Lock(r) \/ Count(r)
  BY <1>0, <1>1 DEF Lock, Count, TypeOK, RowsEnd, Runs
<1>2. CASE SweepInTransaction(r)
  BY <1>0, <1>2 DEF SweepInTransaction, Overdue, TypeOK, RowsEnd, Runs
<1>3. CASE Insert(r)
  <2>1. \A i \in swept[r] : i # r /\ status[i] \in Active /\ age[i] = "old"
    BY <1>3 DEF Insert, IInv, LocksHold, CheckedKey, ActiveRuns, Runs, RowsEnd
  <2>2. status'[r] = "queued" /\ \A i \in Requests \ {r} :
          status'[i] = IF i \in swept[r] THEN "abandoned" ELSE status[i]
    BY <1>3 DEF Insert
  <2>3. UNCHANGED <<age, day, threads>> /\ runDate' = [runDate EXCEPT ![r] = day]
        /\ swept' = [swept EXCEPT ![r] = {}]
    BY <1>3 DEF Insert
  <2>4. \A i \in Requests \ {r} : i \in Runs' => i \in Runs
    BY <2>1, <2>2 DEF Runs, Active
  <2>5. \A i \in Requests : i \in Runs' => runDate'[i] <= day'
    BY <1>0, <2>3, <2>4 DEF TypeOK, RowsEnd
  <2>6. \A i \in Requests : \A j \in swept'[i] : age'[j] = "old"
    BY <1>0, <2>3 DEF TypeOK, RowsEnd
  <2>7. \A i \in Requests :
          /\ status'[i] = "running" => status[i] = "running"
          /\ status'[i] \in Terminal => status[i] \in Terminal \/ age[i] = "old"
    BY <2>1, <2>2 DEF Terminal
  <2> QED
    BY <2>3, <2>5, <2>6, <2>7 DEF RowsEnd
<1>4. CASE StartRun(r)
  <2>1. thread[r] = "none"
    BY <1>4 DEF StartRun, CostInv
  <2> QED
    BY <1>0, <1>4, <2>1 DEF StartRun, TypeOK, RowsEnd, Runs
<1>5. ~RequestFails(r)
  BY DEF RequestFails, MarginAssumption
<1> QED
  BY <1>1, <1>2, <1>3, <1>4, <1>5 DEF Enqueue

\* The steps of a thread keep RowsEnd.
LEMMA ExecuteRowsEnd ==
  ASSUME MarginAssumption, TypeOK, Ready, CostInv, RowsEnd, NEW i \in Requests, Execute(i)
  PROVE  RowsEnd'
<1> USE DEF table, requests, threads
<1>1. CASE Claim(i)
  BY <1>1 DEF Claim, TypeOK, RowsEnd, Runs, Terminal
<1>2. CASE SnapshotFails(i) \/ CommitteeReturns(i) \/ CommitteeRaises(i)
  BY <1>2 DEF SnapshotFails, CommitteeReturns, CommitteeRaises, TypeOK, RowsEnd, Runs
<1>3. CASE StartCommittee(i)
  BY <1>3 DEF StartCommittee, TypeOK, CostInv, RowsEnd, Runs
<1>4. CASE Pay(i) \/ Progress(i)
  BY <1>4 DEF Pay, Progress, TypeOK, RowsEnd, Runs
<1>5. CASE Save(i)
  BY <1>5 DEF Save, TypeOK, RowsEnd, Runs
<1>6. CASE SetStatus(i)
  BY <1>6 DEF SetStatus, TypeOK, Ready, RowsEnd, Runs, Terminal
<1>7. ~Fault(i)
  BY DEF Fault, MarginAssumption
<1> QED
  BY <1>1, <1>2, <1>3, <1>4, <1>5, <1>6, <1>7 DEF Execute

\* So does the rest.
LEMMA OtherRowsEnd ==
  ASSUME MarginAssumption, TypeOK, RowsEnd,
         Sweep \/ Midnight \/ Crash \/ UNCHANGED vars \/ \E i \in Requests : Ages(i)
  PROVE  RowsEnd'
<1> USE DEF table, requests, threads
<1>1. CASE Sweep
  BY <1>1 DEF Sweep, Overdue, ActiveRuns, Active, TypeOK, RowsEnd, Runs, Terminal
<1>2. CASE Midnight
  BY <1>2 DEF Midnight, TypeOK, RowsEnd, Runs
<1>3. CASE Crash
  BY <1>3 DEF Crash, TypeOK, RowsEnd, Runs
<1>4. CASE UNCHANGED vars
  BY <1>4 DEF vars, RowsEnd, Runs
<1>5. ASSUME NEW i \in Requests, Ages(i) PROVE RowsEnd'
  BY <1>5 DEF Ages, MarginAssumption, TypeOK, RowsEnd, Runs
<1> QED
  BY <1>1, <1>2, <1>3, <1>4, <1>5

\* What every other step does to the runs that count: no row comes, none counts that did
\* not, and no request is newly about to insert.
Shrinks ==
  /\ Runs' = Runs /\ UNCHANGED <<runDate, day>>
  /\ \A i \in Requests : /\ Counts(status'[i], cost'[i]) => Counts(status[i], cost[i])
                         /\ Locked(i) => cost'[i] = cost[i]
  /\ \A r \in Requests : pc'[r] = "insert" => pc[r] = "insert" /\ swept'[r] = swept[r]

\* Such a step leaves the limit kept.
LEMMA ShrinksKeeps ==
  ASSUME TypeOK, WithinLimit, Shrinks
  PROVE  WithinLimit'
<1>0. IsFiniteSet(Requests) /\ Limit \in Nat
  BY RunsAssumption DEF RunsAssumption
<1>1. ASSUME NEW d \in 0 .. MaxDay PROVE Cardinality(CountedOn(d)') <= Limit
  <2>1. CountedOn(d)' \subseteq CountedOn(d) /\ CountedOn(d) \subseteq Requests
    BY DEF Shrinks, CountedOn, Runs
  <2>2. IsFiniteSet(CountedOn(d)) /\ Cardinality(CountedOn(d)) <= Limit
    BY <1>0, <2>1, FS_Subset DEF WithinLimit, DailyLimit
  <2>3. Cardinality(CountedOn(d)') <= Cardinality(CountedOn(d)) /\ IsFiniteSet(CountedOn(d)')
    BY <2>1, <2>2, FS_Subset
  <2> QED
    BY <1>0, <2>2, <2>3, FS_CardinalityType
<1>2. ASSUME NEW r \in Requests, pc'[r] = "insert" PROVE Cardinality(SeenToday(r)') < Limit
  <2>1. pc[r] = "insert" /\ swept'[r] = swept[r]
    BY <1>2 DEF Shrinks
  <2>2. SeenToday(r)' \subseteq SeenToday(r)
    <3> SUFFICES ASSUME NEW i \in SeenToday(r)' PROVE i \in SeenToday(r)
      OBVIOUS
    <3>1. i \in Runs /\ runDate[i] = day /\ i \in Requests
      BY DEF SeenToday, Shrinks, Runs
    <3>2. CASE i \in swept[r]
      <4>1. Counts("abandoned", cost'[i]) /\ cost'[i] = cost[i]
        BY <2>1, <3>1, <3>2 DEF SeenToday, Shrinks, Locked
      <4> QED
        BY <3>1, <3>2, <4>1 DEF SeenToday
    <3>3. CASE i \notin swept[r]
      <4>1. Counts(status'[i], cost'[i])
        BY <2>1, <3>3 DEF SeenToday
      <4> QED
        BY <3>1, <3>3, <4>1 DEF SeenToday, Shrinks
    <3> QED
      BY <3>2, <3>3
  <2>3. SeenToday(r) \subseteq Requests
    BY DEF SeenToday, Runs
  <2>4. IsFiniteSet(SeenToday(r)) /\ Cardinality(SeenToday(r)) < Limit
    BY <1>0, <2>1, <2>3, FS_Subset DEF WithinLimit
  <2>5. Cardinality(SeenToday(r)') <= Cardinality(SeenToday(r)) /\ IsFiniteSet(SeenToday(r)')
    BY <2>2, <2>4, FS_Subset
  <2> QED
    BY <1>0, <2>4, <2>5, FS_CardinalityType
<1> QED
  BY <1>1, <1>2 DEF WithinLimit, DailyLimit

\* The steps of a thread: what had failed unpaid stays unpaid.
LEMMA ExecuteWithinLimit ==
  ASSUME MarginAssumption, TypeOK, Ready, CostInv, RowsEnd, WithinLimit,
         NEW i \in Requests, Execute(i)
  PROVE  WithinLimit'
<1> USE DEF table, requests, threads
<1>1. CASE Claim(i) \/ SetStatus(i)
  <2>1. PICK st : (status' = [status EXCEPT ![i] = st] /\ st # "absent") \/ UNCHANGED status
    BY <1>1 DEF Claim, SetStatus, TypeOK, Ready, Terminal
  <2>2. Runs' = Runs
    BY <1>1 DEF Claim, SetStatus, TypeOK, Ready, Terminal, Runs
  <2>3. Shrinks
    BY <1>1, <2>2 DEF Claim, SetStatus, TypeOK, Shrinks, Counts
  <2> QED
    BY <2>3, ShrinksKeeps
<1>2. CASE Progress(i) \/ Save(i)
  <2>1. status[i] \notin Terminal \/ paid[i] = 0
    BY <1>2 DEF Progress, Save, RowsEnd
  <2>2. ~Locked(i) /\ cost' = [cost EXCEPT ![i] = paid[i]] /\ UNCHANGED <<status, runDate, day, requests>>
    BY <1>2 DEF Progress, Save
  <2>3. Shrinks
    BY <2>1, <2>2 DEF TypeOK, Shrinks, Counts, Runs, Terminal
  <2> QED
    BY <2>3, ShrinksKeeps
<1>3. CASE SnapshotFails(i) \/ CommitteeReturns(i) \/ CommitteeRaises(i) \/ StartCommittee(i) \/ Pay(i)
  <2>1. UNCHANGED <<table, day, requests>>
    BY <1>3 DEF SnapshotFails, CommitteeReturns, CommitteeRaises, StartCommittee, Pay
  <2>2. Shrinks
    BY <2>1 DEF Shrinks, Runs
  <2> QED
    BY <2>2, ShrinksKeeps
<1>4. ~Fault(i)
  BY DEF Fault, MarginAssumption
<1> QED
  BY <1>1, <1>2, <1>3, <1>4 DEF Execute

\* The steps of a request.  Between its count and its insert the runs of its day are at
\* most fewer, and after midnight there are none.
LEMMA EnqueueWithinLimit ==
  ASSUME MarginAssumption, IInv, WithinLimit, NEW r \in Requests, Enqueue(r)
  PROVE  WithinLimit'
<1> USE DEF table, requests, threads, InTransaction
<1>0. TypeOK /\ IsFiniteSet(Requests) /\ Limit \in Nat
  BY RunsAssumption DEF RunsAssumption, IInv
<1>1. CASE Lock(r) \/ SweepInTransaction(r) \/ StartRun(r)
  <2>1. UNCHANGED <<table, day>>
    BY <1>1 DEF Lock, SweepInTransaction, StartRun
  <2>2. \A q \in Requests : pc'[q] = "insert" => pc[q] = "insert" /\ swept'[q] = swept[q]
    BY <1>0, <1>1 DEF Lock, SweepInTransaction, StartRun, TypeOK
  <2>3. Shrinks
    BY <2>1, <2>2 DEF Shrinks, Runs
  <2> QED
    BY <1>0, <2>3, ShrinksKeeps
<1>2. CASE Count(r)
  <2>1. UNCHANGED <<table, day>>
    BY <1>2 DEF Count
  <2>2. DailyLimit'
    BY <2>1 DEF WithinLimit, DailyLimit, CountedOn, Runs
  <2>3. ASSUME NEW q \in Requests, pc'[q] = "insert" PROVE Cardinality(SeenToday(q)') < Limit
    <3>1. q = r /\ QuotaAllows(r) /\ UNCHANGED swept
      BY <1>0, <1>2, <2>3 DEF Count, TypeOK, IInv, OneTransaction
    <3>2. SeenToday(r)' = SeenToday(r)
      BY <2>1, <3>1 DEF SeenToday, Runs
    <3> QED
      BY <3>1, <3>2 DEF QuotaAllows
  <2> QED
    BY <2>2, <2>3 DEF WithinLimit
<1>3. CASE Insert(r)
  <2>1. \A q \in Requests : pc'[q] # "insert"
    BY <1>0, <1>3 DEF Insert, IInv, TypeOK, OneTransaction
  <2>2. r \notin Runs /\ swept[r] \subseteq Runs
    BY <1>3 DEF Insert, IInv, CheckedKey, LocksHold, Runs, ActiveRuns
  <2>3. status' = [i \in Requests |-> IF i = r THEN "queued"
                                      ELSE IF i \in swept[r] THEN "abandoned" ELSE status[i]]
        /\ runDate' = [runDate EXCEPT ![r] = day] /\ UNCHANGED <<cost, day>>
    BY <1>3 DEF Insert
  <2>4. Runs' = Runs \union {r}
    BY <2>2, <2>3 DEF Runs
  <2>5. ASSUME NEW d \in 0 .. MaxDay PROVE Cardinality(CountedOn(d)') <= Limit
    <3>1. CountedOn(d) \subseteq Requests /\ SeenToday(r) \subseteq Requests
      BY DEF CountedOn, SeenToday, Runs
    <3>2. IsFiniteSet(CountedOn(d)) /\ IsFiniteSet(SeenToday(r))
      BY <1>0, <3>1, FS_Subset
    <3>3. ASSUME NEW i \in CountedOn(d)', i # r
          PROVE  i \in CountedOn(d) /\ (d = day => i \in SeenToday(r))
      <4>1. i \in Runs /\ runDate[i] = d /\ i \in Requests
            /\ Counts(IF i \in swept[r] THEN "abandoned" ELSE status[i], cost[i])
        BY <1>0, <2>3, <2>4, <3>3 DEF CountedOn, Runs, TypeOK
      <4>2. Counts(status[i], cost[i])
        <5>1. CASE i \in swept[r]
          BY <4>1, <5>1 DEF Counts
        <5>2. CASE i \notin swept[r]
          BY <4>1, <5>2
        <5> QED
          BY <5>1, <5>2
      <4> QED
        BY <4>1, <4>2 DEF CountedOn, SeenToday
    <3>4. CASE d = day
      <4>1. CountedOn(d)' \subseteq SeenToday(r) \union {r}
        BY <3>3, <3>4
      <4>2. Cardinality(SeenToday(r)) < Limit /\ Cardinality(SeenToday(r)) \in Nat
        BY <1>3, <3>2, FS_CardinalityType DEF Insert, WithinLimit
      <4>3. IsFiniteSet(SeenToday(r) \union {r})
            /\ Cardinality(SeenToday(r) \union {r}) <= Cardinality(SeenToday(r)) + 1
        <5> DEFINE S == SeenToday(r)
        <5>1. IsFiniteSet(S) /\ Cardinality(S) \in Nat
          BY <3>2, <4>2
        <5> HIDE DEF S
        <5>2. IsFiniteSet(S \union {r}) /\ (Cardinality(S \union {r}) = Cardinality(S)
                                             \/ Cardinality(S \union {r}) = Cardinality(S) + 1)
          BY <5>1, FS_AddElement
        <5>3. IsFiniteSet(S \union {r}) /\ Cardinality(S \union {r}) <= Cardinality(S) + 1
          BY <5>1, <5>2
        <5> QED
          BY <5>3 DEF S
      <4>4. Cardinality(CountedOn(d)') <= Cardinality(SeenToday(r) \union {r})
            /\ Cardinality(SeenToday(r) \union {r}) \in Nat /\ Cardinality(CountedOn(d)') \in Nat
        BY <4>1, <4>3, FS_Subset, FS_CardinalityType
      <4> QED
        BY <1>0, <4>2, <4>3, <4>4
    <3>5. CASE d # day
      <4>1. r \notin CountedOn(d)'
        BY <1>0, <2>3, <3>5 DEF CountedOn, TypeOK
      <4>2. CountedOn(d)' \subseteq CountedOn(d)
        BY <3>3, <4>1
      <4>3. Cardinality(CountedOn(d)') <= Cardinality(CountedOn(d)) /\ IsFiniteSet(CountedOn(d)')
        BY <3>2, <4>2, FS_Subset
      <4> QED
        BY <1>0, <3>2, <4>3, FS_CardinalityType DEF WithinLimit, DailyLimit
    <3> QED
      BY <3>4, <3>5
  <2> QED
    BY <2>1, <2>5 DEF WithinLimit, DailyLimit
<1>4. ~RequestFails(r)
  BY DEF RequestFails, MarginAssumption
<1> QED
  BY <1>1, <1>2, <1>3, <1>4 DEF Enqueue

\* The rest.
LEMMA OtherWithinLimit ==
  ASSUME TypeOK, RowsEnd, WithinLimit,
         Sweep \/ Midnight \/ Crash \/ UNCHANGED vars \/ \E i \in Requests : Ages(i)
  PROVE  WithinLimit'
<1> USE DEF table, requests, threads
<1>1. CASE Sweep
  <2>1. Shrinks
    BY <1>1 DEF Sweep, Overdue, ActiveRuns, Runs, Active, Shrinks, Counts
  <2> QED
    BY <2>1, ShrinksKeeps
<1>2. CASE Crash
  <2>1. Shrinks
    BY <1>2 DEF Crash, Runs, Shrinks, InTransaction
  <2> QED
    BY <2>1, ShrinksKeeps
<1>3. CASE UNCHANGED vars \/ \E i \in Requests : Ages(i)
  <2>1. UNCHANGED <<table, day, requests>>
    BY <1>3 DEF vars, Ages
  <2>2. Shrinks
    BY <2>1 DEF Shrinks, Runs
  <2> QED
    BY <2>2, ShrinksKeeps
<1>4. CASE Midnight
  <2>1. UNCHANGED <<table, requests>> /\ day' = day + 1 /\ day \in Int
    BY <1>4 DEF Midnight, TypeOK
  <2>2. DailyLimit'
    BY <2>1 DEF WithinLimit, DailyLimit, CountedOn, Runs
  <2>3. ASSUME NEW r \in Requests, pc'[r] = "insert" PROVE Cardinality(SeenToday(r)') < Limit
    <3>1. \A i \in Runs : runDate[i] \in Int /\ runDate[i] < day'
      BY <2>1 DEF TypeOK, RowsEnd, Runs
    <3>2. SeenToday(r)' = {}
      BY <2>1, <3>1 DEF SeenToday, Runs
    <3>3. SeenToday(r) \subseteq Requests /\ IsFiniteSet(Requests) /\ Limit \in Nat
      BY RunsAssumption DEF RunsAssumption, SeenToday, Runs
    <3>4. Cardinality(SeenToday(r)) \in Nat /\ Cardinality(SeenToday(r)) < Limit
      BY <2>1, <2>3, <3>3, FS_Subset, FS_CardinalityType DEF WithinLimit
    <3> QED
      BY <3>2, <3>3, <3>4, FS_EmptySet
  <2> QED
    BY <2>2, <2>3 DEF WithinLimit
<1> QED
  BY <1>1, <1>2, <1>3, <1>4

\* The whole holds in every state of a run without faults.
LEMMA MarginStep == MarginInv /\ [Next]_vars => MarginInv'
<1> SUFFICES ASSUME MarginInv, [Next]_vars PROVE MarginInv'
  OBVIOUS
<1>1. [AnyStep]_vars /\ TypeOK
  BY RegularSteps DEF MarginInv, IInv
<1>2. IInv' /\ Ready' /\ CostInv'
  BY <1>1, AnyStepInv, CostStep DEF MarginInv
<1>3. RowsEnd'
  BY <1>1, MarginAssumption, EnqueueRowsEnd, ExecuteRowsEnd, OtherRowsEnd DEF MarginInv, Next
<1>4. WithinLimit'
  BY <1>1, MarginAssumption, EnqueueWithinLimit, ExecuteWithinLimit, OtherWithinLimit DEF MarginInv, Next
<1> QED
  BY <1>2, <1>3, <1>4 DEF MarginInv

\* Nothing has been asked for at first.
LEMMA MarginInit == Init => MarginInv
<1> SUFFICES ASSUME Init PROVE MarginInv
  OBVIOUS
<1>1. Runs = {}
  BY DEF Init, Runs
<1>2. \A d \in 0 .. MaxDay : CountedOn(d) = {}
  BY <1>1 DEF CountedOn
<1>3. DailyLimit
  BY <1>2, RunsAssumption, FS_EmptySet DEF RunsAssumption, DailyLimit
<1>4. CostInv /\ RowsEnd
  BY <1>1 DEF Init, CostInv, RowsEnd, Terminal
<1>5. \A r \in Requests : pc[r] # "insert"
  BY DEF Init
<1> QED
  BY <1>3, <1>4, <1>5, InitInv DEF MarginInv, WithinLimit

\* The row of a run tells what became of it, for any number of requests, days and
\* stops of the server: its cost is on it, whoever was late; and where no call outlasts
\* the margin of the sweep and no statement fails, it is not left running and the runs
\* of a day stay within the limit.
THEOREM RowsTell == AllSpec => []RowsTellWhatHappened
<1> DEFINE Inv == IInv /\ Ready /\ CostInv /\ (regime = "margin" => MarginInv)
<1>1. AllInit => Inv
  BY InitInv, MarginInit DEF AllInit, MarginInv
<1>2. Inv /\ [AllNext]_allVars => Inv'
  <2> SUFFICES ASSUME Inv, [AllNext]_allVars PROVE Inv'
    OBVIOUS
  <2>1. [AnyStep]_vars /\ TypeOK
    BY BackgroundSteps DEF IInv
  <2>2. IInv' /\ Ready' /\ CostInv'
    BY <2>1, AnyStepInv, CostStep
  <2>3. regime' = regime /\ (regime = "margin" => [Next]_vars)
    BY DEF AllNext, allVars
  <2>4. regime' = "margin" => MarginInv'
    BY <2>3, MarginStep
  <2> QED
    BY <2>2, <2>4
<1>3. Inv => RowsTellWhatHappened
  <2>1. CostInv => CostStillRecorded
    BY DEF CostInv, CostStillRecorded
  <2>2. MarginInv => DailyLimit /\ NoRunLeftRunning
    BY DEF MarginInv, WithinLimit, RowsEnd, NoRunLeftRunning, Runs
  <2> QED
    BY <2>1, <2>2 DEF RowsTellWhatHappened
<1> QED
  BY <1>1, <1>2, <1>3, PTL DEF AllSpec
-----------------------------------------------------------------------------
(* Outcomes *)

\* The counting and the minimum of the two libraries are the same.
LEMMA OutcomeLibrary ==
  ASSUME NEW S
  PROVE  Outcome!Cardinality(S) = Cardinality(S) /\ Outcome!Min(S) = Min(S) /\ Outcome!Max(S) = Max(S)
BY DEF Outcome!Cardinality, Cardinality, Outcome!Min, Min, Outcome!Max, Max

\* A return over a series that is long enough begins with its first bar from the call's
\* day on and ends as many bars later as its horizon says, so at least as many days;
\* and where no bar is missing it is over the very days of the call.
LEMMA ReturnSpans ==
  ASSUME NEW bars \in SUBSET Nat, IsFiniteSet(bars), NEW start \in Nat, NEW h \in Nat,
         Outcome!LongEnough(bars, start, h)
  PROVE  LET base == Outcome!Min(Outcome!OnOrAfter(bars, start))
             end  == Outcome!EndOf(bars, start, h)
         IN  /\ base \in bars /\ end \in bars /\ base >= start /\ end >= base + h
             /\ start .. (start + h) \subseteq bars => base = start /\ end = start + h
<1> DEFINE S == Outcome!OnOrAfter(bars, start)
           base == Outcome!Min(S)
           end == Outcome!EndOf(bars, start, h)
<1>1. S \in SUBSET Nat /\ S \subseteq bars /\ \A x \in S : x >= start
  BY DEF Outcome!OnOrAfter
<1>2. IsFiniteSet(S) /\ Cardinality(S) \in Nat
  BY <1>1, FS_Subset, FS_CardinalityType
<1>3. h < Cardinality(S)
  <2>1. Cardinality(S) >= h + 1
    BY OutcomeLibrary DEF Outcome!LongEnough
  <2> HIDE DEF S
  <2> QED
    BY <1>2, <2>1
<1>4. S # {}
  BY <1>2, <1>3, FS_EmptySet
<1>5. base \in S /\ \A x \in S : base <= x
  <2>1. base = Min(S)
    BY OutcomeLibrary
  <2> HIDE DEF S
  <2> QED
    BY <1>1, <1>4, <2>1, MinIs
<1>6. end \in S /\ Cardinality(Below(S, end)) = h
  <2>1. PICK e \in S : Cardinality(Below(S, e)) = h
    <3> HIDE DEF S
    <3> QED
      BY <1>1, <1>2, <1>3, RankExists
  <2>2. \A x \in S : Outcome!Cardinality({y \in S : y < x}) = Cardinality(Below(S, x))
    BY OutcomeLibrary DEF Below
  <2>3. end = CHOOSE x \in S : Outcome!Cardinality({y \in S : y < x}) = h
    BY DEF Outcome!EndOf
  <2> HIDE DEF S
  <2> QED
    BY <2>1, <2>2, <2>3
<1>7. base + h <= end
  <2>1. base = Min(S)
    BY OutcomeLibrary
  <2> HIDE DEF S, end
  <2> QED
    BY <1>1, <1>2, <1>6, <2>1, RankSpans
<1>8. ASSUME start .. (start + h) \subseteq bars PROVE base = start /\ end = start + h
  <2>1. start .. (start + h) \subseteq S
    BY <1>8 DEF Outcome!OnOrAfter
  <2>2. start \in S /\ start + h \in S
    BY <2>1
  <2>3. base = start
    BY <1>1, <1>5, <2>2
  <2>4. Below(S, start + h) = start .. (start + h - 1)
    <3>1. ASSUME NEW x \in S, x < start + h PROVE x \in start .. (start + h - 1)
      <4>1. x \in Nat /\ x >= start
        BY <1>1
      <4> QED
        BY <3>1, <4>1
    <3>2. \A x \in start .. (start + h - 1) : x \in start .. (start + h) /\ x < start + h
      OBVIOUS
    <3> QED
      BY <2>1, <3>1, <3>2 DEF Below
  <2>5. Cardinality(Below(S, start + h)) = h
    <3>1. Cardinality(start .. (start + h - 1)) = IF start > start + h - 1 THEN 0 ELSE (start + h - 1) - start + 1
      <4> DEFINE hi == start + h - 1
      <4>1. hi \in Int
        OBVIOUS
      <4> HIDE DEF hi
      <4>2. Cardinality(start .. hi) = IF start > hi THEN 0 ELSE hi - start + 1
        BY <4>1, FS_Interval
      <4> QED
        BY <4>2 DEF hi
    <3> QED
      BY <2>4, <3>1
  <2>6. end = start + h
    <3> HIDE DEF S, end
    <3> QED
      BY <1>1, <1>2, <1>6, <2>2, <2>5, RankIsUnique
  <2> QED
    BY <2>3, <2>6
<1> QED
  BY <1>1, <1>5, <1>6, <1>7, <1>8

\* Bars are of the past, and the job works on what nobody else settles.
OutcomesInv ==
  /\ Outcome!TypeOK
  /\ stock \subseteq 0 .. today /\ index \subseteq 0 .. today /\ bench \subseteq 0 .. today
  /\ Outcome!WindowIsTheCalls
  /\ \A c \in todo : outcome[c[1]][c[2]] = None

\* What is asked of the constants, taken apart.
LEMMA OutcomesConstants ==
  /\ LastDay \in Nat /\ None \notin Outcome!Days /\ Outcome!Days = 0 .. LastDay
  /\ \A k \in Kinds : Horizons[k] \subseteq Nat /\ Lookback[k] \in Nat
BY BackgroundAssumption DEF BackgroundAssumption, Outcome!OutcomesAssumption, Outcome!Days

\* Nothing is called at first.
LEMMA OutcomesInit == Outcome!Init => OutcomesInv
BY OutcomesConstants DEF Outcome!Init, OutcomesInv, Outcome!TypeOK, Outcome!WindowIsTheCalls, Outcome!Calls

\* A return is over bars that are there when it is taken.
LEMMA WindowIsSound ==
  ASSUME OutcomesInv, NEW c \in todo,
         Outcome!LongEnough(Outcome!Visible(stock), c[1], c[2]), Outcome!LongEnough(bench, c[1], c[2])
  PROVE  LET w == Outcome!Window(Outcome!Visible(stock), c[1], c[2])
         IN  /\ w \in Outcome!Windows
             /\ w.base >= c[1] /\ w.ibase >= c[1] /\ w.end >= w.base + c[2] /\ w.iend >= w.ibase + c[2]
             /\ w.end <= today /\ w.iend <= today
             /\ w.complete => /\ w.base = c[1] /\ w.end = c[1] + c[2]
                              /\ w.ibase = c[1] /\ w.iend = c[1] + c[2]
<1> DEFINE d == c[1]
           h == c[2]
           bars == Outcome!Visible(stock)
           w == Outcome!Window(bars, d, h)
<1>1. kind \in Kinds /\ d \in Outcome!Calls /\ h \in Horizons[kind]
  BY DEF OutcomesInv, Outcome!TypeOK
<1>2. d \in Nat /\ h \in Nat /\ today \in Nat /\ today <= LastDay
  <2>1. d \in Outcome!Days /\ today \in Outcome!Days
    BY <1>1 DEF OutcomesInv, Outcome!TypeOK
  <2>2. h \in Nat
    BY <1>1, OutcomesConstants
  <2> HIDE DEF d, h
  <2> QED
    BY <2>1, <2>2, OutcomesConstants
<1>3. bars \subseteq 0 .. today /\ bench \subseteq 0 .. today
  BY DEF OutcomesInv, Outcome!Visible
<1>4. /\ IsFiniteSet(bars) /\ IsFiniteSet(bench) /\ bars \in SUBSET Nat /\ bench \in SUBSET Nat
  <2>1. IsFiniteSet(0 .. today)
    BY <1>2, FS_Interval
  <2>2. 0 .. today \subseteq Nat
    BY <1>2
  <2> HIDE DEF bars
  <2> QED
    BY <1>3, <2>1, <2>2, FS_Subset
<1>5. w = [base  |-> Outcome!Min(Outcome!OnOrAfter(bars, d)),  end  |-> Outcome!EndOf(bars, d, h),
           ibase |-> Outcome!Min(Outcome!OnOrAfter(bench, d)), iend |-> Outcome!EndOf(bench, d, h),
           complete |-> d..(d + h) \subseteq bars \intersect bench]
  BY DEF Outcome!Window
<1> HIDE DEF d, h, bars, w
<1>6. /\ w.base \in bars /\ w.end \in bars /\ w.base >= d /\ w.end >= w.base + h
      /\ d .. (d + h) \subseteq bars => w.base = d /\ w.end = d + h
  <2>1. Outcome!LongEnough(bars, d, h)
    BY DEF d, h, bars
  <2> QED
    BY <1>2, <1>4, <1>5, <2>1, ReturnSpans
<1>7. /\ w.ibase \in bench /\ w.iend \in bench /\ w.ibase >= d /\ w.iend >= w.ibase + h
      /\ d .. (d + h) \subseteq bench => w.ibase = d /\ w.iend = d + h
  <2>1. Outcome!LongEnough(bench, d, h)
    BY DEF d, h
  <2> QED
    BY <1>2, <1>4, <1>5, <2>1, ReturnSpans
<1>8. w.complete = (d .. (d + h) \subseteq bars /\ d .. (d + h) \subseteq bench)
  BY <1>5
<1>9. w.base \in 0 .. today /\ w.end \in 0 .. today /\ w.ibase \in 0 .. today /\ w.iend \in 0 .. today
  BY <1>3, <1>6, <1>7
<1>10. w \in Outcome!Windows
  <2>1. 0 .. today \subseteq Outcome!Days
    BY <1>2, OutcomesConstants
  <2>2. (d..(d + h) \subseteq bars \intersect bench) \in BOOLEAN
    OBVIOUS
  <2> QED
    BY <1>5, <1>9, <2>1, <2>2 DEF Outcome!Windows
<1>11. /\ w.base >= d /\ w.ibase >= d /\ w.end >= w.base + h /\ w.iend >= w.ibase + h
       /\ w.end <= today /\ w.iend <= today
       /\ w.complete => w.base = d /\ w.end = d + h /\ w.ibase = d /\ w.iend = d + h
  <2>1. w.end <= today /\ w.iend <= today
    BY <1>2, <1>9
  <2> QED
    BY <1>6, <1>7, <1>8, <2>1
<1> QED
  BY <1>10, <1>11 DEF d, h, bars, w

\* What is settled stays as it is.
SettledStays ==
  \A d \in Outcome!Calls : \A h \in Horizons[kind] :
    outcome[d][h] # None => outcome'[d][h] = outcome[d][h]

\* A day passes, or a bar comes.
LEMMA OutsideStep ==
  ASSUME OutcomesInv, Outcome!NewDay \/ \E d \in Outcome!Days : Outcome!BarOfStock(d) \/ Outcome!BarOfIndex(d)
  PROVE  OutcomesInv' /\ SettledStays
<1>0. Outcome!TypeOK /\ today \in 0 .. LastDay /\ LastDay \in Nat
  BY OutcomesConstants DEF OutcomesInv, Outcome!TypeOK
<1>1. CASE Outcome!NewDay
  <2>1. today' = today + 1 /\ today < LastDay /\ UNCHANGED <<kind, stock, index, outcome, todo, bench>>
    BY <1>1 DEF Outcome!NewDay
  <2>2. Outcome!TypeOK'
    BY <1>0, <2>1, OutcomesConstants DEF Outcome!TypeOK, Outcome!Calls
  <2>3. 0 .. today \subseteq 0 .. today'
    BY <1>0, <2>1
  <2>4. Outcome!WindowIsTheCalls'
    <3> SUFFICES ASSUME NEW d \in Outcome!Calls, NEW h \in Horizons[kind], outcome[d][h] # None
                 PROVE  outcome[d][h].end <= today' /\ outcome[d][h].iend <= today'
      BY <2>1 DEF OutcomesInv, Outcome!WindowIsTheCalls, Outcome!Calls
    <3>1. outcome[d][h] \in Outcome!Windows
      BY <1>0 DEF Outcome!TypeOK
    <3>2. outcome[d][h].end \in 0 .. LastDay /\ outcome[d][h].iend \in 0 .. LastDay
      BY <3>1, OutcomesConstants DEF Outcome!Windows
    <3>3. outcome[d][h].end <= today /\ outcome[d][h].iend <= today
      BY DEF OutcomesInv, Outcome!WindowIsTheCalls
    <3> QED
      BY <1>0, <2>1, <3>2, <3>3
  <2> QED
    BY <2>1, <2>2, <2>3, <2>4 DEF OutcomesInv, SettledStays
<1>2. ASSUME NEW d \in Outcome!Days, Outcome!BarOfStock(d) \/ Outcome!BarOfIndex(d)
      PROVE  OutcomesInv' /\ SettledStays
  <2>1. UNCHANGED <<kind, today, outcome, todo, bench>> /\ d \in 0 .. today
        /\ stock' \subseteq stock \union {d} /\ index' \subseteq index \union {d}
    BY <1>2 DEF Outcome!BarOfStock, Outcome!BarOfIndex
  <2>2. Outcome!TypeOK'
    BY <1>0, <2>1 DEF Outcome!TypeOK, Outcome!Calls
  <2>3. Outcome!WindowIsTheCalls'
    BY <2>1 DEF OutcomesInv, Outcome!WindowIsTheCalls, Outcome!Calls
  <2> QED
    BY <2>1, <2>2, <2>3 DEF OutcomesInv, SettledStays
<1> QED
  BY <1>1, <1>2

\* A new call has nothing settled, and the others keep what they have.
LEMMA RecordStep ==
  ASSUME OutcomesInv, Outcome!Record
  PROVE  OutcomesInv' /\ SettledStays
<1> DEFINE new == Outcome!Start
<1>0. Outcome!TypeOK /\ today \in 0 .. LastDay /\ LastDay \in Nat
  BY OutcomesConstants DEF OutcomesInv, Outcome!TypeOK
<1>1. new \in Outcome!Days
  <2>1. CASE kind = "rating"
    <3>1. stock \in SUBSET (0 .. today) /\ stock # {} /\ today \in Nat
      BY <1>0, <2>1 DEF OutcomesInv, Outcome!Record
    <3>2. Outcome!Max(stock) \in stock
      BY <3>1, MaxIs, OutcomeLibrary
    <3> QED
      BY <1>0, <2>1, <3>2 DEF Outcome!Start, Outcome!TypeOK
  <2>2. CASE kind # "rating"
    BY <1>0, <2>2 DEF Outcome!Start, Outcome!TypeOK
  <2> QED
    BY <2>1, <2>2
<1>2. /\ UNCHANGED <<kind, today, stock, index, todo, bench>> /\ new \notin Outcome!Calls
      /\ outcome' = [d \in Outcome!Calls \union {new} |->
                       IF d \in Outcome!Calls THEN outcome[d] ELSE [h \in Horizons[kind] |-> None]]
  BY DEF Outcome!Record
<1> HIDE DEF new
<1>3. Outcome!Calls' = Outcome!Calls \union {new}
  BY <1>2 DEF Outcome!Calls
<1>4. \A d \in Outcome!Calls : outcome'[d] = outcome[d]
  BY <1>2
<1>5. outcome'[new] = [h \in Horizons[kind] |-> None]
  BY <1>2
<1>6. Outcome!TypeOK'
  <2>1. outcome' \in [Outcome!Calls' -> [Horizons[kind] -> Outcome!Windows \union {None}]]
    <3>1. \A d \in Outcome!Calls \union {new} : (IF d \in Outcome!Calls THEN outcome[d] ELSE [h \in Horizons[kind] |-> None])
                                                  \in [Horizons[kind] -> Outcome!Windows \union {None}]
      BY <1>0 DEF Outcome!TypeOK
    <3> QED
      BY <1>2, <1>3, <3>1
  <2> QED
    BY <1>0, <1>1, <1>2, <1>3, <2>1 DEF Outcome!TypeOK
<1>7. Outcome!WindowIsTheCalls'
  BY <1>2, <1>3, <1>4, <1>5 DEF OutcomesInv, Outcome!WindowIsTheCalls
<1>8. \A c \in todo : c[1] \in Outcome!Calls
  BY <1>0 DEF Outcome!TypeOK
<1> QED
  BY <1>2, <1>4, <1>6, <1>7, <1>8 DEF OutcomesInv, SettledStays

\* The job begins, leaves a call or stops.
LEMMA JobStep ==
  ASSUME OutcomesInv, Outcome!Begin \/ Outcome!Stop \/ \E c \in todo : Outcome!Skip(c)
  PROVE  OutcomesInv' /\ SettledStays
<1>0. Outcome!TypeOK
  BY DEF OutcomesInv
<1>1. UNCHANGED <<kind, today, stock, index, outcome>>
      /\ bench' \subseteq bench \union index /\ todo' \subseteq todo \union Outcome!Unsettled
  BY DEF Outcome!Begin, Outcome!Stop, Outcome!Skip, Outcome!Tried, Outcome!Visible
<1>2. Outcome!TypeOK' /\ Outcome!WindowIsTheCalls'
  BY <1>0, <1>1 DEF OutcomesInv, Outcome!TypeOK, Outcome!Calls, Outcome!Unsettled, Outcome!WindowIsTheCalls
<1>3. \A c \in todo' : outcome'[c[1]][c[2]] = None
  BY <1>1 DEF OutcomesInv, Outcome!Unsettled
<1> QED
  BY <1>1, <1>2, <1>3 DEF OutcomesInv, SettledStays

\* A call is settled: it was not, and the job forgets it.
LEMMA SettleStep ==
  ASSUME OutcomesInv, NEW c \in todo, Outcome!Settle(c)
  PROVE  OutcomesInv' /\ SettledStays
<1> DEFINE w == Outcome!Window(Outcome!Visible(stock), c[1], c[2])
<1>0. Outcome!TypeOK
  BY DEF OutcomesInv
<1>1. UNCHANGED <<kind, today, stock, index>> /\ bench' \subseteq bench /\ todo' = todo \ {c}
  BY DEF Outcome!Settle, Outcome!Tried
<1>2. CASE UNCHANGED outcome
  <2>1. Outcome!TypeOK' /\ Outcome!WindowIsTheCalls'
    BY <1>0, <1>1, <1>2 DEF OutcomesInv, Outcome!TypeOK, Outcome!Calls, Outcome!WindowIsTheCalls
  <2> QED
    BY <1>1, <1>2, <2>1 DEF OutcomesInv, SettledStays
<1>3. ASSUME outcome' # outcome
      PROVE  OutcomesInv' /\ SettledStays
  <2>1. /\ Outcome!LongEnough(Outcome!Visible(stock), c[1], c[2]) /\ Outcome!LongEnough(bench, c[1], c[2])
        /\ outcome' = [outcome EXCEPT ![c[1]][c[2]] = w]
    BY <1>3 DEF Outcome!Settle
  <2>2. PICK d \in Outcome!Calls, h \in Horizons[kind] : c = <<d, h>>
    BY <1>0 DEF Outcome!TypeOK
  <2>3. w \in Outcome!Windows
    BY <2>1, WindowIsSound
  <2>4. /\ w.base >= d /\ w.ibase >= d /\ w.end >= w.base + h /\ w.iend >= w.ibase + h
        /\ w.end <= today /\ w.iend <= today
        /\ w.complete => w.base = d /\ w.end = d + h /\ w.ibase = d /\ w.iend = d + h
    BY <2>1, <2>2, WindowIsSound
  <2> HIDE DEF w
  <2>5. outcome' = [outcome EXCEPT ![d][h] = w] /\ outcome[d][h] = None
    BY <2>1, <2>2 DEF OutcomesInv
  <2>6. Outcome!Calls' = Outcome!Calls
    BY <2>5 DEF Outcome!Calls
  <2>7. /\ outcome'[d][h] = w
        /\ \A e \in Outcome!Calls : \A k \in Horizons[kind] :
             <<e, k>> # <<d, h>> => outcome'[e][k] = outcome[e][k]
    BY <1>0, <2>2, <2>5 DEF Outcome!TypeOK
  <2>8. Outcome!TypeOK'
    BY <1>0, <1>1, <2>3, <2>5, <2>6 DEF Outcome!TypeOK
  <2>9. Outcome!WindowIsTheCalls'
    <3> SUFFICES ASSUME NEW e \in Outcome!Calls, NEW k \in Horizons[kind]
                 PROVE  LET v == outcome'[e][k]
                        IN  v # None =>
                              /\ v.base >= e /\ v.ibase >= e /\ v.end >= v.base + k /\ v.iend >= v.ibase + k
                              /\ v.end <= today /\ v.iend <= today
                              /\ v.complete => /\ v.base = e /\ v.end = e + k
                                               /\ v.ibase = e /\ v.iend = e + k
      BY <1>1, <2>6 DEF Outcome!WindowIsTheCalls
    <3>1. CASE <<e, k>> = <<d, h>>
      <4>1. e = d /\ k = h
        BY <3>1
      <4> QED
        BY <2>4, <2>7, <4>1
    <3>2. CASE <<e, k>> # <<d, h>>
      <4>1. outcome'[e][k] = outcome[e][k]
        BY <2>7, <3>2
      <4> QED
        BY <4>1 DEF OutcomesInv, Outcome!WindowIsTheCalls
    <3> QED
      BY <3>1, <3>2
  <2>10. \A b \in todo' : outcome'[b[1]][b[2]] = None
    <3> SUFFICES ASSUME NEW b \in todo, b # c PROVE outcome'[b[1]][b[2]] = None
      BY <1>1
    <3>1. PICK e \in Outcome!Calls, k \in Horizons[kind] : b = <<e, k>>
      BY <1>0 DEF Outcome!TypeOK
    <3>2. <<e, k>> # <<d, h>>
      BY <2>2, <3>1
    <3> QED
      BY <2>7, <3>1, <3>2 DEF OutcomesInv
  <2>11. SettledStays
    BY <2>5, <2>7 DEF SettledStays
  <2> QED
    BY <1>1, <2>8, <2>9, <2>10, <2>11 DEF OutcomesInv
<1> QED
  BY <1>2, <1>3

\* Every step keeps the invariant and what is settled.
LEMMA OutcomesStep == OutcomesInv /\ [AllNext]_allVars => OutcomesInv' /\ [SettledStays]_Outcome!vars
<1> SUFFICES ASSUME OutcomesInv, [AllNext]_allVars PROVE OutcomesInv' /\ [SettledStays]_Outcome!vars
  OBVIOUS
<1>1. CASE UNCHANGED outcomeVars
  <2>1. UNCHANGED Outcome!vars
    BY <1>1 DEF outcomeVars, Outcome!vars
  <2> QED
    BY <1>1, <2>1 DEF outcomeVars, OutcomesInv, Outcome!TypeOK, Outcome!Calls, Outcome!WindowIsTheCalls
<1>2. CASE Outcome!Next
  BY <1>2, OutsideStep, RecordStep, JobStep, SettleStep DEF Outcome!Next
<1> QED
  BY <1>1, <1>2 DEF AllNext, allVars

\* The invariant holds in every state.
LEMMA OutcomesInvariance == AllSpec => []OutcomesInv
<1>1. AllInit => OutcomesInv
  BY OutcomesInit DEF AllInit
<1> QED
  BY <1>1, OutcomesStep, PTL DEF AllSpec

\* A settled return is over the days of its call, for any horizons, look-backs and
\* number of calls and in whatever order bars come in: it begins no sooner, spans the
\* horizon for the stock and for the index, and is over the very days where no bar
\* is missing.
THEOREM ReturnsAreOfTheirCalls == AllSpec => []WindowIsTheCalls
<1>1. OutcomesInv => WindowIsTheCalls
  BY DEF OutcomesInv, WindowIsTheCalls
<1> QED
  BY <1>1, OutcomesInvariance, PTL

\* A settled return is never written again: the safety half of SettledOnce.
THEOREM SettledForGood == AllSpec => Outcome!SettledIsFinal
<1>1. OutcomesInv /\ [AllNext]_allVars =>
        [\A d \in Outcome!Calls : \A h \in Horizons[kind] :
           outcome[d][h] # None => outcome'[d][h] = outcome[d][h]]_Outcome!vars
  BY OutcomesStep DEF SettledStays
<1> QED
  BY <1>1, OutcomesInvariance, PTL DEF AllSpec, Outcome!SettledIsFinal
-----------------------------------------------------------------------------
(* ScannerRuns *)

\* Rows come in the order of their numbers, one runs at a time, and none after it.
RowsInTurn ==
  /\ old \subseteq {i \in Scanner!Scans : scanStatus[i] # "none"}
  /\ \A i \in Scanner!Scans : scanStatus[i] # "none" => \A j \in 1 .. i - 1 : scanStatus[j] # "none"
  /\ \A i \in Scanner!Running : \A j \in Scanner!Scans : j > i => scanStatus[j] = "none"

\* A thread works for a row that runs, or that was given up and so is old; and who is
\* about to launch a scan has it alone.
WorkIsListed ==
  /\ \A i \in Scanner!Scans :
       /\ scanThread[i] \in {"fetch", "write", "error"} => scanStatus[i] = "running" \/ i \in old
       /\ scanStatus[i] = "none" => scanThread[i] = "none"
  /\ \A c \in Scanner!Starters : starter[c] = "launching" =>
       /\ mine[c] \in Scanner!Scans /\ scanThread[mine[c]] = "none"
       /\ scanStatus[mine[c]] = "running" \/ (scanStatus[mine[c]] = "failed" /\ mine[c] \in old)
       /\ \A e \in Scanner!Starters : e # c /\ starter[e] = "launching" => mine[e] # mine[c]

\* Who is telling what it found has its result last, with the one it followed before
\* it, unless another has finished since.
TellsItsOwn ==
  \A i \in Scanner!Scans : scanThread[i] = "notify" =>
    finished # << >> /\ (Scanner!Last(finished) = i => Scanner!PreviousCompleted = before[i])

ScannerInv ==
  Scanner!TypeOK /\ RowsInTurn /\ WorkIsListed /\ TellsItsOwn /\ Scanner!LatestIsNewest

\* Nothing is scanned at first.
LEMMA ScannerInit == Scanner!Init => ScannerInv
<1> SUFFICES ASSUME Scanner!Init PROVE ScannerInv
  OBVIOUS
<1>1. MaxScans \in Nat /\ MaxCrashes \in Nat
  BY BackgroundAssumption, RunsAssumption DEF BackgroundAssumption, RunsAssumption
<1>2. Scanner!TypeOK
  BY <1>1 DEF Scanner!Init, Scanner!TypeOK
<1> QED
  BY <1>2 DEF Scanner!Init, ScannerInv, RowsInTurn, WorkIsListed, TellsItsOwn, Scanner!LatestIsNewest,
              Scanner!Running

\* The four steps of a starter.
LEMMA StarterSteps ==
  ASSUME ScannerInv, NEW c \in Scanner!Starters, Scanner!StartStep(c)
  PROVE  ScannerInv'
<1> USE DEF Scanner!table
<1>0. Scanner!TypeOK /\ MaxScans \in Nat
  BY BackgroundAssumption DEF BackgroundAssumption, ScannerInv
<1>1. CASE Scanner!Sweep(c)
  <2>1. UNCHANGED <<mine, finished, old, scanThread, before, pushed, scanCrashes>>
        /\ starter' = [starter EXCEPT ![c] = "swept"]
        /\ scanStatus' = [i \in Scanner!Scans |-> IF scanStatus[i] = "running" /\ i \in old
                                                   THEN "failed" ELSE scanStatus[i]]
    BY <1>1 DEF Scanner!Sweep, Scanner!GivenUp, Scanner!Running
  <2>2. Scanner!TypeOK'
    BY <1>0, <2>1 DEF Scanner!TypeOK
  <2>3. RowsInTurn'
    BY <1>0, <2>1 DEF ScannerInv, RowsInTurn, Scanner!Running, Scanner!Scans
  <2>4. WorkIsListed'
    BY <1>0, <2>1 DEF ScannerInv, WorkIsListed, Scanner!TypeOK
  <2>5. TellsItsOwn' /\ Scanner!LatestIsNewest'
    BY <2>1 DEF ScannerInv, TellsItsOwn, Scanner!LatestIsNewest, Scanner!PreviousCompleted
  <2> QED
    BY <2>2, <2>3, <2>4, <2>5 DEF ScannerInv
<1>2. CASE Scanner!Refused(c)
  <2>1. UNCHANGED <<mine, scanStatus, finished, old, scanThread, before, pushed, scanCrashes>>
        /\ starter' = [starter EXCEPT ![c] = "idle"]
    BY <1>2 DEF Scanner!Refused
  <2>2. Scanner!TypeOK'
    BY <1>0, <2>1 DEF Scanner!TypeOK
  <2>3. RowsInTurn' /\ TellsItsOwn' /\ Scanner!LatestIsNewest'
    BY <2>1 DEF ScannerInv, RowsInTurn, TellsItsOwn, Scanner!LatestIsNewest, Scanner!PreviousCompleted, Scanner!Running
  <2>4. WorkIsListed'
    BY <1>0, <2>1 DEF ScannerInv, WorkIsListed, Scanner!TypeOK
  <2> QED
    BY <2>2, <2>3, <2>4 DEF ScannerInv
<1>3. CASE Scanner!Insert(c)
  <2>1. PICK i \in Scanner!Scans :
          /\ scanStatus[i] = "none" /\ \A j \in 1..(i - 1) : scanStatus[j] # "none"
          /\ scanStatus' = [scanStatus EXCEPT ![i] = "running"]
          /\ starter' = [starter EXCEPT ![c] = "launching"]
          /\ mine' = [mine EXCEPT ![c] = i]
    BY <1>3 DEF Scanner!Insert
  <2>2. UNCHANGED <<finished, old, scanThread, before, pushed, scanCrashes>> /\ Scanner!Running = {}
    BY <1>3 DEF Scanner!Insert
  <2>3. Scanner!TypeOK'
    BY <1>0, <2>1, <2>2 DEF Scanner!TypeOK, Scanner!Scans
  <2>4. scanStatus'[i] = "running" /\ \A j \in Scanner!Scans : j # i => scanStatus'[j] = scanStatus[j]
    BY <1>0, <2>1 DEF Scanner!TypeOK
  <2>5. RowsInTurn'
    <3>1. \A j \in Scanner!Scans : j > i => scanStatus[j] = "none"
      <4> SUFFICES ASSUME NEW j \in Scanner!Scans, j > i, scanStatus[j] # "none" PROVE FALSE
        OBVIOUS
      <4>1. i \in 1 .. j - 1
        BY <1>0 DEF Scanner!Scans
      <4> QED
        BY <2>1, <4>1 DEF ScannerInv, RowsInTurn
    <3>2. \A j \in Scanner!Running' : j = i
      BY <2>2, <2>4 DEF Scanner!Running
    <3>3. \A j \in Scanner!Running' : \A k \in Scanner!Scans : k > j => scanStatus'[k] = "none"
      BY <1>0, <2>4, <3>1, <3>2 DEF Scanner!Scans
    <3>4. ASSUME NEW k \in Scanner!Scans, scanStatus'[k] # "none", NEW j \in 1 .. k - 1
          PROVE  scanStatus'[j] # "none"
      <4>1. j \in Scanner!Scans /\ (k # i => scanStatus[k] # "none")
        BY <1>0, <2>4, <3>4 DEF Scanner!Scans
      <4>2. scanStatus[j] # "none" \/ j = i
        BY <2>1, <4>1 DEF ScannerInv, RowsInTurn
      <4> QED
        BY <2>4, <4>1, <4>2
    <3> QED
      BY <2>2, <2>4, <3>3, <3>4 DEF ScannerInv, RowsInTurn
  <2>6. WorkIsListed'
    <3>1. mine'[c] = i /\ starter'[c] = "launching"
          /\ \A e \in Scanner!Starters : e # c => mine'[e] = mine[e] /\ starter'[e] = starter[e]
      BY <1>0, <2>1 DEF Scanner!TypeOK
    <3>2. scanThread[i] = "none"
      BY <2>1 DEF ScannerInv, WorkIsListed
    <3>3. \A e \in Scanner!Starters : e # c /\ starter[e] = "launching" => mine[e] # i
      BY <2>1 DEF ScannerInv, WorkIsListed
    <3> QED
      BY <2>2, <2>4, <3>1, <3>2, <3>3 DEF ScannerInv, WorkIsListed
  <2>7. TellsItsOwn' /\ Scanner!LatestIsNewest'
    BY <2>2, <2>4 DEF ScannerInv, TellsItsOwn, Scanner!LatestIsNewest, Scanner!PreviousCompleted
  <2> QED
    BY <2>3, <2>5, <2>6, <2>7 DEF ScannerInv
<1>4. CASE Scanner!Launch(c)
  <2>1. /\ starter[c] = "launching" /\ UNCHANGED <<mine, scanStatus, finished, old, before, pushed, scanCrashes>>
        /\ scanThread' = [scanThread EXCEPT ![mine[c]] = "fetch"]
        /\ starter' \in {[starter EXCEPT ![c] = "busy"], [starter EXCEPT ![c] = "idle"]}
    BY <1>4 DEF Scanner!Launch
  <2>2. mine[c] \in Scanner!Scans
    BY <2>1 DEF ScannerInv, WorkIsListed
  <2>3. Scanner!TypeOK'
    BY <1>0, <2>1, <2>2 DEF Scanner!TypeOK
  <2>4. RowsInTurn' /\ TellsItsOwn' /\ Scanner!LatestIsNewest'
    BY <1>0, <2>1 DEF ScannerInv, RowsInTurn, TellsItsOwn, Scanner!LatestIsNewest, Scanner!PreviousCompleted,
                      Scanner!Running, Scanner!TypeOK
  <2>5. WorkIsListed'
    BY <1>0, <2>1, <2>2 DEF ScannerInv, WorkIsListed, Scanner!TypeOK
  <2> QED
    BY <2>3, <2>4, <2>5 DEF ScannerInv
<1> QED
  BY <1>1, <1>2, <1>3, <1>4 DEF Scanner!StartStep

\* The end of a scan's work.
LEMMA WriteCompletedStep ==
  ASSUME ScannerInv, NEW i \in Scanner!Scans, Scanner!WriteCompleted(i)
  PROVE  ScannerInv'
<1>0. Scanner!TypeOK /\ MaxScans \in Nat
  BY BackgroundAssumption DEF BackgroundAssumption, ScannerInv
<1>1. /\ scanThread[i] = "write" /\ UNCHANGED <<old, starter, mine, pushed, scanCrashes>>
      /\ scanStatus' = [scanStatus EXCEPT ![i] = "completed"]
      /\ finished' = Append(finished, i)
      /\ before' = [before EXCEPT ![i] = Scanner!Latest]
      /\ scanThread' = [scanThread EXCEPT ![i] = "notify"]
  BY DEF Scanner!WriteCompleted
<1>2. finished \in Seq(Scanner!Scans) /\ i \in 1 .. MaxScans
  BY <1>0 DEF Scanner!TypeOK, Scanner!Scans
<1>3. /\ finished' \in Seq(Scanner!Scans) /\ finished' # << >> /\ Scanner!Last(finished') = i
      /\ Len(finished') = Len(finished) + 1
      /\ Len(finished) > 0 => finished'[Len(finished)] = Scanner!Last(finished)
  BY <1>1, <1>2 DEF Scanner!Last
<1>4. Scanner!Latest \in 0 .. MaxScans
  <2>1. CASE finished = << >>
    BY <1>0, <1>2, <2>1 DEF Scanner!Latest
  <2>2. CASE finished # << >>
    <3>1. Len(finished) \in 1 .. Len(finished) /\ finished[Len(finished)] \in Scanner!Scans
      BY <1>2, <2>2
    <3> QED
      BY <1>0, <2>2, <3>1 DEF Scanner!Latest, Scanner!Last, Scanner!Scans
  <2> QED
    BY <2>1, <2>2
<1>5. Scanner!TypeOK'
  BY <1>0, <1>1, <1>3, <1>4 DEF Scanner!TypeOK
<1>6. /\ scanStatus'[i] = "completed" /\ scanThread'[i] = "notify"
      /\ \A j \in Scanner!Scans : j # i => scanStatus'[j] = scanStatus[j] /\ scanThread'[j] = scanThread[j]
  BY <1>0, <1>1 DEF Scanner!TypeOK
<1>7. scanStatus[i] = "running" \/ i \in old
  BY <1>1 DEF ScannerInv, WorkIsListed
<1>8. scanStatus[i] # "none"
  BY <1>7 DEF ScannerInv, RowsInTurn
<1>9. RowsInTurn'
  <2>1. Scanner!Running' \subseteq Scanner!Running
    BY <1>6 DEF Scanner!Running
  <2>2. \A j \in Scanner!Scans : scanStatus'[j] = "none" <=> scanStatus[j] = "none"
    BY <1>6, <1>8
  <2>3. \A j \in Scanner!Scans : 1 .. j - 1 \subseteq Scanner!Scans
    BY <1>0 DEF Scanner!Scans
  <2> QED
    BY <1>1, <2>1, <2>2, <2>3 DEF ScannerInv, RowsInTurn
<1>10. WorkIsListed'
  <2>1. \A c \in Scanner!Starters : starter[c] = "launching" => mine[c] # i
    BY <1>1 DEF ScannerInv, WorkIsListed
  <2> QED
    BY <1>1, <1>6, <2>1 DEF ScannerInv, WorkIsListed
<1>11. TellsItsOwn'
  <2>1. Scanner!PreviousCompleted' = Scanner!Latest
    <3>1. CASE finished = << >>
      BY <1>1, <1>3, <3>1 DEF Scanner!PreviousCompleted, Scanner!Latest
    <3>2. CASE finished # << >>
      <4>1. Len(finished) \in Nat /\ Len(finished) > 0
        BY <1>2, <3>2
      <4> QED
        BY <1>3, <3>2, <4>1 DEF Scanner!PreviousCompleted, Scanner!Latest
    <3> QED
      BY <3>1, <3>2
  <2>2. before'[i] = Scanner!Latest
    BY <1>0, <1>1 DEF Scanner!TypeOK
  <2>3. \A j \in Scanner!Scans : Scanner!Last(finished)' = j => j = i
    BY <1>3
  <2> QED
    BY <1>3, <2>1, <2>2, <2>3 DEF TellsItsOwn
<1>12. Scanner!LatestIsNewest'
  <2>1. CASE i \in old
    BY <1>1, <1>3, <2>1 DEF Scanner!LatestIsNewest
  <2>2. CASE scanStatus[i] = "running"
    <3>1. \A j \in Scanner!Scans : j > i => scanStatus'[j] = "none"
      BY <1>6, <2>2 DEF ScannerInv, RowsInTurn, Scanner!Running, Scanner!Scans
    <3>2. \A j \in Scanner!Scans : scanStatus'[j] = "completed" => j <= i
      BY <1>0, <3>1 DEF Scanner!Scans
    <3> QED
      BY <1>3, <3>2 DEF Scanner!LatestIsNewest
  <2> QED
    BY <1>7, <2>1, <2>2
<1> QED
  BY <1>5, <1>9, <1>10, <1>11, <1>12 DEF ScannerInv

\* The other steps of a thread.
LEMMA ThreadSteps ==
  ASSUME ScannerInv, NEW i \in Scanner!Scans,
         \/ Scanner!Fetch(i) \/ Scanner!NotifyChanges(i) \/ Scanner!Raises(i)
         \/ Scanner!WriteFailed(i) \/ Scanner!LoseError(i)
  PROVE  ScannerInv'
<1> USE DEF Scanner!table
<1>0. Scanner!TypeOK /\ MaxScans \in Nat
  BY BackgroundAssumption DEF BackgroundAssumption, ScannerInv
<1>1. CASE Scanner!Fetch(i) \/ Scanner!Raises(i)
  <2>1. /\ UNCHANGED <<scanStatus, finished, old, starter, mine, before, pushed, scanCrashes>>
        /\ scanThread[i] \in {"fetch", "write"}
        /\ \E where \in {"write", "error"} : scanThread' = [scanThread EXCEPT ![i] = where]
    BY <1>1 DEF Scanner!Fetch, Scanner!Raises
  <2>2. Scanner!TypeOK'
    BY <1>0, <2>1 DEF Scanner!TypeOK
  <2>3. RowsInTurn' /\ TellsItsOwn' /\ Scanner!LatestIsNewest'
    BY <1>0, <2>1 DEF ScannerInv, RowsInTurn, TellsItsOwn, Scanner!LatestIsNewest, Scanner!PreviousCompleted,
                      Scanner!Running, Scanner!TypeOK
  <2>4. WorkIsListed'
    BY <1>0, <2>1 DEF ScannerInv, WorkIsListed, Scanner!TypeOK
  <2> QED
    BY <2>2, <2>3, <2>4 DEF ScannerInv
<1>2. ASSUME Scanner!NotifyChanges(i) \/ Scanner!WriteFailed(i) \/ Scanner!LoseError(i)
      PROVE  ScannerInv'
  <2>1. /\ UNCHANGED <<finished, old, mine, before, scanCrashes>>
        /\ scanThread[i] \in {"notify", "error"} /\ scanThread' = [scanThread EXCEPT ![i] = "none"]
        /\ starter' = [c \in Scanner!Starters |-> IF starter[c] = "busy" /\ mine[c] = i
                                                   THEN "idle" ELSE starter[c]]
        /\ UNCHANGED pushed \/ pushed' = [pushed EXCEPT ![i] = Scanner!PreviousCompleted]
        /\ UNCHANGED scanStatus \/ (scanThread[i] = "error" /\ scanStatus' = [scanStatus EXCEPT ![i] = "failed"])
    BY <1>2 DEF Scanner!NotifyChanges, Scanner!WriteFailed, Scanner!LoseError, Scanner!Ends
  <2>2. Scanner!PreviousCompleted \in 0 .. MaxScans
    <3>1. finished \in Seq(1 .. MaxScans) /\ Len(finished) \in Nat
      BY <1>0 DEF Scanner!TypeOK, Scanner!Scans
    <3>2. Len(finished) >= 2 => finished[Len(finished) - 1] \in 1 .. MaxScans
      BY <3>1, LastButOne
    <3> QED
      BY <1>0, <3>1, <3>2 DEF Scanner!PreviousCompleted
  <2>3. Scanner!TypeOK'
    BY <1>0, <2>1, <2>2 DEF Scanner!TypeOK
  <2>4. /\ \A j \in Scanner!Scans : j # i => scanStatus'[j] = scanStatus[j] /\ scanThread'[j] = scanThread[j]
        /\ scanThread'[i] = "none"
        /\ scanStatus'[i] = scanStatus[i] \/ (scanThread[i] = "error" /\ scanStatus'[i] = "failed")
    BY <1>0, <2>1 DEF Scanner!TypeOK
  <2>5. scanStatus[i] # "none"
    BY <2>1 DEF ScannerInv, WorkIsListed
  <2>6. RowsInTurn'
    <3>1. Scanner!Running' \subseteq Scanner!Running
      BY <2>4 DEF Scanner!Running
    <3>2. \A j \in Scanner!Scans : scanStatus'[j] = "none" <=> scanStatus[j] = "none"
      BY <2>4, <2>5
    <3>3. \A j \in Scanner!Scans : 1 .. j - 1 \subseteq Scanner!Scans
      BY <1>0 DEF Scanner!Scans
    <3> QED
      BY <2>1, <3>1, <3>2, <3>3 DEF ScannerInv, RowsInTurn
  <2>7. WorkIsListed'
    <3>1. \A c \in Scanner!Starters : starter'[c] = "launching" <=> starter[c] = "launching"
      BY <2>1
    <3>2. \A c \in Scanner!Starters : starter[c] = "launching" => mine[c] # i
      BY <2>1 DEF ScannerInv, WorkIsListed
    <3> QED
      BY <2>1, <2>4, <3>1, <3>2 DEF ScannerInv, WorkIsListed
  <2>8. TellsItsOwn'
    BY <2>1, <2>4 DEF ScannerInv, TellsItsOwn, Scanner!PreviousCompleted
  <2>9. Scanner!LatestIsNewest'
    BY <2>1, <2>4 DEF ScannerInv, Scanner!LatestIsNewest
  <2> QED
    BY <2>3, <2>6, <2>7, <2>8, <2>9 DEF ScannerInv
<1> QED
  BY <1>1, <1>2

\* Time and stops.
LEMMA ScannerOutside ==
  ASSUME ScannerInv, Scanner!HoursPass \/ Scanner!Crash \/ UNCHANGED scanVars
  PROVE  ScannerInv'
<1> USE DEF Scanner!table
<1>0. Scanner!TypeOK /\ MaxScans \in Nat /\ MaxCrashes \in Nat
  BY BackgroundAssumption, RunsAssumption DEF BackgroundAssumption, RunsAssumption, ScannerInv
<1>1. CASE Scanner!HoursPass \/ UNCHANGED scanVars
  <2>1. /\ UNCHANGED <<scanStatus, finished, starter, mine, scanThread, pushed, before, scanCrashes>>
        /\ old \subseteq old' /\ old' \subseteq {i \in Scanner!Scans : scanStatus[i] # "none"}
    BY <1>1 DEF Scanner!HoursPass, scanVars, ScannerInv, RowsInTurn
  <2>2. Scanner!TypeOK'
    BY <1>0, <2>1 DEF Scanner!TypeOK
  <2>3. RowsInTurn' /\ TellsItsOwn'
    BY <2>1 DEF ScannerInv, RowsInTurn, TellsItsOwn, Scanner!PreviousCompleted, Scanner!Running
  <2>4. WorkIsListed' /\ Scanner!LatestIsNewest'
    BY <2>1 DEF ScannerInv, WorkIsListed, Scanner!LatestIsNewest
  <2> QED
    BY <2>2, <2>3, <2>4 DEF ScannerInv
<1>2. CASE Scanner!Crash
  <2>1. /\ UNCHANGED <<scanStatus, finished, old, mine, pushed, before>>
        /\ starter' = [c \in Scanner!Starters |-> "idle"]
        /\ scanThread' = [i \in Scanner!Scans |-> "none"]
        /\ scanCrashes' \in 0 .. MaxCrashes
    BY <1>0, <1>2 DEF Scanner!Crash, Scanner!TypeOK
  <2>2. Scanner!TypeOK'
    BY <1>0, <2>1 DEF Scanner!TypeOK
  <2>3. RowsInTurn' /\ TellsItsOwn' /\ WorkIsListed' /\ Scanner!LatestIsNewest'
    BY <2>1 DEF ScannerInv, RowsInTurn, TellsItsOwn, WorkIsListed, Scanner!LatestIsNewest,
                Scanner!Running
  <2> QED
    BY <2>2, <2>3 DEF ScannerInv
<1> QED
  BY <1>1, <1>2

\* What is pushed is the comparison with the result that was the latest before.
PushedAsBefore ==
  \A i \in Scanner!Scans :
    (/\ scanThread[i] = "notify" /\ scanThread'[i] = "none"
     /\ Scanner!Last(finished) = i /\ scanCrashes' = scanCrashes)
      => pushed'[i] = before[i]

\* No step compares a scan with another.
LEMMA PushStep == ScannerInv /\ [AllNext]_allVars => [PushedAsBefore]_Scanner!vars
<1> SUFFICES ASSUME ScannerInv, [AllNext]_allVars,
                    NEW i \in Scanner!Scans, scanThread[i] = "notify", scanThread'[i] = "none",
                    Scanner!Last(finished) = i, scanCrashes' = scanCrashes
             PROVE  pushed'[i] = before[i]
  BY DEF PushedAsBefore
<1> USE DEF Scanner!table
<1>0. Scanner!TypeOK
  BY DEF ScannerInv
<1>1. Scanner!Next
  BY DEF AllNext, allVars, scanVars
<1>2. ASSUME NEW j \in Scanner!Scans, Scanner!ThreadStep(j) PROVE Scanner!NotifyChanges(i)
  <2>1. CASE Scanner!Fetch(j) \/ Scanner!WriteCompleted(j) \/ Scanner!Raises(j)
    BY <1>0, <2>1 DEF Scanner!Fetch, Scanner!WriteCompleted, Scanner!Raises, Scanner!TypeOK
  <2>2. CASE Scanner!NotifyChanges(j) \/ Scanner!WriteFailed(j) \/ Scanner!LoseError(j)
    <3>1. i = j
      BY <1>0, <2>2 DEF Scanner!NotifyChanges, Scanner!WriteFailed, Scanner!LoseError, Scanner!Ends,
                        Scanner!TypeOK
    <3> QED
      BY <2>2, <3>1 DEF Scanner!WriteFailed, Scanner!LoseError
  <2> QED
    BY <1>2, <2>1, <2>2 DEF Scanner!ThreadStep
<1>3. ASSUME NEW c \in Scanner!Starters, Scanner!StartStep(c) PROVE FALSE
  <2>1. UNCHANGED scanThread \/ Scanner!Launch(c)
    BY <1>3 DEF Scanner!StartStep, Scanner!Sweep, Scanner!Refused, Scanner!Insert
  <2>2. CASE Scanner!Launch(c)
    BY <1>0, <2>2 DEF Scanner!Launch, Scanner!TypeOK
  <2> QED
    BY <2>1, <2>2
<1>4. ~Scanner!HoursPass
  BY DEF Scanner!HoursPass
<1>5. ~Scanner!Crash
  <2>1. scanCrashes \in Int
    BY <1>0 DEF Scanner!TypeOK
  <2> QED
    BY <2>1 DEF Scanner!Crash
<1>6. Scanner!NotifyChanges(i)
  BY <1>1, <1>2, <1>3, <1>4, <1>5 DEF Scanner!Next
<1>7. pushed'[i] = Scanner!PreviousCompleted
  BY <1>0, <1>6 DEF Scanner!NotifyChanges, Scanner!TypeOK
<1> QED
  BY <1>7 DEF ScannerInv, TellsItsOwn

\* The invariant holds in every state.
LEMMA ScannerInvariance == AllSpec => []ScannerInv
<1>1. AllInit => ScannerInv
  BY ScannerInit DEF AllInit
<1>2. ScannerInv /\ [AllNext]_allVars => ScannerInv'
  <2> SUFFICES ASSUME ScannerInv, [AllNext]_allVars PROVE ScannerInv'
    OBVIOUS
  <2>1. Scanner!Next \/ UNCHANGED scanVars
    BY DEF AllNext, allVars
  <2>2. CASE Scanner!Next
    BY <2>2, StarterSteps, WriteCompletedStep, ThreadSteps, ScannerOutside DEF Scanner!Next, Scanner!ThreadStep
  <2> QED
    BY <2>1, <2>2, ScannerOutside
<1> QED
  BY <1>1, <1>2, PTL DEF AllSpec

\* Scans come one after the other, for any number of scans and stops of the server:
\* two are at work together only when one has outlived the three hours, the pages
\* show the newest result, and a change is pushed against the result it follows.
THEOREM ScansComeInTurn == AllSpec => ScansInTurn
<1>1. ScannerInv => Scanner!OneScanAtWork /\ Scanner!LatestIsNewest
  <2> SUFFICES ASSUME ScannerInv, NEW i \in Scanner!Working, NEW j \in Scanner!Working, i # j,
                      i \notin old, j \notin old, scanThread[i] # "notify", scanThread[j] # "notify"
               PROVE  FALSE
    BY DEF ScannerInv, Scanner!OneScanAtWork
  <2>1. MaxScans \in Nat /\ i \in 1 .. MaxScans /\ j \in 1 .. MaxScans
    BY BackgroundAssumption DEF BackgroundAssumption, Scanner!Working, Scanner!Scans
  <2>2. i \in Scanner!Running /\ j \in Scanner!Running
    BY DEF Scanner!Working, ScannerInv, Scanner!TypeOK, WorkIsListed, Scanner!Running
  <2>3. scanStatus[i] # "none" /\ scanStatus[j] # "none" /\ i \in Scanner!Scans /\ j \in Scanner!Scans
    BY <2>2 DEF Scanner!Running
  <2>4. ~(i < j) /\ ~(j < i)
    BY <2>1, <2>2, <2>3 DEF ScannerInv, RowsInTurn
  <2> QED
    BY <2>1, <2>4
<1>2. ScannerInv /\ [AllNext]_allVars =>
        [\A i \in Scanner!Scans : (/\ scanThread[i] = "notify" /\ scanThread'[i] = "none"
                                    /\ Scanner!Last(finished) = i /\ scanCrashes' = scanCrashes)
                                     => pushed'[i] = before[i]]_Scanner!vars
  BY PushStep DEF PushedAsBefore
<1> QED
  BY <1>1, <1>2, ScannerInvariance, PTL DEF AllSpec, ScansInTurn, Scanner!ScansInTurn,
     Scanner!ComparedWithPredecessor

\* The types of every variable of the background.
THEOREM BackgroundTypes == AllSpec => []TypesOK
<1>1. IInv /\ ScannerInv /\ OutcomesInv /\ SInv => TypesOK
  BY DEF IInv, ScannerInv, OutcomesInv, SInv, TypesOK
<1>2. AllSpec => []SInv
  BY ScheduleSInv, BackgroundSInv, PTL DEF AllSpec
<1> QED
  BY <1>1, <1>2, Invariance, ScannerInvariance, OutcomesInvariance, PTL
=============================================================================
