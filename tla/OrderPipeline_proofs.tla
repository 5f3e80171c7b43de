------------------------ MODULE OrderPipeline_proofs ------------------------
(***************************************************************************)
(* The live-order path, for any number of commands, plans and findings:    *)
(* only checked orders go out (IInv), the log is kept and heeded (LInv),   *)
(* and the pipeline implements OrderLedger.                                *)
(***************************************************************************)
EXTENDS OrderPipeline, SequenceTheorems, TLAPS

-----------------------------------------------------------------------------
(* What growing the audit trail keeps *)

\* The audit trail only grows, and complete check rows stay.
Grows == /\ Len(audit) \in Nat /\ Len(audit)' \in Nat
         /\ Len(audit) <= Len(audit)'
         /\ \A k \in 1 .. Len(audit) : /\ audit'[k] = audit[k]
                                       /\ checks[k] = AllPassed => checks'[k] = AllPassed

\* The shape of a row and of a sent order's id.
LEMMA Shapes ==
  ASSUME TypeOK
  PROVE  /\ Len(audit) \in Nat
         /\ \A k \in 1 .. Len(audit) :
              /\ audit[k] \in Row
              /\ audit[k].oid[1] \in Runs /\ audit[k].oid[2] \in 1 .. MaxOrders
              /\ audit[k].oid = <<audit[k].oid[1], audit[k].oid[2]>>
         /\ \A oid \in book : /\ oid[1] \in Runs /\ oid[2] \in 1 .. MaxOrders
                              /\ oid = <<oid[1], oid[2]>>
<1>1. Len(audit) \in Nat /\ \A k \in 1 .. Len(audit) : audit[k] \in Row
  BY LenProperties, ElementOfSeq DEF TypeOK
<1>2. \A row \in Row : row.oid \in OrderIds
  BY DEF Row
<1>3. \A oid \in OrderIds : /\ oid[1] \in Runs /\ oid[2] \in 1 .. MaxOrders
                            /\ oid = <<oid[1], oid[2]>>
  BY DEF OrderIds
<1> QED
  BY <1>1, <1>2, <1>3 DEF TypeOK

\* An INSERT adds one row with no check rows and leaves the others alone.
LEMMA InsertGrows ==
  ASSUME TypeOK, NEW row \in Row, Insert(row)
  PROVE  /\ audit' \in Seq(Row) /\ checks' \in Seq(Seq(Check))
         /\ Len(audit') = Len(audit) + 1 /\ Len(checks') = Len(audit')
         /\ \A k \in 1 .. Len(audit) : audit'[k] = audit[k] /\ checks'[k] = checks[k]
         /\ audit'[Len(audit) + 1] = row /\ checks'[Len(audit) + 1] = << >>
         /\ Grows
<1>1. << >> \in Seq(Check)
  BY EmptySeq
<1>2. /\ audit' \in Seq(Row) /\ Len(audit') = Len(audit) + 1
      /\ \A k \in 1 .. Len(audit) : audit'[k] = audit[k]
      /\ audit'[Len(audit) + 1] = row
  BY AppendProperties DEF TypeOK, Insert
<1>3. /\ checks' \in Seq(Seq(Check)) /\ Len(checks') = Len(checks) + 1
      /\ \A k \in 1 .. Len(checks) : checks'[k] = checks[k]
      /\ checks'[Len(checks) + 1] = << >>
  BY <1>1, AppendProperties DEF TypeOK, Insert
<1>4. Len(audit) \in Nat /\ Len(checks) = Len(audit)
  BY LenProperties DEF TypeOK
<1>5. Grows
  BY <1>2, <1>3, <1>4 DEF Grows
<1> QED
  BY <1>2, <1>3, <1>4, <1>5

\* A recorded verdict stays recorded as the audit trail grows.
LEMMA RecordedStays ==
  ASSUME NEW s, NEW i, Grows, results'[s][i] = results[s][i], Recorded(s, i)
  PROVE  Recorded(s, i)'
BY DEF Grows, Recorded

\* An order validated once stays so as the audit trail grows.
LEMMA ValidatedStays ==
  ASSUME NEW oid, Grows, Validated(oid)
  PROVE  Validated(oid)'
BY DEF Grows, Validated

\* Tables left alone count as grown.
LEMMA UnchangedGrows ==
  ASSUME TypeOK, UNCHANGED <<audit, checks>>
  PROVE  Grows
BY Shapes DEF Grows
-----------------------------------------------------------------------------
\* An empty audit trail with idle commands satisfies the invariant.
THEOREM InitInv == Init => IInv
<1> SUFFICES ASSUME Init PROVE IInv
  OBVIOUS
<1> USE PipelineAssumption
<1>1. TypeOK
  BY DEF Init, TypeOK, PCs, LastGate
<1>2. ASSUME NEW r \in Runs PROVE Cursors(r) /\ ResultsFit(r) /\ Logging(r) /\ VerdictsRecorded(r)
  BY EmptySeq DEF Init, Cursors, ResultsFit, Logging, VerdictsRecorded, Validating, Executing
<1>3. /\ \A k \in 1 .. Len(audit) : RowFits(audit[k])
      /\ \A oid \in book : SentFits(oid) /\ Validated(oid)
      /\ RowsInOrder
  BY DEF Init, RowsInOrder
<1> QED
  BY <1>1, <1>2, <1>3 DEF IInv

\* Nothing of run s changes.
Same(s) == /\ pc'[s] = pc[s] /\ live'[s] = live[s] /\ plan'[s] = plan[s] /\ idx'[s] = idx[s]
           /\ gate'[s] = gate[s] /\ results'[s] = results[s] /\ auditId'[s] = auditId[s]

\* What a step of run r leaves alone: the other runs, their rows and their orders.
Frame(r) == /\ Grows
            /\ \A s \in Runs \ {r} : Same(s)
            /\ \A k \in 1 .. Len(audit) : audit[k].oid[1] # r => checks'[k] = checks[k]
            /\ book \subseteq book'

\* The parts of the invariant about the other runs hold after a step of r.
LEMMA FrameKeeps ==
  ASSUME IInv, NEW r \in Runs, Frame(r)
  PROVE  /\ \A s \in Runs \ {r} :
              Cursors(s)' /\ ResultsFit(s)' /\ Logging(s)' /\ VerdictsRecorded(s)'
         /\ \A k \in 1 .. Len(audit) : audit[k].oid[1] # r => RowFits(audit[k])'
         /\ \A oid \in book : oid[1] # r => SentFits(oid)'
         /\ \A oid \in book : Validated(oid)'
<1> USE DEF Validating, Executing
<1>1. ASSUME NEW s \in Runs \ {r}
      PROVE  Cursors(s)' /\ ResultsFit(s)' /\ Logging(s)' /\ VerdictsRecorded(s)'
  <2>1. Same(s) /\ Grows /\ book \subseteq book'
    BY DEF Frame
  <2>2. Cursors(s) /\ ResultsFit(s) /\ Logging(s) /\ VerdictsRecorded(s)
    BY DEF IInv
  <2>3. Cursors(s)' /\ ResultsFit(s)'
    BY <2>1, <2>2 DEF Same, Cursors, ResultsFit, Approved, Oid
  <2>4. Logging(s)'
    <3>1. SUFFICES ASSUME pc[s] = "checks" PROVE Logging(s)'
      BY <2>1 DEF Same, Logging
    <3>2. /\ auditId[s] \in 1 .. Len(audit) /\ audit[auditId[s]].oid[1] = s
          /\ audit[auditId[s]].oid = Oid(s)
      BY <2>2, <3>1 DEF Logging, Oid
    <3>3. checks'[auditId[s]] = checks[auditId[s]] /\ audit'[auditId[s]] = audit[auditId[s]]
      BY <3>2 DEF Frame, Grows
    <3>4. auditId[s] \in 1 .. Len(audit)'
      BY <2>1, <3>2 DEF Grows
    <3> QED
      BY <2>1, <2>2, <3>1, <3>2, <3>3, <3>4 DEF Same, Logging, Oid, CheckRow, ChecksRun
  <2>5. VerdictsRecorded(s)'
    BY <2>1, <2>2, RecordedStays DEF Same, VerdictsRecorded
  <2> QED
    BY <2>3, <2>4, <2>5
<1>2. ASSUME NEW k \in 1 .. Len(audit), audit[k].oid[1] # r PROVE RowFits(audit[k])'
  <2>1. Same(audit[k].oid[1]) /\ RowFits(audit[k]) /\ audit'[k] = audit[k]
    BY <1>2, Shapes DEF IInv, Frame, Grows
  <2> QED
    BY <2>1 DEF Same, RowFits, Frame
<1>3. ASSUME NEW oid \in book, oid[1] # r PROVE SentFits(oid)'
  <2>1. Same(oid[1]) /\ SentFits(oid)
    BY <1>3, Shapes DEF IInv, Frame
  <2> QED
    BY <2>1 DEF Same, SentFits
<1>4. ASSUME NEW oid \in book PROVE Validated(oid)'
  BY ValidatedStays DEF IInv, Frame
<1> QED
  BY <1>1, <1>2, <1>3, <1>4

\* A step that leaves both tables alone, or inserts a row, has the frame it should.
LEMMA FrameOf ==
  ASSUME TypeOK, NEW r \in Runs,
         \/ UNCHANGED <<audit, checks>>
         \/ \E row \in Row : Insert(row),
         book \subseteq book',
         \A s \in Runs \ {r} : Same(s)
  PROVE  Frame(r)
<1>1. CASE UNCHANGED <<audit, checks>>
  BY <1>1, UnchangedGrows DEF Frame
<1>2. CASE \E row \in Row : Insert(row)
  BY <1>2, InsertGrows DEF Frame
<1> QED
  BY <1>1, <1>2

\* A command that starts keeps the invariant.
LEMMA StartInv == ASSUME IInv, NEW r \in Runs, Start(r) PROVE IInv'
<1> USE PipelineAssumption DEF Validating, Executing
<1>1. TypeOK'
  BY DEF IInv, TypeOK, PCs, Start
<1>2. Frame(r)
  BY FrameOf DEF IInv, TypeOK, Start, Same
<1>3. \A k \in 1 .. Len(audit) : audit[k].oid[1] # r
  BY DEF IInv, RowFits, Start
<1>4. \A oid \in book : oid[1] # r
  BY DEF IInv, SentFits, Start
<1>5. Cursors(r)' /\ ResultsFit(r)' /\ Logging(r)' /\ VerdictsRecorded(r)'
  BY EmptySeq DEF IInv, TypeOK, Start, Cursors, ResultsFit, Logging, VerdictsRecorded
<1>6. RowsInOrder'
  BY DEF IInv, Start, RowsInOrder
<1> QED
  BY <1>1, <1>2, <1>3, <1>4, <1>5, <1>6, FrameKeeps DEF IInv, Start

\* What is known of run r between two steps.
LEMMA RunFacts ==
  ASSUME IInv, NEW r \in Runs
  PROVE  /\ Cursors(r) /\ ResultsFit(r) /\ Logging(r) /\ VerdictsRecorded(r)
         /\ results[r] \in Seq(Results) /\ Len(results[r]) \in Nat
         /\ \A i \in 1 .. Len(results[r]) : results[r][i] \in Results
         /\ plan[r] \in Seq(Orders) /\ Len(plan[r]) \in Nat
         /\ MaxOrders \in Nat /\ idx[r] \in 1 .. MaxOrders + 1 /\ gate[r] \in 1 .. LastGate + 1
         /\ pc[r] \in PCs /\ live[r] \in BOOLEAN
         /\ idx[r] <= Len(plan[r]) => Oid(r) \in OrderIds /\ Order(r) \in Orders
<1>1. /\ Cursors(r) /\ ResultsFit(r) /\ Logging(r) /\ VerdictsRecorded(r)
      /\ results[r] \in Seq(Results) /\ plan[r] \in Seq(Orders)
      /\ idx[r] \in 1 .. MaxOrders + 1 /\ gate[r] \in 1 .. LastGate + 1
      /\ pc[r] \in PCs /\ live[r] \in BOOLEAN
  BY DEF IInv, TypeOK
<1>2. /\ Len(results[r]) \in Nat /\ \A i \in 1 .. Len(results[r]) : results[r][i] \in Results
      /\ Len(plan[r]) \in Nat /\ \A i \in 1 .. Len(plan[r]) : plan[r][i] \in Orders
  BY <1>1, LenProperties, ElementOfSeq
<1>3. MaxOrders \in Nat
  BY PipelineAssumption DEF PipelineAssumption
<1>4. ASSUME idx[r] <= Len(plan[r]) PROVE Oid(r) \in OrderIds /\ Order(r) \in Orders
  <2>1. idx[r] \in 1 .. Len(plan[r]) /\ idx[r] \in 1 .. MaxOrders
    BY <1>1, <1>2, <1>3, <1>4 DEF Cursors
  <2> QED
    BY <1>2, <2>1 DEF Oid, Order, OrderIds
<1> QED
  BY <1>1, <1>2, <1>3, <1>4

\* It remains to look at what a step of r does to r's own part of the invariant.
LEMMA OwnPart ==
  ASSUME IInv, NEW r \in Runs, Frame(r), TypeOK', UNCHANGED <<audit, book>>,
         Cursors(r)', ResultsFit(r)', Logging(r)', VerdictsRecorded(r)',
         \A k \in 1 .. Len(audit) : audit[k].oid[1] = r => RowFits(audit[k])',
         \A oid \in book : oid[1] = r => SentFits(oid)'
  PROVE  IInv'
<1>1. RowsInOrder'
  BY DEF IInv, RowsInOrder
<1> QED
  BY <1>1, FrameKeeps DEF IInv

\* A gate that passes keeps the invariant.
LEMMA PassGateInv == ASSUME IInv, NEW r \in Runs, PassGate(r) PROVE IInv'
<1> USE RunFacts DEF Validating, Executing
<1>1. TypeOK'
  <2>1. gate[r] + 1 \in 1 .. LastGate + 1
    BY DEF PassGate, LastGate
  <2> QED
    BY <2>1 DEF IInv, TypeOK, PassGate
<1>2. Frame(r)
  BY FrameOf DEF IInv, TypeOK, PassGate, Same
<1>3. Cursors(r)' /\ ResultsFit(r)' /\ Logging(r)'
  BY DEF PassGate, Cursors, ResultsFit, Logging
<1>4. VerdictsRecorded(r)'
  BY <1>2, RecordedStays DEF PassGate, VerdictsRecorded, Frame
<1>5. /\ \A k \in 1 .. Len(audit) : audit[k].oid[1] = r => RowFits(audit[k])'
      /\ \A oid \in book : oid[1] = r => SentFits(oid)'
  BY Shapes DEF IInv, TypeOK, RowFits, SentFits, PassGate
<1> QED
  BY <1>1, <1>2, <1>3, <1>4, <1>5, OwnPart DEF PassGate

\* FailGate and DryRunGate: the verdict on an order.
LEMMA VerdictInv ==
  ASSUME IInv, NEW r \in Runs, NEW result \in Results,
         pc[r] = "gates", pc' = [pc EXCEPT ![r] = "log"],
         result = "APPROVED" => live[r],
         result = "SKIPPED_DRY_RUN" => ~live[r],
         result # "REJECTED" => gate[r] = LastGate + 1,
         results' = [results EXCEPT ![r] = Append(@, result)],
         UNCHANGED <<columns, marketOpen, audit, checks, expired, book, live, plan, idx, gate, auditId, born>>
  PROVE  IInv'
<1> USE RunFacts DEF Validating, Executing
<1>1. /\ results'[r] \in Seq(Results) /\ Len(results'[r]) = Len(results[r]) + 1
      /\ \A i \in 1 .. Len(results[r]) : results'[r][i] = results[r][i]
      /\ results'[r][Len(results[r]) + 1] = result
      /\ results' = [results EXCEPT ![r] = results'[r]]
      /\ pc'[r] = "log" /\ idx[r] = Len(results[r]) + 1
  BY AppendProperties DEF IInv, TypeOK, Cursors
<1>2. TypeOK'
  BY <1>1 DEF IInv, TypeOK, PCs
<1>3. Frame(r)
  BY FrameOf DEF IInv, TypeOK, Same
<1>4. Cursors(r)' /\ Logging(r)'
  BY <1>1 DEF Cursors, Logging
<1>5. ResultsFit(r)'
  BY <1>1 DEF ResultsFit
<1>6. VerdictsRecorded(r)'
  <2>1. \A i \in 1 .. Len(results[r]) : Recorded(r, i)'
    BY <1>1, <1>3, RecordedStays DEF VerdictsRecorded, Frame
  <2> QED
    BY <1>1, <2>1 DEF VerdictsRecorded
<1>7. /\ \A k \in 1 .. Len(audit) : audit[k].oid[1] = r => RowFits(audit[k])'
      /\ \A oid \in book : oid[1] = r => SentFits(oid)'
  <2>1. ASSUME NEW k \in 1 .. Len(audit), audit[k].oid[1] = r PROVE RowFits(audit[k])'
    <3>1. RowFits(audit[k]) /\ audit[k].oid[2] \in 1 .. MaxOrders
      BY Shapes DEF IInv
    <3> QED
      BY <1>1, <2>1, <3>1 DEF RowFits
  <2>2. ASSUME NEW oid \in book, oid[1] = r PROVE SentFits(oid)'
    <3>1. SentFits(oid) /\ oid[2] \in 1 .. MaxOrders
      BY Shapes DEF IInv
    <3> QED
      BY <1>1, <2>2, <3>1 DEF SentFits
  <2> QED
    BY <2>1, <2>2
<1> QED
  BY <1>2, <1>3, <1>4, <1>5, <1>6, <1>7, OwnPart

\* A gate that fails keeps the invariant.
LEMMA FailGateInv == ASSUME IInv, NEW r \in Runs, FailGate(r) PROVE IInv'
BY VerdictInv DEF FailGate, Results

\* The verdict on an order that passed every gate keeps the invariant.
LEMMA DryRunGateInv == ASSUME IInv, NEW r \in Runs, DryRunGate(r) PROVE IInv'
<1>1. gate[r] = LastGate + 1
  BY RunFacts DEF DryRunGate, LastGate
<1>2. CASE live[r]
  BY <1>1, <1>2, VerdictInv DEF DryRunGate, Results
<1>3. CASE ~live[r]
  BY <1>1, <1>3, VerdictInv DEF DryRunGate, Results
<1> QED
  BY <1>2, <1>3

\* DuplicateQueryFails, Finish and Crash: the command ends.
LEMMA EndInv ==
  ASSUME IInv, NEW r \in Runs, NEW end \in {"done", "aborted", "crashed"},
         pc[r] # "idle", pc' = [pc EXCEPT ![r] = end],
         UNCHANGED <<columns, marketOpen, audit, checks, expired, book, runVars>>
  PROVE  IInv'
<1> USE RunFacts DEF Validating, Executing, runVars
<1>1. TypeOK' /\ pc'[r] = end
  BY DEF IInv, TypeOK, PCs
<1>2. Frame(r)
  BY FrameOf DEF IInv, TypeOK, Same
<1>3. Cursors(r)' /\ ResultsFit(r)' /\ Logging(r)' /\ VerdictsRecorded(r)'
  BY <1>1 DEF Cursors, ResultsFit, Logging, VerdictsRecorded
<1>4. /\ \A k \in 1 .. Len(audit) : audit[k].oid[1] = r => RowFits(audit[k])'
      /\ \A oid \in book : oid[1] = r => SentFits(oid)'
  BY <1>1, Shapes DEF IInv, RowFits, SentFits
<1> QED
  BY <1>1, <1>2, <1>3, <1>4, OwnPart

\* Leaving out a rejected order keeps the invariant.
LEMMA SkipRejectedInv == ASSUME IInv, NEW r \in Runs, SkipRejected(r) PROVE IInv'
<1> USE RunFacts DEF Validating, Executing
<1>1. /\ pc'[r] = "execute" /\ idx'[r] = idx[r] + 1 /\ idx[r] + 1 \in 1 .. MaxOrders + 1
      /\ TypeOK'
  <2>1. /\ idx[r] \in 1 .. MaxOrders /\ pc \in [Runs -> PCs] /\ idx \in [Runs -> 1 .. MaxOrders + 1]
    BY DEF IInv, TypeOK, Cursors, SkipRejected
  <2>2. /\ pc' \in [Runs -> PCs] /\ idx' \in [Runs -> 1 .. MaxOrders + 1]
        /\ pc'[r] = "execute" /\ idx'[r] = idx[r] + 1 /\ idx[r] + 1 \in 1 .. MaxOrders + 1
    BY <2>1 DEF PCs, SkipRejected, NextOrder
  <2> QED
    BY <2>2 DEF IInv, TypeOK, SkipRejected
<1>2. Frame(r)
  BY FrameOf DEF IInv, TypeOK, SkipRejected, NextOrder, Same
<1>3. Cursors(r)' /\ ResultsFit(r)' /\ Logging(r)'
  BY <1>1 DEF SkipRejected, Cursors, ResultsFit, Logging
<1>4. VerdictsRecorded(r)'
  BY <1>1, <1>2, RecordedStays DEF SkipRejected, VerdictsRecorded, Frame
<1>5. /\ \A k \in 1 .. Len(audit) : audit[k].oid[1] = r => RowFits(audit[k])'
      /\ \A oid \in book : oid[1] = r => SentFits(oid)'
  <2>1. ASSUME NEW k \in 1 .. Len(audit), audit[k].oid[1] = r PROVE RowFits(audit[k])'
    <3>1. RowFits(audit[k]) /\ audit[k].oid[2] \in 1 .. MaxOrders
      BY Shapes DEF IInv
    <3> QED
      BY <1>1, <2>1, <3>1 DEF RowFits, SkipRejected
  <2>2. ASSUME NEW oid \in book, oid[1] = r PROVE SentFits(oid)'
    <3>1. SentFits(oid) /\ oid[2] \in 1 .. MaxOrders
      BY Shapes DEF IInv
    <3> QED
      BY <1>1, <2>2, <3>1 DEF SentFits, SkipRejected
  <2> QED
    BY <2>1, <2>2
<1> QED
  BY <1>1, <1>2, <1>3, <1>4, <1>5, OwnPart DEF SkipRejected

-----------------------------------------------------------------------------
(* The steps that insert a row *)

\* After an INSERT of r it remains to look at the new row and at r's own part.
LEMMA InsertPart ==
  ASSUME IInv, NEW r \in Runs, NEW row \in Row, Insert(row), row.oid[1] = r,
         \A s \in Runs \ {r} : Same(s),
         UNCHANGED book, TypeOK',
         Cursors(r)', ResultsFit(r)', Logging(r)', VerdictsRecorded(r)',
         \A k \in 1 .. Len(audit) : audit[k].oid[1] = r => RowFits(audit[k])',
         \A oid \in book : oid[1] = r => SentFits(oid)',
         RowFits(row)',
         \A k \in 1 .. Len(audit) :
           audit[k].oid = row.oid => audit[k].stage = "validated" /\ row.stage = "executed"
  PROVE  IInv'
<1>1. /\ Len(audit) \in Nat /\ Len(audit') = Len(audit) + 1
      /\ \A k \in 1 .. Len(audit) : audit'[k] = audit[k]
      /\ audit'[Len(audit) + 1] = row
  BY InsertGrows, Shapes DEF IInv
<1>2. Frame(r)
  BY FrameOf DEF IInv
<1>3. \A k \in 1 .. Len(audit)' : RowFits(audit[k])'
  <2> SUFFICES ASSUME NEW k \in 1 .. Len(audit)' PROVE RowFits(audit[k])'
    OBVIOUS
  <2>1. CASE k \in 1 .. Len(audit)
    BY <1>2, <2>1, FrameKeeps
  <2>2. CASE k = Len(audit) + 1
    <3>1. audit'[k] = row
      BY <1>1, <2>2
    <3> QED
      BY <3>1 DEF RowFits
  <2> QED
    BY <1>1, <2>1, <2>2
<1>4. RowsInOrder'
  <2> SUFFICES ASSUME NEW j \in 1 .. Len(audit)', NEW k \in 1 .. Len(audit)',
                      audit'[j].oid = audit'[k].oid, j < k
               PROVE  audit'[j].stage = "validated" /\ audit'[k].stage = "executed"
    BY DEF RowsInOrder
  <2>1. CASE k \in 1 .. Len(audit)
    BY <1>1, <2>1 DEF IInv, RowsInOrder
  <2>2. CASE k = Len(audit) + 1
    BY <1>1, <2>2
  <2> QED
    BY <1>1, <2>1, <2>2
<1>5. \A s \in Runs : Cursors(s)' /\ ResultsFit(s)' /\ Logging(s)' /\ VerdictsRecorded(s)'
  BY <1>2, FrameKeeps
<1>6. \A oid \in book' : SentFits(oid)' /\ Validated(oid)'
  BY <1>2, FrameKeeps
<1> QED
  BY <1>3, <1>4, <1>5, <1>6 DEF IInv

\* The INSERT of a verdict row keeps the invariant.
LEMMA LogAttemptInv == ASSUME IInv, NEW r \in Runs, LogAttempt(r) PROVE IInv'
<1> USE RunFacts DEF Validating, Executing
<1>1. /\ pc[r] = "log" /\ pc'[r] = "checks" /\ auditId'[r] = Len(audit) + 1
      /\ idx[r] \in 1 .. Len(results[r]) /\ idx[r] <= Len(plan[r])
      /\ Len(audit) \in Nat
  BY Shapes DEF IInv, TypeOK, LogAttempt, Cursors
<1>2. PICK row \in Row :
         /\ row = AttemptRow(r) /\ row.oid = Oid(r) /\ row.oid[1] = r /\ row.oid[2] = idx[r]
         /\ row.stage = "validated" /\ row.broker = "NOT_SENT" /\ row.dry = ~live[r]
         /\ row.validation = ValidationStatus(results[r][idx[r]])
  <2>1. ValidationStatus(results[r][idx[r]]) \in {"APPROVED", "BLOCKED", "DRY_RUN"}
    BY DEF ValidationStatus
  <2>2. Oid(r) \in OrderIds /\ Order(r) \in Orders /\ (~live[r]) \in BOOLEAN
    <3>1. (~live[r]) \in BOOLEAN
      OBVIOUS
    <3> QED
      BY <1>1, <3>1
  <2>3. AttemptRow(r) \in Row
    BY <2>1, <2>2 DEF AttemptRow, Row
  <2> QED
    BY <2>3 DEF AttemptRow, Oid
<1>3. Insert(row)
  BY <1>2 DEF LogAttempt
<1>4. TypeOK'
  <2>1. /\ audit' \in Seq(Row) /\ checks' \in Seq(Seq(Check)) /\ Len(checks') = Len(audit')
        /\ Len(audit') = Len(audit) + 1
    BY <1>2, <1>3, InsertGrows DEF IInv
  <2>2. expired' \in 0 .. Len(audit')
    BY <1>1, <2>1 DEF IInv, TypeOK, LogAttempt
  <2>3. Len(audit) + 1 \in Nat
    BY <1>1
  <2>4. auditId' \in [Runs -> Nat] /\ pc' \in [Runs -> PCs]
    BY <2>3 DEF IInv, TypeOK, PCs, LogAttempt
  <2> QED
    BY <2>1, <2>2, <2>4 DEF IInv, TypeOK, LogAttempt
<1>5. Grows /\ \A s \in Runs \ {r} : Same(s)
  BY <1>2, <1>3, InsertGrows DEF IInv, TypeOK, LogAttempt, Same
<1>6. Cursors(r)' /\ ResultsFit(r)'
  BY <1>1 DEF LogAttempt, Cursors, ResultsFit
<1>7. Logging(r)'
  <2>1. /\ Len(audit') = Len(audit) + 1
        /\ audit'[Len(audit) + 1] = row /\ checks'[Len(audit) + 1] = << >>
    BY <1>2, <1>3, InsertGrows DEF IInv
  <2>2. 0 < ChecksRun(r)' /\ Len(<< >>) = 0
    <3>1. gate'[r] = gate[r] /\ gate[r] \in 1 .. LastGate + 1
      BY DEF LogAttempt
    <3> QED
      BY <3>1, EmptySeq DEF ChecksRun, LastGate
  <2> QED
    BY <1>1, <1>2, <2>1, <2>2 DEF Logging, Oid, LogAttempt
<1>8. VerdictsRecorded(r)'
  BY <1>1, <1>5, RecordedStays DEF VerdictsRecorded, LogAttempt
<1>9. ASSUME NEW k \in 1 .. Len(audit), audit[k].oid[1] = r
      PROVE  RowFits(audit[k])' /\ audit[k].oid # row.oid
  <2>1. RowFits(audit[k]) /\ audit[k].oid[2] \in 1 .. MaxOrders /\ audit'[k] = audit[k]
    BY <1>2, <1>3, Shapes, InsertGrows DEF IInv
  <2> QED
    BY <1>1, <1>2, <1>9, <2>1 DEF RowFits, LogAttempt
<1>10. /\ \A oid \in book : oid[1] = r => SentFits(oid)'
       /\ RowFits(row)'
  BY <1>1, <1>2 DEF IInv, SentFits, RowFits, LogAttempt
<1> QED
  BY <1>2, <1>3, <1>4, <1>5, <1>6, <1>7, <1>8, <1>9, <1>10, InsertPart DEF LogAttempt

\* RecordDryRun, RecordPlaced and RecordFailed: the outcome of an order.
LEMMA OutcomeInv ==
  ASSUME IInv, NEW r \in Runs, NEW status \in {"DRY_RUN", "PLACED", "FAILED"},
         Executing(r), idx[r] <= Len(plan[r]),
         live[r] = (status # "DRY_RUN"),
         status = "PLACED" => Oid(r) \in book,
         Insert(OutcomeRow(r, status)), NextOrder(r),
         UNCHANGED <<columns, marketOpen, expired, book, live, plan, gate, results, auditId, born>>
  PROVE  IInv'
<1> USE RunFacts DEF Validating
<1>1. /\ pc'[r] = "execute" /\ idx'[r] = idx[r] + 1 /\ idx[r] + 1 \in 1 .. MaxOrders + 1
      /\ Len(audit) \in Nat
  <2>1. Len(audit) \in Nat
    BY Shapes DEF IInv
  <2>2. idx[r] + 1 \in 1 .. MaxOrders + 1
    BY DEF Cursors
  <2> QED
    BY <2>1, <2>2 DEF IInv, TypeOK, NextOrder
<1>2. PICK row \in Row :
         /\ row = OutcomeRow(r, status) /\ row.oid = Oid(r) /\ row.oid[1] = r /\ row.oid[2] = idx[r]
         /\ row.stage = "executed" /\ row.dry = ~live[r]
         /\ row.broker # "NOT_SENT" => live[r]
         /\ row.broker = "OPEN" => row.oid \in book
  <2>1. Oid(r) \in OrderIds /\ Order(r) \in Orders /\ (~live[r]) \in BOOLEAN
    <3>1. (~live[r]) \in BOOLEAN
      OBVIOUS
    <3> QED
      BY <3>1
  <2>2. OutcomeRow(r, status) \in Row
    BY <2>1 DEF OutcomeRow, Row
  <2> QED
    BY <2>2 DEF OutcomeRow, Oid
<1>3. Insert(row)
  BY <1>2
<1>4. TypeOK'
  <2>1. /\ audit' \in Seq(Row) /\ checks' \in Seq(Seq(Check)) /\ Len(checks') = Len(audit')
        /\ Len(audit') = Len(audit) + 1
    BY <1>2, <1>3, InsertGrows DEF IInv
  <2>2. expired' \in 0 .. Len(audit')
    BY <1>1, <2>1 DEF IInv, TypeOK
  <2> QED
    BY <1>1, <2>1, <2>2 DEF IInv, TypeOK, PCs, NextOrder
<1>5. Grows /\ \A s \in Runs \ {r} : Same(s)
  BY <1>2, <1>3, InsertGrows DEF IInv, TypeOK, NextOrder, Same
<1>6. Cursors(r)' /\ ResultsFit(r)' /\ Logging(r)'
  BY <1>1 DEF Cursors, ResultsFit, Logging, Executing
<1>7. VerdictsRecorded(r)'
  BY <1>1, <1>5, RecordedStays DEF VerdictsRecorded, Executing
<1>8. ASSUME NEW k \in 1 .. Len(audit), audit[k].oid[1] = r
      PROVE  /\ RowFits(audit[k])'
             /\ audit[k].oid = row.oid => audit[k].stage = "validated"
  <2>1. /\ RowFits(audit[k]) /\ audit[k].oid[2] \in 1 .. MaxOrders /\ audit'[k] = audit[k]
        /\ audit[k].stage \in {"validated", "executed"}
    BY <1>2, <1>3, Shapes, InsertGrows DEF IInv, Row
  <2> QED
    BY <1>1, <1>2, <1>8, <2>1 DEF RowFits, Executing
<1>9. ASSUME NEW oid \in book, oid[1] = r PROVE SentFits(oid)'
  <2>1. SentFits(oid) /\ oid[2] \in 1 .. MaxOrders
    BY Shapes DEF IInv
  <2> QED
    BY <1>1, <1>9, <2>1 DEF SentFits, Executing
<1>10. RowFits(row)'
  BY <1>1, <1>2 DEF RowFits, Executing
<1> QED
  BY <1>2, <1>3, <1>4, <1>5, <1>6, <1>7, <1>8, <1>9, <1>10, InsertPart

\* The outcome row of a simulated order keeps the invariant.
LEMMA RecordDryRunInv == ASSUME IInv, NEW r \in Runs, RecordDryRun(r) PROVE IInv'
<1>1. live[r] = FALSE /\ Executing(r)
  BY RunFacts DEF RecordDryRun, Executing
<1> QED
  BY <1>1, OutcomeInv DEF RecordDryRun

\* A run at "placed" or "raised" is live: only APPROVED orders get there.
LEMMA AnsweredIsLive ==
  ASSUME IInv, NEW r \in Runs, pc[r] \in {"placed", "raised"}
  PROVE  live[r] = TRUE /\ Executing(r) /\ idx[r] <= Len(plan[r])
<1>1. Cursors(r) /\ ResultsFit(r) /\ live[r] \in BOOLEAN /\ idx[r] \in 1 .. MaxOrders + 1
      /\ Len(plan[r]) \in Nat /\ MaxOrders \in Nat
  BY RunFacts
<1>2. Executing(r) /\ idx[r] \in 1 .. Len(results[r]) /\ results[r][idx[r]] = "APPROVED"
      /\ idx[r] <= Len(plan[r])
  BY <1>1 DEF Cursors, Executing, Approved
<1> QED
  BY <1>1, <1>2 DEF ResultsFit

\* The outcome row of a placed order keeps the invariant.
LEMMA RecordPlacedInv == ASSUME IInv, NEW r \in Runs, RecordPlaced(r) PROVE IInv'
<1>1. Oid(r) \in book
  BY RunFacts DEF RecordPlaced, Cursors
<1> QED
  BY <1>1, AnsweredIsLive, OutcomeInv DEF RecordPlaced

\* The outcome row of a failed call keeps the invariant.
LEMMA RecordFailedInv == ASSUME IInv, NEW r \in Runs, RecordFailed(r) PROVE IInv'
BY AnsweredIsLive, OutcomeInv DEF RecordFailed

-----------------------------------------------------------------------------
(* The check rows *)

\* Facts about intervals.
LEMMA UpTo == \A m \in Nat : /\ \A c \in Nat : m < c => m + 1 \in 1 .. c
                             /\ \A i \in 1 .. m + 1 : i \in 1 .. m \/ i = m + 1
OBVIOUS

\* AllPassed is a sequence of eight passed check rows.
LEMMA AllPassedIsSeq ==
  /\ AllPassed \in Seq(Check) /\ Len(AllPassed) = LastGate
  /\ \A n \in 1 .. LastGate : AllPassed[n] = [check |-> Gates[n], passed |-> TRUE]
<1>1. AllPassed \in [1 .. LastGate -> Check] /\ LastGate \in Nat
  BY DEF AllPassed, Check, LastGate
<1>2. AllPassed \in Seq(Check)
  BY <1>1, SeqDef
<1>3. Len(AllPassed) = LastGate
  <2>1. 1 .. Len(AllPassed) = 1 .. LastGate /\ Len(AllPassed) \in Nat
    BY <1>1, <1>2, LenProperties
  <2> QED
    BY <1>1, <2>1
<1> QED
  BY <1>2, <1>3 DEF AllPassed

\* What one more check row does to the two tables.
LEMMA CheckInserted ==
  ASSUME IInv, NEW r \in Runs, LogCheck(r)
  PROVE  LET a == auditId[r]
             n == Len(checks[a]) + 1
         IN  /\ a \in 1 .. Len(audit) /\ audit[a].oid = Oid(r) /\ audit[a].oid[1] = r
             /\ audit'[a] = audit[a]
             /\ n \in 1 .. ChecksRun(r) /\ ChecksRun(r) \in 1 .. LastGate
             /\ checks' \in Seq(Seq(Check)) /\ Len(checks') = Len(audit)
             /\ checks'[a] \in Seq(Check) /\ Len(checks'[a]) = n
             /\ \A m \in 1 .. n : checks'[a][m] = CheckRow(r, m)
             /\ Frame(r)
<1> DEFINE a == auditId[r]
           old == checks[a]
           n == Len(old) + 1
           new == Append(old, CheckRow(r, n))
<1>1. /\ a \in 1 .. Len(audit) /\ audit[a].oid = Oid(r) /\ audit[a].oid[1] = r
      /\ Len(old) < ChecksRun(r)
      /\ \A m \in 1 .. Len(old) : old[m] = CheckRow(r, m)
      /\ Len(audit) \in Nat
  BY RunFacts, Shapes DEF Logging, LogCheck, Oid, IInv
<1>2. old \in Seq(Check) /\ Len(old) \in Nat /\ checks \in Seq(Seq(Check)) /\ a \in 1 .. Len(checks)
  BY <1>1, ElementOfSeq, LenProperties DEF IInv, TypeOK
<1>3. ChecksRun(r) \in 1 .. LastGate /\ n \in 1 .. ChecksRun(r) /\ n \in 1 .. LastGate
  <2>1. gate[r] \in 1 .. LastGate + 1
    BY RunFacts
  <2>2. ChecksRun(r) \in 1 .. LastGate
    BY <2>1 DEF ChecksRun, LastGate
  <2>3. n \in 1 .. ChecksRun(r) /\ ChecksRun(r) \in Nat
    <3>1. ChecksRun(r) \in Nat
      BY <2>2 DEF LastGate
    <3> QED
      BY <1>1, <1>2, <3>1, UpTo
  <2> HIDE DEF n
  <2> QED
    BY <2>2, <2>3 DEF LastGate
<1>4. CheckRow(r, n) \in Check
  <2>1. (n < gate[r]) \in BOOLEAN
    OBVIOUS
  <2>2. Gates[n] \in {Gates[m] : m \in 1 .. LastGate}
    BY <1>3
  <2> QED
    BY <2>1, <2>2 DEF CheckRow, Check
<1>5. /\ new \in Seq(Check) /\ Len(new) = n
      /\ \A m \in 1 .. Len(old) : new[m] = old[m]
      /\ new[n] = CheckRow(r, n)
  BY <1>2, <1>4, AppendProperties
<1>6. checks' = [checks EXCEPT ![a] = new]
  BY DEF LogCheck
<1>7. /\ checks' \in Seq(Seq(Check)) /\ Len(checks') = Len(audit)
      /\ \A k \in 1 .. Len(checks) : checks'[k] = IF k = a THEN new ELSE checks[k]
  BY <1>2, <1>5, <1>6, ExceptSeq DEF IInv, TypeOK
<1>8. checks'[a] = new /\ \A m \in 1 .. n : new[m] = CheckRow(r, m)
  <2>1. checks'[a] = new
    BY <1>2, <1>7
  <2>2. ASSUME NEW m \in 1 .. n PROVE new[m] = CheckRow(r, m)
    <3>1. m \in 1 .. Len(old) \/ m = n
      BY <1>2, UpTo
    <3> QED
      BY <1>1, <1>5, <3>1
  <2> QED
    BY <2>1, <2>2
<1>9. Frame(r)
  <2>1. old # AllPassed
    BY <1>1, <1>2, <1>3, AllPassedIsSeq
  <2>2. \A k \in 1 .. Len(audit) : k # a => checks'[k] = checks[k]
    BY <1>7 DEF IInv, TypeOK
  <2>3. \A s \in Runs \ {r} : Same(s)
    BY DEF IInv, TypeOK, LogCheck, Same
  <2>4. Grows
    BY <1>1, <2>1, <2>2 DEF Grows, LogCheck
  <2> QED
    BY <1>1, <2>2, <2>3, <2>4 DEF Frame, LogCheck
<1>10. audit'[a] = audit[a]
  BY DEF LogCheck
<1> QED
  BY <1>1, <1>3, <1>5, <1>7, <1>8, <1>9, <1>10


\* The INSERT of a check row keeps the invariant.
LEMMA LogCheckInv == ASSUME IInv, NEW r \in Runs, LogCheck(r) PROVE IInv'
<1> USE RunFacts DEF Validating, Executing
<1> DEFINE a == auditId[r]
           n == Len(checks[a]) + 1
           last == idx[r] = Len(plan[r])
<1>1. /\ a \in 1 .. Len(audit) /\ audit[a].oid = Oid(r) /\ audit[a].oid[1] = r
      /\ audit'[a] = audit[a]
      /\ n \in 1 .. ChecksRun(r) /\ ChecksRun(r) \in 1 .. LastGate
      /\ checks' \in Seq(Seq(Check)) /\ Len(checks') = Len(audit)
      /\ checks'[a] \in Seq(Check) /\ Len(checks'[a]) = n
      /\ \A m \in 1 .. n : checks'[a][m] = CheckRow(r, m)
      /\ Frame(r)
  BY CheckInserted
<1>2. /\ pc[r] = "checks" /\ UNCHANGED <<columns, marketOpen, audit, expired, book, live, plan, results, auditId, born>>
      /\ audit[a].stage = "validated"
      /\ audit[a].validation = ValidationStatus(results[r][idx[r]])
      /\ Len(results[r]) = idx[r] /\ idx[r] <= Len(plan[r]) /\ Len(plan[r]) <= MaxOrders
  BY DEF LogCheck, Logging, Cursors
<1>3. ASSUME results[r][idx[r]] = "APPROVED", n = ChecksRun(r) PROVE checks'[a] = AllPassed
  <2>1. gate[r] = LastGate + 1
    BY <1>2, <1>3 DEF ResultsFit
  <2>2. n = LastGate
    BY <1>3, <2>1 DEF ChecksRun, LastGate
  <2>3. \A m \in 1 .. LastGate : CheckRow(r, m) = AllPassed[m]
    <3> SUFFICES ASSUME NEW m \in 1 .. LastGate PROVE CheckRow(r, m) = AllPassed[m]
      OBVIOUS
    <3>1. (m < gate[r]) = TRUE
      BY <2>1 DEF LastGate
    <3> QED
      BY <3>1, AllPassedIsSeq DEF CheckRow
  <2>4. \A m \in 1 .. LastGate : checks'[a][m] = AllPassed[m]
    BY <1>1, <2>2, <2>3
  <2>5. Len(checks'[a]) = LastGate /\ checks'[a] \in Seq(Check)
    BY <1>1, <2>2
  <2> HIDE DEF a
  <2> QED
    BY <2>4, <2>5, AllPassedIsSeq, SeqEqual
<1>4. CASE n < ChecksRun(r)
  <2>1. UNCHANGED <<pc, idx, gate>>
    BY <1>4 DEF LogCheck
  <2>2. TypeOK'
    BY <1>1, <1>2, <2>1 DEF IInv, TypeOK
  <2>3. Cursors(r)' /\ ResultsFit(r)'
    BY <1>2, <2>1 DEF Cursors, ResultsFit, Approved, Oid
  <2>4. Logging(r)'
    BY <1>1, <1>2, <1>4, <2>1 DEF Logging, Oid, CheckRow, ChecksRun
  <2>5. VerdictsRecorded(r)'
    BY <1>1, <1>2, <2>1, RecordedStays DEF VerdictsRecorded, Frame
  <2>6. /\ \A k \in 1 .. Len(audit) : audit[k].oid[1] = r => RowFits(audit[k])'
        /\ \A oid \in book : oid[1] = r => SentFits(oid)'
    BY <1>2, <2>1 DEF IInv, RowFits, SentFits
  <2> QED
    BY <1>1, <1>2, <2>2, <2>3, <2>4, <2>5, <2>6, OwnPart
<1>5. CASE n = ChecksRun(r)
  <2>1. /\ pc' = [pc EXCEPT ![r] = IF last THEN "execute" ELSE "gates"]
        /\ idx' = [idx EXCEPT ![r] = IF last THEN 1 ELSE @ + 1]
        /\ gate' = [gate EXCEPT ![r] = 1]
    BY <1>1, <1>5 DEF LogCheck
  <2>2. /\ pc'[r] = IF last THEN "execute" ELSE "gates"
        /\ idx'[r] = IF last THEN 1 ELSE idx[r] + 1
        /\ idx'[r] \in 1 .. MaxOrders + 1
        /\ ~last => idx'[r] <= Len(plan[r])
        /\ gate'[r] = 1 /\ 1 \in 1 .. LastGate + 1
    <3>1. idx[r] + 1 \in 1 .. MaxOrders + 1 /\ 1 \in 1 .. MaxOrders + 1
      BY <1>2
    <3> QED
      BY <1>2, <2>1, <3>1 DEF IInv, TypeOK, LastGate
  <2>3. TypeOK'
    <3>1. /\ pc' \in [Runs -> PCs] /\ gate' \in [Runs -> 1 .. LastGate + 1]
          /\ idx' \in [Runs -> 1 .. MaxOrders + 1]
      BY <2>1, <2>2 DEF IInv, TypeOK, PCs
    <3> QED
      BY <1>1, <1>2, <3>1 DEF IInv, TypeOK
  <2>4. Cursors(r)' /\ ResultsFit(r)' /\ Logging(r)'
    BY <1>2, <2>2 DEF Cursors, ResultsFit, Logging
  <2>5. VerdictsRecorded(r)'
    <3>1. ASSUME NEW i \in 1 .. Len(results[r]), i # idx[r] PROVE Recorded(r, i)'
      BY <1>1, <1>2, <3>1, RecordedStays DEF VerdictsRecorded, Frame
    <3>2. ASSUME NEW i \in 1 .. Len(results[r]), i = idx[r] PROVE Recorded(r, i)'
      <4>1. results[r][i] = "APPROVED" => checks'[a] = AllPassed
        BY <1>3, <1>5, <3>2
      <4>2. /\ audit'[a].oid = <<r, i>> /\ audit'[a].stage = "validated"
            /\ audit'[a].validation = ValidationStatus(results[r][i])
            /\ a \in 1 .. Len(audit')
        BY <1>1, <1>2, <3>2 DEF Oid
      <4> QED
        BY <1>2, <4>1, <4>2 DEF Recorded
    <3>3. \A i \in 1 .. Len(results'[r]) : Recorded(r, i)'
      BY <1>2, <3>1, <3>2
    <3> QED
      BY <3>3 DEF VerdictsRecorded
  <2>6. /\ \A k \in 1 .. Len(audit) : audit[k].oid[1] = r => RowFits(audit[k])'
        /\ \A oid \in book : oid[1] = r => SentFits(oid)'
    <3>1. ASSUME NEW k \in 1 .. Len(audit), audit[k].oid[1] = r PROVE RowFits(audit[k])'
      <4>1. RowFits(audit[k]) /\ audit[k].oid[2] \in 1 .. MaxOrders
        BY Shapes DEF IInv
      <4> QED
        BY <1>2, <2>2, <3>1, <4>1 DEF RowFits
    <3>2. \A oid \in book : oid[1] # r
      BY <1>2 DEF IInv, SentFits
    <3> QED
      BY <3>1, <3>2
  <2> QED
    BY <1>1, <1>2, <2>3, <2>4, <2>5, <2>6, OwnPart
<1>6. n < ChecksRun(r) \/ n = ChecksRun(r)
  <2>1. \A c \in 1 .. LastGate : \A m \in 1 .. c : m < c \/ m = c
    BY DEF LastGate
  <2> QED
    BY <1>1, <2>1
<1> QED
  BY <1>4, <1>5, <1>6
-----------------------------------------------------------------------------
(* The call to the broker *)

\* The call to the broker keeps the invariant: only a recorded approval goes out.
LEMMA CallBrokerInv == ASSUME IInv, NEW r \in Runs, CallBroker(r) PROVE IInv'
<1> USE RunFacts DEF Validating, Executing, runVars
<1>1. /\ pc[r] = "execute" /\ idx[r] \in 1 .. Len(plan[r]) /\ live[r] = TRUE
      /\ results[r][idx[r]] = "APPROVED" /\ Len(results[r]) = Len(plan[r])
      /\ UNCHANGED <<columns, marketOpen, audit, checks, expired, runVars>>
  BY DEF CallBroker, Approved, Cursors
<1>2. /\ pc'[r] \in {"placed", "raised"} /\ pc' = [pc EXCEPT ![r] = pc'[r]]
      /\ book \subseteq book' /\ book' \subseteq book \union {Oid(r)}
      /\ pc'[r] = "placed" => Oid(r) \in book'
  BY DEF CallBroker, IInv, TypeOK
<1>3. TypeOK' /\ Oid(r) \in OrderIds /\ Oid(r)[1] = r /\ Oid(r)[2] = idx[r]
  <2>1. idx[r] <= Len(plan[r])
    BY <1>1
  <2>2. Oid(r) \in OrderIds
    BY <2>1
  <2>3. book' \subseteq OrderIds
    BY <1>2, <2>2 DEF IInv, TypeOK
  <2>4. pc' \in [Runs -> PCs]
    BY <1>2 DEF IInv, TypeOK, PCs
  <2> QED
    BY <1>1, <2>2, <2>3, <2>4 DEF IInv, TypeOK, Oid
<1>4. Frame(r)
  BY <1>1, <1>2, FrameOf DEF IInv, TypeOK, Same
<1>5. Cursors(r)' /\ ResultsFit(r)' /\ Logging(r)'
  BY <1>1, <1>2 DEF Cursors, ResultsFit, Logging, Approved, Oid
<1>6. VerdictsRecorded(r)' /\ Recorded(r, idx[r])
  BY <1>1, <1>2, <1>4, RecordedStays DEF VerdictsRecorded, Frame
<1>8. ASSUME NEW k \in 1 .. Len(audit), audit[k].oid[1] = r PROVE RowFits(audit[k])'
  <2>1. RowFits(audit[k]) /\ audit[k].oid[2] \in 1 .. MaxOrders
    BY Shapes DEF IInv
  <2> QED
    BY <1>1, <1>2, <1>8, <2>1 DEF RowFits
<1>9. ASSUME NEW oid \in book', oid[1] = r PROVE SentFits(oid)'
  <2>1. CASE oid \in book
    BY <1>1, <1>2, <1>9, <2>1 DEF IInv, SentFits
  <2>2. CASE oid = Oid(r)
    BY <1>1, <1>2, <1>3, <2>2 DEF SentFits
  <2> QED
    BY <1>2, <2>1, <2>2
<1>10. \A oid \in book' : SentFits(oid)' /\ Validated(oid)'
  <2> SUFFICES ASSUME NEW oid \in book' PROVE SentFits(oid)' /\ Validated(oid)'
    OBVIOUS
  <2>1. oid \in book \/ oid = Oid(r)
    BY <1>2
  <2>2. Validated(oid)'
    <3>1. CASE oid \in book
      BY <1>4, <3>1, FrameKeeps
    <3>2. CASE oid = Oid(r)
      BY <1>1, <1>6, <3>2 DEF Recorded, Validated, ValidationStatus, Oid
    <3> QED
      BY <2>1, <3>1, <3>2
  <2>3. SentFits(oid)'
    BY <1>3, <1>4, <1>9, <2>1, FrameKeeps
  <2> QED
    BY <2>2, <2>3
<1>11. RowsInOrder' /\ \A k \in 1 .. Len(audit)' : RowFits(audit[k])'
  BY <1>1, <1>4, <1>8, FrameKeeps DEF IInv, RowsInOrder
<1> QED
  BY <1>3, <1>4, <1>5, <1>6, <1>10, <1>11, FrameKeeps DEF IInv

\* The clock and a stuttering step touch nothing the invariant speaks of but types.
LEMMA ClockInv ==
  ASSUME IInv, TypeOK', UNCHANGED <<audit, checks, book, pc, runVars>>
  PROVE  IInv'
<1>1. ASSUME NEW r \in Runs
      PROVE  Cursors(r)' /\ ResultsFit(r)' /\ Logging(r)' /\ VerdictsRecorded(r)'
  <2> USE RunFacts DEF runVars, Validating, Executing
  <2>1. Cursors(r)' /\ ResultsFit(r)'
    BY DEF Cursors, ResultsFit, Approved, Oid
  <2>2. Logging(r)'
    BY DEF Logging, Oid, CheckRow, ChecksRun
  <2>3. VerdictsRecorded(r)'
    BY UnchangedGrows, RecordedStays DEF IInv, VerdictsRecorded
  <2> QED
    BY <2>1, <2>2, <2>3
<1>2. /\ \A k \in 1 .. Len(audit)' : RowFits(audit[k])'
      /\ \A oid \in book' : SentFits(oid)' /\ Validated(oid)'
      /\ RowsInOrder'
  BY DEF IInv, runVars, RowFits, SentFits, Validated, RowsInOrder, Validating, Executing
<1> QED
  BY <1>1, <1>2 DEF IInv
-----------------------------------------------------------------------------
(* The theorems *)

\* Every step of the pipeline keeps the inductive invariant.
THEOREM NextInv == IInv /\ [Next]_vars => IInv'
<1> SUFFICES ASSUME IInv, [Next]_vars PROVE IInv'
  OBVIOUS
<1>1. ASSUME NEW r \in Runs, Step(r) PROVE IInv'
  <2>1. CASE DuplicateQueryFails(r)
    BY <2>1, EndInv DEF DuplicateQueryFails
  <2>2. CASE Finish(r)
    BY <2>2, EndInv DEF Finish
  <2> QED
    BY <1>1, <2>1, <2>2, PassGateInv, FailGateInv, DryRunGateInv, LogAttemptInv, LogCheckInv,
       SkipRejectedInv, RecordDryRunInv, CallBrokerInv, RecordPlacedInv, RecordFailedInv
       DEF Step
<1>2. ASSUME NEW r \in Runs, Crash(r) PROVE IInv'
  BY <1>2, EndInv DEF Crash
<1>3. CASE MarketOpensOrCloses
  BY <1>3, ClockInv DEF MarketOpensOrCloses, IInv, TypeOK, runVars
<1>4. CASE WindowMoves
  <2>1. expired' \in 0 .. Len(audit)
    BY <1>4, Shapes DEF WindowMoves, IInv, TypeOK
  <2> QED
    BY <1>4, <2>1, ClockInv DEF WindowMoves, IInv, TypeOK, runVars
<1>5. CASE UNCHANGED vars
  BY <1>5, ClockInv DEF vars, runVars, IInv, TypeOK
<1> QED
  BY <1>1, <1>2, <1>3, <1>4, <1>5, StartInv DEF Next

\* The invariant holds in every reachable state, for any number of commands.
THEOREM Invariance == Spec => []IInv
BY InitInv, NextInv, PTL DEF Spec

\* Type correctness.
THEOREM TypeCorrect == Spec => []TypeOK
<1>1. IInv => TypeOK
  BY DEF IInv
<1> QED
  BY <1>1, Invariance, PTL

\* For any number of commands, plans and gates' findings, crashes included, the
\* broker holds no order that did not pass and record all eight checks.
THEOREM NoUnvalidatedOrder == Spec => []OnlyValidatedOrdersReachBroker
<1>1. IInv => OnlyValidatedOrdersReachBroker
  BY DEF IInv, OnlyValidatedOrdersReachBroker
<1> QED
  BY <1>1, Invariance, PTL

\* A command in dry-run mode never trades, whatever the other commands do.
THEOREM DryRunIsSafe == Spec => []DryRunNeverTrades
<1>1. IInv => DryRunNeverTrades
  <2> SUFFICES ASSUME IInv, NEW r \in Runs, ~live[r]
               PROVE  /\ \A oid \in book : oid[1] # r
                      /\ \A k \in 1 .. Len(audit) :
                           audit[k].oid[1] = r => audit[k].dry /\ audit[k].broker = "NOT_SENT"
    BY DEF DryRunNeverTrades
  <2>1. \A oid \in book : oid[1] # r
    BY DEF IInv, SentFits
  <2>2. \A k \in 1 .. Len(audit) :
          audit[k].oid[1] = r => audit[k].dry /\ audit[k].broker = "NOT_SENT"
    BY DEF IInv, RowFits
  <2> QED
    BY <2>1, <2>2
<1> QED
  BY <1>1, Invariance, PTL

\* The two together.
THEOREM LicensedOrders == Spec => []OrdersAreLicensed
BY NoUnvalidatedOrder, DryRunIsSafe, PTL DEF OrdersAreLicensed

\* However the commands interleave and die, an OPEN row is of an order the broker
\* holds, and an order has one verdict row and then at most one outcome row.
THEOREM TruthfulAudit == Spec => []AuditTellsTheTruth
<1>1. IInv => AuditTellsTheTruth
  BY DEF IInv, RowFits, AuditTellsTheTruth
<1> QED
  BY <1>1, Invariance, PTL
-----------------------------------------------------------------------------
(* The log is kept and heeded *)

\* No row of an order like o that r would still find is older than r.
Fresh(r, o) ==
  \A j \in 1 .. Len(audit) :
    audit[j].broker = "OPEN" /\ audit[j].order = o /\ expired < j => born[r] < j

\* What passed the duplicate gate was then not in the log as placed.
Heeds(r) ==
  /\ born[r] <= Len(audit)
  /\ pc[r] = "gates" /\ gate[r] = LastGate + 1 => Fresh(r, Order(r)) /\ DuplicateQueryRuns
  /\ \A i \in 1 .. Len(results[r]) :
       /\ results[r][i] = "APPROVED" => Fresh(r, plan[r][i])
       /\ results[r][i] # "REJECTED" => DuplicateQueryRuns

\* What a command has left in the log by now, unless it was killed.
Keeps(r) ==
  /\ pc[r] # "crashed" =>
       \A i \in 1 .. Len(results[r]) : (pc[r] \in {"log", "checks"} => i # idx[r]) => Logged(r, i)
  /\ Executing(r) =>
       \A i \in 1 .. Len(plan[r]) : i < idx[r] /\ results[r][i] # "REJECTED" => Settled(r, i)
  /\ pc[r] = "done" => /\ Len(results[r]) = Len(plan[r])
                       /\ \A i \in 1 .. Len(plan[r]) : results[r][i] # "REJECTED" => Settled(r, i)

\* Where the duplicate query cannot run, every verdict is a refusal.
BlockedOnFault ==
  ~DuplicateQueryRuns => \A k \in 1 .. Len(audit) : audit[k].validation = "BLOCKED"

LInv == /\ IInv
        /\ \A r \in Runs : Heeds(r) /\ Keeps(r)
        /\ NoLateDuplicate /\ BlockedOnFault

\* With no rows and no results there is nothing to keep.
LEMMA InitLInv == Init => LInv
<1> SUFFICES ASSUME Init PROVE LInv
  OBVIOUS
<1>1. Len(<< >>) = 0
  BY EmptySeq
<1> QED
  BY <1>1, InitInv
     DEF Init, LInv, Heeds, Keeps, Executing, NoLateDuplicate, BlockedOnFault, LastGate

\* What a step does to the two tables: at most one row more, and a new row is of an order
\* the log was asked about, and a refusal where it cannot be asked.
Extended ==
  /\ Grows /\ Len(audit)' <= Len(audit) + 1
  /\ \A k \in 1 .. Len(audit) : checks[k] # << >> => checks'[k] # << >>
  /\ columns' = columns /\ expired \in Nat /\ expired' \in Nat /\ expired <= expired'
  /\ \A s \in Runs : pc[s] # "idle" => born'[s] = born[s]
  /\ \A k \in 1 .. Len(audit)' : k > Len(audit) =>
       /\ audit'[k].oid[1] \in Runs /\ pc[audit'[k].oid[1]] # "idle"
       /\ audit'[k].broker = "OPEN" => Fresh(audit'[k].oid[1], audit'[k].order)
       /\ ~DuplicateQueryRuns => audit'[k].validation = "BLOCKED"

\* A step that extends the tables keeps what is said of all of them.
LEMMA TablesStay ==
  ASSUME LInv, Extended
  PROVE  NoLateDuplicate' /\ BlockedOnFault'
<1>1. BlockedOnFault'
  <2> SUFFICES ASSUME ~DuplicateQueryRuns, NEW k \in 1 .. Len(audit)'
               PROVE  audit'[k].validation = "BLOCKED"
    BY DEF BlockedOnFault, DuplicateQueryRuns, Extended
  <2> QED
    BY DEF LInv, BlockedOnFault, Extended, Grows
<1>2. NoLateDuplicate'
  <2> SUFFICES ASSUME NEW j \in 1 .. Len(audit)', NEW k \in 1 .. Len(audit)',
                      j < k, expired' < j, audit'[j].broker = "OPEN", audit'[k].broker = "OPEN",
                      audit'[j].order = audit'[k].order
               PROVE  born'[audit'[k].oid[1]] < j
    BY DEF NoLateDuplicate
  <2>1. j \in 1 .. Len(audit) /\ audit'[j] = audit[j] /\ expired < j
    BY DEF Extended, Grows
  <2>2. CASE k \in 1 .. Len(audit)
    <3>1. audit'[k] = audit[k]
      BY <2>2 DEF Extended, Grows
    <3>2. audit[k].oid[1] \in Runs /\ pc[audit[k].oid[1]] # "idle"
      BY <2>2, Shapes DEF LInv, IInv, RowFits
    <3>3. born[audit[k].oid[1]] < j
      BY <2>1, <2>2, <3>1 DEF LInv, NoLateDuplicate
    <3> QED
      BY <3>1, <3>2, <3>3 DEF Extended
  <2>3. CASE k > Len(audit)
    <3>1. Fresh(audit'[k].oid[1], audit'[k].order)
      BY <2>3 DEF Extended
    <3>2. born[audit'[k].oid[1]] < j
      BY <2>1, <3>1 DEF Fresh
    <3> QED
      BY <2>3, <3>2 DEF Extended
  <2> QED
    BY <2>2, <2>3 DEF Extended, Grows
<1> QED
  BY <1>1, <1>2

\* A step without a new row extends the tables.
LEMMA QuietExtends ==
  ASSUME LInv, UNCHANGED <<columns, audit>>, Grows,
         \A k \in 1 .. Len(audit) : checks[k] # << >> => checks'[k] # << >>,
         expired' \in Nat, expired <= expired',
         \A s \in Runs : pc[s] # "idle" => born'[s] = born[s]
  PROVE  Extended
BY Shapes DEF LInv, IInv, TypeOK, Extended

\* An INSERT extends them, if its row is one of those a new row may be.
LEMMA InsertExtends ==
  ASSUME LInv, NEW row \in Row, Insert(row), UNCHANGED <<columns, expired, born>>,
         pc[row.oid[1]] # "idle",
         row.broker = "OPEN" => Fresh(row.oid[1], row.order),
         ~DuplicateQueryRuns => row.validation = "BLOCKED"
  PROVE  /\ Extended
         /\ Len(audit)' = Len(audit) + 1 /\ Len(audit) \in Nat /\ audit'[Len(audit) + 1] = row
<1>1. /\ Len(audit') = Len(audit) + 1 /\ Grows /\ Len(audit) \in Nat
      /\ \A k \in 1 .. Len(audit) : audit'[k] = audit[k] /\ checks'[k] = checks[k]
      /\ audit'[Len(audit) + 1] = row
  BY InsertGrows, Shapes DEF LInv, IInv
<1>2. \A k \in 1 .. Len(audit)' : k > Len(audit) => k = Len(audit) + 1
  BY <1>1
<1>3. expired \in Nat /\ row.oid[1] \in Runs
  BY DEF LInv, IInv, TypeOK, Row, OrderIds
<1> QED
  BY <1>1, <1>2, <1>3 DEF Extended

\* What a command asked of the log stays answered: new rows are younger than it.
LEMMA FreshStays ==
  ASSUME LInv, Extended, NEW r \in Runs, pc[r] # "idle", NEW o, Fresh(r, o)
  PROVE  Fresh(r, o)'
<1> SUFFICES ASSUME NEW j \in 1 .. Len(audit)', audit'[j].broker = "OPEN", audit'[j].order = o,
                    expired' < j
             PROVE  born'[r] < j
  BY DEF Fresh
<1>1. born'[r] = born[r] /\ born[r] \in Nat /\ born[r] <= Len(audit) /\ Len(audit) \in Nat
  BY Shapes DEF LInv, IInv, TypeOK, Heeds, Extended
<1>2. CASE j \in 1 .. Len(audit)
  BY <1>1, <1>2 DEF Extended, Grows, Fresh
<1>3. CASE j > Len(audit)
  BY <1>1, <1>3
<1> QED
  BY <1>1, <1>2, <1>3

\* What is in the log stays there.
LEMMA LoggedStays ==
  ASSUME LInv, Extended, NEW r, NEW i
  PROVE  (Logged(r, i) => Logged(r, i)') /\ (Settled(r, i) => Settled(r, i)')
<1>1. Len(audit) \in Nat /\ Len(audit)' \in Nat /\ Len(audit) <= Len(audit)'
      /\ \A k \in 1 .. Len(audit) : audit'[k] = audit[k] /\ (checks[k] # << >> => checks'[k] # << >>)
  BY DEF Extended, Grows
<1> QED
  BY <1>1 DEF Logged, Settled

\* A run that does nothing keeps its part.
LEMMA OthersKeep ==
  ASSUME LInv, Extended, NEW s \in Runs, Same(s), born'[s] = born[s]
  PROVE  Heeds(s)' /\ Keeps(s)'
<1>1. Heeds(s) /\ Keeps(s)
  BY DEF LInv
<1>2. Keeps(s)'
  BY <1>1, LoggedStays DEF Same, Keeps, Executing
<1>3. CASE pc[s] = "idle"
  <2>1. results'[s] = << >> /\ Len(<< >>) = 0
    BY <1>3, EmptySeq DEF LInv, IInv, Cursors, Same
  <2>2. born'[s] <= Len(audit)'
    BY <1>1, Shapes DEF Heeds, Extended, Grows, LInv, IInv, TypeOK
  <2> QED
    BY <1>2, <1>3, <2>1, <2>2 DEF Heeds, Same
<1>4. CASE pc[s] # "idle"
  <2>1. /\ born'[s] <= Len(audit)'
        /\ DuplicateQueryRuns => DuplicateQueryRuns'
    BY <1>1, Shapes DEF Heeds, Extended, Grows, LInv, IInv, TypeOK, DuplicateQueryRuns
  <2>2. pc'[s] = "gates" /\ gate'[s] = LastGate + 1 => Fresh(s, Order(s))'
    <3>1. Order(s)' = Order(s)
      BY DEF Order, Same
    <3>2. ASSUME Fresh(s, Order(s)) PROVE Fresh(s, Order(s))'
      <4> DEFINE o == Order(s)
      <4>1. o' = o
        BY <3>1
      <4> HIDE DEF o
      <4>2. Fresh(s, o)'
        BY <1>4, <3>2, <4>1, FreshStays DEF o, Fresh
      <4> QED
        BY <4>1, <4>2 DEF o, Fresh
    <3> QED
      BY <1>1, <3>2 DEF Heeds, Same
  <2>3. ASSUME NEW i \in 1 .. Len(results'[s]), results'[s][i] = "APPROVED"
        PROVE  Fresh(s, plan[s][i])'
    <3>1. Fresh(s, plan[s][i]) /\ plan'[s][i] = plan[s][i]
      BY <1>1, <2>3 DEF Heeds, Same
    <3> QED
      BY <1>4, <3>1, FreshStays DEF Fresh
  <2> QED
    BY <1>1, <1>2, <2>1, <2>2, <2>3 DEF Heeds, Same
<1> QED
  BY <1>3, <1>4

\* It remains to look at what a step of r does to r's own part.
LEMMA StepKeeps ==
  ASSUME LInv, IInv', NEW r \in Runs, Extended, Heeds(r)', Keeps(r)',
         \A s \in Runs \ {r} : Same(s) /\ born'[s] = born[s]
  PROVE  LInv'
BY OthersKeep, TablesStay DEF LInv

\* A step that comes to no approval keeps what r was told by the log.
LEMMA HeedsStays ==
  ASSUME LInv, Extended, NEW r \in Runs, pc[r] # "idle",
         born'[r] = born[r], plan'[r] = plan[r],
         pc'[r] = "gates" => gate'[r] # LastGate + 1,
         \A i \in 1 .. Len(results'[r]) :
           /\ results'[r][i] = "APPROVED" => Fresh(r, plan[r][i])
           /\ results'[r][i] # "REJECTED" => DuplicateQueryRuns
  PROVE  Heeds(r)'
<1>1. born'[r] <= Len(audit)'
  BY Shapes DEF LInv, IInv, TypeOK, Heeds, Extended, Grows
<1>2. DuplicateQueryRuns => DuplicateQueryRuns'
  BY DEF Extended, DuplicateQueryRuns
<1>3. ASSUME NEW i \in 1 .. Len(results'[r]), results'[r][i] = "APPROVED"
      PROVE  Fresh(r, plan[r][i])'
  <2>1. Fresh(r, plan[r][i]) /\ plan'[r][i] = plan[r][i]
    BY <1>3
  <2> QED
    BY <2>1, FreshStays DEF Fresh
<1> QED
  BY <1>1, <1>2, <1>3 DEF Heeds

\* A command that starts knows every row there is.
LEMMA StartKeeps == ASSUME LInv, NEW r \in Runs, Start(r) PROVE LInv'
<1>1. IInv' /\ pc[r] = "idle" /\ results[r] = << >> /\ Len(<< >>) = 0 /\ gate[r] = 1
  BY StartInv, EmptySeq DEF LInv, IInv, Cursors, Start
<1>2. UNCHANGED <<columns, audit, checks, expired, results, gate, idx>>
  BY DEF Start
<1>3. /\ \A s \in Runs \ {r} : Same(s) /\ born'[s] = born[s]
      /\ born'[r] = Len(audit) /\ pc'[r] \in {"gates", "done"}
      /\ pc'[r] = "done" => Len(plan'[r]) = 0
  BY <1>1 DEF LInv, IInv, TypeOK, Start, Same
<1>4. Extended
  <2>1. \A s \in Runs : pc[s] # "idle" => born'[s] = born[s]
    BY <1>1, <1>3
  <2>2. expired \in Nat
    BY DEF LInv, IInv, TypeOK
  <2> QED
    BY <1>2, <2>1, <2>2, QuietExtends, UnchangedGrows DEF LInv, IInv
<1>5. Heeds(r)'
  BY <1>1, <1>2, <1>3, Shapes DEF Heeds, LastGate, LInv, IInv
<1>6. Keeps(r)'
  BY <1>1, <1>2, <1>3 DEF Keeps, Executing
<1> QED
  BY <1>1, <1>3, <1>4, <1>5, <1>6, StepKeeps

\* The steps that leave the tables alone extend them.
LEMMA IdleTables ==
  ASSUME LInv, UNCHANGED <<columns, audit, checks, expired, born>>
  PROVE  Extended
<1>1. expired \in Nat
  BY DEF LInv, IInv, TypeOK
<1> QED
  BY <1>1, QuietExtends, UnchangedGrows DEF LInv, IInv

\* A gate that passes: the last one asked the log.
LEMMA PassGateKeeps == ASSUME LInv, NEW r \in Runs, PassGate(r) PROVE LInv'
<1>1. /\ IInv' /\ pc[r] = "gates" /\ gate'[r] = gate[r] + 1 /\ gate[r] \in 1 .. LastGate
      /\ UNCHANGED <<columns, audit, checks, expired, born, pc, plan, idx, results>>
      /\ \A s \in Runs \ {r} : Same(s) /\ born'[s] = born[s]
      /\ Heeds(r) /\ Keeps(r)
  <2>1. IInv /\ IInv' /\ Heeds(r) /\ Keeps(r)
    BY PassGateInv DEF LInv
  <2>2. gate[r] \in 1 .. LastGate
    BY <2>1, RunFacts DEF PassGate, LastGate
  <2>3. gate'[r] = gate[r] + 1 /\ \A s \in Runs \ {r} : Same(s) /\ born'[s] = born[s]
    BY <2>1 DEF IInv, TypeOK, PassGate, Same
  <2> QED
    BY <2>1, <2>2, <2>3 DEF PassGate
<1>2. Extended
  BY <1>1, IdleTables
<1>3. ASSUME gate'[r] = LastGate + 1 PROVE Fresh(r, Order(r)) /\ DuplicateQueryRuns
  <2>1. gate[r] = 8 /\ Gates[gate[r]] = "DUPLICATE"
    BY <1>1, <1>3 DEF LastGate, Gates
  <2>2. Found("DUPLICATE", Order(r)) = {IF RecentDuplicate(Order(r)) THEN "breach" ELSE "ok"}
    BY DEF Found
  <2>3. ~Passes("DUPLICATE", Order(r), "breach", live[r])
    BY DEF Passes
  <2>4. ~RecentDuplicate(Order(r)) /\ DuplicateQueryRuns
    BY <2>1, <2>2, <2>3 DEF PassGate
  <2>5. \A j \in 1 .. Len(audit) :
          ~(audit[j].broker = "OPEN" /\ audit[j].order = Order(r) /\ expired < j)
    BY <2>4, Shapes DEF RecentDuplicate, LInv, IInv, TypeOK
  <2> QED
    BY <2>4, <2>5 DEF Fresh
<1>4. Heeds(r)'
  BY <1>1, <1>3 DEF Heeds, Fresh, Order, DuplicateQueryRuns
<1>5. Keeps(r)'
  BY <1>1 DEF Keeps, Executing, Logged, Settled
<1> QED
  BY <1>1, <1>2, <1>4, <1>5, StepKeeps

\* FailGate and DryRunGate: an order that passed was asked about.
LEMMA VerdictKeeps ==
  ASSUME LInv, IInv', NEW r \in Runs, NEW result \in Results,
         pc[r] = "gates", pc' = [pc EXCEPT ![r] = "log"],
         result # "REJECTED" => gate[r] = LastGate + 1,
         results' = [results EXCEPT ![r] = Append(@, result)],
         UNCHANGED <<columns, audit, checks, expired, live, plan, idx, gate, auditId, born>>
  PROVE  LInv'
<1>1. /\ Len(results'[r]) = Len(results[r]) + 1 /\ Len(results[r]) \in Nat
      /\ \A i \in 1 .. Len(results[r]) : results'[r][i] = results[r][i]
      /\ results'[r][Len(results[r]) + 1] = result
      /\ pc'[r] = "log" /\ idx[r] = Len(results[r]) + 1
      /\ Heeds(r) /\ Keeps(r)
  BY AppendProperties, RunFacts DEF LInv, IInv, TypeOK, Cursors
<1>2. Extended
  BY IdleTables
<1>3. \A s \in Runs \ {r} : Same(s) /\ born'[s] = born[s]
  BY DEF LInv, IInv, TypeOK, Same
<1>4. Heeds(r)'
  <2>1. ASSUME NEW i \in 1 .. Len(results'[r])
        PROVE  /\ results'[r][i] = "APPROVED" => Fresh(r, plan[r][i])
               /\ results'[r][i] # "REJECTED" => DuplicateQueryRuns
    <3>1. CASE i \in 1 .. Len(results[r])
      BY <1>1, <3>1 DEF Heeds
    <3>2. CASE i = idx[r]
      BY <1>1, <3>2 DEF Heeds, Order
    <3> QED
      BY <1>1, <3>1, <3>2
  <2> QED
    BY <1>1, <1>2, <2>1, HeedsStays
<1>5. Keeps(r)'
  <2>1. \A i \in 1 .. Len(results[r]) : Logged(r, i)'
    BY <1>1, <1>2, LoggedStays DEF Keeps
  <2>2. \A i \in 1 .. Len(results'[r]) : i # idx[r] => i \in 1 .. Len(results[r])
    BY <1>1
  <2> QED
    BY <1>1, <2>1, <2>2 DEF Keeps, Executing
<1> QED
  BY <1>2, <1>3, <1>4, <1>5, StepKeeps

\* A refusal by a gate ...
LEMMA FailGateKeeps == ASSUME LInv, NEW r \in Runs, FailGate(r) PROVE LInv'
BY FailGateInv, VerdictKeeps DEF LInv, FailGate, Results

\* ... and the verdict on an order that passed.
LEMMA DryRunGateKeeps == ASSUME LInv, NEW r \in Runs, DryRunGate(r) PROVE LInv'
<1>1. gate[r] = LastGate + 1 /\ IInv'
  <2>1. IInv /\ IInv'
    BY DryRunGateInv DEF LInv
  <2> QED
    BY <2>1, RunFacts DEF DryRunGate, LastGate
<1>2. CASE live[r]
  BY <1>1, <1>2, VerdictKeeps DEF DryRunGate, Results
<1>3. CASE ~live[r]
  BY <1>1, <1>3, VerdictKeeps DEF DryRunGate, Results
<1> QED
  BY <1>2, <1>3

\* DuplicateQueryFails, Finish and Crash: the command ends.
LEMMA EndKeeps ==
  ASSUME LInv, IInv', NEW r \in Runs, NEW end \in {"done", "aborted", "crashed"},
         pc[r] # "idle", pc' = [pc EXCEPT ![r] = end],
         end = "aborted" => pc[r] = "gates",
         end = "done" => pc[r] = "execute" /\ idx[r] > Len(plan[r]),
         UNCHANGED <<columns, audit, checks, expired, runVars>>
  PROVE  LInv'
<1> USE DEF runVars
<1>1. pc'[r] = end /\ Heeds(r) /\ Keeps(r) /\ Cursors(r)
      /\ Len(plan[r]) \in Nat /\ idx[r] \in Nat
  BY RunFacts DEF LInv, IInv, TypeOK
<1>2. Extended
  BY IdleTables
<1>3. \A s \in Runs \ {r} : Same(s) /\ born'[s] = born[s]
  BY DEF LInv, IInv, TypeOK, Same
<1>4. Heeds(r)'
  BY <1>1, <1>2, HeedsStays DEF Heeds
<1>5. Keeps(r)'
  <2>1. CASE end = "crashed"
    BY <1>1, <2>1 DEF Keeps, Executing
  <2>2. CASE end = "aborted"
    BY <1>1, <2>2 DEF Keeps, Executing, Logged
  <2>3. CASE end = "done"
    <3>1. /\ \A i \in 1 .. Len(results[r]) : Logged(r, i)
          /\ \A i \in 1 .. Len(plan[r]) : results[r][i] # "REJECTED" => Settled(r, i)
          /\ Len(results[r]) = Len(plan[r])
      BY <1>1, <2>3 DEF Keeps, Executing, Cursors
    <3> QED
      BY <1>1, <2>3, <3>1 DEF Keeps, Executing, Logged, Settled
  <2> QED
    BY <2>1, <2>2, <2>3
<1> QED
  BY <1>2, <1>3, <1>4, <1>5, StepKeeps

-----------------------------------------------------------------------------
(* ... and the steps that write to the log *)

\* The verdict row: a refusal wherever the log could not be asked.
LEMMA LogAttemptKeeps == ASSUME LInv, NEW r \in Runs, LogAttempt(r) PROVE LInv'
<1>1. IInv /\ IInv' /\ Heeds(r) /\ Keeps(r)
  BY LogAttemptInv DEF LInv
<1>2. /\ pc[r] = "log" /\ pc'[r] = "checks" /\ idx[r] \in 1 .. Len(results[r])
      /\ idx[r] <= Len(plan[r]) /\ Oid(r) \in OrderIds /\ Order(r) \in Orders
      /\ results[r][idx[r]] \in Results
      /\ UNCHANGED <<columns, expired, born, plan, idx, gate, results>>
  <2>1. pc[r] = "log" /\ pc'[r] = "checks" /\ UNCHANGED <<columns, expired, born, plan, idx, gate, results>>
    BY <1>1 DEF LogAttempt, IInv, TypeOK
  <2>2. idx[r] \in 1 .. Len(results[r]) /\ idx[r] <= Len(plan[r])
    BY <1>1, <2>1, RunFacts DEF Cursors, Validating
  <2> QED
    BY <1>1, <2>1, <2>2, RunFacts
<1>3. PICK row \in Row :
         /\ row = AttemptRow(r) /\ row.oid[1] = r /\ row.broker = "NOT_SENT"
         /\ row.validation = ValidationStatus(results[r][idx[r]])
  <2>1. ValidationStatus(results[r][idx[r]]) \in {"APPROVED", "BLOCKED", "DRY_RUN"}
    BY DEF ValidationStatus
  <2>2. (~live[r]) \in BOOLEAN
    OBVIOUS
  <2>3. AttemptRow(r) \in Row
    BY <1>2, <2>1, <2>2 DEF AttemptRow, Row
  <2> QED
    BY <2>3 DEF AttemptRow, Oid
<1>4. ~DuplicateQueryRuns => row.validation = "BLOCKED"
  BY <1>1, <1>2, <1>3 DEF Heeds, ValidationStatus
<1>5. Extended
  BY <1>2, <1>3, <1>4, InsertExtends DEF LogAttempt
<1>6. \A s \in Runs \ {r} : Same(s) /\ born'[s] = born[s]
  BY <1>1 DEF IInv, TypeOK, LogAttempt, Same
<1>7. Heeds(r)'
  BY <1>1, <1>2, <1>5, HeedsStays DEF Heeds
<1>8. Keeps(r)'
  BY <1>1, <1>2, <1>5, LoggedStays DEF Keeps, Executing
<1> QED
  BY <1>1, <1>5, <1>6, <1>7, <1>8, StepKeeps

\* A check row: with the first of them the verdict counts as logged.
LEMMA LogCheckKeeps == ASSUME LInv, NEW r \in Runs, LogCheck(r) PROVE LInv'
<1> DEFINE a == auditId[r]
<1>1. IInv /\ IInv' /\ Heeds(r) /\ Keeps(r)
  BY LogCheckInv DEF LInv
<1>2. /\ a \in 1 .. Len(audit) /\ audit'[a] = audit[a] /\ audit[a].oid = Oid(r)
      /\ checks'[a] # << >> /\ Grows
      /\ \A k \in 1 .. Len(audit) : audit[k].oid[1] # r => checks'[k] = checks[k]
      /\ \A s \in Runs \ {r} : Same(s)
  <2>1. Len(checks'[a]) \in 1 .. LastGate
    <3>1. Len(checks'[a]) \in 1 .. ChecksRun(r) /\ ChecksRun(r) \in 1 .. LastGate
      BY <1>1, CheckInserted
    <3>2. \A c \in 1 .. LastGate : \A m \in 1 .. c : m \in 1 .. LastGate
      BY DEF LastGate
    <3> QED
      BY <3>1, <3>2
  <2>2. Len(<< >>) = 0
    BY EmptySeq
  <2> QED
    BY <1>1, <2>1, <2>2, CheckInserted DEF Frame
<1>3. /\ pc[r] = "checks" /\ audit[a].stage = "validated"
      /\ Len(results[r]) = idx[r] /\ idx[r] <= Len(plan[r]) /\ idx[r] \in 1 .. MaxOrders + 1
      /\ UNCHANGED <<columns, audit, expired, plan, results, born>>
  BY <1>1, RunFacts DEF LogCheck, Logging, Cursors, Validating
<1>4. Extended
  <2>1. \A k \in 1 .. Len(audit) : checks[k] # << >> => checks'[k] # << >>
    <3> SUFFICES ASSUME NEW k \in 1 .. Len(audit), checks[k] # << >> PROVE checks'[k] # << >>
      OBVIOUS
    <3>1. CASE k = a
      BY <1>2, <3>1
    <3>2. CASE k # a
      <4>1. checks'[k] = checks[k]
        BY <1>1, <1>2, <3>2 DEF LogCheck, IInv, TypeOK
      <4> QED
        BY <4>1
    <3> QED
      BY <3>1, <3>2
  <2>2. expired \in Nat
    BY <1>1 DEF IInv, TypeOK
  <2> QED
    BY <1>2, <1>3, <2>1, <2>2, QuietExtends
<1>5. /\ pc'[r] \in {"checks", "gates", "execute"}
      /\ pc'[r] = "checks" => idx'[r] = idx[r]
      /\ pc'[r] = "gates" => gate'[r] = 1
      /\ pc'[r] = "execute" => idx'[r] = 1
  BY <1>1, <1>3 DEF LogCheck, IInv, TypeOK
<1>6. Heeds(r)'
  BY <1>1, <1>3, <1>4, <1>5, HeedsStays DEF Heeds, LastGate
<1>7. \A i \in 1 .. Len(results[r]) : i # idx[r] => Logged(r, i)'
  BY <1>1, <1>3, <1>4, LoggedStays DEF Keeps
<1>8. ASSUME NEW i, i = idx[r] PROVE Logged(r, i)'
  <2>1. /\ a \in 1 .. Len(audit') /\ audit'[a].oid = <<r, i>>
        /\ audit'[a].stage = "validated" /\ checks'[a] # << >>
    BY <1>2, <1>3, <1>8 DEF Oid
  <2> HIDE DEF a
  <2> QED
    BY <2>1 DEF Logged
<1>9. Keeps(r)'
  <2>1. \A i \in 1 .. Len(results'[r]) :
          (pc'[r] \in {"log", "checks"} => i # idx'[r]) => Logged(r, i)'
    BY <1>3, <1>5, <1>7, <1>8
  <2>2. \A i \in 1 .. Len(plan'[r]) : ~(pc'[r] = "execute" /\ i < idx'[r])
    BY <1>5
  <2> QED
    BY <1>5, <2>1, <2>2 DEF Keeps, Executing
<1> QED
  BY <1>1, <1>2, <1>3, <1>4, <1>6, <1>9, StepKeeps

\* Leaving out a rejected order leaves no outcome missing.
LEMMA SkipRejectedKeeps == ASSUME LInv, NEW r \in Runs, SkipRejected(r) PROVE LInv'
<1>1. IInv /\ IInv' /\ Heeds(r) /\ Keeps(r)
  BY SkipRejectedInv DEF LInv
<1>2. /\ pc[r] = "execute" /\ pc'[r] = "execute" /\ idx'[r] = idx[r] + 1
      /\ idx[r] \in 1 .. MaxOrders + 1 /\ results[r][idx[r]] = "REJECTED"
      /\ UNCHANGED <<columns, audit, checks, expired, born, plan, results>>
  <2>1. idx[r] \in 1 .. Len(results[r]) /\ idx[r] \in 1 .. MaxOrders + 1
    BY <1>1, RunFacts DEF SkipRejected, Cursors, Executing
  <2>2. results[r][idx[r]] = "REJECTED"
    BY <1>1, <2>1, RunFacts DEF SkipRejected, ToExecute, Results
  <2> QED
    BY <1>1, <2>1, <2>2 DEF SkipRejected, NextOrder, IInv, TypeOK
<1>3. Extended
  BY <1>2, IdleTables
<1>4. \A s \in Runs \ {r} : Same(s) /\ born'[s] = born[s]
  BY <1>1 DEF IInv, TypeOK, SkipRejected, NextOrder, Same
<1>5. Heeds(r)'
  BY <1>1, <1>2, <1>3, HeedsStays DEF Heeds
<1>6. Keeps(r)'
  <2>1. \A i \in 1 .. Len(plan[r]) : i < idx[r] + 1 => i < idx[r] \/ i = idx[r]
    BY <1>2
  <2> QED
    BY <1>1, <1>2, <1>3, <2>1, LoggedStays DEF Keeps, Executing
<1> QED
  BY <1>1, <1>3, <1>4, <1>5, <1>6, StepKeeps

\* RecordDryRun, RecordPlaced and RecordFailed: the outcome of an order that passed.
LEMMA OutcomeKeeps ==
  ASSUME LInv, IInv', NEW r \in Runs, NEW status \in {"DRY_RUN", "PLACED", "FAILED"},
         Executing(r), idx[r] <= Len(plan[r]),
         status = "PLACED" => Approved(r),
         results[r][idx[r]] # "REJECTED",
         Insert(OutcomeRow(r, status)), NextOrder(r),
         UNCHANGED <<columns, expired, live, plan, gate, results, auditId, born>>
  PROVE  LInv'
<1>1. IInv /\ Heeds(r) /\ Keeps(r)
  BY DEF LInv
<1>2. /\ pc'[r] = "execute" /\ idx'[r] = idx[r] + 1 /\ idx[r] \in 1 .. Len(results[r])
      /\ Oid(r) \in OrderIds /\ Order(r) \in Orders /\ Len(plan[r]) = Len(results[r])
      /\ pc[r] # "idle" /\ pc[r] \notin {"crashed", "log", "checks"}
  <2>1. idx[r] \in 1 .. Len(results[r]) /\ Len(plan[r]) = Len(results[r])
        /\ Oid(r) \in OrderIds /\ Order(r) \in Orders
    BY <1>1, RunFacts DEF Cursors, Executing
  <2> QED
    BY <1>1, <2>1 DEF NextOrder, IInv, TypeOK, Executing
<1>3. PICK row \in Row :
         /\ row = OutcomeRow(r, status) /\ row.oid = Oid(r) /\ row.oid[1] = r
         /\ row.stage = "executed" /\ row.order = Order(r)
         /\ row.broker = "OPEN" => status = "PLACED"
  <2>1. (~live[r]) \in BOOLEAN
    OBVIOUS
  <2>2. OutcomeRow(r, status) \in Row
    BY <1>2, <2>1 DEF OutcomeRow, Row
  <2> QED
    BY <2>2 DEF OutcomeRow, Oid
<1>4. DuplicateQueryRuns
  BY <1>1, <1>2 DEF Heeds
<1>5. row.broker = "OPEN" => Fresh(r, Order(r))
  BY <1>1, <1>2, <1>3 DEF Heeds, Approved, Order
<1>6. /\ Extended /\ Len(audit) \in Nat /\ Len(audit)' = Len(audit) + 1
      /\ audit'[Len(audit) + 1] = row
  BY <1>2, <1>3, <1>4, <1>5, InsertExtends
<1>7. \A s \in Runs \ {r} : Same(s) /\ born'[s] = born[s]
  BY <1>1 DEF IInv, TypeOK, NextOrder, Same
<1>8. Heeds(r)'
  BY <1>1, <1>2, <1>6, HeedsStays DEF Heeds
<1>9. ASSUME NEW i, i = idx[r] PROVE Settled(r, i)'
  <2>1. Len(audit) + 1 \in 1 .. Len(audit)' /\ audit'[Len(audit) + 1].oid = <<r, i>>
    BY <1>3, <1>6, <1>9 DEF Oid
  <2> QED
    BY <1>3, <1>6, <2>1 DEF Settled
<1>10. Keeps(r)'
  <2>1. \A i \in 1 .. Len(plan[r]) : i < idx[r] + 1 => i < idx[r] \/ i = idx[r]
    BY <1>2
  <2>2. \A i \in 1 .. Len(results[r]) : Logged(r, i)'
    BY <1>1, <1>2, <1>6, LoggedStays DEF Keeps
  <2>3. \A i \in 1 .. Len(plan[r]) :
          i < idx'[r] /\ results[r][i] # "REJECTED" => Settled(r, i)'
    BY <1>1, <1>2, <1>6, <1>9, <2>1, LoggedStays DEF Keeps
  <2> QED
    BY <1>2, <2>2, <2>3 DEF Keeps, Executing
<1> QED
  BY <1>6, <1>7, <1>8, <1>10, StepKeeps

\* The call to the broker writes nothing.
LEMMA CallBrokerKeeps == ASSUME LInv, NEW r \in Runs, CallBroker(r) PROVE LInv'
<1> USE DEF runVars
<1>1. IInv /\ IInv' /\ Heeds(r) /\ Keeps(r)
  BY CallBrokerInv DEF LInv
<1>2. /\ pc[r] = "execute" /\ pc'[r] \in {"placed", "raised"}
      /\ UNCHANGED <<columns, audit, checks, expired, born, plan, idx, results>>
      /\ \A s \in Runs \ {r} : Same(s) /\ born'[s] = born[s]
  BY <1>1 DEF CallBroker, IInv, TypeOK, Same
<1>3. Extended
  BY <1>2, IdleTables
<1>4. Heeds(r)'
  BY <1>1, <1>2, <1>3, HeedsStays DEF Heeds
<1>5. Keeps(r)'
  BY <1>1, <1>2, <1>3, LoggedStays DEF Keeps, Executing
<1> QED
  BY <1>1, <1>2, <1>3, <1>4, <1>5, StepKeeps

\* The clock and a stuttering step: the window only moves forward.
LEMMA ClockKeeps ==
  ASSUME LInv, IInv', UNCHANGED <<columns, audit, checks, pc, runVars>>,
         expired' \in Nat, expired <= expired'
  PROVE  LInv'
<1> USE DEF runVars
<1>1. Extended
  BY QuietExtends, UnchangedGrows DEF LInv, IInv
<1>2. \A s \in Runs : Same(s) /\ born'[s] = born[s]
  BY DEF Same
<1> QED
  BY <1>1, <1>2, OthersKeep, TablesStay DEF LInv

\* Every step keeps the log.
LEMMA NextLInv == LInv /\ [Next]_vars => LInv'
<1> SUFFICES ASSUME LInv, [Next]_vars PROVE LInv'
  OBVIOUS
<1>1. IInv'
  BY NextInv DEF LInv
<1>2. ASSUME NEW r \in Runs, Step(r) PROVE LInv'
  <2>1. CASE DuplicateQueryFails(r)
    BY <1>1, <2>1, EndKeeps DEF DuplicateQueryFails
  <2>2. CASE Finish(r)
    BY <1>1, <2>2, EndKeeps DEF Finish
  <2>3. CASE RecordDryRun(r)
    <3>1. Executing(r) /\ results[r][idx[r]] # "REJECTED"
      BY <2>3 DEF RecordDryRun, Executing, ToExecute
    <3> QED
      BY <1>1, <2>3, <3>1, OutcomeKeeps DEF RecordDryRun
  <2>4. CASE RecordPlaced(r)
    <3>1. Executing(r) /\ idx[r] <= Len(plan[r]) /\ Approved(r)
      BY <2>4, AnsweredIsLive, RunFacts DEF RecordPlaced, LInv, Cursors
    <3> QED
      BY <1>1, <2>4, <3>1, OutcomeKeeps DEF RecordPlaced, Approved
  <2>5. CASE RecordFailed(r)
    <3>1. Executing(r) /\ idx[r] <= Len(plan[r]) /\ Approved(r)
      BY <2>5, AnsweredIsLive, RunFacts DEF RecordFailed, LInv, Cursors
    <3> QED
      BY <1>1, <2>5, <3>1, OutcomeKeeps DEF RecordFailed, Approved
  <2> QED
    BY <1>2, <2>1, <2>2, <2>3, <2>4, <2>5, PassGateKeeps, FailGateKeeps, DryRunGateKeeps,
       LogAttemptKeeps, LogCheckKeeps, SkipRejectedKeeps, CallBrokerKeeps DEF Step
<1>3. ASSUME NEW r \in Runs, Crash(r) PROVE LInv'
  BY <1>1, <1>3, EndKeeps DEF Crash
<1>4. expired \in Nat
  BY DEF LInv, IInv, TypeOK
<1>5. CASE MarketOpensOrCloses
  BY <1>1, <1>4, <1>5, ClockKeeps DEF MarketOpensOrCloses
<1>6. CASE WindowMoves
  BY <1>1, <1>4, <1>6, ClockKeeps DEF WindowMoves
<1>7. CASE UNCHANGED vars
  BY <1>1, <1>4, <1>7, ClockKeeps DEF vars
<1> QED
  BY <1>2, <1>3, <1>5, <1>6, <1>7, StartKeeps DEF Next

\* For any number of commands and plans, crashes and a schema that breaks the duplicate
\* query included: every result is in the log, an order the log shows as placed is not
\* placed again by a later command, and where the log cannot be asked nothing is sent.
THEOREM LogKeptAndHeeded == Spec => []LogIsKeptAndHeeded
<1>1. LInv => ResultsAreLogged
  BY DEF LInv, Keeps, ResultsAreLogged
<1>2. LInv => NoLateDuplicate
  BY DEF LInv
<1>3. LInv => FaultFailsClosed
  BY DEF LInv, IInv, BlockedOnFault, FaultFailsClosed, Validated
<1>4. LInv => LogIsKeptAndHeeded
  BY <1>1, <1>2, <1>3 DEF LogIsKeptAndHeeded
<1> QED
  BY <1>4, InitLInv, NextLInv, PTL DEF Spec

-----------------------------------------------------------------------------
(* The pipeline implements OrderLedger.  The verdict and the outcome of an     *)
(* order are read off its rows; the inductive invariant says there is at most  *)
(* one row of each stage, so a row inserted for one order changes the ledger   *)
(* of that order alone.                                                        *)

\* The rows of an order and a stage are at most one row.
LEMMA RowIsUnique ==
  ASSUME IInv, NEW oid, NEW s \in {"validated", "executed"},
         NEW j \in RowsOf(oid, s), NEW k \in RowsOf(oid, s)
  PROVE  j = k
<1>1. /\ j \in 1 .. Len(audit) /\ k \in 1 .. Len(audit) /\ Len(audit) \in Nat
      /\ audit[j].oid = audit[k].oid /\ audit[j].stage = audit[k].stage
  BY Shapes DEF IInv, RowsOf
<1> QED
  BY <1>1 DEF IInv, RowsInOrder

\* What a row says is what the ledger has.
LEMMA LedgerOfRow ==
  ASSUME IInv, NEW k \in 1 .. Len(audit)
  PROVE  /\ audit[k].stage = "validated" => LedgerVerdict[audit[k].oid] = audit[k].validation
         /\ audit[k].stage = "executed" => LedgerOutcome[audit[k].oid] = audit[k].broker
<1> DEFINE oid == audit[k].oid
<1>1. oid \in OrderIds
  BY Shapes DEF IInv, Row
<1>2. ASSUME NEW s \in {"validated", "executed"}, audit[k].stage = s
      PROVE  RowsOf(oid, s) # {} /\ (CHOOSE j \in RowsOf(oid, s) : TRUE) = k
  <2>1. k \in RowsOf(oid, s)
    BY <1>2 DEF RowsOf
  <2>2. (CHOOSE j \in RowsOf(oid, s) : TRUE) \in RowsOf(oid, s)
    BY <2>1
  <2> QED
    BY <2>1, <2>2, RowIsUnique
<1> QED
  BY <1>1, <1>2 DEF LedgerVerdict, LedgerOutcome

\* An order without a row of a stage has no verdict or outcome yet.
LEMMA LedgerOfNone ==
  ASSUME NEW oid \in OrderIds
  PROVE  /\ RowsOf(oid, "validated") = {} => LedgerVerdict[oid] = "none"
         /\ RowsOf(oid, "executed") = {} => LedgerOutcome[oid] = "none"
BY DEF LedgerVerdict, LedgerOutcome

\* The ledger changes only with the audit trail.
LEMMA LedgerStays ==
  ASSUME UNCHANGED audit
  PROVE  LedgerVerdict' = LedgerVerdict /\ LedgerOutcome' = LedgerOutcome
BY DEF LedgerVerdict, LedgerOutcome, RowsOf

\* The first row of an order and a stage sets the ledger of that order alone.
LEMMA LedgerOfInsert ==
  ASSUME IInv, IInv', NEW row \in Row, Insert(row), RowsOf(row.oid, row.stage) = {}
  PROVE  /\ row.stage = "validated" =>
              /\ LedgerVerdict' = [LedgerVerdict EXCEPT ![row.oid] = row.validation]
              /\ LedgerOutcome' = LedgerOutcome
         /\ row.stage = "executed" =>
              /\ LedgerVerdict' = LedgerVerdict
              /\ LedgerOutcome' = [LedgerOutcome EXCEPT ![row.oid] = row.broker]
<1>1. /\ Len(audit) \in Nat /\ Len(audit') = Len(audit) + 1
      /\ \A k \in 1 .. Len(audit) : audit'[k] = audit[k]
      /\ audit'[Len(audit) + 1] = row
  BY InsertGrows, Shapes DEF IInv
<1>2. row.oid \in OrderIds /\ row.stage \in {"validated", "executed"}
  BY DEF Row
<1>3. ASSUME NEW oid, NEW s, oid # row.oid \/ s # row.stage
      PROVE  /\ RowsOf(oid, s)' = RowsOf(oid, s)
             /\ \A k \in RowsOf(oid, s) : audit'[k] = audit[k]
  BY <1>1, <1>3 DEF RowsOf
<1>4. ASSUME NEW oid \in OrderIds, NEW s, oid # row.oid \/ s # row.stage, RowsOf(oid, s) # {}
      PROVE  audit'[CHOOSE k \in RowsOf(oid, s)' : TRUE] = audit[CHOOSE k \in RowsOf(oid, s) : TRUE]
  <2> DEFINE c == CHOOSE k \in RowsOf(oid, s) : TRUE
  <2>1. c \in RowsOf(oid, s)
    BY <1>4
  <2>2. (CHOOSE k \in RowsOf(oid, s)' : TRUE) = c
    <3>1. RowsOf(oid, s)' = RowsOf(oid, s)
      BY <1>3, <1>4
    <3> QED
      BY <3>1, Zenon
  <2>3. audit'[c] = audit[c]
    BY <1>3, <1>4, <2>1
  <2> QED
    BY <2>2, <2>3
<1>5. ASSUME NEW oid \in OrderIds
      PROVE  /\ oid # row.oid \/ row.stage # "validated" => LedgerVerdict'[oid] = LedgerVerdict[oid]
             /\ oid # row.oid \/ row.stage # "executed" => LedgerOutcome'[oid] = LedgerOutcome[oid]
  BY <1>3, <1>4 DEF LedgerVerdict, LedgerOutcome
<1>6. /\ row.stage = "validated" => LedgerVerdict'[row.oid] = row.validation
      /\ row.stage = "executed" => LedgerOutcome'[row.oid] = row.broker
  <2> DEFINE n == Len(audit) + 1
  <2>1. RowsOf(row.oid, row.stage)' = {n} /\ audit'[n] = row
    BY <1>1 DEF RowsOf
  <2>2. (CHOOSE k \in {n} : TRUE) = n
    OBVIOUS
  <2> HIDE DEF n
  <2>3. (CHOOSE k \in RowsOf(row.oid, row.stage)' : TRUE) = n
    BY <2>1, <2>2, Zenon
  <2> QED
    BY <1>2, <2>1, <2>3 DEF LedgerVerdict, LedgerOutcome
<1>7. /\ LedgerVerdict = [oid \in OrderIds |-> LedgerVerdict[oid]]
      /\ LedgerVerdict' = [oid \in OrderIds |-> LedgerVerdict'[oid]]
      /\ LedgerOutcome = [oid \in OrderIds |-> LedgerOutcome[oid]]
      /\ LedgerOutcome' = [oid \in OrderIds |-> LedgerOutcome'[oid]]
  BY DEF LedgerVerdict, LedgerOutcome
<1> QED
  BY <1>2, <1>5, <1>6, <1>7
-----------------------------------------------------------------------------
(* One lemma per kind of step *)

\* An order has no row of the stage its run is about to write.
LEMMA NoRowYet ==
  ASSUME IInv, NEW r \in Runs
  PROVE  /\ pc[r] = "log" => RowsOf(Oid(r), "validated") = {}
         /\ Executing(r) => RowsOf(Oid(r), "executed") = {}
<1> SUFFICES ASSUME NEW k \in 1 .. Len(audit), audit[k].oid = Oid(r)
             PROVE  pc[r] # "log" /\ (Executing(r) => audit[k].stage # "executed")
  BY DEF RowsOf
<1>1. RowFits(audit[k]) /\ audit[k].oid[1] = r /\ audit[k].oid[2] = idx[r]
  BY DEF IInv, Oid
<1>2. idx[r] \in 1 .. MaxOrders + 1 /\ MaxOrders \in Nat
  BY RunFacts
<1> QED
  BY <1>1, <1>2 DEF RowFits, Validating, Executing

\* The ledger has the verdict of the order a run is executing.
LEMMA LedgerKnowsVerdict ==
  ASSUME IInv, NEW r \in Runs, Executing(r), idx[r] <= Len(plan[r])
  PROVE  LedgerVerdict[Oid(r)] = ValidationStatus(results[r][idx[r]])
<1>1. VerdictsRecorded(r) /\ idx[r] \in 1 .. Len(results[r])
  BY RunFacts DEF Cursors
<1>2. Recorded(r, idx[r])
  BY <1>1 DEF VerdictsRecorded, Executing
<1> QED
  BY <1>2, LedgerOfRow DEF Recorded, Oid

\* _log_validation proposes the order with its verdict.
LEMMA LogAttemptProposes ==
  ASSUME IInv, IInv', NEW r \in Runs, LogAttempt(r)
  PROVE  \E v \in Ledger!Verdicts : Ledger!Propose(Oid(r), v)
<1>1. idx[r] <= Len(plan[r]) /\ Oid(r) \in OrderIds /\ Order(r) \in Orders
  BY RunFacts DEF LogAttempt, Cursors, Validating
<1>2. /\ ValidationStatus(results[r][idx[r]]) \in {"APPROVED", "BLOCKED", "DRY_RUN"}
      /\ (~live[r]) \in BOOLEAN
  BY DEF ValidationStatus
<1>3. AttemptRow(r) \in Row
  BY <1>1, <1>2 DEF AttemptRow, Row
<1>4. /\ AttemptRow(r).oid = Oid(r) /\ AttemptRow(r).stage = "validated"
      /\ AttemptRow(r).validation = ValidationStatus(results[r][idx[r]])
  BY DEF AttemptRow
<1>5. RowsOf(Oid(r), "validated") = {} /\ Insert(AttemptRow(r)) /\ UNCHANGED book
  BY NoRowYet DEF LogAttempt
<1>6. PICK row \in Row : row = AttemptRow(r)
  BY <1>3
<1>7. /\ LedgerVerdict' = [LedgerVerdict EXCEPT ![Oid(r)] = ValidationStatus(results[r][idx[r]])]
      /\ LedgerOutcome' = LedgerOutcome
      /\ LedgerVerdict[Oid(r)] = "none"
  BY <1>1, <1>4, <1>5, <1>6, LedgerOfInsert, LedgerOfNone
<1> QED
  BY <1>2, <1>5, <1>7 DEF Ledger!Propose, Ledger!Verdicts

\* An outcome row sets the outcome of its order.
LEMMA OutcomeSets ==
  ASSUME IInv, IInv', NEW r \in Runs, NEW status \in {"DRY_RUN", "PLACED", "FAILED"},
         Executing(r), idx[r] <= Len(plan[r]), Insert(OutcomeRow(r, status))
  PROVE  /\ LedgerVerdict' = LedgerVerdict
         /\ LedgerOutcome' = [LedgerOutcome EXCEPT ![Oid(r)] = OutcomeRow(r, status).broker]
         /\ LedgerOutcome[Oid(r)] = "none"
         /\ Oid(r) \in OrderIds
<1>1. Oid(r) \in OrderIds /\ Order(r) \in Orders /\ (~live[r]) \in BOOLEAN
  <2>1. (~live[r]) \in BOOLEAN
    OBVIOUS
  <2> QED
    BY <2>1, RunFacts
<1>2. PICK row \in Row : row = OutcomeRow(r, status)
  BY <1>1 DEF OutcomeRow, Row
<1>3. row.oid = Oid(r) /\ row.stage = "executed"
  BY <1>2 DEF OutcomeRow
<1> QED
  BY <1>1, <1>2, <1>3, NoRowYet, LedgerOfInsert, LedgerOfNone

\* place_order in a dry run simulates the order.
LEMMA RecordDryRunSimulates ==
  ASSUME IInv, IInv', NEW r \in Runs, RecordDryRun(r)
  PROVE  Ledger!Simulate(Oid(r))
<1>1. Executing(r) /\ idx[r] <= Len(plan[r]) /\ UNCHANGED book
  BY DEF RecordDryRun, Executing
<1>2. results[r][idx[r]] = "SKIPPED_DRY_RUN"
  <2>1. idx[r] \in 1 .. Len(results[r]) /\ ResultsFit(r)
    BY <1>1, RunFacts DEF Cursors
  <2> QED
    BY <2>1 DEF ResultsFit, ToExecute, RecordDryRun
<1>3. LedgerVerdict[Oid(r)] = "DRY_RUN"
  BY <1>1, <1>2, LedgerKnowsVerdict DEF ValidationStatus
<1>4. OutcomeRow(r, "DRY_RUN").broker = "NOT_SENT"
  BY DEF OutcomeRow
<1> QED
  BY <1>1, <1>3, <1>4, OutcomeSets DEF RecordDryRun, Ledger!Simulate

\* RecordPlaced and RecordFailed report the broker's answer.
LEMMA RecordReports ==
  ASSUME IInv, IInv', NEW r \in Runs, RecordPlaced(r) \/ RecordFailed(r)
  PROVE  \E b \in {"OPEN", "REJECTED"} : Ledger!Report(Oid(r), b)
<1>1. /\ Executing(r) /\ idx[r] <= Len(plan[r]) /\ UNCHANGED book
      /\ Approved(r) /\ (RecordPlaced(r) => Oid(r) \in book)
  BY AnsweredIsLive, RunFacts DEF RecordPlaced, RecordFailed, Cursors
<1>2. LedgerVerdict[Oid(r)] = "APPROVED"
  BY <1>1, LedgerKnowsVerdict DEF ValidationStatus, Approved
<1>3. CASE RecordPlaced(r)
  <2>1. OutcomeRow(r, "PLACED").broker = "OPEN"
    BY DEF OutcomeRow
  <2>2. Ledger!Report(Oid(r), "OPEN")
    BY <1>1, <1>2, <1>3, <2>1, OutcomeSets DEF RecordPlaced, Ledger!Report
  <2> QED
    BY <2>2
<1>4. CASE RecordFailed(r)
  <2>1. OutcomeRow(r, "FAILED").broker = "REJECTED"
    BY DEF OutcomeRow
  <2>2. Ledger!Report(Oid(r), "REJECTED")
    BY <1>1, <1>2, <1>4, <2>1, OutcomeSets DEF RecordFailed, Ledger!Report
  <2> QED
    BY <2>2
<1> QED
  BY <1>3, <1>4

\* kite.place_order sends the order, or the broker refuses it and nothing happens.
LEMMA CallBrokerSends ==
  ASSUME IInv, NEW r \in Runs, CallBroker(r)
  PROVE  Ledger!Send(Oid(r)) \/ UNCHANGED Ledger!vars
<1>1. /\ pc[r] = "execute" /\ Executing(r) /\ idx[r] <= Len(plan[r]) /\ Approved(r)
      /\ UNCHANGED audit
      /\ book' = book \/ book' = book \union {Oid(r)}
  BY DEF CallBroker, Executing
<1>2. LedgerVerdict' = LedgerVerdict /\ LedgerOutcome' = LedgerOutcome
  BY <1>1, LedgerStays
<1>3. LedgerVerdict[Oid(r)] = "APPROVED"
  BY <1>1, LedgerKnowsVerdict DEF ValidationStatus, Approved
<1>4. LedgerOutcome[Oid(r)] = "none"
  BY <1>1, NoRowYet, LedgerOfNone, RunFacts
<1>5. Oid(r) \notin book
  <2>1. idx[r] \in 1 .. MaxOrders + 1 /\ MaxOrders \in Nat /\ Oid(r)[1] = r /\ Oid(r)[2] = idx[r]
    BY RunFacts DEF Oid
  <2> QED
    BY <1>1, <2>1 DEF IInv, SentFits, Executing
<1> QED
  BY <1>1, <1>2, <1>3, <1>4, <1>5 DEF Ledger!Send, Ledger!vars
-----------------------------------------------------------------------------
\* The pipeline starts with an empty ledger, and each of its steps proposes, sends,
\* reports or simulates one order or leaves the ledger unchanged.
THEOREM Refinement == Spec => ImplementsLedger
<1>1. Init => Ledger!Init
  BY LedgerOfNone DEF Init, Ledger!Init, LedgerVerdict, LedgerOutcome, RowsOf
<1>2. IInv /\ IInv' /\ [Next]_vars => [Ledger!Next]_Ledger!vars
  <2> SUFFICES ASSUME IInv, IInv', [Next]_vars PROVE Ledger!Next \/ UNCHANGED Ledger!vars
    OBVIOUS
  <2>1. CASE UNCHANGED <<audit, book>>
    BY <2>1, LedgerStays DEF Ledger!vars
  <2>2. ASSUME NEW r \in Runs, Step(r), ~UNCHANGED <<audit, book>>
        PROVE  Ledger!Next \/ UNCHANGED Ledger!vars
    <3>1. \/ LogAttempt(r) \/ RecordDryRun(r) \/ CallBroker(r)
          \/ RecordPlaced(r) \/ RecordFailed(r)
      BY <2>2 DEF Step, PassGate, FailGate, DuplicateQueryFails, DryRunGate, LogCheck,
                  SkipRejected, Finish
    <3>2. Oid(r) \in OrderIds
      <4>1. idx[r] <= Len(plan[r])
        BY <3>1, RunFacts, AnsweredIsLive
           DEF LogAttempt, RecordDryRun, CallBroker, RecordPlaced, RecordFailed, Cursors, Validating
      <4> QED
        BY <4>1, RunFacts
    <3> QED
      BY <3>1, <3>2, LogAttemptProposes, RecordDryRunSimulates, CallBrokerSends, RecordReports
         DEF Ledger!Next
  <2> QED
    BY <2>1, <2>2 DEF Next, Start, Crash, MarketOpensOrCloses, WindowMoves, vars
<1> QED
  BY <1>1, <1>2, Invariance, PTL DEF Spec, ImplementsLedger, Ledger!Spec
=============================================================================
