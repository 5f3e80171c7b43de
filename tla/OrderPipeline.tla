---------------------------- MODULE OrderPipeline ----------------------------
(***************************************************************************)
(* The live-order path: src/execution/gatekeeper.py, order_router.py and   *)
(* the audit tables they append to.                                        *)
(*                                                                         *)
(* A run is one execution of the command at the end of order_router.py: it *)
(* takes a rebalance plan, validates EVERY order of it (validate_plan) and *)
(* only then places the orders that passed (execute_plan).  Several        *)
(* commands may run at once, each on its own process: they share the two   *)
(* audit tables, the clock and the broker.  A command can be killed, or    *)
(* die of an exception nobody catches, between any two of its steps.       *)
(*                                                                         *)
(* DRY_RUN_MODE is read from the process environment, which nothing writes *)
(* while the process lives, so it is one value per run (live).  The data   *)
(* behind gates 2 to 7 (margins, holdings, quotes, equity curve) is        *)
(* abstracted to what the gate finds; gates 1 and 8 read modelled state.   *)
(***************************************************************************)
EXTENDS Naturals, Sequences

CONSTANTS Runs,            \* executions of the command
          Orders,          \* an order stands for its (symbol, side, quantity)
          Buys,            \* the BUY orders; the others are SELLs
          MaxOrders,       \* max_rebalance_orders: a plan holds no more orders
          Plans,           \* the plans the rebalancer may produce
          Uncertain,       \* bound: the gates whose data vary, the rest find "ok"
          Schemas          \* the columns order_audit_trail may have been created with

ASSUME PipelineAssumption == /\ Buys \subseteq Orders
                             /\ MaxOrders \in Nat
                             /\ \A p \in Plans : p \in Seq(Orders) /\ Len(p) <= MaxOrders

\* The gates of validate_order in the order it runs them.
Gates == <<"MARKET_HOURS", "MARGIN", "SELLABLE", "PRICE_BAND", "SLIPPAGE",
           "CONCENTRATION", "PORTFOLIO_LIMITS", "DUPLICATE">>
LastGate == 8

\* "breach": the figure is over its limit; "unverified": it cannot be confirmed.
Findings == {"ok", "breach", "unverified"}

Results == {"APPROVED", "REJECTED", "SKIPPED_DRY_RUN"}

VARIABLES
  columns,      \* the columns of order_audit_trail
  marketOpen,   \* is_market_open()
  audit,        \* order_audit_trail: its rows in id order
  checks,       \* order_validation_log: the check rows of each audit row
  expired,      \* how many of the oldest audit rows are past the duplicate window
  book,         \* the internal ids of the orders the broker accepted
  pc,           \* where each run is
  live,         \* per run: DRY_RUN_MODE is "false"
  plan,         \* per run: the plan
  idx,          \* per run: the order of the plan it is working on
  gate,         \* per run: the gate it runs next
  results,      \* per run: the ValidationReport results so far
  auditId,      \* per run: the audit row its check rows belong to
  born          \* history: how many audit rows there were when the run started

runVars == <<live, plan, idx, gate, results, auditId, born>>
vars == <<columns, marketOpen, audit, checks, expired, book, pc, runVars>>

Oid(r) == <<r, idx[r]>>
OrderIds == Runs \X (1 .. MaxOrders)
Order(r) == plan[r][idx[r]]
-----------------------------------------------------------------------------
(* The gates *)

\* The validators' own rules: a gate of the other side always passes, a dry run
\* tolerates a portfolio-limit breach and figures that cannot be confirmed.
Passes(g, o, found, isLive) ==
  \/ found = "ok"
  \/ g \in {"MARGIN", "CONCENTRATION", "PORTFOLIO_LIMITS"} /\ o \notin Buys
  \/ g = "SELLABLE" /\ o \in Buys
  \/ g = "PORTFOLIO_LIMITS" /\ ~isLive
  \/ g \in {"SELLABLE", "PRICE_BAND"} /\ found = "unverified" /\ ~isLive

\* Mutant: the status the router writes, OPEN, is missing from the query.
RecentDuplicateMissesOpen(o) ==
  \E k \in (expired + 1) .. Len(audit) :
    audit[k].order = o /\ audit[k].broker \in {"PLACED", "COMPLETE"}

\* An identical order was placed inside the cooldown window.
RecentDuplicate(o) ==
  \E k \in (expired + 1) .. Len(audit) :
    audit[k].order = o /\ audit[k].broker \in {"PLACED", "COMPLETE", "OPEN"}

\* The columns the duplicate query names; PostgreSQL refuses it if one is missing.
DuplicateQueryColumns == {"id", "tradingsymbol", "transaction_type",
                          "quantity", "placed_at", "status"}
DuplicateQueryRuns == DuplicateQueryColumns \subseteq columns

\* What gate g may find about order o at this moment.
Found(g, o) ==
  CASE g = "MARKET_HOURS" -> {IF marketOpen THEN "ok" ELSE "breach"}
    [] g = "DUPLICATE"    -> {IF RecentDuplicate(o) THEN "breach" ELSE "ok"}
    [] OTHER              -> IF g \in Uncertain THEN Findings ELSE {"ok"}

\* One row per gate that ran; only the last can be a failed one.
CheckRow(r, n) == [check |-> Gates[n], passed |-> n < gate[r]]

\* Mutant: the last check row is lost.
ChecksRunShort(r) == IF gate[r] > LastGate THEN LastGate - 1 ELSE gate[r]
ChecksRun(r) == IF gate[r] > LastGate THEN LastGate ELSE gate[r]

AllPassed == [n \in 1 .. LastGate |-> [check |-> Gates[n], passed |-> TRUE]]
-----------------------------------------------------------------------------
(* Rows of order_audit_trail *)

ValidationStatus(result) == CASE result = "APPROVED" -> "APPROVED"
                              [] result = "REJECTED" -> "BLOCKED"
                              [] OTHER               -> "DRY_RUN"

\* Mutant: is_dry_run keeps its default.
AttemptRowNotDry(r) == [oid |-> Oid(r), order |-> Order(r), stage |-> "validated",
                        validation |-> ValidationStatus(results[r][idx[r]]),
                        broker |-> "NOT_SENT", dry |-> FALSE]

\* record_order_attempt: the verdict, before anything is sent.
AttemptRow(r) == [oid |-> Oid(r), order |-> Order(r), stage |-> "validated",
                  validation |-> ValidationStatus(results[r][idx[r]]),
                  broker |-> "NOT_SENT", dry |-> ~live[r]]

\* Mutants: the router's status is stored as it is; every live outcome is OPEN.
OutcomeRowRaw(r, status) ==
  [oid |-> Oid(r), order |-> Order(r), stage |-> "executed", validation |-> "APPROVED",
   broker |-> IF status = "DRY_RUN" THEN "NOT_SENT" ELSE status, dry |-> ~live[r]]
OutcomeRowOpen(r, status) ==
  [oid |-> Oid(r), order |-> Order(r), stage |-> "executed", validation |-> "APPROVED",
   broker |-> IF status = "DRY_RUN" THEN "NOT_SENT" ELSE "OPEN", dry |-> ~live[r]]

\* record_broker_execution: what became of it.
OutcomeRow(r, status) ==
  [oid |-> Oid(r), order |-> Order(r), stage |-> "executed",
   validation |-> IF status = "DRY_RUN" THEN "DRY_RUN" ELSE "APPROVED",
   broker |-> CASE status = "DRY_RUN" -> "NOT_SENT"
                [] status = "PLACED"  -> "OPEN"
                [] OTHER              -> "REJECTED",
   dry |-> ~live[r]]

\* One INSERT in its own transaction; the new row has no check rows yet.
Insert(row) == /\ audit' = Append(audit, row)
               /\ checks' = Append(checks, << >>)
-----------------------------------------------------------------------------
Init == /\ columns \in Schemas
        /\ marketOpen \in BOOLEAN
        /\ audit = << >>
        /\ checks = << >>
        /\ expired = 0
        /\ book = {}
        /\ pc = [r \in Runs |-> "idle"]
        /\ live = [r \in Runs |-> FALSE]
        /\ plan = [r \in Runs |-> << >>]
        /\ idx = [r \in Runs |-> 1]
        /\ gate = [r \in Runs |-> 1]
        /\ results = [r \in Runs |-> << >>]
        /\ auditId = [r \in Runs |-> 0]
        /\ born = [r \in Runs |-> 0]

\* The command starts with a plan from the rebalancer.
Start(r) ==
  /\ pc[r] = "idle"
  /\ \E p \in Plans, l \in BOOLEAN :
       /\ plan' = [plan EXCEPT ![r] = p]
       /\ live' = [live EXCEPT ![r] = l]
       /\ pc' = [pc EXCEPT ![r] = IF p = << >> THEN "done" ELSE "gates"]
  /\ born' = [born EXCEPT ![r] = Len(audit)]
  /\ UNCHANGED <<columns, marketOpen, audit, checks, expired, book, idx, gate, results, auditId>>

\* One gate of validate_order finds the order in order: on to the next gate ...
PassGate(r) ==
  /\ pc[r] = "gates" /\ gate[r] <= LastGate
  /\ Gates[gate[r]] = "DUPLICATE" => DuplicateQueryRuns
  /\ \E found \in Found(Gates[gate[r]], Order(r)) :
       Passes(Gates[gate[r]], Order(r), found, live[r])
  /\ gate' = [gate EXCEPT ![r] = @ + 1]
  /\ UNCHANGED <<columns, marketOpen, audit, checks, expired, book, pc, live, plan, idx, results, auditId, born>>

\* ... or not: the order is REJECTED and the gates after it do not run.
FailGate(r) ==
  /\ pc[r] = "gates" /\ gate[r] <= LastGate
  /\ Gates[gate[r]] = "DUPLICATE" => DuplicateQueryRuns
  /\ \E found \in Found(Gates[gate[r]], Order(r)) :
       ~Passes(Gates[gate[r]], Order(r), found, live[r])
  /\ results' = [results EXCEPT ![r] = Append(@, "REJECTED")]
  /\ pc' = [pc EXCEPT ![r] = "log"]
  /\ UNCHANGED <<columns, marketOpen, audit, checks, expired, book, live, plan, idx, gate, auditId, born>>

\* Mutant: the exception is swallowed and the gate counts as passed.
DuplicateQueryIgnored(r) ==
  /\ pc[r] = "gates" /\ gate[r] <= LastGate
  /\ Gates[gate[r]] = "DUPLICATE" /\ ~DuplicateQueryRuns
  /\ gate' = [gate EXCEPT ![r] = @ + 1]
  /\ UNCHANGED <<columns, marketOpen, audit, checks, expired, book, pc, live, plan, idx, results, auditId, born>>

\* The duplicate query names a column the table does not have: the exception
\* leaves validate_order, validate_plan and the command.
DuplicateQueryFails(r) ==
  /\ pc[r] = "gates" /\ gate[r] <= LastGate
  /\ Gates[gate[r]] = "DUPLICATE" /\ ~DuplicateQueryRuns
  /\ pc' = [pc EXCEPT ![r] = "aborted"]
  /\ UNCHANGED <<columns, marketOpen, audit, checks, expired, book, runVars>>

\* Gate 8 of the docstring: every check passed, is this a dry run?
DryRunGate(r) ==
  /\ pc[r] = "gates" /\ gate[r] > LastGate
  /\ results' = [results EXCEPT ![r] =
                   Append(@, IF live[r] THEN "APPROVED" ELSE "SKIPPED_DRY_RUN")]
  /\ pc' = [pc EXCEPT ![r] = "log"]
  /\ UNCHANGED <<columns, marketOpen, audit, checks, expired, book, live, plan, idx, gate, auditId, born>>

\* _log_validation: the attempt row ...
LogAttempt(r) ==
  /\ pc[r] = "log"
  /\ Insert(AttemptRow(r))
  /\ auditId' = [auditId EXCEPT ![r] = Len(audit) + 1]
  /\ pc' = [pc EXCEPT ![r] = "checks"]
  /\ UNCHANGED <<columns, marketOpen, expired, book, live, plan, idx, gate, results, born>>

\* ... and its check rows, one transaction each. After the last one validate_plan
\* goes on with the next order, or execute_plan begins.
LogCheck(r) ==
  /\ pc[r] = "checks"
  /\ LET n == Len(checks[auditId[r]]) + 1
     IN  /\ checks' = [checks EXCEPT ![auditId[r]] = Append(@, CheckRow(r, n))]
         /\ IF n < ChecksRun(r)
              THEN UNCHANGED <<pc, idx, gate>>
              ELSE LET last == idx[r] = Len(plan[r])
                   IN  /\ pc' = [pc EXCEPT ![r] = IF last THEN "execute" ELSE "gates"]
                       /\ idx' = [idx EXCEPT ![r] = IF last THEN 1 ELSE @ + 1]
                       /\ gate' = [gate EXCEPT ![r] = 1]
  /\ UNCHANGED <<columns, marketOpen, audit, expired, book, live, plan, results, auditId, born>>
-----------------------------------------------------------------------------
(* execute_plan and place_order *)

\* is_approved is set with APPROVED and nowhere else.
Approved(r) == results[r][idx[r]] = "APPROVED"
ToExecute(r) == results[r][idx[r]] \in {"APPROVED", "SKIPPED_DRY_RUN"}

NextOrder(r) == /\ idx' = [idx EXCEPT ![r] = @ + 1]
                /\ pc' = [pc EXCEPT ![r] = "execute"]

\* Mutant: the loop does not move past a rejected report.
SkipRejectedStuck(r) ==
  /\ pc[r] = "execute" /\ idx[r] <= Len(plan[r])
  /\ ~ToExecute(r)
  /\ UNCHANGED vars

\* execute_plan leaves out the rejected reports.
SkipRejected(r) ==
  /\ pc[r] = "execute" /\ idx[r] <= Len(plan[r])
  /\ ~ToExecute(r)
  /\ NextOrder(r)
  /\ UNCHANGED <<columns, marketOpen, audit, checks, expired, book, live, plan, gate, results, auditId, born>>

\* place_order in a dry run: only the outcome row.
RecordDryRun(r) ==
  /\ pc[r] = "execute" /\ idx[r] <= Len(plan[r])
  /\ ToExecute(r) /\ ~live[r]
  /\ Insert(OutcomeRow(r, "DRY_RUN"))
  /\ NextOrder(r)
  /\ UNCHANGED <<columns, marketOpen, expired, book, live, plan, gate, results, auditId, born>>

\* kite.place_order: accepted; accepted but the answer is lost; or not accepted
\* (refused, unreachable, no session).
CallBroker(r) ==
  /\ pc[r] = "execute" /\ idx[r] <= Len(plan[r])
  /\ ToExecute(r) /\ live[r] /\ Approved(r)
  /\ \E answer \in {"accepted", "lost", "refused"} :
       /\ book' = IF answer = "refused" THEN book ELSE book \union {Oid(r)}
       /\ pc' = [pc EXCEPT ![r] = IF answer = "accepted" THEN "placed" ELSE "raised"]
  /\ UNCHANGED <<columns, marketOpen, audit, checks, expired, runVars>>

\* The broker answered with an order id: log PLACED.
RecordPlaced(r) ==
  /\ pc[r] = "placed"
  /\ Insert(OutcomeRow(r, "PLACED"))
  /\ NextOrder(r)
  /\ UNCHANGED <<columns, marketOpen, expired, book, live, plan, gate, results, auditId, born>>

\* Mutants: the failure is not logged; the failed order is tried again.
FailureUnlogged(r) ==
  /\ pc[r] = "raised"
  /\ NextOrder(r)
  /\ UNCHANGED <<columns, marketOpen, audit, checks, expired, book, live, plan, gate, results, auditId, born>>
FailureRetried(r) ==
  /\ pc[r] = "raised"
  /\ Insert(OutcomeRow(r, "FAILED"))
  /\ pc' = [pc EXCEPT ![r] = "execute"]
  /\ UNCHANGED <<columns, marketOpen, expired, book, runVars>>

\* The call raised: log FAILED and go on.
RecordFailed(r) ==
  /\ pc[r] = "raised"
  /\ Insert(OutcomeRow(r, "FAILED"))
  /\ NextOrder(r)
  /\ UNCHANGED <<columns, marketOpen, expired, book, live, plan, gate, results, auditId, born>>

Finish(r) ==
  /\ pc[r] = "execute" /\ idx[r] > Len(plan[r])
  /\ pc' = [pc EXCEPT ![r] = "done"]
  /\ UNCHANGED <<columns, marketOpen, audit, checks, expired, book, runVars>>
-----------------------------------------------------------------------------
(* What else happens *)

\* A kill, or an exception from the database: the process is gone.
Crash(r) ==
  /\ pc[r] \notin {"idle", "done", "aborted", "crashed"}
  /\ pc' = [pc EXCEPT ![r] = "crashed"]
  /\ UNCHANGED <<columns, marketOpen, audit, checks, expired, book, runVars>>

MarketOpensOrCloses ==
  /\ marketOpen' = ~marketOpen
  /\ UNCHANGED <<columns, audit, checks, expired, book, pc, runVars>>

\* Time passes: the oldest fresh row leaves the duplicate window.
WindowMoves ==
  /\ expired < Len(audit)
  /\ expired' = expired + 1
  /\ UNCHANGED <<columns, marketOpen, audit, checks, book, pc, runVars>>

Step(r) == \/ PassGate(r) \/ FailGate(r) \/ DuplicateQueryFails(r) \/ DryRunGate(r)
           \/ LogAttempt(r) \/ LogCheck(r)
           \/ SkipRejected(r) \/ RecordDryRun(r) \/ CallBroker(r)
           \/ RecordPlaced(r) \/ RecordFailed(r) \/ Finish(r)

Next == \/ \E r \in Runs : Start(r) \/ Step(r) \/ Crash(r)
        \/ MarketOpensOrCloses
        \/ WindowMoves

\* A started command keeps running until it ends: it is a sequential program.
Fairness == \A r \in Runs : WF_vars(Step(r))

Spec == Init /\ [][Next]_vars /\ Fairness
-----------------------------------------------------------------------------
(* Properties *)

PCs == {"idle", "gates", "log", "checks", "execute", "placed", "raised",
        "done", "aborted", "crashed"}
Row == [oid : OrderIds, order : Orders, stage : {"validated", "executed"},
        validation : {"APPROVED", "BLOCKED", "DRY_RUN"},
        broker : {"NOT_SENT", "OPEN", "REJECTED"}, dry : BOOLEAN]
Check == [check : {Gates[n] : n \in 1 .. LastGate}, passed : BOOLEAN]

\* The type of every variable.
TypeOK == /\ columns \in Schemas
          /\ marketOpen \in BOOLEAN
          /\ audit \in Seq(Row)
          /\ checks \in Seq(Seq(Check)) /\ Len(checks) = Len(audit)
          /\ expired \in 0 .. Len(audit)
          /\ book \subseteq OrderIds
          /\ pc \in [Runs -> PCs]
          /\ live \in [Runs -> BOOLEAN]
          /\ plan \in [Runs -> Seq(Orders)]
          /\ idx \in [Runs -> 1 .. MaxOrders + 1]
          /\ gate \in [Runs -> 1 .. LastGate + 1]
          /\ results \in [Runs -> Seq(Results)]
          /\ auditId \in [Runs -> Nat]
          /\ born \in [Runs -> Nat]

\* An order the broker holds was validated first: its APPROVED attempt row is in
\* the audit trail and its eight check rows are all there, all passed.  So a
\* crash, a lost row or another command never lets an order go out unrecorded.
Validated(oid) == \E k \in 1 .. Len(audit) :
                    /\ audit[k].oid = oid
                    /\ audit[k].validation = "APPROVED" /\ audit[k].stage = "validated"
                    /\ checks[k] = AllPassed
OnlyValidatedOrdersReachBroker == \A oid \in book : Validated(oid)

\* A command in dry-run mode never has an order at the broker, and nothing it
\* writes to the audit trail looks like a real order.
DryRunNeverTrades ==
  \A r \in Runs : ~live[r] =>
    /\ \A oid \in book : oid[1] # r
    /\ \A k \in 1 .. Len(audit) :
         audit[k].oid[1] = r => audit[k].dry /\ audit[k].broker = "NOT_SENT"

\* The audit trail never claims more than happened: an OPEN row is of an order
\* the broker accepted, and an order has one attempt row and at most one outcome
\* row, in this order, however the runs interleave.
RowsInOrder ==
  \A j, k \in 1 .. Len(audit) :
    audit[j].oid = audit[k].oid /\ j < k =>
      audit[j].stage = "validated" /\ audit[k].stage = "executed"
AuditTellsTheTruth ==
  /\ \A k \in 1 .. Len(audit) : audit[k].broker = "OPEN" => audit[k].oid \in book
  /\ RowsInOrder

\* A command that starts after an identical order was logged as placed, while
\* that row is inside the duplicate window, does not place it again.  (Two
\* commands that overlap, or a lost broker answer, are outside this promise.)
NoLateDuplicate ==
  \A j, k \in 1 .. Len(audit) :
    /\ j < k /\ expired < j
    /\ audit[j].broker = "OPEN" /\ audit[k].broker = "OPEN"
    /\ audit[j].order = audit[k].order
    => born[audit[k].oid[1]] < j

\* Each result is written to the audit log: a command that ended by itself left the
\* verdict, with its check rows, on every order it came to a result for; one that
\* finished came to a result for its whole plan and left an outcome for every order
\* that passed.
Logged(r, i) == \E k \in 1 .. Len(audit) :
                  audit[k].oid = <<r, i>> /\ audit[k].stage = "validated" /\ checks[k] # << >>
Settled(r, i) == \E k \in 1 .. Len(audit) :
                  audit[k].oid = <<r, i>> /\ audit[k].stage = "executed"
ResultsAreLogged ==
  \A r \in Runs :
    /\ pc[r] \in {"done", "aborted"} => \A i \in 1 .. Len(results[r]) : Logged(r, i)
    /\ pc[r] = "done" => /\ Len(results[r]) = Len(plan[r])
                         /\ \A i \in 1 .. Len(plan[r]) :
                              results[r][i] # "REJECTED" => Settled(r, i)

\* Stronger: the router's "ALL orders are logged to order_audit_trail", for every
\* order of a plan the command worked on until it ended by itself.
AllOrdersAreLogged ==
  \A r \in Runs : pc[r] \in {"done", "aborted"} =>
    \A i \in 1 .. idx[r] : i <= Len(plan[r]) => Logged(r, i)

\* Where the duplicate query cannot run, the fault stops trading instead of opening
\* the gate: no order is approved or sent, however often the command is started.
FaultFailsClosed ==
  ~DuplicateQueryRuns =>
    /\ book = {}
    /\ \A k \in 1 .. Len(audit) : audit[k].validation = "BLOCKED"

\* No order is at the broker that was not meant to be: each passed and recorded all
\* its checks, and none comes from a dry run.
OrdersAreLicensed == OnlyValidatedOrdersReachBroker /\ DryRunNeverTrades

\* The audit log is kept and heeded: every result is in it, an order it shows as
\* placed is not placed again by a later command, and where it cannot be read nothing
\* is sent.
LogIsKeptAndHeeded == ResultsAreLogged /\ NoLateDuplicate /\ FaultFailsClosed

\* A started command comes to an end: it finishes, aborts or is killed.
CommandsEnd ==
  \A r \in Runs : pc[r] # "idle" ~> pc[r] \in {"done", "aborted", "crashed"}
-----------------------------------------------------------------------------
(* The inductive invariant behind these properties *)

Validating(r) == pc[r] \in {"gates", "log", "checks"}
Executing(r) == pc[r] \in {"execute", "placed", "raised"}

\* How far a run's cursors are in each phase.
Cursors(r) ==
  /\ Len(plan[r]) <= MaxOrders
  /\ pc[r] = "idle" => idx[r] = 1 /\ gate[r] = 1 /\ results[r] = << >>
  /\ Validating(r) => idx[r] <= Len(plan[r])
  /\ pc[r] = "gates" => Len(results[r]) = idx[r] - 1
  /\ pc[r] \in {"log", "checks"} => Len(results[r]) = idx[r]
  /\ Executing(r) => Len(results[r]) = Len(plan[r])
  /\ pc[r] \in {"placed", "raised"} => idx[r] <= Len(plan[r]) /\ Approved(r)
  /\ pc[r] = "placed" => Oid(r) \in book

\* A result is of the run's mode, and an order that passed ran every gate.
ResultsFit(r) ==
  /\ \A i \in 1 .. Len(results[r]) : /\ results[r][i] = "APPROVED" => live[r]
                                     /\ results[r][i] = "SKIPPED_DRY_RUN" => ~live[r]
  /\ pc[r] \in {"log", "checks"} /\ results[r][idx[r]] # "REJECTED" => gate[r] = LastGate + 1

\* The check rows written so far for the order being logged.
Logging(r) ==
  pc[r] = "checks" =>
    /\ auditId[r] \in 1 .. Len(audit)
    /\ audit[auditId[r]].oid = Oid(r)
    /\ audit[auditId[r]].stage = "validated"
    /\ audit[auditId[r]].validation = ValidationStatus(results[r][idx[r]])
    /\ Len(checks[auditId[r]]) < ChecksRun(r)
    /\ \A n \in 1 .. Len(checks[auditId[r]]) : checks[auditId[r]][n] = CheckRow(r, n)

\* The verdict on order i of run r is in the audit trail.
Recorded(r, i) ==
  \E k \in 1 .. Len(audit) :
    /\ audit[k].oid = <<r, i>> /\ audit[k].stage = "validated"
    /\ audit[k].validation = ValidationStatus(results[r][i])
    /\ results[r][i] = "APPROVED" => checks[k] = AllPassed
VerdictsRecorded(r) ==
  Validating(r) \/ Executing(r) =>
    \A i \in 1 .. Len(results[r]) : (pc[r] \in {"log", "checks"} => i # idx[r]) => Recorded(r, i)

\* Which rows a run can have written by now.
RowFits(row) ==
  LET r == row.oid[1]
      i == row.oid[2]
  IN  /\ pc[r] # "idle"
      /\ row.dry = ~live[r]
      /\ row.broker # "NOT_SENT" => live[r]
      /\ row.broker = "OPEN" => row.oid \in book
      /\ Validating(r) => /\ row.stage = "validated"
                          /\ i < idx[r] \/ (i = idx[r] /\ pc[r] = "checks")
      /\ Executing(r) /\ row.stage = "executed" => i < idx[r]

\* Which orders a run can have sent by now.
SentFits(oid) ==
  LET r == oid[1]
      i == oid[2]
  IN  /\ pc[r] # "idle" /\ live[r] /\ ~Validating(r)
      /\ Executing(r) => i < idx[r] \/ (i = idx[r] /\ pc[r] \in {"placed", "raised"})

IInv == /\ TypeOK
        /\ \A r \in Runs : Cursors(r) /\ ResultsFit(r) /\ Logging(r) /\ VerdictsRecorded(r)
        /\ \A k \in 1 .. Len(audit) : RowFits(audit[k])
        /\ \A oid \in book : SentFits(oid) /\ Validated(oid)
        /\ RowsInOrder
-----------------------------------------------------------------------------
(* The ledger this pipeline implements *)

RowsOf(oid, s) == {k \in 1 .. Len(audit) : audit[k].oid = oid /\ audit[k].stage = s}

\* The abstract verdict and outcome of an order are what its rows say.
LedgerVerdict == [oid \in OrderIds |->
  IF RowsOf(oid, "validated") = {} THEN "none"
  ELSE audit[CHOOSE k \in RowsOf(oid, "validated") : TRUE].validation]
LedgerOutcome == [oid \in OrderIds |->
  IF RowsOf(oid, "executed") = {} THEN "none"
  ELSE audit[CHOOSE k \in RowsOf(oid, "executed") : TRUE].broker]

Ledger == INSTANCE OrderLedger WITH verdict <- LedgerVerdict, atBroker <- book,
                                    outcome <- LedgerOutcome

\* Every step of the pipeline is a step of the ledger or leaves it unchanged.
ImplementsLedger == Ledger!Spec
=============================================================================
