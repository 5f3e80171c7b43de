----------------------------- MODULE OrderLedger -----------------------------
(***************************************************************************)
(* What the order pipeline promises about one proposed order, whatever the *)
(* number of commands, gates and tables behind it: a verdict is recorded   *)
(* first, only an approved order reaches the broker and it does so once,   *)
(* and one outcome is recorded after it.  OrderPipeline implements this    *)
(* specification.                                                          *)
(***************************************************************************)

CONSTANT OrderIds          \* internal order ids, one for each proposed order

VARIABLES verdict,         \* the gatekeeper's recorded verdict
          atBroker,        \* orders the broker has accepted
          outcome          \* the router's recorded broker outcome

vars == <<verdict, atBroker, outcome>>

Verdicts == {"BLOCKED", "DRY_RUN", "APPROVED"}

Init == /\ verdict = [o \in OrderIds |-> "none"]
        /\ atBroker = {}
        /\ outcome = [o \in OrderIds |-> "none"]

\* The gatekeeper records its verdict on a new order.
Propose(o, v) == /\ verdict[o] = "none"
                 /\ verdict' = [verdict EXCEPT ![o] = v]
                 /\ UNCHANGED <<atBroker, outcome>>

\* The broker accepts an approved order that has no outcome yet.
Send(o) == /\ verdict[o] = "APPROVED"
           /\ outcome[o] = "none"
           /\ o \notin atBroker
           /\ atBroker' = atBroker \union {o}
           /\ UNCHANGED <<verdict, outcome>>

\* The broker's answer is recorded. A recorded OPEN is always true; a recorded
\* REJECTED may also be an answer that was lost on the way.
Report(o, b) == /\ verdict[o] = "APPROVED"
                /\ outcome[o] = "none"
                /\ b = "OPEN" => o \in atBroker
                /\ outcome' = [outcome EXCEPT ![o] = b]
                /\ UNCHANGED <<verdict, atBroker>>

\* A simulated order gets its outcome without the broker.
Simulate(o) == /\ verdict[o] = "DRY_RUN"
               /\ outcome[o] = "none"
               /\ outcome' = [outcome EXCEPT ![o] = "NOT_SENT"]
               /\ UNCHANGED <<verdict, atBroker>>

Next == \E o \in OrderIds : \/ \E v \in Verdicts : Propose(o, v)
                            \/ Send(o)
                            \/ \E b \in {"OPEN", "REJECTED"} : Report(o, b)
                            \/ Simulate(o)

Spec == Init /\ [][Next]_vars
=============================================================================
