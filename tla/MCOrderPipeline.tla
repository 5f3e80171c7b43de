--------------------------- MODULE MCOrderPipeline ---------------------------
(***************************************************************************)
(* Instances of OrderPipeline for TLC.  A behaviour has one of two         *)
(* regimes: one command alone, with plans of up to two orders, every gate  *)
(* that can fail and the table as it is deployed or repaired (the module   *)
(* as it is extended here); or a pair of commands with the same order that *)
(* overlap or follow each other, on the repaired table (Pair).             *)
(***************************************************************************)
EXTENDS OrderPipeline

VARIABLE regime

\* Migration 008's columns (no later migration adds one).
DeployedColumns == {
  "id", "internal_order_id", "kite_order_id", "user_id", "instrument_token", "tradingsymbol",
  "exchange", "transaction_type", "order_type", "variety", "product", "validity",
  "requested_quantity", "executed_quantity", "requested_price", "trigger_price",
  "execution_price", "price_at_signal", "validation_status", "broker_status",
  "broker_status_message", "trigger_source", "rebalance_session_id", "target_weight_pct",
  "current_weight_pct", "drift_pct", "tax_type", "estimated_tax_impact", "is_dry_run",
  "created_at", "validated_at", "executed_at", "notes"}

\* A table the duplicate query can run on, as the unit tests' mocked rows have it.
RepairedColumns == DeployedColumns \union {"quantity", "placed_at", "status"}

\* The table as it is deployed, or once repaired.
Either == {DeployedColumns, RepairedColumns}
Deployed == {DeployedColumns}

\* Plans of at most two orders over one SELL and one BUY.
TwoOrders == {<< >>, <<"sell", "buy">>, <<"sell", "sell">>}

Pair == INSTANCE OrderPipeline
          WITH Plans <- {<<"sell">>}, Uncertain <- {"PRICE_BAND"}, Schemas <- {RepairedColumns}

AllInit ==
  /\ regime \in {"alone", "pair"}
  /\ IF regime = "alone" THEN Init ELSE Pair!Init

AllNext ==
  /\ UNCHANGED regime
  /\ \/ regime = "alone" /\ Next /\ pc'["r2"] = "idle"
     \/ regime = "pair" /\ Pair!Next

AllSpec ==
  AllInit /\ [][AllNext]_<<regime, vars>> /\ \A r \in Runs : WF_vars(regime = "alone" /\ Step(r))

\* OrderPipeline!CommandsEnd for the finitely many commands of an instance.
CommandAloneEnds ==
  <>[](regime = "alone" => \A r \in Runs : pc[r] \in {"idle", "done", "aborted", "crashed"})
=============================================================================
