----------------------------- MODULE MCCommittee -----------------------------
(***************************************************************************)
(* Instances of Committee for TLC.  The warm-up costs 1, the risk analyst  *)
(* at most 3, the other calls at most 2; a call costs little or as much as *)
(* it may.  A cap of 7 lets a cheap run complete and stops a dear one.     *)
(***************************************************************************)
EXTENDS Committee

OneTurn == <<"bull_1", "portfolio_manager">>
WorstCases == [s \in Stages |-> CASE s = "warmup" -> 1 [] s = "risk" -> 3 [] OTHER -> 2]
ActualCosts == [s \in Stages |-> {1, WorstCases[s]}]
=============================================================================
