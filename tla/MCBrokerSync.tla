---------------------------- MODULE MCBrokerSync ----------------------------
(***************************************************************************)
(* Instances of BrokerSync for TLC.                                        *)
(***************************************************************************)
EXTENDS BrokerSync, TLC

OneListing == {<<"s", "NSE">>}
Gates == {[btst |-> TRUE, tpin |-> TRUE, t2t |-> TRUE],
          [btst |-> TRUE, tpin |-> FALSE, t2t |-> FALSE]}
Plain == {[btst |-> FALSE, tpin |-> FALSE, t2t |-> FALSE]}
Symmetric == Permutations(Syncs)
=============================================================================
