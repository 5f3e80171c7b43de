---------------------------- MODULE SellableCheck ----------------------------
(***************************************************************************)
(* The gate on a SELL: src/execution/validators/sellable_check.py.         *)
(* A holding row is [source, qty, t1, used, pledged, authorised, synced];  *)
(* a config is [btst, tpin, t2t], where t2t says that the scrip settles    *)
(* trade by trade.  pending is what the broker's order book has open.      *)
(***************************************************************************)
EXTENDS Integers

Imported == {"CSV_IMPORT"}   \* UNCONFIRMED_SOURCES: all three are treated alike

AtLeastZero(n) == IF n < 0 THEN 0 ELSE n
Least(m, n) == IF m < n THEN m ELSE n

\* Mutant: what was sold today is not taken off.
SellableUsedForgotten(row, pending, config) ==
    AtLeastZero(row.qty - row.pledged - pending)

\* What the gate takes to be sellable today.
Sellable(row, pending, config) ==
    LET t1   == IF config.btst /\ ~config.t2t THEN row.t1 ELSE 0
        free == row.qty - row.used - row.pledged + t1 - pending
        left == AtLeastZero(row.authorised - row.used)
    IN  AtLeastZero(IF config.tpin THEN Least(free, left) ELSE free)

\* In live mode an unconfirmed or an old row stops the order, and so does an
\* order book that cannot be read; a dry run passes over them with a caveat.
PassesLive(row, quantity, orders, config, today) ==
    /\ row.source \notin Imported
    /\ row.synced = today
    /\ orders.readable
    /\ quantity <= Sellable(row, orders.pending, config)
=============================================================================
