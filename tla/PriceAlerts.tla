----------------------------- MODULE PriceAlerts -----------------------------
(***************************************************************************)
(* The price alerts of a user: src/analytics/price_alerts.py, and the push *)
(* of src/ingestion/notify.py.                                             *)
(*                                                                         *)
(* Every minute a job reads the active alerts, fetches their quotes one at *)
(* a time, and then pushes and writes each ring; the user creates, toggles *)
(* and deletes alerts at any moment in between.  Each statement is a       *)
(* transaction of its own.  A quote is reduced to whether it is at or      *)
(* beyond the alert's level or move; when it is missing, or comes without  *)
(* the previous close that a move needs, the alert is passed over.  The    *)
(* market's hours say when a check may begin: never across a midnight.     *)
(***************************************************************************)
EXTENDS Integers, FiniteSets

CONSTANTS Alerts,        \* ids
          PctMove,       \* those of kind pct_move; the others have a level
          Rearm,         \* those that ring again after a cross back
          MaxAlerts,     \* MAX_ALERTS
          Creators,      \* requests that may be creating an alert at one time
          PushWorks,     \* does the server accept every push?
          MaxDay         \* bound: days

ASSUME AlertsAssumption ==
  /\ IsFiniteSet(Alerts) /\ PctMove \subseteq Alerts /\ Rearm \subseteq Alerts
  /\ MaxAlerts \in Nat /\ IsFiniteSet(Creators) /\ Creators # {} /\ PushWorks \in BOOLEAN
  /\ MaxDay \in Nat \ {0}

Null == 0   \* a triggered_on that is NULL; days are numbered from 1

VARIABLES
  exists, active, armed, triggeredOn,   \* price_alerts; exists: "no", "yes", "deleted"
  creating,     \* per creator: has it counted and may insert?
  day,          \* today_ist()
  check,        \* where the job is: "idle", "quotes", "alerts", "send", "write"
  todo,         \* the alerts it still has to look at
  snap,         \* their rows as the check read them: armed and triggeredOn
  beyond,       \* the alerts whose quote is at or beyond
  current,      \* the alert it is ringing
  sent,         \* _sent: the pushes of this process; a key has its day in it, so
                \* only those of today are kept here
  pushes,       \* history, per alert: pushes since its row was written, up to 2;
                \* one more is due to a check that runs while the user turns it on
  rings,        \* history, per alert: rings since it was armed, up to 2
  settledOff,   \* history: turned off by the user while no check was running
  delivered     \* history: pushed, and the ring not yet written

row == <<exists, active, armed, triggeredOn>>
job == <<check, todo, snap, beyond, current>>
history == <<pushes, rings, settledOff, delivered>>
vars == <<row, creating, day, job, sent, history>>

NoRows == [armed |-> [a \in Alerts |-> FALSE], triggeredOn |-> [a \in Alerts |-> Null]]
Existing == {a \in Alerts : exists[a] = "yes"}

\* Mutant: the day is the one of another time zone.
TodayAhead == day + 1
Today == day

OneMore(n) == IF n = 2 THEN 2 ELSE n + 1

Init == /\ exists = [a \in Alerts |-> "no"]
        /\ active = [a \in Alerts |-> FALSE] /\ armed = [a \in Alerts |-> FALSE]
        /\ triggeredOn = [a \in Alerts |-> Null]
        /\ creating = [c \in Creators |-> FALSE]
        /\ day = 1
        /\ check = "idle" /\ todo = {} /\ beyond = {} /\ current = {}
        /\ snap = NoRows
        /\ sent = {}
        /\ pushes = [a \in Alerts |-> 0] /\ rings = [a \in Alerts |-> 0]
        /\ settledOff = {} /\ delivered = {}
-----------------------------------------------------------------------------
(* The user *)

\* Mutant: one alert too many.
CountAlertsLoose(c) ==
  /\ ~creating[c] /\ Cardinality(Existing) <= MaxAlerts
  /\ creating' = [creating EXCEPT ![c] = TRUE]
  /\ UNCHANGED <<row, day, job, sent, history>>

\* create_alert, first statement: count; at the limit it ends here.
CountAlerts(c) ==
  /\ ~creating[c] /\ Cardinality(Existing) < MaxAlerts
  /\ creating' = [creating EXCEPT ![c] = TRUE]
  /\ UNCHANGED <<row, day, job, sent, history>>

\* create_alert, second statement: insert.
InsertAlert(c, a) ==
  /\ creating[c] /\ exists[a] = "no"
  /\ creating' = [creating EXCEPT ![c] = FALSE]
  /\ exists' = [exists EXCEPT ![a] = "yes"]
  /\ active' = [active EXCEPT ![a] = TRUE] /\ armed' = [armed EXCEPT ![a] = TRUE]
  /\ UNCHANGED <<triggeredOn, day, job, sent, history>>

\* Turning an alert on re-arms it and lets it ring again today.
TurnOn(a) ==
  /\ exists[a] = "yes"
  /\ active' = [active EXCEPT ![a] = TRUE] /\ armed' = [armed EXCEPT ![a] = TRUE]
  /\ triggeredOn' = [triggeredOn EXCEPT ![a] = Null]
  /\ pushes' = [pushes EXCEPT ![a] = IF check = "idle" THEN 0 ELSE -1]
  /\ rings' = [rings EXCEPT ![a] = 0]
  /\ settledOff' = settledOff \ {a}
  /\ UNCHANGED <<exists, creating, day, job, sent, delivered>>

TurnOff(a) ==
  /\ exists[a] = "yes"
  /\ active' = [active EXCEPT ![a] = FALSE]
  /\ settledOff' = IF check = "idle" THEN settledOff \union {a} ELSE settledOff
  /\ UNCHANGED <<exists, armed, triggeredOn, creating, day, job, sent, pushes, rings, delivered>>

\* The row is gone: its columns have no value any more.
Delete(a) ==
  /\ exists[a] = "yes"
  /\ exists' = [exists EXCEPT ![a] = "deleted"]
  /\ active' = [active EXCEPT ![a] = FALSE] /\ armed' = [armed EXCEPT ![a] = FALSE]
  /\ triggeredOn' = [triggeredOn EXCEPT ![a] = Null]
  /\ pushes' = [pushes EXCEPT ![a] = 0] /\ rings' = [rings EXCEPT ![a] = 0]
  /\ UNCHANGED <<creating, day, job, sent, settledOff, delivered>>
-----------------------------------------------------------------------------
(* check_price_alerts *)

\* Mutant: every alert is read, whether it is on or off.
ReadAll ==
  /\ check = "idle" /\ Existing # {}
  /\ check' = "quotes" /\ todo' = Existing
  /\ snap' = [armed |-> armed, triggeredOn |-> triggeredOn]
  /\ UNCHANGED <<row, creating, day, beyond, current, sent, history>>

\* SELECT ... WHERE active.
ReadActive ==
  /\ check = "idle" /\ \E a \in Alerts : active[a]
  /\ check' = "quotes" /\ todo' = {a \in Alerts : active[a]}
  /\ snap' = [armed |-> armed, triggeredOn |-> triggeredOn]
  /\ UNCHANGED <<row, creating, day, beyond, current, sent, history>>

\* quotes: each alert gets one or is passed over.
FetchQuotes ==
  /\ check = "quotes"
  /\ todo' \in SUBSET todo /\ beyond' \in SUBSET todo'
  /\ check' = "alerts"
  /\ UNCHANGED <<row, creating, day, snap, current, sent, history>>

\* Mutant: a percent move may ring twice on a day.
RingsAgain(a) == a \in beyond /\ (a \in PctMove \/ snap.armed[a])

\* evaluate, on the row the check read.
Rings(a) == /\ a \in beyond
            /\ IF a \in PctMove THEN snap.triggeredOn[a] # Today ELSE snap.armed[a]

\* Mutant: re-armed without a cross back.
RearmsAtOnce(a) == a \notin PctMove /\ ~snap.armed[a] /\ a \in Rearm
Rearms(a) == a \notin PctMove /\ ~snap.armed[a] /\ a \in Rearm /\ a \notin beyond

StartRing(a) ==
  /\ check = "alerts" /\ a \in todo /\ Rings(a)
  /\ current' = {a} /\ check' = "send"
  /\ UNCHANGED <<row, creating, day, todo, snap, beyond, sent, history>>

\* The key _notify_ring gives, with the day notify.send adds.
Marker(a) == <<a, snap.triggeredOn[a], Today>>

\* Mutant: a push that was accepted is not remembered.
PushForgotten(a) ==
  /\ check = "send" /\ a \in current
  /\ check' = "write"
  /\ \/ /\ Marker(a) \notin sent
        /\ pushes' = [pushes EXCEPT ![a] = OneMore(@)] /\ delivered' = delivered \union {a}
     \/ /\ Marker(a) \in sent \/ ~PushWorks
        /\ UNCHANGED <<pushes, delivered>>
  /\ UNCHANGED <<row, creating, day, todo, snap, beyond, current, sent, rings, settledOff>>

\* notify.send: once per marker; only an accepted push is remembered.
Push(a) ==
  /\ check = "send" /\ a \in current
  /\ check' = "write"
  /\ \/ /\ Marker(a) \notin sent
        /\ sent' = sent \union {Marker(a)}
        /\ pushes' = [pushes EXCEPT ![a] = OneMore(@)] /\ delivered' = delivered \union {a}
     \/ /\ Marker(a) \in sent \/ ~PushWorks
        /\ UNCHANGED <<sent, pushes, delivered>>
  /\ UNCHANGED <<row, creating, day, todo, snap, beyond, current, rings, settledOff>>

\* The UPDATE of a ring, whatever the row has become; a deleted row is gone.
WriteRing(a) ==
  /\ check = "write" /\ a \in current
  /\ IF exists[a] = "yes"
       THEN /\ triggeredOn' = [triggeredOn EXCEPT ![a] = Today]
            /\ armed' = [armed EXCEPT ![a] = FALSE]
            /\ active' = [active EXCEPT ![a] = a \in PctMove \union Rearm]
            /\ rings' = [rings EXCEPT ![a] = OneMore(@)]
            /\ pushes' = [pushes EXCEPT ![a] = 0] /\ delivered' = delivered \ {a}
       ELSE UNCHANGED <<triggeredOn, armed, active, rings, pushes, delivered>>
  /\ todo' = todo \ {a} /\ current' = {} /\ check' = "alerts"
  /\ UNCHANGED <<exists, creating, day, snap, beyond, sent, settledOff>>

\* An alert that does not ring: written back, re-armed if the price has crossed back.
WriteQuiet(a) ==
  /\ check = "alerts" /\ a \in todo /\ ~Rings(a)
  /\ armed' = [armed EXCEPT ![a] = @ \/ (Rearms(a) /\ exists[a] = "yes")]
  /\ rings' = [rings EXCEPT ![a] = IF a \in Rearm \ (PctMove \union beyond) THEN 0 ELSE @]
  /\ todo' = todo \ {a}
  /\ UNCHANGED <<exists, active, triggeredOn, creating, day, check, snap, beyond, current,
                 sent, pushes, settledOff, delivered>>

\* The check is over, or a statement of it failed.
EndCheck ==
  /\ \/ check = "alerts" /\ todo = {}
     \/ check = "write"
  /\ check' = "idle" /\ todo' = {} /\ snap' = NoRows /\ beyond' = {} /\ current' = {}
  /\ UNCHANGED <<row, creating, day, sent, history>>

Midnight ==
  /\ check = "idle" /\ day < MaxDay
  /\ day' = day + 1
  /\ rings' = [a \in Alerts |-> IF a \in PctMove THEN 0 ELSE rings[a]]
  /\ pushes' = [a \in Alerts |-> 0]
  /\ sent' = {}
  /\ UNCHANGED <<row, creating, job, settledOff, delivered>>

\* The server restarts: the check and _sent are gone.
Restart ==
  /\ sent' = {}
  /\ check' = "idle" /\ todo' = {} /\ snap' = NoRows /\ beyond' = {} /\ current' = {}
  /\ creating' = [c \in Creators |-> FALSE]
  /\ pushes' = [a \in Alerts |-> 0]
  /\ UNCHANGED <<row, day, rings, settledOff, delivered>>

Next == \/ \E c \in Creators : CountAlerts(c) \/ \E a \in Alerts : InsertAlert(c, a)
        \/ \E a \in Alerts : \/ TurnOn(a) \/ TurnOff(a) \/ Delete(a) \/ StartRing(a)
                             \/ Push(a) \/ WriteRing(a) \/ WriteQuiet(a)
        \/ ReadActive \/ FetchQuotes \/ EndCheck \/ Midnight \/ Restart

Spec == Init /\ [][Next]_vars
-----------------------------------------------------------------------------
(* Properties *)

Rows(T) == [armed : [Alerts -> BOOLEAN], triggeredOn : [Alerts -> T]]

\* The type of every variable.
TypeOK ==
  /\ exists \in [Alerts -> {"no", "yes", "deleted"}]
  /\ active \in [Alerts -> BOOLEAN] /\ armed \in [Alerts -> BOOLEAN]
  /\ triggeredOn \in [Alerts -> 0 .. MaxDay]
  /\ creating \in [Creators -> BOOLEAN] /\ day \in 1 .. MaxDay
  /\ check \in {"idle", "quotes", "alerts", "send", "write"}
  /\ todo \subseteq Alerts /\ snap \in Rows(0 .. MaxDay)
  /\ beyond \subseteq Alerts /\ current \subseteq Alerts /\ Cardinality(current) <= 1
  /\ sent \subseteq Alerts \X (0 .. MaxDay) \X (1 .. MaxDay)
  /\ pushes \in [Alerts -> -1 .. 2] /\ rings \in [Alerts -> 0 .. 2]
  /\ settledOff \subseteq Alerts /\ delivered \subseteq Alerts

\* "Each alert fires once and can be re-armed after the price crosses back", and a
\* percent move rings "at most once per IST trading day": between two armings (by the
\* user, by a cross back, by the next day) there is one ring, though the user may
\* toggle the alert while a check works on the row it read earlier.
RingsOnce == \A a \in Alerts : rings[a] <= 1

\* A ring whose write failed is not pushed again by the next check of that day, unless
\* the user turned the alert on in the middle of a check.
PushedOnce == \A a \in Alerts : pushes[a] <= 1

\* An alert turned off while no check was running stays off until it is turned on.
OffStaysOff == \A a \in settledOff : ~active[a] /\ a \notin todo

\* The limit on alerts, checked without a lock: requests that race may pass it, by
\* one less than their number.
AlmostAtMostMaxAlerts ==
  Cardinality(Existing) + Cardinality({c \in Creators : creating[c]})
    <= MaxAlerts + Cardinality(Creators) - 1

\* What is counted stays within its count: rings, pushes and alerts.
CountsAreKept == RingsOnce /\ PushedOnce /\ AlmostAtMostMaxAlerts

\* "Push a notification when one of your price alerts rings": if the server accepts
\* every push, a ring about to be written has been pushed.
EveryRingIsPushed == check = "write" => current \subseteq delivered
=============================================================================
