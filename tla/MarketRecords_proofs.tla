------------------------- MODULE MarketRecords_proofs -------------------------
(***************************************************************************)
(* The parts that follow the market, for any number of alerts, callers,    *)
(* symbols, days and lookups.  A behaviour of AllSpec is a behaviour of    *)
(* each part, since the parts share no variable: what is proved of a part  *)
(* holds of all of them together.                                          *)
(***************************************************************************)
EXTENDS MCMarketRecords, LibraryLemmas, TLAPS

(* Alerts that were turned off.  A check writes rows it read earlier, without
   looking at them again: it leaves an alert that is off alone only because the
   alert is in nothing the check still holds. *)

\* The types the argument needs.
RowTypes == /\ active \in [Alerts -> BOOLEAN]
            /\ exists \in [Alerts -> {"no", "yes", "deleted"}]
            /\ todo \subseteq Alerts /\ settledOff \subseteq Alerts

\* What a check holds: nothing when it is idle, and what it rings it has still to do.
CheckHolds == /\ check = "idle" => todo = {}
              /\ current \subseteq todo
              /\ check \notin {"send", "write"} => current = {}

Settled == /\ RowTypes /\ CheckHolds /\ OffStaysOff
           /\ \A a \in settledOff : exists[a] # "no"

\* Initially nobody has turned an alert off.
LEMMA InitSettled == Init => Settled
BY DEF Init, Settled, RowTypes, CheckHolds, OffStaysOff

\* What the user does.
LEMMA UserSteps ==
  ASSUME Settled,
         \/ \E c \in Creators : CountAlerts(c) \/ \E a \in Alerts : InsertAlert(c, a)
         \/ \E a \in Alerts : TurnOn(a) \/ TurnOff(a) \/ Delete(a)
  PROVE  Settled'
<1> USE DEF Settled, RowTypes, CheckHolds, OffStaysOff, row, job, history
<1>1. ASSUME NEW c \in Creators, CountAlerts(c) PROVE Settled'
  BY <1>1 DEF CountAlerts
<1>2. ASSUME NEW c \in Creators, NEW a \in Alerts, InsertAlert(c, a) PROVE Settled'
  BY <1>2 DEF InsertAlert
<1>3. ASSUME NEW a \in Alerts, TurnOn(a) PROVE Settled'
  BY <1>3 DEF TurnOn
<1>4. ASSUME NEW a \in Alerts, TurnOff(a) PROVE Settled'
  BY <1>4 DEF TurnOff
<1>5. ASSUME NEW a \in Alerts, Delete(a) PROVE Settled'
  BY <1>5 DEF Delete
<1> QED
  BY <1>1, <1>2, <1>3, <1>4, <1>5

\* What the check does.
LEMMA CheckSteps ==
  ASSUME Settled,
         \/ ReadActive \/ FetchQuotes \/ EndCheck
         \/ \E a \in Alerts : StartRing(a) \/ Push(a) \/ WriteRing(a) \/ WriteQuiet(a)
  PROVE  Settled'
<1> USE DEF Settled, RowTypes, CheckHolds, OffStaysOff, row, job, history
<1>1. CASE ReadActive
  BY <1>1 DEF ReadActive
<1>2. CASE FetchQuotes
  BY <1>2 DEF FetchQuotes
<1>7. CASE EndCheck
  BY <1>7 DEF EndCheck
<1>3. ASSUME NEW a \in Alerts, StartRing(a) PROVE Settled'
  BY <1>3 DEF StartRing
<1>4. ASSUME NEW a \in Alerts, Push(a) PROVE Settled'
  BY <1>4 DEF Push
<1>5. ASSUME NEW a \in Alerts, WriteRing(a) PROVE Settled'
  <2>1. a \notin settledOff /\ (a \in PctMove \union Rearm) \in BOOLEAN
    BY <1>5 DEF WriteRing
  <2>2. active' \in [Alerts -> BOOLEAN] /\ \A b \in settledOff : active'[b] = active[b]
    BY <1>5, <2>1 DEF WriteRing
  <2> QED
    BY <1>5, <2>2 DEF WriteRing
<1>6. ASSUME NEW a \in Alerts, WriteQuiet(a) PROVE Settled'
  BY <1>6 DEF WriteQuiet
<1> QED
  BY <1>1, <1>2, <1>3, <1>4, <1>5, <1>6, <1>7

\* Every step keeps the invariant.
LEMMA NextSettled == Settled /\ [Next]_vars => Settled'
<1> SUFFICES ASSUME Settled, [Next]_vars PROVE Settled'
  OBVIOUS
<1>1. CASE Midnight \/ Restart \/ UNCHANGED vars
  BY <1>1 DEF Midnight, Restart, Settled, RowTypes, CheckHolds, OffStaysOff, row, job,
              history, vars
<1> QED
  BY <1>1, UserSteps, CheckSteps DEF Next

\* An alert turned off while no check was running is off, and no check will touch it,
\* until the user turns it on again.
THEOREM SettledAlertsStayOff == Spec => []OffStaysOff
<1>1. Settled => OffStaysOff
  BY DEF Settled
<1> QED
  BY <1>1, InitSettled, NextSettled, PTL DEF Spec
-----------------------------------------------------------------------------
(* Counts *)

CountTypes ==
  /\ exists \in [Alerts -> {"no", "yes", "deleted"}]
  /\ active \in [Alerts -> BOOLEAN] /\ armed \in [Alerts -> BOOLEAN]
  /\ DOMAIN triggeredOn = Alerts
  /\ creating \in [Creators -> BOOLEAN] /\ day \in Nat
  /\ todo \subseteq Alerts
  /\ pushes \in [Alerts -> {-1, 0, 1}] /\ rings \in [Alerts -> {0, 1}]

\* The alert that is ringing is one, and what the check read of it says that it rings.
Ringing ==
  /\ \A a, b \in current : a = b
  /\ \A a \in current : Rings(a)

\* Only rows that are there are active, and only those have rung or are looked at.
RowKept(a) ==
  /\ active[a] => exists[a] = "yes"
  /\ exists[a] = "no" => a \notin todo /\ pushes[a] = 0
  /\ exists[a] # "yes" => rings[a] = 0

\* A ring left its mark, on the row and in what the check read of it.
RingKept(a) ==
  rings[a] = 1 =>
    IF a \in PctMove THEN triggeredOn[a] = day /\ (a \in todo => snap.triggeredOn[a] = day)
    ELSE ~armed[a] /\ (a \in todo => ~snap.armed[a])

\* The check has not come to the push of this alert.
Unpushed(a) == a \in todo /\ ~(check = "write" /\ a \in current)

\* A push left its key, which the check finds again.
PushKept(a) ==
  /\ exists[a] = "yes" /\ pushes[a] = 1 => <<a, triggeredOn[a], day>> \in sent
  /\ exists[a] = "yes" /\ pushes[a] >= 0 /\ Unpushed(a) => snap.triggeredOn[a] = triggeredOn[a]
  /\ exists[a] # "yes" /\ Unpushed(a) => pushes[a] <= 0

Kept == \A a \in Alerts : RowKept(a) /\ RingKept(a) /\ PushKept(a)
Counted == CountTypes /\ CheckHolds /\ Ringing /\ Kept

\* Initially there are no alerts.
LEMMA InitCounted == Init => Counted
BY AlertsAssumption
   DEF Init, Counted, CountTypes, CheckHolds, Ringing, Kept, RowKept, RingKept, PushKept, Unpushed

\* What the user does.
LEMMA UserCounted ==
  ASSUME Counted,
         \/ \E c \in Creators : CountAlerts(c) \/ \E a \in Alerts : InsertAlert(c, a)
         \/ \E a \in Alerts : TurnOn(a) \/ TurnOff(a) \/ Delete(a)
  PROVE  Counted'
<1>1. ASSUME NEW c \in Creators, CountAlerts(c) PROVE Counted'
  BY <1>1 DEF CountAlerts,
             Counted, CountTypes, CheckHolds, Ringing, Rings, Today, Kept, RowKept,
             RingKept, PushKept, Unpushed, row, job, history
<1>2. ASSUME NEW c \in Creators, NEW a \in Alerts, InsertAlert(c, a) PROVE Counted'
  BY <1>2 DEF InsertAlert,
             Counted, CountTypes, CheckHolds, Ringing, Rings, Today, Kept, RowKept,
             RingKept, PushKept, Unpushed, row, job, history
<1>3. ASSUME NEW a \in Alerts, TurnOn(a) PROVE Counted'
  <2>1. CountTypes'
    BY <1>3 DEF TurnOn, Counted, CountTypes, row, job, history
  <2>2. CheckHolds' /\ Ringing'
    BY <1>3 DEF TurnOn, Counted, CheckHolds, Ringing, Rings, Today, CountTypes, row, job,
                history
  <2>3. ASSUME NEW b \in Alerts PROVE RowKept(b)' /\ RingKept(b)' /\ PushKept(b)'
    <3>1. RowKept(b)'
      BY <1>3 DEF TurnOn, Counted, CountTypes, Kept, RowKept, row, job, history
    <3>2. RingKept(b)'
      BY <1>3 DEF TurnOn, Counted, CountTypes, CheckHolds, Ringing, Rings, Today, Kept,
                  RowKept, RingKept, row, job, history
    <3>3. PushKept(b)'
      <4>1. CASE b = a
        BY <1>3, <4>1 DEF TurnOn, Counted, CountTypes, CheckHolds, PushKept, Unpushed, job
      <4>2. CASE b # a
        <5>1. /\ exists'[b] = exists[b] /\ triggeredOn'[b] = triggeredOn[b] /\ pushes'[b] = pushes[b]
              /\ UNCHANGED <<day, sent, check, todo, snap, current>>
          BY <1>3, <4>2 DEF TurnOn, Counted, CountTypes, job
        <5> QED
          BY <5>1 DEF Counted, Kept, PushKept, Unpushed
      <4> QED
        BY <4>1, <4>2
    <3> QED
      BY <3>1, <3>2, <3>3
  <2> QED
    BY <2>1, <2>2, <2>3 DEF Counted, Kept
<1>4. ASSUME NEW a \in Alerts, TurnOff(a) PROVE Counted'
  BY <1>4 DEF TurnOff,
             Counted, CountTypes, CheckHolds, Ringing, Rings, Today, Kept, RowKept,
             RingKept, PushKept, Unpushed, row, job, history
<1>5. ASSUME NEW a \in Alerts, Delete(a) PROVE Counted'
  <2>1. CountTypes'
    BY <1>5 DEF Delete, Counted, CountTypes, row, job, history
  <2>2. CheckHolds' /\ Ringing'
    BY <1>5 DEF Delete, Counted, CheckHolds, Ringing, Rings, Today, CountTypes, row, job,
                history
  <2>3. ASSUME NEW b \in Alerts PROVE RowKept(b)' /\ RingKept(b)' /\ PushKept(b)'
    <3>1. RowKept(b)'
      BY <1>5 DEF Delete, Counted, CountTypes, Kept, RowKept, row, job, history
    <3>2. RingKept(b)'
      BY <1>5 DEF Delete, Counted, CountTypes, CheckHolds, Ringing, Rings, Today, Kept,
                  RowKept, RingKept, row, job, history
    <3>3. PushKept(b)'
      <4>1. CASE b = a
        BY <1>5, <4>1 DEF Delete, Counted, CountTypes, CheckHolds, PushKept, Unpushed, job
      <4>2. CASE b # a
        <5>1. /\ exists'[b] = exists[b] /\ triggeredOn'[b] = triggeredOn[b] /\ pushes'[b] = pushes[b]
              /\ UNCHANGED <<day, sent, check, todo, snap, current>>
          BY <1>5, <4>2 DEF Delete, Counted, CountTypes, job
        <5> QED
          BY <5>1 DEF Counted, Kept, PushKept, Unpushed
      <4> QED
        BY <4>1, <4>2
    <3> QED
      BY <3>1, <3>2, <3>3
  <2> QED
    BY <2>1, <2>2, <2>3 DEF Counted, Kept
<1> QED
  BY <1>1, <1>2, <1>3, <1>4, <1>5

\* What the check reads and passes over.
LEMMA ReadCounted ==
  ASSUME Counted, ReadActive \/ FetchQuotes \/ EndCheck
  PROVE  Counted'
<1>1. CASE ReadActive
  BY <1>1 DEF ReadActive,
             Counted, CountTypes, CheckHolds, Ringing, Rings, Today, Kept, RowKept,
             RingKept, PushKept, Unpushed, row, job, history
<1>2. CASE FetchQuotes
  BY <1>2 DEF FetchQuotes,
             Counted, CountTypes, CheckHolds, Ringing, Rings, Today, Kept, RowKept,
             RingKept, PushKept, Unpushed, row, job, history
<1>3. CASE EndCheck
  BY <1>3 DEF EndCheck,
             Counted, CountTypes, CheckHolds, Ringing, Rings, Today, Kept, RowKept,
             RingKept, PushKept, Unpushed, row, job, history
<1> QED
  BY <1>1, <1>2, <1>3

\* What the check does with one alert.
LEMMA RingCounted ==
  ASSUME Counted, NEW a \in Alerts, StartRing(a) \/ Push(a) \/ WriteRing(a) \/ WriteQuiet(a)
  PROVE  Counted'
<1>1. CASE StartRing(a)
  BY <1>1 DEF StartRing,
             Counted, CountTypes, CheckHolds, Ringing, Rings, Today, Kept, RowKept,
             RingKept, PushKept, Unpushed, row, job, history
<1>2. CASE Push(a)
  <2>0. /\ exists[a] # "no"
        /\ Marker(a) \notin sent => pushes[a] \in {-1, 0}
    <3>1. exists[a] # "no" /\ Unpushed(a) /\ pushes[a] \in {-1, 0, 1} /\ PushKept(a)
      BY <1>2 DEF Push, Counted, CountTypes, CheckHolds, Kept, RowKept, Unpushed
    <3>2. pushes[a] = 1 => Marker(a) \in sent
      BY <3>1 DEF PushKept, Marker, Today
    <3> QED
      BY <3>1, <3>2
  <2>1. /\ pushes' \in [Alerts -> {-1, 0, 1}]
        /\ pushes'[a] = 1 => Marker(a) \in sent' /\ pushes[a] \in {0, 1}
        /\ \A b \in Alerts \ {a} : pushes'[b] = pushes[b]
        /\ sent \subseteq sent'
    <3>1. CASE pushes' = [pushes EXCEPT ![a] = OneMore(@)] /\ sent' = sent \union {Marker(a)}
               /\ Marker(a) \notin sent
      BY <2>0, <3>1 DEF OneMore, Counted, CountTypes
    <3>2. CASE UNCHANGED <<sent, pushes>>
      BY <2>0, <3>2 DEF Counted, CountTypes
    <3> QED
      BY <1>2, <3>1, <3>2 DEF Push
  <2>2. CountTypes'
    BY <1>2, <2>1 DEF Push, Counted, CountTypes, row
  <2>3. CheckHolds' /\ Ringing'
    BY <1>2 DEF Push, Counted, CheckHolds, Ringing, Rings, Today, row
  <2>4. ASSUME NEW b \in Alerts PROVE RowKept(b)' /\ RingKept(b)' /\ PushKept(b)'
    <3>1. RowKept(b)' /\ RingKept(b)'
      BY <1>2, <2>0, <2>1 DEF Push, Counted, Kept, RowKept, RingKept, row
    <3>2. PushKept(b)'
      <4>1. /\ UNCHANGED <<exists, triggeredOn, day, todo, snap, current>>
            /\ check = "send" /\ check' = "write" /\ a \in current /\ PushKept(b)
            /\ b \in current => b = a
        BY <1>2 DEF Push, row, Counted, Ringing, Kept
      <4>2. CASE b = a
        <5>1. Unpushed(a) /\ ~Unpushed(a)'
          BY <4>1 DEF Unpushed, Counted, CheckHolds
        <5>2. exists'[a] = "yes" /\ pushes'[a] = 1 => <<a, triggeredOn'[a], day'>> \in sent'
          BY <2>1, <4>1, <4>2, <5>1 DEF PushKept, Marker, Today
        <5> QED
          BY <4>2, <5>1, <5>2 DEF PushKept
      <4>3. CASE b # a
        BY <2>1, <4>1, <4>3 DEF PushKept, Unpushed
      <4> QED
        BY <4>2, <4>3
    <3> QED
      BY <3>1, <3>2
  <2> QED
    BY <2>2, <2>3, <2>4 DEF Counted, Kept
<1>3. CASE WriteRing(a)
  <2>0. exists[a] = "yes" => rings[a] = 0
    BY <1>3 DEF WriteRing, Counted, CountTypes, CheckHolds, Ringing, Rings, Today, Kept, RingKept
  <2>1. CountTypes'
    <3>1. (a \in PctMove \union Rearm) \in BOOLEAN
      OBVIOUS
    <3>2. active' \in [Alerts -> BOOLEAN] /\ armed' \in [Alerts -> BOOLEAN]
      BY <1>3, <3>1 DEF WriteRing, Counted, CountTypes
    <3>3. pushes' \in [Alerts -> {-1, 0, 1}] /\ rings' \in [Alerts -> {0, 1}]
      BY <1>3, <2>0 DEF WriteRing, OneMore, Counted, CountTypes
    <3> QED
      BY <1>3, <3>2, <3>3 DEF WriteRing, Counted, CountTypes
  <2>2. CheckHolds' /\ Ringing'
    BY <1>3 DEF WriteRing, OneMore, Counted, CheckHolds, Ringing, Rings, Today, CountTypes,
                row, job, history
  <2>3. ASSUME NEW b \in Alerts PROVE RowKept(b)' /\ RingKept(b)' /\ PushKept(b)'
    <3>1. RowKept(b)'
      BY <1>3 DEF WriteRing, OneMore, Counted, CountTypes, Kept, RowKept, row, job, history
    <3>2. RingKept(b)'
      BY <1>3, <2>0 DEF WriteRing, OneMore, Counted, CountTypes, CheckHolds, Ringing, Rings, Today,
                  Kept, RowKept, RingKept, row, job, history
    <3>3. PushKept(b)'
      BY <1>3 DEF WriteRing, OneMore, Counted, CountTypes, CheckHolds, Ringing, Kept,
                  RowKept, PushKept, Unpushed, row, job, history
    <3> QED
      BY <3>1, <3>2, <3>3
  <2> QED
    BY <2>1, <2>2, <2>3 DEF Counted, Kept
<1>4. CASE WriteQuiet(a)
  BY <1>4 DEF WriteQuiet, Rearms,
             Counted, CountTypes, CheckHolds, Ringing, Rings, Today, Kept, RowKept,
             RingKept, PushKept, Unpushed, row, job, history
<1> QED
  BY <1>1, <1>2, <1>3, <1>4

\* A midnight or a restart finds no check at work, or ends it.
LEMMA TimeCounted ==
  ASSUME Counted, Midnight \/ Restart \/ UNCHANGED vars
  PROVE  Counted'
<1>1. CASE Midnight
  <2>1. CountTypes'
    BY <1>1 DEF Midnight, Counted, CountTypes, row, job, history
  <2>2. CheckHolds' /\ Ringing'
    BY <1>1 DEF Midnight, Counted, CheckHolds, Ringing, Rings, Today, CountTypes, row, job,
                history
  <2>3. ASSUME NEW b \in Alerts PROVE RowKept(b)' /\ RingKept(b)' /\ PushKept(b)'
    <3>1. RowKept(b)'
      BY <1>1 DEF Midnight, Counted, CountTypes, Kept, RowKept, row, job, history
    <3>2. RingKept(b)'
      BY <1>1 DEF Midnight, Counted, CountTypes, CheckHolds, Ringing, Rings, Today, Kept,
                  RowKept, RingKept, row, job, history
    <3>3. PushKept(b)'
      BY <1>1 DEF Midnight, Counted, CountTypes, CheckHolds, Ringing, Kept, RowKept,
                  PushKept, Unpushed, row, job, history
    <3> QED
      BY <3>1, <3>2, <3>3
  <2> QED
    BY <2>1, <2>2, <2>3 DEF Counted, Kept
<1>2. CASE Restart
  <2>1. CountTypes'
    BY <1>2 DEF Restart, Counted, CountTypes, row, job, history
  <2>2. CheckHolds' /\ Ringing'
    BY <1>2 DEF Restart, Counted, CheckHolds, Ringing, Rings, Today, CountTypes, row, job,
                history
  <2>3. ASSUME NEW b \in Alerts PROVE RowKept(b)' /\ RingKept(b)' /\ PushKept(b)'
    <3>1. RowKept(b)'
      BY <1>2 DEF Restart, Counted, CountTypes, Kept, RowKept, row, job, history
    <3>2. RingKept(b)'
      BY <1>2 DEF Restart, Counted, CountTypes, CheckHolds, Ringing, Rings, Today, Kept,
                  RowKept, RingKept, row, job, history
    <3>3. PushKept(b)'
      BY <1>2 DEF Restart, Counted, CountTypes, CheckHolds, Ringing, Kept, RowKept, PushKept,
                  Unpushed, row, job, history
    <3> QED
      BY <3>1, <3>2, <3>3
  <2> QED
    BY <2>1, <2>2, <2>3 DEF Counted, Kept
<1>3. CASE UNCHANGED vars
  BY <1>3 DEF vars,
             Counted, CountTypes, CheckHolds, Ringing, Rings, Today, Kept, RowKept,
             RingKept, PushKept, Unpushed, row, job, history
<1> QED
  BY <1>1, <1>2, <1>3

\* Every step keeps the counts of rings and pushes.
LEMMA NextCounted == Counted /\ [Next]_vars => Counted'
BY UserCounted, ReadCounted, RingCounted, TimeCounted DEF Next
-----------------------------------------------------------------------------
(* The limit *)

CreatingNow == {c \in Creators : creating[c]}

\* Both counts are of finite sets.
LEMMA FiniteCounts ==
  ASSUME CountTypes
  PROVE  /\ IsFiniteSet(Existing) /\ Cardinality(Existing) \in Nat
         /\ IsFiniteSet(CreatingNow) /\ Cardinality(CreatingNow) \in 0 .. Cardinality(Creators)
         /\ Cardinality(Creators) \in Nat \ {0}
<1>1. Existing \subseteq Alerts /\ CreatingNow \subseteq Creators
  BY DEF Existing, CreatingNow
<1>2. /\ IsFiniteSet(Existing) /\ IsFiniteSet(CreatingNow)
      /\ Cardinality(CreatingNow) <= Cardinality(Creators)
  BY <1>1, FS_Subset, AlertsAssumption
<1> QED
  BY <1>2, FS_CardinalityType, FS_EmptySet, AlertsAssumption

\* Rows and requests that count for the limit stay or go.
LEMMA LimitStays ==
  ASSUME CountTypes, CountTypes', AlmostAtMostMaxAlerts,
         Existing' \subseteq Existing, CreatingNow' \subseteq CreatingNow
  PROVE  AlmostAtMostMaxAlerts'
<1>1. /\ Cardinality(Existing') <= Cardinality(Existing)
      /\ Cardinality(CreatingNow') <= Cardinality(CreatingNow)
  BY FiniteCounts, FS_Subset
<1>2. /\ Cardinality(Existing') \in Nat /\ Cardinality(CreatingNow') \in Nat
      /\ Cardinality(Existing) \in Nat /\ Cardinality(CreatingNow) \in Nat
  BY FiniteCounts, <1>1, FS_Subset, FS_CardinalityType
<1> QED
  BY <1>1, <1>2, AlertsAssumption, FiniteCounts DEF AlmostAtMostMaxAlerts, CreatingNow

\* A request that counted below the limit is one of those that may insert.
LEMMA CountKeepsLimit ==
  ASSUME CountTypes, CountTypes', NEW c \in Creators, CountAlerts(c)
  PROVE  AlmostAtMostMaxAlerts'
<1>1. Existing' = Existing /\ Cardinality(Existing) < MaxAlerts
  BY DEF CountAlerts, Existing, row
<1>2. CreatingNow' \subseteq Creators /\ Cardinality(CreatingNow') <= Cardinality(Creators)
  BY FS_Subset, AlertsAssumption DEF CreatingNow
<1>3. Cardinality(CreatingNow') \in Nat
  BY <1>2, FS_Subset, FS_CardinalityType, AlertsAssumption
<1> QED
  BY <1>1, <1>2, <1>3, FiniteCounts, AlertsAssumption DEF AlmostAtMostMaxAlerts, CreatingNow

\* An insert makes a row of a request.
LEMMA InsertKeepsLimit ==
  ASSUME CountTypes, AlmostAtMostMaxAlerts, NEW c \in Creators, NEW a \in Alerts, InsertAlert(c, a)
  PROVE  AlmostAtMostMaxAlerts'
<1>1. Existing' = Existing \union {a} /\ a \notin Existing
  BY DEF InsertAlert, Existing, CountTypes
<1>2. CreatingNow' = CreatingNow \ {c} /\ c \in CreatingNow
  BY DEF InsertAlert, CreatingNow, CountTypes
<1>3. Cardinality(Existing') = Cardinality(Existing) + 1
  BY <1>1, FiniteCounts, FS_AddElement
<1>4. Cardinality(CreatingNow') = Cardinality(CreatingNow) - 1
  BY <1>2, FiniteCounts, FS_RemoveElement
<1> QED
  BY <1>3, <1>4, FiniteCounts, AlertsAssumption DEF AlmostAtMostMaxAlerts, CreatingNow

\* Every step keeps the limit.
LEMMA NextLimit ==
  ASSUME Counted, Counted', AlmostAtMostMaxAlerts, [Next]_vars
  PROVE  AlmostAtMostMaxAlerts'
<1>0. CountTypes /\ CountTypes'
  BY DEF Counted
<1>1. ASSUME NEW c \in Creators, CountAlerts(c) PROVE AlmostAtMostMaxAlerts'
  BY <1>0, <1>1, CountKeepsLimit
<1>2. ASSUME NEW c \in Creators, NEW a \in Alerts, InsertAlert(c, a) PROVE AlmostAtMostMaxAlerts'
  BY <1>0, <1>2, InsertKeepsLimit
<1>3. ASSUME NEW a \in Alerts,
             \/ TurnOn(a) \/ TurnOff(a) \/ Delete(a)
             \/ StartRing(a) \/ Push(a) \/ WriteRing(a) \/ WriteQuiet(a)
      PROVE  AlmostAtMostMaxAlerts'
  <2>1. CreatingNow' = CreatingNow /\ Existing' \subseteq Existing
    BY <1>0, <1>3 DEF TurnOn, TurnOff, Delete, StartRing, Push, WriteRing, WriteQuiet, row, job,
                      Existing, CreatingNow, CountTypes
  <2> QED
    BY <1>0, <2>1, LimitStays
<1>4. CASE ReadActive \/ FetchQuotes \/ EndCheck \/ Midnight \/ Restart \/ UNCHANGED vars
  <2>1. CreatingNow' \subseteq CreatingNow /\ Existing' = Existing
    BY <1>0, <1>4 DEF ReadActive, FetchQuotes, EndCheck, Midnight, Restart, vars, row, job,
                      Existing, CreatingNow, CountTypes
  <2> QED
    BY <1>0, <2>1, LimitStays
<1> QED
  BY <1>1, <1>2, <1>3, <1>4 DEF Next

\* No row and no request.
LEMMA InitLimit == Init => AlmostAtMostMaxAlerts
<1> SUFFICES ASSUME Init PROVE AlmostAtMostMaxAlerts
  OBVIOUS
<1>1. Existing = {} /\ CreatingNow = {}
  BY DEF Init, Existing, CreatingNow
<1>2. Cardinality(Existing) = 0 /\ Cardinality(CreatingNow) = 0
  BY <1>1, FS_EmptySet
<1>3. CountTypes
  BY InitCounted DEF Counted
<1> QED
  BY <1>2, <1>3, FiniteCounts, AlertsAssumption DEF AlmostAtMostMaxAlerts, CreatingNow

\* An alert rings once between two armings, a ring whose write failed is not pushed
\* again, and racing requests pass the limit by less than their number: for any number
\* of alerts, requests, days and restarts.
THEOREM CountsStay == Spec => []CountsAreKept
<1>1. Init => Counted /\ AlmostAtMostMaxAlerts
  BY InitCounted, InitLimit
<1>2. Counted /\ AlmostAtMostMaxAlerts /\ [Next]_vars => Counted' /\ AlmostAtMostMaxAlerts'
  BY NextCounted, NextLimit
<1>3. Counted /\ AlmostAtMostMaxAlerts => CountsAreKept
  BY DEF Counted, CountTypes, CountsAreKept, RingsOnce, PushedOnce
<1> QED
  BY <1>1, <1>2, <1>3, PTL DEF Spec
-----------------------------------------------------------------------------
(* Polls and sign-ins.  A dashboard that polls holds the lock, so every answer a
   dashboard has written is at most as new as the one it is writing.  A caller that
   was refused holds a token older than any the broker accepts: the broker accepts no
   token but the last one it issued. *)

Busy == {"token", "ask", "invalidate", "write"}

\* The types the argument needs.
Shapes ==
  /\ pc \in [Q!Callers -> {"idle", "lock"} \union Busy]
  /\ token \in [Q!Callers -> Nat] /\ asked \in [Q!Callers -> Nat] /\ answers \in Nat
  /\ left \in [Q!Callers -> SUBSET Symbols] /\ lock \in Q!Callers \union {None}
  /\ market \in [Symbols -> Int] /\ quotes \in [Q!Callers -> [Symbols -> Int]]
  /\ issued \in Nat /\ login \in Nat /\ session.token \in Nat
  /\ live \in [Symbols -> [price : Int, stale : BOOLEAN, aged : BOOLEAN]]
  /\ written \in [Symbols -> [answer : Nat, by : Q!Callers \union {None},
                              how : {"never", "same", "quoted", "missing"}]]

\* Nothing is stored or held that was not issued, and what is accepted was issued last.
TokensInOrder ==
  /\ alive \subseteq {issued} /\ login <= issued /\ session.token <= issued
  /\ \A c \in Q!Callers : token[c] <= issued /\ (pc[c] = "invalidate" => token[c] \notin alive)

\* A dashboard that works holds the lock.
WorkersHoldLock == \A c \in Dashboards : pc[c] \in Busy => lock = c

\* No answer written is newer than the last; none of a dashboard's is newer than the one
\* a dashboard is writing.
AnswersInOrder ==
  /\ \A c \in Q!Callers : asked[c] <= answers
  /\ \A s \in Symbols :
       /\ written[s].answer <= answers
       /\ \A c \in Dashboards :
            pc[c] = "write" /\ written[s].by \notin Buttons => written[s].answer <= asked[c]

QInv == /\ Shapes /\ TokensInOrder
        /\ WorkersHoldLock /\ Q!LockHolderWorks /\ AnswersInOrder /\ Q!StaleIsExplained

\* Before anyone polls there is nothing to be late for.
LEMMA InitQInv == ASSUME Q!PollerAssumption PROVE Q!Init => QInv
<1> SUFFICES ASSUME Q!Init PROVE QInv
  OBVIOUS
<1>1. live \in [Symbols -> [price : Int, stale : BOOLEAN, aged : BOOLEAN]]
      /\ \A s \in Symbols : ~live[s].stale
  <2>1. \A p \in {0, 1} : [price |-> p, stale |-> FALSE, aged |-> p # 0]
                            \in [price : Int, stale : BOOLEAN, aged : BOOLEAN]
    <3>1. \A p \in {0, 1} : (p # 0) \in BOOLEAN
      OBVIOUS
    <3> QED
      BY <3>1
  <2> DEFINE Starts == {[price |-> p, stale |-> FALSE, aged |-> p # 0] : p \in {0, 1}}
  <2>2. \A rec \in Starts : rec \in [price : Int, stale : BOOLEAN, aged : BOOLEAN] /\ ~rec.stale
    BY <2>1
  <2>3. live \in [Symbols -> Starts]
    BY DEF Q!Init
  <2> HIDE DEF Starts
  <2> QED
    BY <2>2, <2>3
<1>2. Q!Missing \in Int
  BY DEF Q!Missing
<1>3. Shapes
  BY <1>1, <1>2 DEF Q!Init, Shapes, Busy
<1>4. TokensInOrder /\ WorkersHoldLock
  BY DEF Q!Init, Busy, TokensInOrder, WorkersHoldLock, Q!Callers
<1>5. Q!LockHolderWorks /\ AnswersInOrder
  BY DEF Q!Init, Q!LockHolderWorks, AnswersInOrder, Q!Callers
<1>6. Q!StaleIsExplained
  BY <1>1 DEF Q!StaleIsExplained
<1> QED
  BY <1>3, <1>4, <1>5, <1>6 DEF QInv

\* The broker, the clock and the sign-in: a token issued is newer than all there are.
LEMMA WorldKeeps ==
  ASSUME QInv, Q!Exchange \/ Q!StoreToken \/ Q!Morning \/ Q!Age \/ \E s \in Symbols : Q!PriceMoves(s)
  PROVE  QInv'
<1> USE DEF QInv, Q!calls, Q!broker, Q!LockHolderWorks, WorkersHoldLock, AnswersInOrder
<1>1. CASE Q!Exchange
  <2>1. Shapes' /\ Q!StaleIsExplained'
    BY <1>1 DEF Q!Exchange, Shapes, Q!StaleIsExplained
  <2>2. TokensInOrder'
    BY <1>1 DEF Q!Exchange, Shapes, TokensInOrder
  <2> QED
    BY <1>1, <2>1, <2>2 DEF Q!Exchange
<1>2. CASE Q!StoreToken
  <2>1. session' = session \/ session'.token = login
    BY <1>2 DEF Q!StoreToken
  <2>2. Shapes' /\ Q!StaleIsExplained'
    BY <1>2, <2>1 DEF Q!StoreToken, Shapes, Q!StaleIsExplained
  <2>3. TokensInOrder'
    BY <1>2, <2>1 DEF Q!StoreToken, Shapes, TokensInOrder
  <2> QED
    BY <1>2, <2>2, <2>3 DEF Q!StoreToken
<1>3. CASE Q!Morning
  <2>1. session'.token = session.token
    BY <1>3 DEF Q!Morning
  <2>2. Shapes' /\ Q!StaleIsExplained'
    BY <1>3, <2>1 DEF Q!Morning, Shapes, Q!StaleIsExplained
  <2>3. TokensInOrder'
    BY <1>3, <2>1 DEF Q!Morning, Shapes, TokensInOrder
  <2> QED
    BY <1>3, <2>2, <2>3 DEF Q!Morning
<1>4. CASE Q!Age
  <2>1. /\ live' \in [Symbols -> [price : Int, stale : BOOLEAN, aged : BOOLEAN]]
        /\ \A s \in Symbols : live'[s].stale = live[s].stale
    BY <1>4 DEF Q!Age, Shapes
  <2>2. Shapes' /\ Q!StaleIsExplained'
    BY <1>4, <2>1 DEF Q!Age, Shapes, Q!StaleIsExplained
  <2>3. TokensInOrder'
    BY <1>4 DEF Q!Age, TokensInOrder
  <2> QED
    BY <1>4, <2>2, <2>3 DEF Q!Age
<1>5. ASSUME NEW s \in Symbols, Q!PriceMoves(s) PROVE QInv'
  BY <1>5 DEF Q!PriceMoves, Shapes, TokensInOrder, Q!StaleIsExplained
<1> QED
  BY <1>1, <1>2, <1>3, <1>4, <1>5

\* The end of a call: it works no more and has no lock.
LEMMA ReturnKeeps ==
  ASSUME Q!PollerAssumption, QInv, NEW c \in Q!Callers, pc[c] \in Busy, Q!Returns(c),
         UNCHANGED <<Q!broker, login, answers, live, written>>, session'.token = session.token
  PROVE  QInv'
<1>1. /\ \A d \in Q!Callers \ {c} : /\ pc'[d] = pc[d] /\ token'[d] = token[d] /\ asked'[d] = asked[d]
      /\ pc'[c] = "idle" /\ token'[c] = 0 /\ asked'[c] = 0
      /\ lock' = IF lock = c THEN None ELSE lock
      /\ UNCHANGED <<alive, market, issued, login, answers, live, written>>
  BY DEF QInv, Shapes, Q!Returns, Q!Goes, Q!broker
<1>2. Shapes'
  <2>1. [s \in Symbols |-> Q!Missing] \in [Symbols -> Int]
    BY DEF Q!Missing
  <2>2. /\ quotes' \in [Q!Callers -> [Symbols -> Int]] /\ left' \in [Q!Callers -> SUBSET Symbols]
        /\ token' \in [Q!Callers -> Nat] /\ asked' \in [Q!Callers -> Nat]
        /\ pc' \in [Q!Callers -> {"idle", "lock"} \union Busy]
    BY <2>1 DEF QInv, Shapes, Q!Returns, Q!Goes
  <2> QED
    BY <1>1, <2>2 DEF QInv, Shapes
<1>3. TokensInOrder'
  BY <1>1 DEF QInv, Shapes, TokensInOrder
<1>4. WorkersHoldLock' /\ Q!LockHolderWorks'
  BY <1>1 DEF QInv, Shapes, WorkersHoldLock, Q!LockHolderWorks, Q!PollerAssumption, Q!Callers, Busy
<1>5. AnswersInOrder'
  <2>1. 0 <= answers
    BY DEF QInv, Shapes
  <2> QED
    BY <1>1, <2>1 DEF QInv, AnswersInOrder, Q!Callers
<1>6. Q!StaleIsExplained'
  BY <1>1 DEF QInv, Q!StaleIsExplained
<1> QED
  BY <1>2, <1>3, <1>4, <1>5, <1>6 DEF QInv

\* A call that comes to its next point, and reads or writes nothing.
LEMMA MoveKeeps ==
  ASSUME QInv, NEW c \in Q!Callers, NEW where \in {"idle", "lock", "token", "invalidate"},
         Q!Goes(c, where),
         where = "idle" => pc[c] = "lock" /\ lock = None,
         where = "lock" => pc[c] = "idle",
         where = "token" => IF pc[c] = "lock"
                              THEN lock = None /\ lock' = c
                              ELSE pc[c] = "idle" /\ lock' = lock /\ c \notin Dashboards,
         where # "token" => lock' = lock,
         where = "invalidate" => pc[c] = "ask" /\ token[c] \notin alive,
         Q!PollerAssumption,
         UNCHANGED <<Q!broker, login, session, token, quotes, asked, left, answers, live, written>>
  PROVE  QInv'
<1>1. /\ \A d \in Q!Callers \ {c} : pc'[d] = pc[d]
      /\ pc'[c] = where
  BY DEF QInv, Shapes, Q!Goes
<1>2. Shapes'
  BY <1>1 DEF QInv, Shapes, Q!Goes, Q!broker, Busy
<1>3. TokensInOrder'
  BY <1>1 DEF QInv, TokensInOrder, Q!broker
<1>4. WorkersHoldLock'
  BY <1>1 DEF QInv, WorkersHoldLock, Q!PollerAssumption, Q!Callers, Busy
<1>5. Q!LockHolderWorks'
  BY <1>1 DEF QInv, Shapes, Q!LockHolderWorks, Q!PollerAssumption, Q!Callers, Busy
<1>6. AnswersInOrder' /\ Q!StaleIsExplained'
  BY <1>1 DEF QInv, Shapes, AnswersInOrder, Q!StaleIsExplained, Q!Callers
<1> QED
  BY <1>2, <1>3, <1>4, <1>5, <1>6 DEF QInv

\* Authenticate: the token of a client is the stored one.
LEMMA AuthenticateKeeps == ASSUME QInv, NEW c \in Q!Callers, Q!Authenticate(c) PROVE QInv'
<1>1. /\ \A d \in Q!Callers \ {c} : pc'[d] = pc[d] /\ token'[d] = token[d]
      /\ pc[c] = "token" /\ pc'[c] = "ask" /\ token'[c] \in {0, session.token}
  BY DEF QInv, Shapes, Q!Authenticate, Q!Goes, Q!StoredToken
<1>2. Shapes' /\ TokensInOrder'
  BY <1>1 DEF QInv, Shapes, TokensInOrder, Q!Authenticate, Q!Goes, Q!StoredToken, Q!broker, Busy
<1>3. WorkersHoldLock' /\ Q!LockHolderWorks' /\ AnswersInOrder' /\ Q!StaleIsExplained'
  BY <1>1 DEF QInv, Shapes, Q!Authenticate, WorkersHoldLock, Q!LockHolderWorks, AnswersInOrder,
              Q!StaleIsExplained, Q!Callers, Busy
<1> QED
  BY <1>2, <1>3 DEF QInv

\* Quote: an answer is newer than everything written.
LEMMA QuoteKeeps == ASSUME QInv, NEW c \in Q!Callers, Q!Quote(c) PROVE QInv'
<1>1. /\ \A d \in Q!Callers \ {c} : pc'[d] = pc[d] /\ asked'[d] = asked[d]
      /\ pc[c] = "ask" /\ pc'[c] = "write" /\ asked'[c] = answers + 1 /\ answers' = answers + 1
      /\ UNCHANGED <<alive, issued, login, session, lock, token, live, written>>
  BY DEF QInv, Shapes, Q!Quote, Q!Goes, Q!broker
<1>2. Shapes'
  <2>1. PICK S \in SUBSET Symbols :
           quotes' = [quotes EXCEPT ![c] = [s \in Symbols |-> IF s \in S THEN market[s] ELSE Q!Missing]]
    BY DEF Q!Quote
  <2>2. [s \in Symbols |-> IF s \in S THEN market[s] ELSE Q!Missing] \in [Symbols -> Int]
    BY DEF QInv, Shapes, Q!Missing
  <2>3. quotes' \in [Q!Callers -> [Symbols -> Int]]
    BY <2>1, <2>2 DEF QInv, Shapes
  <2>4. /\ pc' \in [Q!Callers -> {"idle", "lock"} \union Busy] /\ answers + 1 \in Nat
        /\ asked' \in [Q!Callers -> Nat] /\ left' \in [Q!Callers -> SUBSET Symbols]
        /\ market' = market
    BY DEF QInv, Shapes, Q!Quote, Q!Goes, Busy, Q!broker
  <2> QED
    BY <1>1, <2>3, <2>4 DEF QInv, Shapes
<1>3. TokensInOrder' /\ WorkersHoldLock' /\ Q!LockHolderWorks' /\ Q!StaleIsExplained'
  BY <1>1 DEF QInv, Shapes, TokensInOrder, WorkersHoldLock, Q!LockHolderWorks, Q!StaleIsExplained,
              Q!Callers, Busy
<1>4. AnswersInOrder'
  <2>1. /\ answers \in Nat /\ \A d \in Q!Callers : asked[d] \in Nat
        /\ \A s \in Symbols : written[s].answer \in Nat
    BY DEF QInv, Shapes
  <2>2. \A d \in Q!Callers : asked'[d] <= answers'
    BY <1>1, <2>1 DEF QInv, AnswersInOrder
  <2>3. \A s \in Symbols : written[s].answer <= answers + 1
    BY <2>1 DEF QInv, AnswersInOrder
  <2>4. ASSUME NEW s \in Symbols, NEW d \in Dashboards, pc'[d] = "write", written[s].by \notin Buttons
        PROVE  written[s].answer <= asked'[d]
    BY <1>1, <2>3, <2>4 DEF QInv, AnswersInOrder, Q!Callers
  <2> QED
    BY <1>1, <2>2, <2>3, <2>4 DEF AnswersInOrder
<1> QED
  BY <1>2, <1>3, <1>4 DEF QInv

\* A row is written: by a dashboard, only while no other works.
LEMMA WriteKeeps ==
  ASSUME QInv, NEW c \in Q!Callers, NEW s \in Symbols,
         NEW rec \in [price : Int, stale : BOOLEAN, aged : BOOLEAN],
         NEW how \in {"same", "quoted", "missing"}, Q!Write(c, s, rec, how),
         rec.stale => how \in {"same", "missing"}
  PROVE  QInv'
<1>1. /\ pc[c] = "write" /\ UNCHANGED <<Q!broker, login, session, lock, pc, token, asked, answers>>
      /\ live'[s] = rec /\ written'[s].answer = asked[c] /\ written'[s].by = c
      /\ written'[s].how = how
      /\ \A r \in Symbols \ {s} : live'[r] = live[r] /\ written'[r] = written[r]
  BY DEF QInv, Shapes, Q!Write
<1>2. Shapes'
  BY <1>1 DEF QInv, Shapes, Q!Write, Q!broker
<1>3. TokensInOrder' /\ WorkersHoldLock' /\ Q!LockHolderWorks' /\ Q!StaleIsExplained'
  BY <1>1 DEF QInv, TokensInOrder, WorkersHoldLock, Q!LockHolderWorks, Q!StaleIsExplained, Q!broker
<1>4. AnswersInOrder'
  <2>1. ASSUME NEW d \in Dashboards, pc[d] = "write", c \notin Buttons PROVE d = c
    BY <1>1, <2>1 DEF QInv, WorkersHoldLock, Q!Callers, Busy
  <2>2. asked[c] \in Nat /\ asked[c] <= answers /\ answers' = answers /\ asked' = asked
    BY <1>1 DEF QInv, Shapes, AnswersInOrder
  <2>3. \A r \in Symbols : written'[r].answer <= answers
    BY <1>1, <2>2 DEF QInv, AnswersInOrder
  <2>4. ASSUME NEW r \in Symbols, NEW d \in Dashboards, pc'[d] = "write",
               written'[r].by \notin Buttons
        PROVE  written'[r].answer <= asked[d]
    <3>1. CASE r = s
      BY <1>1, <2>1, <2>2, <2>4, <3>1
    <3>2. CASE r # s
      BY <1>1, <2>4, <3>2 DEF QInv, AnswersInOrder
    <3> QED
      BY <3>1, <3>2
  <2> QED
    BY <2>2, <2>3, <2>4 DEF QInv, AnswersInOrder
<1> QED
  BY <1>2, <1>3, <1>4 DEF QInv

\* WriteQuote and MarkMissing: how a row may come to be marked.
LEMMA RowKeeps ==
  ASSUME Q!PollerAssumption, QInv, NEW c \in Q!Callers, NEW s \in Symbols,
         Q!WriteQuote(c, s) \/ Q!MarkMissing(c, s)
  PROVE  QInv'
<1>1. live[s] \in [price : Int, stale : BOOLEAN, aged : BOOLEAN] /\ quotes[c][s] \in Int
  BY DEF QInv, Shapes
<1>2. CASE Q!WriteQuote(c, s)
  <2>1. CASE live[s].price = quotes[c][s]
    BY <1>1, <1>2, <2>1, WriteKeeps DEF Q!WriteQuote, Q!Updated
  <2>2. CASE live[s].price # quotes[c][s]
    BY <1>1, <1>2, <2>2, WriteKeeps DEF Q!WriteQuote, Q!Updated
  <2> QED
    BY <2>1, <2>2
<1>3. CASE Q!MarkMissing(c, s)
  <2>1. (live[s].price # 0) \in BOOLEAN
    OBVIOUS
  <2>2. [live[s] EXCEPT !.stale = (live[s].price # 0)]
          \in [price : Int, stale : BOOLEAN, aged : BOOLEAN]
    BY <1>1, <2>1
  <2> QED
    BY <1>3, <2>2, WriteKeeps DEF Q!MarkMissing
<1> QED
  BY <1>2, <1>3

\* Every step keeps the invariant.
LEMMA NextQInv == ASSUME Q!PollerAssumption PROVE QInv /\ [Q!Next]_Q!vars => QInv'
<1> SUFFICES ASSUME QInv, [Q!Next]_Q!vars PROVE QInv'
  OBVIOUS
<1>1. ASSUME NEW c \in Q!Callers, Q!StartDashboard(c) \/ Q!StartButton(c) \/ Q!TakeLock(c) \/ Q!AllFresh(c)
                                \/ Q!TokenRejected(c)
      PROVE  QInv'
  <2>1. CASE Q!StartDashboard(c)
    BY <2>1, MoveKeeps DEF Q!StartDashboard
  <2>2. CASE Q!StartButton(c)
    BY <2>2, MoveKeeps DEF Q!StartButton, Q!PollerAssumption
  <2>3. CASE Q!TakeLock(c)
    BY <2>3, MoveKeeps DEF Q!TakeLock, Q!LockFree
  <2>4. CASE Q!AllFresh(c)
    BY <2>4, MoveKeeps DEF Q!AllFresh, Q!LockFree
  <2>5. CASE Q!TokenRejected(c)
    BY <2>5, MoveKeeps DEF Q!TokenRejected, Q!Rejected
  <2> QED
    BY <1>1, <2>1, <2>2, <2>3, <2>4, <2>5
<1>2. ASSUME NEW c \in Q!Callers, Q!LoginRequired(c) \/ Q!NetworkError(c) \/ Q!Invalidate(c) \/ Q!PollEnds(c)
      PROVE  QInv'
  <2>1. session'.token = session.token /\ pc[c] \in Busy /\ Q!Returns(c)
        /\ UNCHANGED <<Q!broker, login, answers, live, written>>
    <3>1. CASE Q!LoginRequired(c) \/ Q!NetworkError(c) \/ Q!PollEnds(c)
      BY <3>1 DEF Q!LoginRequired, Q!NetworkError, Q!PollEnds, Busy
    <3>2. CASE Q!Invalidate(c)
      BY <3>2 DEF Q!Invalidate, Busy
    <3> QED
      BY <1>2, <3>1, <3>2
  <2> QED
    BY <2>1, ReturnKeeps
<1>3. CASE UNCHANGED Q!vars
  BY <1>3 DEF Q!vars, Q!broker, Q!calls, QInv, Shapes, TokensInOrder, WorkersHoldLock, Q!LockHolderWorks,
              AnswersInOrder, Q!StaleIsExplained
<1> QED
  BY <1>1, <1>2, <1>3, WorldKeeps, AuthenticateKeeps, QuoteKeeps, RowKeeps DEF Q!Next, Q!Step

\* Whatever way a poll ends, refused, unreachable or broken off between two rows, it keeps
\* no lock, and a row is left marked stale for a reason.
THEOREM PollsLeaveNothingBehind ==
  ASSUME Q!PollerAssumption
  PROVE  Q!Spec => []Q!NothingIsLeftBehind
<1>1. QInv => Q!NothingIsLeftBehind
  BY DEF QInv, Q!NothingIsLeftBehind
<1> QED
  BY <1>1, InitQInv, NextQInv, PTL DEF Q!Spec

\* No dashboard overwrites a newer quote of another's, and what ends a session that the
\* broker accepts is the refusal of an older token.  A button's poll, and a late refusal,
\* may undo what is newer.
THEOREM UndoneOnlyThere ==
  ASSUME Q!PollerAssumption
  PROVE  Q!Spec => Q!UndoneOnlyUnguarded
<1>1. ASSUME QInv, [Q!Next]_Q!vars, NEW s \in Symbols
      PROVE  \/ written'[s].answer >= written[s].answer
             \/ written'[s].by \in Buttons \/ written[s].by \in Buttons
  <2>1. CASE written' = written
    BY <1>1, <2>1 DEF QInv, Shapes
  <2>2. ASSUME NEW c \in Q!Callers, NEW r \in Symbols, Q!WriteQuote(c, r) \/ Q!MarkMissing(c, r),
               written[s].by \notin Buttons, c \notin Buttons
        PROVE  written'[s].answer >= written[s].answer
    <3>1. /\ pc[c] = "write" /\ c \in Dashboards
          /\ written'[s] = IF s = r THEN [answer |-> asked[c], by |-> c, how |-> written'[s].how]
                                    ELSE written[s]
      BY <1>1, <2>2 DEF Q!WriteQuote, Q!MarkMissing, Q!Write, QInv, Shapes, Q!Callers
    <3> QED
      BY <1>1, <2>2, <3>1 DEF QInv, Shapes, AnswersInOrder
  <2>3. ASSUME NEW c \in Q!Callers, NEW r \in Symbols, Q!WriteQuote(c, r) \/ Q!MarkMissing(c, r),
               c \in Buttons
        PROVE  written'[s].by \in Buttons \/ written'[s] = written[s]
    BY <1>1, <2>3 DEF Q!WriteQuote, Q!MarkMissing, Q!Write, QInv, Shapes
  <2>4. \/ written' = written
        \/ \E c \in Q!Callers, r \in Symbols : Q!WriteQuote(c, r) \/ Q!MarkMissing(c, r)
    BY <1>1 DEF Q!Next, Q!Step, Q!vars, Q!Exchange, Q!StoreToken, Q!Morning, Q!Age, Q!PriceMoves, Q!StartDashboard,
                Q!StartButton, Q!TakeLock, Q!AllFresh, Q!Authenticate, Q!LoginRequired, Q!Quote,
                Q!TokenRejected, Q!NetworkError, Q!Invalidate, Q!PollEnds
  <2> QED
    BY <1>1, <2>1, <2>2, <2>3, <2>4 DEF QInv, Shapes
<1>2. ASSUME QInv, [Q!Next]_Q!vars, session.valid, session.token \in alive, ~session'.valid
      PROVE  \E c \in Q!Callers : /\ pc[c] = "invalidate" /\ pc'[c] = "idle"
                                  /\ token[c] < session.token
  <2>1. session' # session
    BY <1>2
  <2>2. ~Q!Morning /\ ~Q!StoreToken
    <3>1. ASSUME Q!Morning PROVE session'.valid = session.valid
      BY <3>1 DEF Q!Morning
    <3>2. ASSUME Q!StoreToken PROVE session'.valid = session.valid \/ session'.valid = TRUE
      BY <3>2 DEF Q!StoreToken
    <3> QED
      BY <1>2, <3>1, <3>2
  <2>3. PICK c \in Q!Callers : Q!Invalidate(c)
    BY <1>2, <2>1, <2>2
       DEF Q!Next, Q!Step, Q!vars, Q!Exchange, Q!Age, Q!PriceMoves, Q!StartDashboard, Q!StartButton, Q!TakeLock,
           Q!AllFresh, Q!Authenticate, Q!LoginRequired, Q!Quote, Q!TokenRejected, Q!NetworkError,
           Q!WriteQuote, Q!MarkMissing, Q!Write, Q!PollEnds
  <2>4. pc[c] = "invalidate" /\ pc'[c] = "idle"
    BY <1>2, <2>3 DEF Q!Invalidate, Q!Returns, Q!Goes, QInv, Shapes
  <2>5. token[c] < session.token
    BY <1>2, <2>4 DEF QInv, Shapes, TokensInOrder
  <2> QED
    BY <2>4, <2>5
<1>3. QInv /\ [Q!Next]_Q!vars =>
        /\ \A s \in Symbols : \/ written'[s].answer >= written[s].answer
                              \/ written'[s].by \in Buttons \/ written[s].by \in Buttons
        /\ session.valid /\ session.token \in alive /\ ~session'.valid
             => \E c \in Q!Callers : /\ pc[c] = "invalidate" /\ pc'[c] = "idle"
                                     /\ token[c] < session.token
  BY <1>1, <1>2
<1> QED
  BY <1>3, InitQInv, NextQInv, PTL
     DEF Q!Spec, Q!UndoneOnlyUnguarded, Q!NewerQuoteStaysUnderLock, Q!GoodSessionEndsByOlderRefusal
-----------------------------------------------------------------------------
(* The calendar.  A lookup that no commit has crossed holds the table as it is, and
   only such a lookup is stored without being recorded as a failure; so the cache
   agrees with the table until the next commit, which clears it. *)

LookupsFollow ==
  \A c \in Lookups : seen[c] # None /\ c \notin crossed => seen[c] = rows

CalInv == C!TypeOK /\ C!CacheFollowsTable /\ LookupsFollow

\* Initially nothing is cached and nobody looks anything up.
LEMMA InitCalInv == C!Init => CalInv
BY DEF C!Init, CalInv, C!TypeOK, C!CacheFollowsTable, LookupsFollow

\* Every step of the calendar keeps the invariant.
LEMMA NextCalInv == ASSUME C!CalendarAssumption PROVE CalInv /\ [C!Next]_C!vars => CalInv'
<1> SUFFICES ASSUME CalInv, [C!Next]_C!vars PROVE CalInv'
  OBVIOUS
<1> USE DEF CalInv, C!TypeOK, C!CacheFollowsTable, LookupsFollow
<1>1. ASSUME NEW c \in Lookups, C!ReadRows(c) \/ C!ReadBundled(c) PROVE CalInv'
  BY <1>1 DEF C!ReadRows, C!ReadBundled, C!CalendarAssumption
<1>2. ASSUME NEW c \in Lookups, C!StoreRows(c) PROVE CalInv'
  <2>1. (c \in crossed) \in BOOLEAN
    OBVIOUS
  <2>2. C!TypeOK'
    BY <1>2, <2>1 DEF C!StoreRows
  <2>3. LookupsFollow'
    BY <1>2 DEF C!StoreRows
  <2>4. C!CacheFollowsTable'
    BY <1>2 DEF C!StoreRows
  <2> QED
    BY <2>2, <2>3, <2>4
<1>3. ASSUME NEW d \in C!Days, C!Upsert(d) PROVE CalInv'
  <2>1. rows' \in C!Calendars
    BY <1>3 DEF C!Upsert, C!Calendars, C!Kinds
  <2> QED
    BY <1>3, <2>1 DEF C!Upsert
<1>4. CASE C!ClearCache
  BY <1>4 DEF C!ClearCache
<1>5. CASE C!Restart
  BY <1>5 DEF C!Restart
<1>6. CASE UNCHANGED C!vars
  BY <1>6 DEF C!vars
<1> QED
  BY <1>1, <1>2, <1>3, <1>4, <1>5, <1>6 DEF C!Next

\* The calendar's invariant holds throughout.
LEMMA CalInvHolds == ASSUME C!CalendarAssumption PROVE C!Spec => []CalInv
BY InitCalInv, NextCalInv, PTL DEF C!Spec

\* A moment of the day d has d for its day.
LEMMA DayOfMoment ==
  ASSUME NEW n \in Nat \ {0}, NEW d \in Nat, NEW u \in Nat, d * n <= u, u < d * n + n
  PROVE  u \div n = d
<1> DEFINE e == u \div n
<1>1. e \in Nat /\ n * e <= u /\ u < n * e + n
  OBVIOUS
<1> HIDE DEF e
<1>2. ~(e < d)
  <2> SUFFICES ASSUME e < d PROVE FALSE
    OBVIOUS
  <2>1. n * (e + 1) <= n * d
    BY <1>1
  <2> QED
    BY <1>1, <2>1
<1>3. ~(d < e)
  <2> SUFFICES ASSUME d < e PROVE FALSE
    OBVIOUS
  <2>1. n * (d + 1) <= n * e
    BY <1>1
  <2> QED
    BY <1>1, <2>1
<1>4. e = d
  BY <1>1, <1>2, <1>3
<1> QED
  BY <1>4 DEF e

\* The session of a day, of either kind, lies within the day.
LEMMA SessionInDay ==
  ASSUME C!CalendarAssumption, NEW cal, NEW d \in Nat
  PROVE  /\ Slots \in Nat \ {0}
         /\ C!OpenTime(cal, d) \in Nat /\ C!CloseTime(cal, d) \in Nat
         /\ d * Slots <= C!OpenTime(cal, d) /\ C!OpenTime(cal, d) <= C!CloseTime(cal, d)
         /\ C!CloseTime(cal, d) < d * Slots + Slots
<1>1. /\ OpenAt \in 0..(Slots - 1) /\ CloseAt \in OpenAt..(Slots - 1)
      /\ SpecialOpen \in 0..(Slots - 1) /\ SpecialClose \in SpecialOpen..(Slots - 1)
  BY DEF C!CalendarAssumption
<1>2. Slots \in Nat \ {0}
  BY DEF C!CalendarAssumption
<1>3. d * Slots \in Nat
  BY <1>2
<1>4. /\ C!OpenTime(cal, d) = d * Slots + (IF C!IsSpecial(cal, d) THEN SpecialOpen ELSE OpenAt)
      /\ C!CloseTime(cal, d) = d * Slots + (IF C!IsSpecial(cal, d) THEN SpecialClose ELSE CloseAt)
  BY DEF C!OpenTime, C!CloseTime
<1> QED
  BY <1>1, <1>2, <1>3, <1>4

\* The next opening that is announced: of today if it is still to come, or else of the
\* first market day ahead; and no day between is a market day.
LEMMA NextSession ==
  ASSUME C!CalendarAssumption, NEW cal, NEW t \in 0..((YearEnd + 1) * Slots - 1),
         ~C!IsMarketOpen(cal, t)
  PROVE  \E next \in Nat :
           /\ t + C!UntilOpen(cal, t) = C!OpenTime(cal, next) /\ t < C!OpenTime(cal, next)
           /\ C!UntilOpen(cal, t) \in Nat
           /\ C!IsMarketDay(cal, next)
           /\ t \div Slots <= next
           /\ \A d \in Nat : t \div Slots < d /\ d < next => ~C!IsMarketDay(cal, d)
           /\ next # t \div Slots =>
                C!OpenTime(cal, t \div Slots) <= t \/ ~C!IsMarketDay(cal, t \div Slots)
<1> DEFINE d0 == t \div Slots
           ahead == {d \in (d0 + 1)..(YearEnd + 1) : C!IsMarketDay(cal, d)}
           past == C!OpenTime(cal, d0) <= t \/ ~C!IsMarketDay(cal, d0)
           next == IF past THEN C!Min(ahead) ELSE d0
<1>1. YearEnd \in Nat /\ Slots \in Nat \ {0} /\ t \in Nat
  BY SessionInDay, 0 \in Nat DEF C!CalendarAssumption
<1>2. d0 \in Nat /\ d0 * Slots <= t /\ t < d0 * Slots + Slots
  BY <1>1
<1>3. d0 <= YearEnd
  <2>1. (YearEnd + 1) * Slots \in Nat /\ t < (YearEnd + 1) * Slots
    BY <1>1
  <2> HIDE DEF d0
  <2> SUFFICES ASSUME YearEnd + 1 <= d0 PROVE FALSE
    BY <1>1, <1>2
  <2>2. (YearEnd + 1) * Slots <= d0 * Slots
    BY <1>1, <1>2
  <2> QED
    BY <1>1, <1>2, <2>1, <2>2
<1>4. ahead \in SUBSET Nat /\ YearEnd + 1 \in ahead
  <2>1. C!IsMarketDay(cal, YearEnd + 1)
    <3>1. YearEnd + 1 \notin C!Days
      BY <1>1 DEF C!Days
    <3> QED
      BY <3>1 DEF C!CalendarAssumption, C!IsMarketDay, C!IsSpecial, C!Row
  <2> HIDE DEF d0
  <2> QED
    BY <1>1, <1>2, <1>3, <2>1
<1>5. C!Min(ahead) \in ahead /\ \A d \in ahead : C!Min(ahead) <= d
  <2> HIDE DEF ahead
  <2>1. C!Min(ahead) = Min(ahead)
    BY DEF C!Min, Min
  <2> QED
    BY <1>4, <2>1, MinIs
<1>6. next \in Nat /\ d0 <= next /\ C!IsMarketDay(cal, next) /\ next <= YearEnd + 1
  <2> HIDE DEF d0
  <2> QED
    BY <1>1, <1>2, <1>3, <1>5
<1>7. \A d \in Nat : d0 < d /\ d < next => ~C!IsMarketDay(cal, d)
  <2> HIDE DEF d0
  <2> QED
    BY <1>1, <1>2, <1>3, <1>5, <1>6
<1>8. C!OpenTime(cal, next) \in Nat /\ next * Slots <= C!OpenTime(cal, next)
  BY <1>6, SessionInDay
<1>9. t < C!OpenTime(cal, next)
  <2>1. CASE past
    <3>1. d0 + 1 <= next
      <4> HIDE DEF d0
      <4> QED
        BY <1>1, <1>2, <1>5, <2>1
    <3> HIDE DEF d0, next
    <3>2. (d0 + 1) * Slots <= next * Slots
      BY <1>1, <1>2, <1>6, <3>1
    <3> QED
      BY <1>1, <1>2, <1>6, <1>8, <3>2
  <2>2. CASE ~past
    <3>1. next = d0 /\ C!OpenTime(cal, d0) \in Nat
      BY <1>2, <2>2, SessionInDay
    <3> QED
      BY <1>1, <2>2, <3>1
  <2> QED
    BY <2>1, <2>2
<1>10. C!UntilOpen(cal, t) = C!OpenTime(cal, next) - t
  <2> DEFINE wait == C!OpenTime(cal, next) - t
  <2>1. C!UntilOpen(cal, t) = C!Max({0, wait})
    BY DEF C!UntilOpen
  <2>2. wait \in Nat /\ wait > 0
    BY <1>1, <1>8, <1>9
  <2> HIDE DEF wait
  <2>3. C!Max({0, wait}) = wait
    BY <2>2 DEF C!Max
  <2> QED
    BY <2>1, <2>3 DEF wait
<1> HIDE DEF d0, next, ahead, past
<1>11. t + C!UntilOpen(cal, t) = C!OpenTime(cal, next) /\ C!UntilOpen(cal, t) \in Nat
  BY <1>1, <1>8, <1>9, <1>10
<1>12. next # d0 => past
  BY DEF next
<1> QED
  BY <1>6, <1>7, <1>9, <1>11, <1>12 DEF d0, past

\* The wait announced ends at an opening, and no moment before it is open: for a
\* calendar of any length, with holidays, weekends and special sessions anywhere.
LEMMA WaitIsExact ==
  ASSUME C!CalendarAssumption, NEW cal, NEW t \in 0..((YearEnd + 1) * Slots - 1)
  PROVE  LET wait == C!UntilOpen(cal, t)
         IN /\ C!IsMarketOpen(cal, t + wait)
            /\ \A k \in 0..(wait - 1) : ~C!IsMarketOpen(cal, t + k)
<1>1. t \in Nat /\ Slots \in Nat \ {0} /\ YearEnd \in Nat
  BY SessionInDay, 0 \in Nat DEF C!CalendarAssumption
<1>2. CASE C!IsMarketOpen(cal, t)
  <2>1. C!UntilOpen(cal, t) = 0
    BY <1>2 DEF C!UntilOpen
  <2>2. t + 0 = t /\ 0..(0 - 1) = {}
    BY <1>1
  <2> QED
    BY <1>2, <2>1, <2>2
<1>3. CASE ~C!IsMarketOpen(cal, t)
  <2>1. PICK next \in Nat :
           /\ t + C!UntilOpen(cal, t) = C!OpenTime(cal, next) /\ t < C!OpenTime(cal, next)
           /\ C!UntilOpen(cal, t) \in Nat
           /\ C!IsMarketDay(cal, next)
           /\ t \div Slots <= next
           /\ \A d \in Nat : t \div Slots < d /\ d < next => ~C!IsMarketDay(cal, d)
           /\ next # t \div Slots =>
                C!OpenTime(cal, t \div Slots) <= t \/ ~C!IsMarketDay(cal, t \div Slots)
    BY <1>3, NextSession
  <2> DEFINE at == C!OpenTime(cal, next)
  <2>2. /\ at \in Nat /\ next * Slots <= at /\ at < next * Slots + Slots
        /\ C!CloseTime(cal, next) \in Nat /\ at <= C!CloseTime(cal, next)
    BY <1>1, SessionInDay
  <2>3. at \div Slots = next
    BY <1>1, <2>2, DayOfMoment
  <2>4. C!IsMarketOpen(cal, at)
    BY <2>1, <2>2, <2>3 DEF C!IsMarketOpen
  <2>5. ASSUME NEW u \in Nat, t <= u, u < at PROVE ~C!IsMarketOpen(cal, u)
    <3> DEFINE e == u \div Slots
               d0 == t \div Slots
    <3>1. /\ e \in Nat /\ e * Slots <= u /\ u < e * Slots + Slots
          /\ d0 \in Nat /\ d0 * Slots <= t /\ t < d0 * Slots + Slots
      BY <1>1
    <3> HIDE DEF e, d0
    <3>2. d0 <= e
      <4> SUFFICES ASSUME e < d0 PROVE FALSE
        BY <3>1
      <4>1. (e + 1) * Slots <= d0 * Slots
        BY <1>1, <3>1
      <4> QED
        BY <1>1, <2>5, <3>1, <4>1
    <3>3. e <= next
      <4> SUFFICES ASSUME next < e PROVE FALSE
        BY <3>1
      <4>1. (next + 1) * Slots <= e * Slots
        BY <1>1, <3>1
      <4> QED
        BY <1>1, <2>2, <2>5, <3>1, <4>1
    <3>4. C!IsMarketOpen(cal, u) <=> /\ C!IsMarketDay(cal, e)
                                     /\ C!OpenTime(cal, e) <= u /\ u <= C!CloseTime(cal, e)
      BY DEF C!IsMarketOpen, e
    <3>5. CASE e = next
      BY <2>2, <2>5, <3>4, <3>5
    <3>6. CASE e # next /\ e # d0
      BY <2>1, <3>1, <3>2, <3>3, <3>4, <3>6 DEF d0
    <3>7. CASE e # next /\ e = d0
      <4>1. C!OpenTime(cal, d0) <= t \/ ~C!IsMarketDay(cal, d0)
        BY <2>1, <3>7 DEF d0
      <4>2. C!IsMarketDay(cal, d0) => ~(t <= C!CloseTime(cal, d0))
        BY <1>3, <4>1 DEF C!IsMarketOpen, d0
      <4>3. C!CloseTime(cal, d0) \in Nat
        BY <3>1, SessionInDay
      <4> QED
        BY <1>1, <2>5, <3>4, <3>7, <4>2, <4>3
    <3> QED
      BY <3>5, <3>6, <3>7
  <2>6. ASSUME NEW k \in 0..(C!UntilOpen(cal, t) - 1) PROVE ~C!IsMarketOpen(cal, t + k)
    <3> DEFINE wait == C!UntilOpen(cal, t)
    <3>1. wait \in Nat
      BY <2>1
    <3>2. t + k \in Nat /\ t <= t + k /\ t + k < at
      <4>1. t + wait = at /\ k \in 0..(wait - 1)
        BY <2>1
      <4> HIDE DEF wait, at
      <4> QED
        BY <1>1, <3>1, <4>1
    <3> QED
      BY <2>5, <3>2
  <2> QED
    BY <2>1, <2>4, <2>6
<1> QED
  BY <1>2, <1>3

\* A calendar's table is one of the calendars, whatever was posted.
LEMMA OpeningsAnnounced ==
  ASSUME C!CalendarAssumption
  PROVE  C!NextOpenIsEarliest
BY WaitIsExact DEF C!NextOpenIsEarliest
-----------------------------------------------------------------------------
(* The cached prices.  As long as nothing is excused, the rows that no refetch has still
   to mark agree on one set of corporate actions; an answer that none of a later basis
   has overtaken knows every action up to its days and up to the rows there are, and what
   is about to be appended or marked fits the rows.  A synchronization that compared its
   newest row with the answer has thereby compared all rows. *)

Holding == {"append", "upsert", "older", "reconcile"}
Marking == {"older", "reconcile"}
Holds(t) == sync[t] \in Holding
Marks(t) == sync[t] \in Marking

\* The days of the rows, and those the threads read as their newest.
Reached == P!Stored \union {base[u].day : u \in Syncs}

\* Days a refetch may have left on the old basis, to be marked by it.
Gap(t, e) == P!Min(got[t].days) <= e /\ e <= P!Max(got[t].days) /\ e \notin got[t].days
Pending(t, e) == \/ sync[t] = "older" /\ (e < P!Min(got[t].days) \/ Gap(t, e))
                 \/ sync[t] = "reconcile" /\ Gap(t, e)
Ready(e) == \A t \in Syncs : ~Pending(t, e)

\* The set V has every action up to the rows there are.
Knows(V) == V \subseteq actions /\ \A b \in Reached : actions \intersect (1..b) \subseteq V
\* The rows have the factors that V gives.
Fits(V) == \A e \in P!Stored :
             Ready(e) /\ bars[e].adj # P!NoFactor => bars[e].adj = P!Factor(e, V)
Basis(V) == Knows(V) /\ Fits(V)

Factors == {P!NoFactor} \union 0..LastDay
BarRows == [basis : {"absent", "null", "adjusted", "legacy"}, adj : Factors, final : BOOLEAN]
AnswerRows == [days : SUBSET P!Days, noAdj : SUBSET P!Days, actions : SUBSET P!Days,
               partial : SUBSET P!Days]

PriceTypes ==
  /\ today \in 1..LastDay /\ closed \in BOOLEAN /\ actions \subseteq 1..today
  /\ bars \in [P!Days -> BarRows] /\ P!Stored \subseteq 0..today
  /\ \A d \in P!Days : (bars[d].basis = "adjusted") = (bars[d].adj \in 0..LastDay)
  /\ sync \in [Syncs -> {"idle", "delta", "full"} \union Holding]
  /\ base \in [Syncs -> [day : P!Days, adj : Factors]] /\ got \in [Syncs -> AnswerRows]
  /\ overtaken \in [Syncs -> BOOLEAN] /\ excused \in BOOLEAN

\* What a thread holds.
HoldKept(t) ==
  /\ base[t].day \in 0..today /\ (sync[t] = "idle" => base[t].day = 0)
  /\ ~Holds(t) => got[t] = P!NoAnswer
  /\ Holds(t) => /\ got[t].days # {} /\ got[t].days \subseteq (0..today) \ Holidays
                 /\ got[t].noAdj \subseteq got[t].days /\ got[t].actions \subseteq actions
  /\ Marks(t) => got[t].days \subseteq P!Stored
Held == \A t \in Syncs : HoldKept(t)

\* An answer nothing of another basis has overtaken.
Current(t) == Holds(t) /\ ~overtaken[t]

\* The rows that are settled have one basis.
SomeBasis == ~excused => \E V \in SUBSET P!Days : Basis(V)

\* An answer knows the actions up to its own days and up to the rows.
AnswersKnow ==
  \A u \in Syncs : Current(u) /\ ~excused =>
    /\ actions \intersect (1..P!Max(got[u].days)) \subseteq got[u].actions
    /\ Knows(got[u].actions)

\* An answer to append, or whose marks are not yet made, has the basis of the rows.
AnswersFit ==
  \A u \in Syncs : Current(u) /\ sync[u] # "upsert" /\ ~excused => Fits(got[u].actions)

\* Who answers after a refetch knows no less.
LaterKnowsMore ==
  \A t, u \in Syncs : Current(t) /\ Marks(t) /\ Current(u) => got[t].actions \subseteq got[u].actions

\* A complete refetch has restated its days, and has marked those before them.
RefetchRestates ==
  \A t \in Syncs : Current(t) /\ Marks(t) /\ got[t].noAdj = {} =>
    \A d \in P!Stored :
      d \in got[t].days \/ (sync[t] = "reconcile" /\ d < P!Min(got[t].days))
        => bars[d].adj \in {P!NoFactor, P!Factor(d, got[t].actions)}

\* No factor counts an action that has not happened, or that a current answer lacks.
RowsNotAhead ==
  \A d \in P!Stored :
    /\ bars[d].adj <= P!Factor(d, actions)
    /\ \A t \in Syncs : Current(t) /\ ~excused => bars[d].adj <= P!Factor(d, got[t].actions)
BasesNotAhead ==
  \A u \in Syncs : sync[u] = "delta" => base[u].adj <= P!Factor(base[u].day, actions)

\* When the newest row a thread read is of the present basis, all rows and answers are.
BaseTells ==
  \A u \in Syncs :
    sync[u] = "delta" /\ ~excused /\ base[u].adj = P!Factor(base[u].day, actions)
      => Fits(actions) /\ \A t \in Syncs : Current(t) => got[t].actions = actions

PriceInv == /\ PriceTypes /\ Held /\ SomeBasis /\ AnswersKnow /\ AnswersFit /\ LaterKnowsMore
            /\ RefetchRestates /\ RowsNotAhead /\ BasesNotAhead /\ BaseTells

\* PriceCache counts as FiniteSets does.
LEMMA FactorIs ==
  ASSUME NEW d, NEW A
  PROVE  P!Factor(d, A) = Cardinality({x \in A : x > d})
<1>1. ASSUME NEW S PROVE P!Cardinality(S) = Cardinality(S)
  BY DEF P!Cardinality, Cardinality
<1> QED
  BY <1>1 DEF P!Factor

\* A factor is a number of days at most.
LEMMA FactorType ==
  ASSUME P!CacheAssumption, NEW d \in P!Days, NEW A \in SUBSET P!Days
  PROVE  P!Factor(d, A) \in 0..LastDay /\ IsFiniteSet({x \in A : x > d})
<1>1. IsFiniteSet(1..LastDay) /\ Cardinality(1..LastDay) = LastDay
  BY FS_Interval, 1 \in Int DEF P!CacheAssumption
<1>2. {x \in A : x > d} \subseteq 1..LastDay
  <2>1. d \in 0..LastDay /\ A \subseteq 0..LastDay /\ LastDay \in Nat
    BY DEF P!Days, P!CacheAssumption
  <2>2. ASSUME NEW x \in A, x > d PROVE x \in 1..LastDay
    BY <2>1, <2>2
  <2> QED
    BY <2>2
<1>3. /\ IsFiniteSet({x \in A : x > d})
      /\ Cardinality({x \in A : x > d}) <= LastDay /\ Cardinality({x \in A : x > d}) \in Nat
  BY <1>1, <1>2, FS_Subset, FS_CardinalityType
<1>4. Cardinality({x \in A : x > d}) \in 0..LastDay
  BY <1>3 DEF P!CacheAssumption
<1> QED
  BY <1>3, <1>4, FactorIs

\* Fewer actions give no larger a factor; as large a one only if they are the same after
\* the day.
LEMMA FactorGrows ==
  ASSUME P!CacheAssumption, NEW d \in P!Days, NEW B \in SUBSET P!Days, NEW A \in SUBSET B
  PROVE  /\ P!Factor(d, A) <= P!Factor(d, B)
         /\ P!Factor(d, A) = P!Factor(d, B) => {x \in A : x > d} = {x \in B : x > d}
<1>1. {x \in A : x > d} \subseteq {x \in B : x > d} /\ IsFiniteSet({x \in B : x > d})
  BY FactorType
<1>2. /\ Cardinality({x \in A : x > d}) <= Cardinality({x \in B : x > d})
      /\ Cardinality({x \in A : x > d}) = Cardinality({x \in B : x > d})
           => {x \in A : x > d} = {x \in B : x > d}
  BY <1>1, FS_Subset
<1> QED
  BY <1>2, FactorIs

\* Between two days lie the actions by which their factors differ.
LEMMA FactorDiffers ==
  ASSUME P!CacheAssumption, NEW A \in SUBSET P!Days, NEW d \in P!Days, NEW e \in P!Days, d < e
  PROVE  P!Factor(d, A) - P!Factor(e, A) = Cardinality({x \in A : d < x /\ x <= e})
<1> DEFINE X == {x \in A : d < x /\ x <= e}
           Y == {x \in A : x > e}
           Z == {x \in A : x > d}
<1>1. IsFiniteSet(Y) /\ IsFiniteSet(Z) /\ X \subseteq Z /\ X \union Y = Z /\ X \intersect Y = {}
  <2>1. IsFiniteSet(Y) /\ IsFiniteSet(Z)
    BY FactorType
  <2>2. \A x \in A : x \in Int /\ d \in Int /\ e \in Int
    BY DEF P!Days, P!CacheAssumption
  <2>3. X \subseteq Z /\ X \union Y = Z /\ X \intersect Y = {}
    BY <2>2
  <2> QED
    BY <2>1, <2>3
<1> HIDE DEF X, Y, Z
<1>2. IsFiniteSet(X)
  BY <1>1, FS_Subset
<1>3. Cardinality(X) \in Nat /\ Cardinality(Y) \in Nat
  BY <1>1, <1>2, FS_CardinalityType
<1>4. Cardinality(Z) = Cardinality(X) + Cardinality(Y)
  <2>1. Cardinality(X \union Y) = Cardinality(X) + Cardinality(Y) - Cardinality(X \intersect Y)
    BY <1>1, <1>2, FS_Union
  <2>2. Cardinality(X \intersect Y) = 0
    BY <1>1, FS_EmptySet
  <2>3. Cardinality(X) + Cardinality(Y) - 0 = Cardinality(X) + Cardinality(Y)
    BY <1>3
  <2> QED
    BY <1>1, <2>1, <2>2, <2>3
<1>5. Cardinality(Z) - Cardinality(Y) = Cardinality(X)
  BY <1>3, <1>4
<1> QED
  BY <1>5, FactorIs DEF X, Y, Z

\* What the source answers.
LEMMA AnswerIs ==
  ASSUME P!CacheAssumption, PriceTypes, NEW first \in Nat, NEW a \in P!Answers(first)
  PROVE  /\ a \in AnswerRows /\ a # P!NoAnswer
         /\ a.days # {} /\ a.days \subseteq (0..today) \ Holidays
         /\ a.noAdj \subseteq a.days /\ a.actions = actions
<1> DEFINE offered == {d \in first..today : d \notin Holidays}
<1>1. offered \subseteq (0..today) \ Holidays /\ today \in P!Days /\ actions \subseteq P!Days
  BY DEF PriceTypes, P!Days, P!CacheAssumption
<1>2. /\ a \in [days : SUBSET offered, noAdj : SUBSET offered, actions : {actions},
                partial : {IF closed THEN {} ELSE {today}}]
      /\ a.days # {} /\ a.noAdj \subseteq a.days
  BY DEF P!Answers
<1> HIDE DEF offered
<1>3. offered \subseteq P!Days
  BY <1>1 DEF P!Days, P!CacheAssumption
<1>4. a \in AnswerRows
  BY <1>1, <1>2, <1>3 DEF AnswerRows
<1>5. a # P!NoAnswer
  BY <1>2 DEF P!NoAnswer
<1>6. a.actions = actions
  BY <1>2
<1> QED
  BY <1>1, <1>2, <1>4, <1>5, <1>6

\* What writing an answer makes of the rows.
LEMMA WriteIs ==
  ASSUME P!CacheAssumption, PriceTypes, NEW a \in AnswerRows, NEW after \in Int,
         bars' = P!Upserted(bars, a, after), a.days \subseteq 0..today, today' = today
  PROVE  /\ bars' \in [P!Days -> BarRows] /\ P!Stored' \subseteq 0..today
         /\ \A d \in P!Days : (bars'[d].basis = "adjusted") = (bars'[d].adj \in 0..LastDay)
         /\ P!Stored' = P!Stored \union {d \in a.days : d > after}
         /\ \A d \in P!Days :
              bars'[d].adj = IF d \in a.days \ a.noAdj /\ d > after
                               THEN P!Factor(d, a.actions) ELSE bars[d].adj
<1>1. /\ bars \in [P!Days -> BarRows] /\ P!Stored \subseteq 0..today
      /\ \A d \in P!Days : (bars[d].basis = "adjusted") = (bars[d].adj \in 0..LastDay)
  BY DEF PriceTypes
<1>2. /\ bars' = [d \in P!Days |->
            IF d \notin a.days \/ d <= after THEN bars[d]
            ELSE [final |-> d \notin a.partial,
                  adj   |-> IF d \notin a.noAdj THEN P!Factor(d, a.actions) ELSE bars[d].adj,
                  basis |-> IF d \notin a.noAdj THEN "adjusted"
                            ELSE IF bars[d].basis = "absent" THEN "null" ELSE bars[d].basis]]
  BY DEF P!Upserted
<1>3. ASSUME NEW d \in P!Days
      PROVE  /\ bars'[d] \in BarRows
             /\ (bars'[d].basis = "adjusted") = (bars'[d].adj \in 0..LastDay)
             /\ bars'[d].basis # "absent" <=> bars[d].basis # "absent" \/ (d \in a.days /\ d > after)
             /\ bars'[d].adj = IF d \in a.days \ a.noAdj /\ d > after
                                 THEN P!Factor(d, a.actions) ELSE bars[d].adj
  <2>1. d \in Int /\ bars[d] \in BarRows
    BY <1>1 DEF P!Days
  <2>2. CASE d \notin a.days \/ d <= after
    <3>1. bars'[d] = bars[d]
      BY <1>2, <2>2
    <3> QED
      BY <1>1, <2>1, <2>2, <3>1
  <2>3. CASE d \in a.days /\ d > after
    <3>1. P!Factor(d, a.actions) \in 0..LastDay
      BY FactorType DEF AnswerRows
    <3>2. /\ bars'[d].final = (d \notin a.partial)
          /\ bars'[d].adj = IF d \notin a.noAdj THEN P!Factor(d, a.actions) ELSE bars[d].adj
          /\ bars'[d].basis = IF d \notin a.noAdj THEN "adjusted"
                              ELSE IF bars[d].basis = "absent" THEN "null" ELSE bars[d].basis
          /\ bars'[d] = [final |-> bars'[d].final, adj |-> bars'[d].adj, basis |-> bars'[d].basis]
      BY <1>2, <2>1, <2>3
    <3>3. (d \notin a.partial) \in BOOLEAN
      OBVIOUS
    <3>4. bars'[d].adj \in Factors /\ bars'[d].basis \in {"null", "adjusted", "legacy"}
      BY <2>1, <3>1, <3>2 DEF BarRows, Factors
    <3>5. bars'[d] \in BarRows
      BY <3>2, <3>3, <3>4 DEF BarRows
    <3>6. (bars'[d].basis = "adjusted") = (bars'[d].adj \in 0..LastDay)
      BY <1>1, <3>1, <3>2
    <3> QED
      BY <2>3, <3>2, <3>4, <3>5, <3>6
  <2> QED
    BY <2>1, <2>2, <2>3
<1>4. P!Stored' = {d \in P!Days : bars'[d].basis # "absent"}
  BY DEF P!Stored
<1>5. a.days \subseteq P!Days /\ a.days \subseteq 0..today
  BY DEF AnswerRows
<1>6. P!Stored' = P!Stored \union {d \in a.days : d > after}
  BY <1>3, <1>4, <1>5 DEF P!Stored
<1>7. bars' \in [P!Days -> BarRows]
  BY <1>2, <1>3
<1> QED
  BY <1>1, <1>3, <1>5, <1>6, <1>7

\* A row that is marked, or dropped, has no factor any more.
LEMMA MarkIs ==
  ASSUME P!CacheAssumption, PriceTypes, NEW Marked \in SUBSET P!Days, NEW Dropped \in SUBSET Marked,
         Marked \subseteq P!Stored, today' = today,
         bars' = [d \in P!Days |-> IF d \notin Marked THEN bars[d]
                                   ELSE IF d \in Dropped THEN P!Absent ELSE P!Legacy(bars[d])]
  PROVE  /\ bars' \in [P!Days -> BarRows] /\ P!Stored' \subseteq 0..today
         /\ \A d \in P!Days : (bars'[d].basis = "adjusted") = (bars'[d].adj \in 0..LastDay)
         /\ P!Stored' = P!Stored \ Dropped
         /\ \A d \in P!Days : bars'[d].adj = IF d \in Marked THEN P!NoFactor ELSE bars[d].adj
<1>1. /\ bars \in [P!Days -> BarRows] /\ P!Stored \subseteq 0..today
      /\ \A d \in P!Days : (bars[d].basis = "adjusted") = (bars[d].adj \in 0..LastDay)
  BY DEF PriceTypes
<1>2. ASSUME NEW d \in P!Days
      PROVE  /\ bars'[d] \in BarRows
             /\ (bars'[d].basis = "adjusted") = (bars'[d].adj \in 0..LastDay)
             /\ bars'[d].basis # "absent" <=> d \in P!Stored \ Dropped
             /\ bars'[d].adj = IF d \in Marked THEN P!NoFactor ELSE bars[d].adj
  <2>1. bars[d] \in BarRows /\ (d \in P!Stored <=> bars[d].basis # "absent")
    BY <1>1 DEF P!Stored
  <2>2. -1 \notin 0..LastDay
    BY DEF P!CacheAssumption
  <2>3. CASE d \notin Marked
    <3>1. bars'[d] = bars[d]
      BY <2>3
    <3> QED
      BY <1>1, <2>1, <2>3, <3>1
  <2>4. CASE d \in Dropped
    <3>1. bars'[d] = P!Absent
      BY <2>4
    <3>2. P!Absent \in BarRows
      BY DEF P!Absent, BarRows, Factors
    <3> QED
      BY <2>1, <2>2, <2>4, <3>1, <3>2 DEF P!Absent, P!NoFactor
  <2>5. CASE d \in Marked \ Dropped
    <3>1. bars'[d] = [bars[d] EXCEPT !.basis = "legacy", !.adj = P!NoFactor]
      BY <2>5 DEF P!Legacy
    <3>2. bars'[d] \in BarRows /\ bars'[d].basis = "legacy" /\ bars'[d].adj = P!NoFactor
      BY <2>1, <3>1 DEF BarRows, Factors
    <3> QED
      BY <2>1, <2>2, <2>5, <3>2 DEF P!NoFactor
  <2> QED
    BY <2>3, <2>4, <2>5
<1>3. P!Stored' = {d \in P!Days : bars'[d].basis # "absent"}
  BY DEF P!Stored
<1>4. P!Stored' = P!Stored \ Dropped
  BY <1>2, <1>3 DEF P!Stored
<1>5. bars' \in [P!Days -> BarRows]
  BY <1>2
<1> QED
  BY <1>1, <1>2, <1>4, <1>5

\* Actions known up to a day, with the factor of all of them, are all of them.
LEMMA FactorTells ==
  ASSUME P!CacheAssumption, NEW n \in P!Days, NEW B \in SUBSET (1..LastDay), NEW A \in SUBSET B,
         B \intersect (1..n) \subseteq A, P!Factor(n, A) = P!Factor(n, B)
  PROVE  A = B
<1>1. B \in SUBSET P!Days
  BY DEF P!Days, P!CacheAssumption
<1>2. {x \in A : x > n} = {x \in B : x > n}
  BY <1>1, FactorGrows
<1>3. ASSUME NEW x \in B PROVE x \in A
  <2>1. x \in Int /\ x >= 1 /\ n \in Int
    BY DEF P!Days, P!CacheAssumption
  <2>2. CASE x > n
    BY <1>2, <2>2
  <2>3. CASE x <= n
    BY <2>1, <2>3
  <2> QED
    BY <2>1, <2>2, <2>3
<1> QED
  BY <1>3

\* The newest row is a stored one, and none is newer.
LEMMA NewestIs ==
  ASSUME P!CacheAssumption, PriceTypes, P!Stored # {}
  PROVE  P!Newest \in P!Stored /\ \A e \in P!Stored : e <= P!Newest
<1>1. P!Stored \in SUBSET (0..today) /\ today \in Nat
  BY DEF PriceTypes
<1>2. P!Max(P!Stored) = Max(P!Stored)
  BY DEF P!Max, Max
<1> QED
  BY <1>1, <1>2, MaxIs DEF P!Newest

\* The first and the last day of an answer are among its days.
LEMMA AnswerEnds ==
  ASSUME P!CacheAssumption, NEW S \in SUBSET P!Days, S # {}
  PROVE  /\ P!Min(S) \in S /\ \A x \in S : P!Min(S) <= x
         /\ P!Max(S) \in S /\ \A x \in S : x <= P!Max(S)
<1>1. P!Min(S) = Min(S) /\ P!Max(S) = Max(S)
  BY DEF P!Min, Min, P!Max, Max
<1>2. LastDay \in Nat /\ S \in SUBSET (0..LastDay) /\ S \in SUBSET Nat
  BY DEF P!CacheAssumption, P!Days
<1> QED
  BY <1>1, <1>2, MinIs, MaxIs

\* No refetch has the newest row still to mark.
LEMMA NewestReady ==
  ASSUME P!CacheAssumption, PriceTypes, Held, P!Stored # {}
  PROVE  Ready(P!Newest)
<1> SUFFICES ASSUME NEW t \in Syncs, Pending(t, P!Newest) PROVE FALSE
  BY DEF Ready
<1>1. Marks(t) /\ Holds(t)
  BY DEF Pending, Marks, Marking, Holds, Holding
<1>2. got[t].days # {} /\ got[t].days \subseteq P!Stored /\ got[t].days \in SUBSET P!Days
  BY <1>1 DEF Held, HoldKept, PriceTypes, AnswerRows
<1>3. /\ P!Min(got[t].days) \in got[t].days /\ P!Max(got[t].days) \in got[t].days
      /\ \A x \in got[t].days : P!Min(got[t].days) <= x
  BY <1>2, AnswerEnds
<1>4. P!Newest \in P!Stored /\ \A e \in P!Stored : e <= P!Newest
  BY NewestIs
<1>5. P!Stored \subseteq Int
  BY DEF PriceTypes
<1>6. P!Min(got[t].days) <= P!Newest /\ P!Max(got[t].days) <= P!Newest
  BY <1>2, <1>3, <1>4
<1> DEFINE lo == P!Min(got[t].days)
           hi == P!Max(got[t].days)
           n == P!Newest
<1>9. lo \in Int /\ hi \in Int /\ n \in Int
  BY <1>2, <1>3, <1>4, <1>5
<1> HIDE DEF lo, hi, n
<1>7. CASE P!Newest < P!Min(got[t].days)
  <2>1. n < lo /\ lo <= n
    BY <1>6, <1>7 DEF lo, n
  <2> QED
    BY <1>9, <2>1
<1>8. CASE Gap(t, P!Newest)
  <2>1. P!Newest <= P!Max(got[t].days) /\ P!Newest \notin got[t].days
    BY <1>8 DEF Gap
  <2>2. P!Newest = P!Max(got[t].days)
    <3>1. n <= hi /\ hi <= n
      BY <1>6, <2>1 DEF n, hi
    <3>2. n = hi
      BY <1>9, <3>1
    <3> QED
      BY <3>2 DEF n, hi
  <2> QED
    BY <1>3, <2>1, <2>2
<1> QED
  BY <1>7, <1>8 DEF Pending

\* When the newest row has the factor of all actions, every row and every current answer
\* has the basis of all actions.
LEMMA NewestTells ==
  ASSUME P!CacheAssumption, PriceInv, P!Stored # {}, ~excused,
         bars[P!Newest].adj = P!Factor(P!Newest, actions)
  PROVE  Fits(actions) /\ \A t \in Syncs : Current(t) => got[t].actions = actions
<1> DEFINE n == P!Newest
<1>1. n \in P!Stored /\ n \in P!Days /\ n \in Reached /\ Ready(n)
  BY NewestIs, NewestReady DEF PriceInv, P!Stored, Reached
<1>2. actions \in SUBSET (1..LastDay) /\ actions \in SUBSET P!Days
  BY DEF PriceInv, PriceTypes, P!Days, P!CacheAssumption
<1>3. P!Factor(n, actions) \in Nat /\ bars[n].adj # P!NoFactor
  <2>1. P!Factor(n, actions) \in 0..LastDay
    BY <1>1, <1>2, FactorType
  <2> QED
    BY <2>1 DEF P!NoFactor, P!CacheAssumption
<1>4. PICK V \in SUBSET P!Days : Basis(V)
  BY DEF PriceInv, SomeBasis
<1> HIDE DEF n
<1>5. V \subseteq actions /\ actions \intersect (1..n) \subseteq V /\ bars[n].adj = P!Factor(n, V)
  BY <1>1, <1>3, <1>4 DEF Basis, Knows, Fits
<1>6. V = actions
  BY <1>1, <1>2, <1>5, FactorTells DEF n
<1>7. ASSUME NEW t \in Syncs, Current(t) PROVE got[t].actions = actions
  <2>1. actions \intersect (1..n) \subseteq got[t].actions /\ got[t].actions \subseteq actions
    BY <1>1, <1>7 DEF PriceInv, AnswersKnow, Knows
  <2>2. bars[n].adj <= P!Factor(n, got[t].actions)
    BY <1>1, <1>7 DEF PriceInv, RowsNotAhead
  <2>3. P!Factor(n, got[t].actions) <= P!Factor(n, actions)
    BY <1>1, <1>2, <2>1, FactorGrows
  <2>4. P!Factor(n, got[t].actions) \in 0..LastDay
    BY <1>1, <1>2, <2>1, FactorType
  <2>5. P!Factor(n, got[t].actions) = P!Factor(n, actions)
    BY <1>3, <2>2, <2>3, <2>4 DEF n
  <2> QED
    BY <1>1, <1>2, <2>1, <2>5, FactorTells
<1> QED
  BY <1>4, <1>6, <1>7 DEF Basis

\* A thread that neither starts nor stops to hold an answer leaves the rows' basis as it is,
\* and what it reads as the newest row tells of it.
LEMMA QuietKeeps ==
  ASSUME P!CacheAssumption, PriceInv,
         UNCHANGED <<today, actions, bars, got, excused>>, closed' \in BOOLEAN,
         sync' \in [Syncs -> {"idle", "delta", "full"} \union Holding],
         base' \in [Syncs -> [day : P!Days, adj : Factors]],
         overtaken' \in [Syncs -> BOOLEAN],
         \A u \in Syncs :
           /\ Holds(u)' <=> Holds(u)
           /\ Holds(u) => sync'[u] = sync[u] /\ overtaken'[u] = overtaken[u]
           /\ base'[u].day \in {base[u].day, 0} \/ (P!Stored # {} /\ base'[u].day = P!Newest)
           /\ sync'[u] = "idle" => base'[u].day = 0
           /\ sync'[u] = "delta" =>
                \/ sync[u] = "delta" /\ base'[u] = base[u]
                \/ P!Stored # {} /\ base'[u] = [day |-> P!Newest, adj |-> bars[P!Newest].adj]
  PROVE  PriceInv'
<1> DEFINE n == P!Newest
<1>1. /\ P!Stored # {} => n \in P!Stored
      /\ P!Stored \subseteq 0..today /\ today \in 1..LastDay
  BY NewestIs DEF PriceInv, PriceTypes
<1>2. P!Stored' = P!Stored
  BY DEF P!Stored
<1>3. \A u \in Syncs : base'[u].day \in Reached \union {0} /\ base'[u].day \in 0..today
  <2> TAKE u \in Syncs
  <2>1. base[u].day \in Reached /\ base[u].day \in 0..today
    BY DEF Reached, PriceInv, Held, HoldKept
  <2>2. P!Stored # {} => n \in Reached /\ n \in 0..today
    BY <1>1 DEF Reached
  <2>3. 0 \in 0..today
    BY <1>1
  <2> HIDE DEF n
  <2>4. base'[u].day \in {base[u].day, 0} \/ (P!Stored # {} /\ base'[u].day = n)
    BY DEF n
  <2> QED
    BY <2>1, <2>2, <2>3, <2>4
<1>4. ASSUME NEW u \in Syncs
      PROVE  /\ Holds(u)' = Holds(u) /\ Current(u)' = Current(u) /\ Marks(u)' = Marks(u)
             /\ sync'[u] \in Holding \/ sync[u] \in Holding => sync'[u] = sync[u]
             /\ \A e \in P!Days : Pending(u, e)' = Pending(u, e)
  <2>1. sync'[u] \in Holding \/ sync[u] \in Holding => sync'[u] = sync[u]
    BY DEF Holds
  <2>2. Holds(u)' = Holds(u) /\ Current(u)' = Current(u) /\ Marks(u)' = Marks(u)
    BY <2>1 DEF Holds, Current, Marks, Marking, Holding
  <2>3. ASSUME NEW e \in P!Days PROVE Pending(u, e)' = Pending(u, e)
    BY <2>1 DEF Pending, Gap, Holding
  <2> QED
    BY <2>1, <2>2, <2>3
<1>5. \A e \in P!Days : Ready(e)' = Ready(e)
  BY <1>4 DEF Ready
<1>6. P!Stored \subseteq P!Days
  BY DEF P!Stored
<1>7. ASSUME NEW V PROVE Fits(V)' = Fits(V) /\ (Knows(V) => Knows(V)')
  <2>1. Fits(V)' = Fits(V)
    BY <1>2, <1>5, <1>6 DEF Fits
  <2>2. Reached' \subseteq Reached \union {0}
    BY <1>2, <1>3 DEF Reached
  <2>3. actions \intersect (1..0) = {}
    BY DEF PriceInv, PriceTypes
  <2> QED
    BY <2>1, <2>2, <2>3 DEF Knows
<1>8. PriceTypes'
  BY <1>2 DEF PriceInv, PriceTypes, Held, HoldKept
<1>9. Held'
  BY <1>2, <1>3, <1>4 DEF PriceInv, Held, HoldKept, Holds, Marks
<1>10. SomeBasis'
  BY <1>7 DEF PriceInv, SomeBasis, Basis
<1>11. AnswersKnow'
  <2> SUFFICES ASSUME NEW u \in Syncs, Current(u)', ~excused'
               PROVE  /\ (actions \intersect (1..P!Max(got[u].days)) \subseteq got[u].actions)'
                      /\ Knows(got[u].actions)'
    BY DEF AnswersKnow
  <2> DEFINE A == got[u].actions
  <2>1. /\ actions \intersect (1..P!Max(got[u].days)) \subseteq got[u].actions /\ Knows(A)
    BY <1>4 DEF PriceInv, AnswersKnow
  <2>2. got'[u] = got[u] /\ Reached' \subseteq Reached \union {0}
    BY <1>2, <1>3 DEF Reached
  <2>3. actions \intersect (1..0) = {}
    BY DEF PriceInv, PriceTypes
  <2> QED
    BY <2>1, <2>2, <2>3 DEF Knows
<1>12. AnswersFit'
  BY <1>2, <1>4, <1>5, <1>6 DEF PriceInv, AnswersFit, Fits, Current, Holds
<1>13. LaterKnowsMore' /\ RefetchRestates'
  <2>1. LaterKnowsMore'
    BY <1>4 DEF PriceInv, LaterKnowsMore
  <2>2. RefetchRestates'
    BY <1>2, <1>4 DEF PriceInv, RefetchRestates, Current, Holds, Holding
  <2> QED
    BY <2>1, <2>2
<1>14. RowsNotAhead'
  BY <1>2, <1>4 DEF PriceInv, RowsNotAhead
<1>15. BasesNotAhead'
  <2> SUFFICES ASSUME NEW u \in Syncs, sync'[u] = "delta"
               PROVE  base'[u].adj <= P!Factor(base'[u].day, actions)
    BY DEF BasesNotAhead
  <2>1. CASE sync[u] = "delta" /\ base'[u] = base[u]
    BY <2>1 DEF PriceInv, BasesNotAhead
  <2>2. CASE P!Stored # {} /\ base'[u] = [day |-> n, adj |-> bars[n].adj]
    <3>1. base'[u].day = n /\ base'[u].adj = bars[n].adj
      BY <2>2
    <3>2. bars[n].adj <= P!Factor(n, actions)
      BY <1>1, <2>2 DEF PriceInv, RowsNotAhead
    <3> QED
      BY <3>1, <3>2
  <2> QED
    BY <2>1, <2>2
<1>16. BaseTells'
  <2> SUFFICES ASSUME NEW u \in Syncs, sync'[u] = "delta", ~excused,
                      base'[u].adj = P!Factor(base'[u].day, actions)
               PROVE  Fits(actions)' /\ \A t \in Syncs : Current(t)' => got'[t].actions = actions
    BY DEF BaseTells
  <2>0. Fits(actions)' = Fits(actions)
    BY <1>2, <1>5, <1>6 DEF Fits
  <2>1. CASE sync[u] = "delta" /\ base'[u] = base[u]
    BY <1>4, <2>0, <2>1 DEF PriceInv, BaseTells
  <2>2. CASE P!Stored # {} /\ base'[u] = [day |-> n, adj |-> bars[n].adj]
    BY <1>4, <2>0, <2>2, NewestTells
  <2> QED
    BY <2>1, <2>2
<1> QED
  BY <1>8, <1>9, <1>10, <1>11, <1>12, <1>13, <1>14, <1>15, <1>16 DEF PriceInv

\* The steps without an answer.
LEMMA QuietSteps ==
  ASSUME P!CacheAssumption, PriceInv,
         \/ \E t \in Syncs : \/ P!BeginDelta(t) \/ P!BeginFull(t) \/ P!NoData(t)
                             \/ P!FetchDelta(t) /\ sync'[t] = "full"
         \/ P!Close \/ UNCHANGED P!vars
  PROVE  PriceInv'
<1> USE DEF Holds, Holding
<1>0. /\ sync \in [Syncs -> {"idle", "delta", "full"} \union Holding]
      /\ base \in [Syncs -> [day : P!Days, adj : Factors]] /\ got \in [Syncs -> AnswerRows]
      /\ overtaken \in [Syncs -> BOOLEAN] /\ closed \in BOOLEAN
      /\ \A u \in Syncs : /\ sync[u] = "idle" => base[u].day = 0
                          /\ ~Holds(u) => got[u] = P!NoAnswer
  BY DEF PriceInv, PriceTypes, Held, HoldKept
<1>1. 0 \in P!Days /\ P!NoFactor \in Factors
  BY DEF P!Days, Factors, P!CacheAssumption
<1>2. ASSUME NEW t \in Syncs, P!BeginDelta(t) PROVE PriceInv'
  <2>1. P!Stored # {} /\ P!Newest \in P!Days /\ bars[P!Newest].adj \in Factors
    <3>1. P!Stored # {}
      BY <1>2 DEF P!BeginDelta
    <3>2. P!Newest \in P!Days
      BY <3>1, NewestIs DEF PriceInv, P!Stored
    <3> QED
      BY <3>1, <3>2 DEF PriceInv, PriceTypes, BarRows
  <2>2. /\ sync' \in [Syncs -> {"idle", "delta", "full"} \union Holding]
        /\ base' \in [Syncs -> [day : P!Days, adj : Factors]]
        /\ UNCHANGED <<today, actions, bars, got, excused, overtaken, closed>>
    BY <1>0, <1>2, <2>1 DEF P!BeginDelta
  <2>3. ASSUME NEW u \in Syncs
        PROVE  /\ Holds(u)' <=> Holds(u)
               /\ Holds(u) => sync'[u] = sync[u]
               /\ base'[u].day \in {base[u].day, 0} \/ (P!Stored # {} /\ base'[u].day = P!Newest)
               /\ sync'[u] = "idle" => base'[u].day = 0
               /\ sync'[u] = "delta" =>
                    \/ sync[u] = "delta" /\ base'[u] = base[u]
                    \/ P!Stored # {} /\ base'[u] = [day |-> P!Newest, adj |-> bars[P!Newest].adj]
    BY <1>0, <1>2, <2>1 DEF P!BeginDelta
  <2> QED
    BY <1>0, <2>2, <2>3, QuietKeeps
<1>3. ASSUME NEW t \in Syncs, P!BeginFull(t) \/ (P!FetchDelta(t) /\ sync'[t] = "full") PROVE PriceInv'
  <2>1. /\ sync' = [sync EXCEPT ![t] = "full"] /\ sync[t] \in {"idle", "delta"}
        /\ UNCHANGED <<today, actions, bars, base, got, excused, overtaken, closed>>
    BY <1>0, <1>3 DEF P!BeginFull, P!FetchDelta
  <2>2. sync' \in [Syncs -> {"idle", "delta", "full"} \union Holding]
    BY <1>0, <2>1
  <2>3. ASSUME NEW u \in Syncs
        PROVE  /\ Holds(u)' <=> Holds(u)
               /\ Holds(u) => sync'[u] = sync[u]
               /\ sync'[u] = "idle" => base'[u].day = 0
               /\ sync'[u] = "delta" => sync[u] = "delta" /\ base'[u] = base[u]
    BY <1>0, <2>1
  <2> QED
    BY <1>0, <2>1, <2>2, <2>3, QuietKeeps
<1>4. ASSUME NEW t \in Syncs, P!NoData(t) PROVE PriceInv'
  <2>1. /\ sync' = [sync EXCEPT ![t] = "idle"] /\ sync[t] \in {"delta", "full"}
        /\ base' = [base EXCEPT ![t] = [day |-> 0, adj |-> P!NoFactor]]
        /\ got' = [got EXCEPT ![t] = P!NoAnswer]
        /\ overtaken' = [overtaken EXCEPT ![t] = FALSE]
        /\ UNCHANGED <<today, actions, bars, excused, closed>>
    BY <1>4 DEF P!NoData, P!Return
  <2>2. got' = got
    BY <1>0, <2>1
  <2>3. /\ sync' \in [Syncs -> {"idle", "delta", "full"} \union Holding]
        /\ base' \in [Syncs -> [day : P!Days, adj : Factors]] /\ overtaken' \in [Syncs -> BOOLEAN]
    BY <1>0, <1>1, <2>1
  <2>4. ASSUME NEW u \in Syncs
        PROVE  /\ Holds(u)' <=> Holds(u)
               /\ Holds(u) => sync'[u] = sync[u] /\ overtaken'[u] = overtaken[u]
               /\ base'[u].day \in {base[u].day, 0}
               /\ sync'[u] = "idle" => base'[u].day = 0
               /\ sync'[u] = "delta" => sync[u] = "delta" /\ base'[u] = base[u]
    BY <1>0, <2>1
  <2> QED
    BY <1>0, <2>1, <2>2, <2>3, <2>4, QuietKeeps
<1>5. CASE P!Close \/ UNCHANGED P!vars
  <2>1. UNCHANGED <<today, actions, bars, sync, base, got, excused, overtaken>> /\ closed' \in BOOLEAN
    BY <1>0, <1>5 DEF P!Close, P!syncVars, P!vars
  <2>2. ASSUME NEW u \in Syncs
        PROVE  /\ Holds(u)' <=> Holds(u)
               /\ sync'[u] = "idle" => base'[u].day = 0
    BY <1>0, <2>1
  <2> QED
    BY <1>0, <2>1, <2>2, QuietKeeps
<1> QED
  BY <1>2, <1>3, <1>4, <1>5

\* The answer a thread fetches has the actions of the moment; one that will be appended
\* was compared, or could not be and is then excused if there are actions since.
LEMMA FetchKeeps ==
  ASSUME P!CacheAssumption, PriceInv, NEW t \in Syncs, ~Holds(t), sync[t] # "idle",
         NEW a \in P!Answers(IF sync[t] = "delta" THEN base[t].day ELSE FirstFetched),
         NEW next \in {"append", "upsert"},
         sync' = [sync EXCEPT ![t] = next], got' = [got EXCEPT ![t] = a],
         UNCHANGED <<today, closed, actions, bars, base, overtaken>>,
         excused' \in BOOLEAN, excused => excused',
         next = "append" /\ ~excused' => Fits(actions)
  PROVE  PriceInv'
<1>1. /\ a \in AnswerRows /\ a # P!NoAnswer /\ a.days # {} /\ a.days \subseteq (0..today) \ Holidays
      /\ a.noAdj \subseteq a.days /\ a.actions = actions
  <2>1. (IF sync[t] = "delta" THEN base[t].day ELSE FirstFetched) \in Nat
    BY DEF PriceInv, PriceTypes, P!Days, P!CacheAssumption
  <2> QED
    BY <2>1, AnswerIs DEF PriceInv
<1>2. PriceTypes /\ Held
  BY DEF PriceInv
<1>3. P!Stored' = P!Stored /\ Reached' = Reached /\ P!Stored \subseteq P!Days
  BY DEF P!Stored, Reached
<1>4. /\ got'[t] = a /\ sync'[t] = next /\ Holds(t)' /\ ~Marks(t)'
      /\ \A u \in Syncs \ {t} : got'[u] = got[u] /\ sync'[u] = sync[u]
  BY <1>2 DEF PriceTypes, Holds, Holding, Marks, Marking
<1>5. ASSUME NEW u \in Syncs \ {t}
      PROVE  /\ Holds(u)' = Holds(u) /\ Marks(u)' = Marks(u) /\ Current(u)' = Current(u)
             /\ \A e \in P!Days : Pending(u, e)' = Pending(u, e)
  BY <1>4 DEF Holds, Marks, Current, Pending, Gap
<1>6. \A e \in P!Days : Ready(e)' = Ready(e)
  <2>1. \A e \in P!Days : ~Pending(t, e) /\ ~Pending(t, e)'
    BY <1>4 DEF Pending, Holds, Holding
  <2> QED
    BY <1>5, <2>1 DEF Ready
<1>7. ASSUME NEW V PROVE Fits(V)' = Fits(V) /\ Knows(V)' = Knows(V)
  BY <1>3, <1>6 DEF Fits, Knows
<1>8. PriceTypes' /\ Held'
  <2>1. PriceTypes'
    BY <1>1, <1>2, <1>3 DEF PriceTypes, Holding
  <2>2. HoldKept(t)'
    <3>1. base'[t].day \in 0..today /\ sync'[t] # "idle"
      BY <1>2, <1>4 DEF Held, HoldKept
    <3> QED
      BY <1>1, <1>4, <3>1 DEF HoldKept
  <2>3. ASSUME NEW u \in Syncs \ {t} PROVE HoldKept(u)'
    BY <1>2, <1>3, <1>4, <1>5, <2>3 DEF Held, HoldKept
  <2> QED
    BY <2>1, <2>2, <2>3 DEF Held
<1>9. SomeBasis'
  BY <1>7 DEF PriceInv, SomeBasis, Basis
<1>10. AnswersKnow'
  <2> SUFFICES ASSUME NEW u \in Syncs, Current(u)', ~excused'
               PROVE  /\ (actions \intersect (1..P!Max(got[u].days)) \subseteq got[u].actions)'
                      /\ Knows(got[u].actions)'
    BY DEF AnswersKnow
  <2>1. CASE u = t
    BY <1>1, <1>4, <2>1 DEF Knows
  <2>2. CASE u # t
    <3>1. /\ actions \intersect (1..P!Max(got[u].days)) \subseteq got[u].actions
          /\ Knows(got[u].actions) /\ got'[u] = got[u]
      BY <1>4, <1>5, <2>2 DEF PriceInv, AnswersKnow
    <3> QED
      BY <1>3, <3>1 DEF Knows
  <2> QED
    BY <2>1, <2>2
<1>11. AnswersFit'
  <2> SUFFICES ASSUME NEW u \in Syncs, Current(u)', sync'[u] # "upsert", ~excused'
               PROVE  Fits(got[u].actions)'
    BY DEF AnswersFit
  <2>1. CASE u = t
    <3>1. Fits(actions) /\ got'[u].actions = actions
      BY <1>1, <1>4, <2>1
    <3> QED
      BY <1>3, <1>6, <3>1 DEF Fits
  <2>2. CASE u # t
    <3>1. Fits(got[u].actions) /\ got'[u] = got[u]
      BY <1>4, <1>5, <2>2 DEF PriceInv, AnswersFit
    <3> QED
      BY <1>3, <1>6, <3>1 DEF Fits
  <2> QED
    BY <2>1, <2>2
<1>12. LaterKnowsMore'
  <2> SUFFICES ASSUME NEW w \in Syncs, NEW u \in Syncs, Current(w)', Marks(w)', Current(u)'
               PROVE  got'[w].actions \subseteq got'[u].actions
    BY DEF LaterKnowsMore
  <2>1. w # t /\ Holds(w)
    BY <1>4, <1>5 DEF Current
  <2>2. CASE u = t
    BY <1>1, <1>2, <1>4, <2>1, <2>2 DEF Held, HoldKept
  <2>3. CASE u # t
    BY <1>4, <1>5, <2>1, <2>3 DEF PriceInv, LaterKnowsMore
  <2> QED
    BY <2>2, <2>3
<1>13. RefetchRestates'
  BY <1>3, <1>4, <1>5 DEF PriceInv, RefetchRestates
<1>14. RowsNotAhead'
  <2> SUFFICES ASSUME NEW d \in P!Stored
               PROVE  /\ bars[d].adj <= P!Factor(d, actions)
                      /\ \A u \in Syncs : Current(u)' /\ ~excused' => bars[d].adj <= P!Factor(d, got'[u].actions)
    BY <1>3 DEF RowsNotAhead
  <2>1. bars[d].adj <= P!Factor(d, actions)
    BY DEF PriceInv, RowsNotAhead
  <2>2. ASSUME NEW u \in Syncs, Current(u)', ~excused' PROVE bars[d].adj <= P!Factor(d, got'[u].actions)
    <3>1. CASE u = t
      BY <1>1, <1>4, <2>1, <3>1
    <3>2. CASE u # t
      BY <1>4, <1>5, <2>2, <3>2 DEF PriceInv, RowsNotAhead
    <3> QED
      BY <3>1, <3>2
  <2> QED
    BY <2>1, <2>2
<1>15. BasesNotAhead'
  BY <1>4 DEF PriceInv, BasesNotAhead
<1>16. BaseTells'
  <2> SUFFICES ASSUME NEW u \in Syncs, sync'[u] = "delta", ~excused',
                      base[u].adj = P!Factor(base[u].day, actions)
               PROVE  Fits(actions)' /\ \A w \in Syncs : Current(w)' => got'[w].actions = actions
    BY DEF BaseTells
  <2>1. u # t /\ sync[u] = "delta"
    BY <1>4
  <2>2. Fits(actions) /\ \A w \in Syncs : Current(w) => got[w].actions = actions
    BY <2>1 DEF PriceInv, BaseTells
  <2>3. Fits(actions)'
    BY <1>3, <1>6, <2>2 DEF Fits
  <2> QED
    BY <1>1, <1>4, <1>5, <2>2, <2>3
<1> QED
  BY <1>8, <1>9, <1>10, <1>11, <1>12, <1>13, <1>14, <1>15, <1>16 DEF PriceInv

\* The steps that fetch an answer.
LEMMA FetchSteps ==
  ASSUME P!CacheAssumption, PriceInv, NEW t \in Syncs,
         P!FetchFull(t) \/ (P!FetchDelta(t) /\ sync'[t] # "full")
  PROVE  PriceInv'
<1>0. /\ sync \in [Syncs -> {"idle", "delta", "full"} \union Holding] /\ excused \in BOOLEAN
      /\ actions \in SUBSET (1..LastDay)
  BY DEF PriceInv, PriceTypes, P!CacheAssumption
<1>1. CASE P!FetchFull(t)
  <2>1. PICK a \in P!Answers(FirstFetched) : got' = [got EXCEPT ![t] = a]
    BY <1>1 DEF P!FetchFull
  <2>2. sync[t] = "full" /\ sync' = [sync EXCEPT ![t] = "upsert"] /\ ~Holds(t)
    BY <1>1 DEF P!FetchFull, Holds, Holding
  <2>3. UNCHANGED <<today, closed, actions, bars, base, overtaken, excused>>
    BY <1>1 DEF P!FetchFull
  <2> QED
    BY <1>0, <2>1, <2>2, <2>3, FetchKeeps
<1>2. CASE P!FetchDelta(t) /\ sync'[t] # "full"
  <2>1. /\ sync[t] = "delta" /\ ~Holds(t)
        /\ UNCHANGED <<today, closed, actions, bars, base, overtaken>>
    BY <1>2 DEF P!FetchDelta, Holds, Holding
  <2>2. PICK a \in P!Answers(base[t].day) :
          /\ ~P!Restated(base[t], a)
          /\ sync' = [sync EXCEPT ![t] = "append"] /\ got' = [got EXCEPT ![t] = a]
          /\ excused' = (excused \/ (/\ ~P!Comparable(base[t], a)
                                     /\ \E x \in actions : x > base[t].day))
    BY <1>0, <1>2 DEF P!FetchDelta
  <2>3. a.actions = actions
    BY <2>2, AnswerIs DEF PriceInv, PriceTypes, P!Days, P!CacheAssumption
  <2>4. ASSUME ~excused' PROVE Fits(actions)
    <3>1. ~excused
      BY <2>2, <2>4
    <3>2. CASE P!Comparable(base[t], a)
      <4>1. base[t].adj = P!Factor(base[t].day, actions)
        BY <2>2, <2>3, <3>2 DEF P!Restated
      <4> QED
        BY <2>1, <3>1, <4>1 DEF PriceInv, BaseTells
    <3>3. CASE ~P!Comparable(base[t], a)
      <4>1. \A x \in actions : ~(x > base[t].day)
        BY <2>2, <2>4, <3>3
      <4>2. PICK V \in SUBSET P!Days : Basis(V)
        BY <3>1 DEF PriceInv, SomeBasis
      <4>3. V \subseteq actions /\ actions \intersect (1..base[t].day) \subseteq V
        BY <4>2 DEF Basis, Knows, Reached
      <4>4. base[t].day \in Int
        BY DEF PriceInv, PriceTypes, P!Days
      <4>5. actions \subseteq V
        BY <1>0, <4>1, <4>3, <4>4
      <4>6. V = actions
        BY <4>3, <4>5
      <4> QED
        BY <4>2, <4>6 DEF Basis
    <3> QED
      BY <3>2, <3>3
  <2>5. (~P!Comparable(base[t], a) /\ \E x \in actions : x > base[t].day) \in BOOLEAN
    OBVIOUS
  <2>6. excused' \in BOOLEAN /\ (excused => excused')
    BY <1>0, <2>2, <2>5
  <2> QED
    BY <2>1, <2>2, <2>4, <2>6, FetchKeeps
<1> QED
  BY <1>1, <1>2

\* Writing an answer of the actions A leaves rows that fit A fitting it.
LEMMA WriteFits ==
  ASSUME P!CacheAssumption, PriceInv, NEW t \in Syncs, Holds(t), NEW after \in Int,
         bars' = P!Upserted(bars, got[t], after), UNCHANGED <<today, actions>>,
         \A e \in P!Days : Ready(e)' => Ready(e),
         NEW A, A = got[t].actions, Fits(A)
  PROVE  Fits(A)'
<1> DEFINE a == got[t]
<1>1. a \in AnswerRows /\ a.days \subseteq 0..today /\ a.noAdj \subseteq a.days
  BY DEF PriceInv, PriceTypes, Held, HoldKept
<1>2. /\ P!Stored' = P!Stored \union {d \in a.days : d > after}
      /\ \A d \in P!Days :
           bars'[d].adj = IF d \in a.days \ a.noAdj /\ d > after
                            THEN P!Factor(d, a.actions) ELSE bars[d].adj
  BY <1>1, WriteIs DEF PriceInv
<1>3. /\ P!Stored' \subseteq P!Days
      /\ \A d \in P!Days \ P!Stored : bars[d].adj = P!NoFactor
  <2>1. ASSUME NEW d \in P!Days \ P!Stored PROVE bars[d].adj = P!NoFactor
    BY DEF PriceInv, PriceTypes, P!Stored, BarRows, Factors
  <2> QED
    BY <2>1 DEF P!Stored
<1> SUFFICES ASSUME NEW e \in P!Stored', Ready(e)', bars'[e].adj # P!NoFactor
             PROVE  bars'[e].adj = P!Factor(e, A)
  BY DEF Fits
<1>4. CASE e \in a.days \ a.noAdj /\ e > after
  BY <1>2, <1>3, <1>4
<1>5. CASE ~(e \in a.days \ a.noAdj /\ e > after)
  <2>1. bars[e].adj = bars'[e].adj /\ e \in P!Stored /\ Ready(e)
    BY <1>2, <1>3, <1>5
  <2> QED
    BY <2>1 DEF Fits
<1> QED
  BY <1>4, <1>5

\* After a thread has written an answer of the actions A, and nothing is excused, A has
\* every action up to the rows, and no factor counts an action that A lacks.
LEMMA WriteOwn ==
  ASSUME P!CacheAssumption, PriceInv, NEW t \in Syncs, Holds(t), NEW after \in Int,
         bars' = P!Upserted(bars, got[t], after), UNCHANGED <<today, actions>>,
         NEW A, A = got[t].actions,
         \A w \in Syncs \ {t} : base'[w] = base[w],
         base'[t].day \in {base[t].day, 0},
         excused' \in BOOLEAN, excused \/ overtaken[t] => excused'
  PROVE  /\ ~excused' => Knows(A)'
         /\ \A d \in P!Stored' :
              /\ bars'[d].adj <= P!Factor(d, actions)
              /\ ~excused' => bars'[d].adj <= P!Factor(d, A)
<1> DEFINE a == got[t]
<1>1. /\ a \in AnswerRows /\ a.days \subseteq 0..today /\ a.noAdj \subseteq a.days /\ a # P!NoAnswer
      /\ a.days # {} /\ A \subseteq actions /\ A \in SUBSET P!Days /\ actions \in SUBSET P!Days
      /\ P!Max(a.days) \in Int /\ \A d \in a.days : d <= P!Max(a.days)
  <2>1. /\ a \in AnswerRows /\ a.days \subseteq 0..today /\ a.noAdj \subseteq a.days
        /\ a.days # {} /\ A \subseteq actions /\ actions \in SUBSET P!Days
    BY DEF PriceInv, PriceTypes, Held, HoldKept, P!Days, P!CacheAssumption
  <2>2. A \in SUBSET P!Days /\ a.days \in SUBSET P!Days /\ a # P!NoAnswer
    BY <2>1 DEF AnswerRows, P!NoAnswer
  <2>3. P!Max(a.days) \in a.days /\ \A d \in a.days : d <= P!Max(a.days)
    BY <2>1, <2>2, AnswerEnds
  <2> QED
    BY <2>1, <2>2, <2>3
<1>2. /\ P!Stored' = P!Stored \union {d \in a.days : d > after}
      /\ \A d \in P!Days :
           bars'[d].adj = IF d \in a.days \ a.noAdj /\ d > after
                            THEN P!Factor(d, A) ELSE bars[d].adj
  BY <1>1, WriteIs DEF PriceInv
<1>3. /\ P!Stored' \subseteq P!Days
      /\ \A d \in P!Days \ P!Stored : bars[d].adj = P!NoFactor
  <2>1. ASSUME NEW d \in P!Days \ P!Stored PROVE bars[d].adj = P!NoFactor
    BY DEF PriceInv, PriceTypes, P!Stored, BarRows, Factors
  <2> QED
    BY <2>1 DEF P!Stored
<1>7. ~excused' => Current(t) /\ ~excused
  BY DEF Current, PriceInv, PriceTypes
<1>8. ASSUME ~excused' PROVE Knows(A)'
  <2>1. Knows(A) /\ actions \intersect (1..P!Max(a.days)) \subseteq A
    BY <1>7, <1>8 DEF PriceInv, AnswersKnow
  <2>2. Reached' \subseteq Reached \union {0} \union a.days
    BY <1>2 DEF Reached
  <2>3. ASSUME NEW b \in a.days PROVE actions \intersect (1..b) \subseteq A
    <3>1. b <= P!Max(a.days) /\ b \in Int
      BY <1>1
    <3>2. \A x \in actions : x \in 1..b => x \in 1..P!Max(a.days)
      BY <1>1, <3>1
    <3> QED
      BY <2>1, <3>2
  <2>4. actions \intersect (1..0) = {}
    BY DEF PriceInv, PriceTypes
  <2> QED
    BY <2>1, <2>2, <2>3, <2>4 DEF Knows
<1>13. ASSUME NEW d \in P!Stored'
       PROVE  /\ bars'[d].adj <= P!Factor(d, actions)
              /\ ~excused' => bars'[d].adj <= P!Factor(d, A)
  <2>1. d \in P!Days /\ P!Factor(d, A) <= P!Factor(d, actions)
    BY <1>1, <1>3, FactorGrows
  <2>2. P!Factor(d, A) \in Nat /\ P!Factor(d, actions) \in Nat
    <3>1. P!Factor(d, A) \in 0..LastDay /\ P!Factor(d, actions) \in 0..LastDay
      BY <1>1, <2>1, FactorType
    <3> QED
      BY <3>1
  <2>3. CASE d \in a.days \ a.noAdj /\ d > after
    BY <1>2, <2>1, <2>2, <2>3
  <2>4. CASE ~(d \in a.days \ a.noAdj /\ d > after)
    <3>1. bars'[d].adj = bars[d].adj
      BY <1>2, <2>1, <2>4
    <3>2. CASE d \in P!Stored
      BY <1>7, <3>1, <3>2 DEF PriceInv, RowsNotAhead
    <3>3. CASE d \notin P!Stored
      BY <1>3, <2>1, <2>2, <3>1, <3>3 DEF P!NoFactor
    <3> QED
      BY <3>2, <3>3
  <2> QED
    BY <2>3, <2>4
<1> QED
  BY <1>8, <1>13

\* What a thread has written leaves the other threads: those whose answer is of another
\* basis are overtaken, and those that compared their newest row had this answer's basis.
LEMMA WriteOthers ==
  ASSUME P!CacheAssumption, PriceInv, NEW t \in Syncs, Holds(t), NEW after \in Int,
         bars' = P!Upserted(bars, got[t], after), UNCHANGED <<today, actions>>,
         \A e \in P!Days : Ready(e)' => Ready(e),
         NEW A, A = got[t].actions, P!Cross(t),
         \A w \in Syncs \ {t} : sync'[w] = sync[w] /\ got'[w] = got[w] /\ base'[w] = base[w],
         base'[t].day \in {base[t].day, 0},
         excused' \in BOOLEAN, excused \/ overtaken[t] => excused',
         NEW u \in Syncs \ {t}
  PROVE  /\ Holds(u)' = Holds(u) /\ Marks(u)' = Marks(u)
         /\ Current(u)' => Current(u) /\ got[u].actions = A
         /\ HoldKept(u)'
         /\ Current(u)' /\ ~excused' => actions \intersect (1..P!Max(got[u].days)) \subseteq A
         /\ Current(u)' /\ sync[u] # "upsert" /\ ~excused' => Fits(A)'
         /\ Current(u)' /\ Marks(u)' /\ got[u].noAdj = {} =>
              \A d \in P!Stored' :
                d \in got[u].days \/ (sync[u] = "reconcile" /\ d < P!Min(got[u].days))
                  => bars'[d].adj \in {P!NoFactor, P!Factor(d, A)}
         /\ sync[u] = "delta" /\ ~excused' /\ base[u].adj = P!Factor(base[u].day, actions)
              => /\ Fits(actions)' /\ A = actions
                 /\ \A w \in Syncs : Current(w) => got[w].actions = actions
<1> DEFINE a == got[t]
<1>1. /\ a \in AnswerRows /\ a.days \subseteq 0..today /\ a.noAdj \subseteq a.days /\ a # P!NoAnswer
      /\ a.days # {} /\ A \subseteq actions /\ A \in SUBSET P!Days /\ actions \in SUBSET P!Days
      /\ P!Max(a.days) \in Int /\ \A d \in a.days : d <= P!Max(a.days)
  <2>1. /\ a \in AnswerRows /\ a.days \subseteq 0..today /\ a.noAdj \subseteq a.days
        /\ a.days # {} /\ A \subseteq actions /\ actions \in SUBSET P!Days
    BY DEF PriceInv, PriceTypes, Held, HoldKept, P!Days, P!CacheAssumption
  <2>2. A \in SUBSET P!Days /\ a.days \in SUBSET P!Days /\ a # P!NoAnswer
    BY <2>1 DEF AnswerRows, P!NoAnswer
  <2>3. P!Max(a.days) \in a.days /\ \A d \in a.days : d <= P!Max(a.days)
    BY <2>1, <2>2, AnswerEnds
  <2> QED
    BY <2>1, <2>2, <2>3
<1>2. /\ P!Stored' = P!Stored \union {d \in a.days : d > after}
      /\ \A d \in P!Days :
           bars'[d].adj = IF d \in a.days \ a.noAdj /\ d > after
                            THEN P!Factor(d, A) ELSE bars[d].adj
  BY <1>1, WriteIs DEF PriceInv
<1>3. /\ P!Stored' \subseteq P!Days
      /\ \A d \in P!Days \ P!Stored : bars[d].adj = P!NoFactor
  <2>1. ASSUME NEW d \in P!Days \ P!Stored PROVE bars[d].adj = P!NoFactor
    BY DEF PriceInv, PriceTypes, P!Stored, BarRows, Factors
  <2> QED
    BY <2>1 DEF P!Stored
<1>4. Holds(u)' = Holds(u) /\ Marks(u)' = Marks(u)
  BY DEF Holds, Marks
<1>5. Holds(u) => got[u] # P!NoAnswer
  BY DEF PriceInv, Held, HoldKept, P!NoAnswer
<1>6. Current(u)' => Current(u) /\ got[u].actions = A
  BY <1>4, <1>5 DEF Current, P!Cross
<1>7. ~excused' => Current(t) /\ ~excused
  BY DEF Current, PriceInv, PriceTypes
<1>9. HoldKept(u)'
  BY <1>2, <1>4 DEF PriceInv, Held, HoldKept
<1>10. Current(u)' /\ ~excused' => actions \intersect (1..P!Max(got[u].days)) \subseteq A
  BY <1>6, <1>7 DEF PriceInv, AnswersKnow
<1>11. Current(u)' /\ sync[u] # "upsert" /\ ~excused' => Fits(A)'
  <2> SUFFICES ASSUME Current(u)', sync[u] # "upsert", ~excused' PROVE Fits(A)'
    OBVIOUS
  <2>1. Fits(A)
    BY <1>6, <1>7 DEF PriceInv, AnswersFit
  <2> QED
    BY <2>1, WriteFits
<1>12. Current(u)' /\ Marks(u)' /\ got[u].noAdj = {} =>
         \A d \in P!Stored' :
           d \in got[u].days \/ (sync[u] = "reconcile" /\ d < P!Min(got[u].days))
             => bars'[d].adj \in {P!NoFactor, P!Factor(d, A)}
  <2> SUFFICES ASSUME Current(u)', Marks(u)', got[u].noAdj = {}, NEW d \in P!Stored',
                      d \in got[u].days \/ (sync[u] = "reconcile" /\ d < P!Min(got[u].days))
               PROVE  bars'[d].adj \in {P!NoFactor, P!Factor(d, A)}
    OBVIOUS
  <2>1. d \in P!Stored => bars[d].adj \in {P!NoFactor, P!Factor(d, A)}
    BY <1>4, <1>6 DEF PriceInv, RefetchRestates
  <2> QED
    BY <1>2, <1>3, <2>1
<1>14. ASSUME sync[u] = "delta", ~excused', base[u].adj = P!Factor(base[u].day, actions)
       PROVE  /\ Fits(actions)' /\ A = actions
              /\ \A w \in Syncs : Current(w) => got[w].actions = actions
  <2>1. Fits(actions) /\ \A w \in Syncs : Current(w) => got[w].actions = actions
    BY <1>7, <1>14 DEF PriceInv, BaseTells
  <2>2. A = actions
    BY <1>7, <1>14, <2>1
  <2>3. Fits(A)
    BY <2>1, <2>2
  <2>4. Fits(A)'
    BY <2>3, WriteFits
  <2>5. actions' = A
    BY <2>2
  <2>6. Fits(actions)'
    BY <2>4, <2>5 DEF Fits
  <2> QED
    BY <2>1, <2>2, <2>6
<1> QED
  BY <1>4, <1>6, <1>9, <1>10, <1>11, <1>12, <1>14

\* Appending an answer: what is not excused was compared, so the rows fit it.
LEMMA AppendKeeps == ASSUME P!CacheAssumption, PriceInv, NEW t \in Syncs, P!Append(t) PROVE PriceInv'
<1> PICK A \in SUBSET P!Days : A = got[t].actions
  BY DEF PriceInv, PriceTypes, AnswerRows
<1>1. PriceTypes /\ Held
  BY DEF PriceInv
<1>2. /\ sync[t] = "append" /\ Holds(t) /\ bars' = P!Upserted(bars, got[t], base[t].day)
      /\ base[t].day \in Int /\ P!Cross(t) /\ excused' = (excused \/ overtaken[t])
      /\ sync' = [sync EXCEPT ![t] = "idle"] /\ got' = [got EXCEPT ![t] = P!NoAnswer]
      /\ base' = [base EXCEPT ![t] = [day |-> 0, adj |-> P!NoFactor]]
      /\ UNCHANGED <<today, closed, actions>>
  BY <1>1 DEF P!Append, Holds, Holding, PriceTypes, P!Days
<1>3. /\ sync'[t] = "idle" /\ got'[t] = P!NoAnswer /\ base'[t].day = 0 /\ ~Holds(t)'
      /\ \A w \in Syncs \ {t} : sync'[w] = sync[w] /\ got'[w] = got[w] /\ base'[w] = base[w]
  BY <1>1, <1>2 DEF PriceTypes, Holds, Holding
<1>4. \A e \in P!Days : Ready(e)' => Ready(e)
  <2>1. ASSUME NEW e \in P!Days, NEW w \in Syncs, Pending(w, e) PROVE Pending(w, e)'
    BY <1>2, <1>3, <2>1 DEF Pending, Gap
  <2> QED
    BY <2>1 DEF Ready
<1>5. excused' \in BOOLEAN /\ (excused \/ overtaken[t] => excused')
  BY <1>1, <1>2 DEF PriceTypes
<1>6. /\ got[t] \in AnswerRows /\ got[t].days \subseteq 0..today
  BY <1>1, <1>2 DEF PriceTypes, Held, HoldKept
<1>7. /\ bars' \in [P!Days -> BarRows] /\ P!Stored' \subseteq 0..today
      /\ \A d \in P!Days : (bars'[d].basis = "adjusted") = (bars'[d].adj \in 0..LastDay)
      /\ P!Stored \subseteq P!Stored'
  BY <1>1, <1>2, <1>6, WriteIs
<1>8. PriceTypes'
  <2>1. overtaken' \in [Syncs -> BOOLEAN]
    BY <1>2 DEF P!Cross
  <2>2. base' \in [Syncs -> [day : P!Days, adj : Factors]] /\ got' \in [Syncs -> AnswerRows]
    BY <1>1, <1>2 DEF PriceTypes, Factors, P!NoAnswer, AnswerRows, P!Days, P!CacheAssumption
  <2> QED
    BY <1>1, <1>2, <1>5, <1>7, <2>1, <2>2 DEF PriceTypes
<1>9. /\ ~excused' => Knows(A)'
      /\ \A d \in P!Stored' : /\ bars'[d].adj <= P!Factor(d, actions)
                              /\ ~excused' => bars'[d].adj <= P!Factor(d, A)
  BY <1>2, <1>3, <1>5, WriteOwn
<1>10. ASSUME NEW u \in Syncs \ {t}
       PROVE  /\ Holds(u)' = Holds(u) /\ Marks(u)' = Marks(u)
              /\ Current(u)' => Current(u) /\ got[u].actions = A
              /\ HoldKept(u)'
              /\ Current(u)' /\ ~excused' => actions \intersect (1..P!Max(got[u].days)) \subseteq A
              /\ Current(u)' /\ sync[u] # "upsert" /\ ~excused' => Fits(A)'
              /\ Current(u)' /\ Marks(u)' /\ got[u].noAdj = {} =>
                   \A d \in P!Stored' :
                     d \in got[u].days \/ (sync[u] = "reconcile" /\ d < P!Min(got[u].days))
                       => bars'[d].adj \in {P!NoFactor, P!Factor(d, A)}
              /\ sync[u] = "delta" /\ ~excused' /\ base[u].adj = P!Factor(base[u].day, actions)
                   => /\ Fits(actions)' /\ A = actions
                      /\ \A w \in Syncs : Current(w) => got[w].actions = actions
  BY <1>2, <1>3, <1>4, <1>5, WriteOthers
<1>11. Held'
  <2>1. HoldKept(t)'
    BY <1>1, <1>2, <1>3 DEF HoldKept, Marks, Marking, PriceTypes
  <2> QED
    BY <1>10, <2>1 DEF Held
<1>12. SomeBasis'
  <2> SUFFICES ASSUME ~excused' PROVE Basis(A)'
    BY DEF SomeBasis
  <2>1. Fits(A)
    BY <1>2 DEF PriceInv, AnswersFit, Current, PriceTypes
  <2>2. Fits(A)'
    BY <1>2, <1>4, <2>1, WriteFits
  <2> QED
    BY <1>9, <2>2 DEF Basis
<1>13. ASSUME NEW u \in Syncs, Current(u)' PROVE u # t /\ got'[u] = got[u] /\ got[u].actions = A
  <2>1. u # t
    BY <1>3, <1>13 DEF Current
  <2> QED
    BY <1>3, <1>10, <1>13, <2>1
<1>14. AnswersKnow'
  <2> SUFFICES ASSUME NEW u \in Syncs, Current(u)', ~excused'
               PROVE  /\ (actions \intersect (1..P!Max(got[u].days)) \subseteq got[u].actions)'
                      /\ Knows(got[u].actions)'
    BY DEF AnswersKnow
  <2> QED
    BY <1>2, <1>9, <1>10, <1>13 DEF Knows
<1>15. AnswersFit'
  <2> SUFFICES ASSUME NEW u \in Syncs, Current(u)', sync'[u] # "upsert", ~excused'
               PROVE  Fits(got[u].actions)'
    BY DEF AnswersFit
  <2> QED
    BY <1>3, <1>10, <1>13 DEF Fits
<1>16. LaterKnowsMore'
  BY <1>13 DEF LaterKnowsMore
<1>17. RefetchRestates'
  BY <1>3, <1>10, <1>13 DEF RefetchRestates
<1>18. RowsNotAhead'
  BY <1>2, <1>9, <1>13 DEF RowsNotAhead
<1>19. BasesNotAhead'
  BY <1>2, <1>3 DEF PriceInv, BasesNotAhead
<1>20. BaseTells'
  <2> SUFFICES ASSUME NEW u \in Syncs, sync'[u] = "delta", ~excused',
                      base'[u].adj = P!Factor(base'[u].day, actions)
               PROVE  Fits(actions)' /\ \A w \in Syncs : Current(w)' => got'[w].actions = actions
    BY <1>2 DEF BaseTells
  <2>1. u # t /\ sync[u] = "delta" /\ base'[u] = base[u]
    BY <1>3
  <2> QED
    BY <1>10, <1>13, <2>1
<1> QED
  BY <1>8, <1>11, <1>12, <1>14, <1>15, <1>16, <1>17, <1>18, <1>19, <1>20 DEF PriceInv

\* A refetch writes its answer: what it does not restate, and is not excused, already has
\* its basis or is still to be marked.
LEMMA UpsertKeeps == ASSUME P!CacheAssumption, PriceInv, NEW t \in Syncs, P!Upsert(t) PROVE PriceInv'
<1> PICK A \in SUBSET P!Days : A = got[t].actions
  BY DEF PriceInv, PriceTypes, AnswerRows
<1> DEFINE a == got[t]
           stays == \E d \in P!Stored : /\ bars[d].adj \notin {P!NoFactor, P!Factor(d, A)}
                                        /\ d \in a.noAdj \/ d > P!Max(a.days)
<1>1. PriceTypes /\ Held
  BY DEF PriceInv
<1>2. /\ sync[t] = "upsert" /\ Holds(t) /\ bars' = P!Upserted(bars, got[t], -1)
      /\ P!Cross(t) /\ excused' = (excused \/ overtaken[t] \/ stays)
      /\ sync' = [sync EXCEPT ![t] = "older"]
      /\ UNCHANGED <<today, closed, actions, got, base>>
  BY <1>1 DEF P!Upsert, Holds, Holding
<1>3. /\ sync'[t] = "older" /\ Holds(t)' /\ Marks(t)'
      /\ \A w \in Syncs \ {t} : sync'[w] = sync[w] /\ got'[w] = got[w] /\ base'[w] = base[w]
  BY <1>1, <1>2 DEF PriceTypes, Holds, Holding, Marks, Marking
<1>4. \A e \in P!Days : Ready(e)' => Ready(e)
  <2>1. ASSUME NEW e \in P!Days, NEW w \in Syncs, Pending(w, e) PROVE Pending(w, e)'
    BY <1>2, <1>3, <2>1 DEF Pending, Gap
  <2> QED
    BY <2>1 DEF Ready
<1>5. excused' \in BOOLEAN /\ (excused \/ overtaken[t] => excused')
  <2>1. stays \in BOOLEAN
    OBVIOUS
  <2> HIDE DEF stays
  <2> QED
    BY <1>1, <1>2, <2>1 DEF PriceTypes
<1>6. /\ a \in AnswerRows /\ a.days \subseteq (0..today) \ Holidays /\ a.days # {}
      /\ a.noAdj \subseteq a.days /\ a.days \in SUBSET P!Days
  BY <1>1, <1>2 DEF PriceTypes, Held, HoldKept, AnswerRows
<1>7. /\ bars' \in [P!Days -> BarRows] /\ P!Stored' \subseteq 0..today
      /\ \A d \in P!Days : (bars'[d].basis = "adjusted") = (bars'[d].adj \in 0..LastDay)
      /\ P!Stored' = P!Stored \union a.days
      /\ \A d \in P!Days :
           bars'[d].adj = IF d \in a.days \ a.noAdj THEN P!Factor(d, A) ELSE bars[d].adj
  <2>1. \A d \in a.days : d > -1 /\ d \in P!Days
    BY <1>6 DEF P!Days
  <2>2. a.days \subseteq 0..today /\ -1 \in Int
    BY <1>6
  <2> QED
    BY <1>1, <1>2, <1>6, <2>1, <2>2, WriteIs
<1>8. PriceTypes'
  <2>1. overtaken' \in [Syncs -> BOOLEAN]
    BY <1>2 DEF P!Cross
  <2> QED
    BY <1>1, <1>2, <1>5, <1>7, <2>1 DEF PriceTypes, Holding
<1>9. /\ ~excused' => Knows(A)'
      /\ \A d \in P!Stored' : /\ bars'[d].adj <= P!Factor(d, actions)
                              /\ ~excused' => bars'[d].adj <= P!Factor(d, A)
  BY <1>2, <1>3, <1>5, -1 \in Int, WriteOwn
<1>10. ASSUME NEW u \in Syncs \ {t}
       PROVE  /\ Holds(u)' = Holds(u) /\ Marks(u)' = Marks(u)
              /\ Current(u)' => Current(u) /\ got[u].actions = A
              /\ HoldKept(u)'
              /\ Current(u)' /\ ~excused' => actions \intersect (1..P!Max(got[u].days)) \subseteq A
              /\ Current(u)' /\ sync[u] # "upsert" /\ ~excused' => Fits(A)'
              /\ Current(u)' /\ Marks(u)' /\ got[u].noAdj = {} =>
                   \A d \in P!Stored' :
                     d \in got[u].days \/ (sync[u] = "reconcile" /\ d < P!Min(got[u].days))
                       => bars'[d].adj \in {P!NoFactor, P!Factor(d, A)}
              /\ sync[u] = "delta" /\ ~excused' /\ base[u].adj = P!Factor(base[u].day, actions)
                   => /\ Fits(actions)' /\ A = actions
                      /\ \A w \in Syncs : Current(w) => got[w].actions = actions
  BY <1>2, <1>3, <1>4, <1>5, -1 \in Int, WriteOthers
<1>11. Held'
  <2>1. HoldKept(t)'
    BY <1>1, <1>2, <1>3, <1>7 DEF Held, HoldKept
  <2> QED
    BY <1>10, <2>1 DEF Held
<1>12. ~excused' => Fits(A)'
  <2> SUFFICES ASSUME ~excused', NEW e \in P!Stored', Ready(e)', bars'[e].adj # P!NoFactor
               PROVE  bars'[e].adj = P!Factor(e, A)
    BY DEF Fits
  <2>1. e \in P!Days /\ e \in Int /\ ~Pending(t, e)' /\ ~stays
    <3>1. e \in P!Days /\ e \in Int
      BY DEF P!Stored, P!Days
    <3>2. ~Pending(t, e)'
      BY DEF Ready
    <3>3. ~stays
      <4> HIDE DEF stays
      <4> QED
        BY <1>2
    <3> QED
      BY <3>1, <3>2, <3>3
  <2>2. ~(e < P!Min(a.days)) /\ ~(P!Min(a.days) <= e /\ e <= P!Max(a.days) /\ e \notin a.days)
    BY <1>2, <1>3, <2>1 DEF Pending, Gap
  <2>3. P!Min(a.days) \in Int /\ P!Max(a.days) \in Int
    BY <1>6, AnswerEnds DEF P!Days
  <2>4. CASE e \in a.days \ a.noAdj
    BY <1>7, <2>1, <2>4
  <2>5. CASE e \notin a.days \ a.noAdj
    <3>1. bars'[e].adj = bars[e].adj /\ (e \in a.noAdj \/ e > P!Max(a.days))
      BY <1>7, <2>1, <2>2, <2>3, <2>5
    <3>2. e \in P!Stored
      <4>1. e \notin P!Stored => bars[e].adj = P!NoFactor
        BY <1>1, <2>1 DEF PriceTypes, P!Stored, BarRows, Factors
      <4> QED
        BY <3>1, <4>1
    <3> QED
      BY <2>1, <3>1, <3>2
  <2> QED
    BY <2>4, <2>5
<1>13. ASSUME NEW u \in Syncs, Current(u)' PROVE got'[u] = got[u] /\ got[u].actions = A
  BY <1>2, <1>10, <1>13
<1>14. ~excused' => actions \intersect (1..P!Max(a.days)) \subseteq A
  BY <1>1, <1>2 DEF PriceInv, AnswersKnow, Current, PriceTypes
<1>15. SomeBasis'
  BY <1>9, <1>12 DEF SomeBasis, Basis
<1>16. AnswersKnow'
  <2> SUFFICES ASSUME NEW u \in Syncs, Current(u)', ~excused'
               PROVE  /\ (actions \intersect (1..P!Max(got[u].days)) \subseteq got[u].actions)'
                      /\ Knows(got[u].actions)'
    BY DEF AnswersKnow
  <2>1. actions \intersect (1..P!Max(got[u].days)) \subseteq A
    BY <1>10, <1>14
  <2> QED
    BY <1>2, <1>9, <1>13, <2>1 DEF Knows
<1>17. AnswersFit'
  <2> SUFFICES ASSUME NEW u \in Syncs, Current(u)', sync'[u] # "upsert", ~excused'
               PROVE  Fits(got[u].actions)'
    BY DEF AnswersFit
  <2> QED
    BY <1>12, <1>13 DEF Fits
<1>18. LaterKnowsMore'
  BY <1>13 DEF LaterKnowsMore
<1>19. RefetchRestates'
  <2> SUFFICES ASSUME NEW u \in Syncs, Current(u)', Marks(u)', got'[u].noAdj = {}, NEW d \in P!Stored',
                      d \in got'[u].days \/ (sync'[u] = "reconcile" /\ d < P!Min(got'[u].days))
               PROVE  bars'[d].adj \in {P!NoFactor, P!Factor(d, A)}
    BY <1>13 DEF RefetchRestates
  <2>1. CASE u = t
    <3>1. d \in a.days \ a.noAdj /\ d \in P!Days
      BY <1>2, <1>3, <1>6, <2>1
    <3> QED
      BY <1>7, <3>1
  <2>2. CASE u # t
    BY <1>3, <1>10, <2>2
  <2> QED
    BY <2>1, <2>2
<1>20. RowsNotAhead'
  BY <1>2, <1>9, <1>13 DEF RowsNotAhead
<1>21. BasesNotAhead'
  BY <1>2, <1>3 DEF PriceInv, BasesNotAhead
<1>22. BaseTells'
  <2> SUFFICES ASSUME NEW u \in Syncs, sync'[u] = "delta", ~excused',
                      base'[u].adj = P!Factor(base'[u].day, actions)
               PROVE  Fits(actions)' /\ \A w \in Syncs : Current(w)' => got'[w].actions = actions
    BY <1>2 DEF BaseTells
  <2>1. u # t /\ sync[u] = "delta" /\ base'[u] = base[u]
    BY <1>3
  <2> QED
    BY <1>10, <1>13, <2>1
<1> QED
  BY <1>8, <1>11, <1>15, <1>16, <1>17, <1>18, <1>19, <1>20, <1>21, <1>22 DEF PriceInv

\* The rows after some have been marked, and some of those dropped.
MarkedRows(Marked, Dropped) ==
  [d \in P!Days |-> IF d \notin Marked THEN bars[d]
                    ELSE IF d \in Dropped THEN P!Absent ELSE P!Legacy(bars[d])]

\* Marking rows, or dropping them, takes nothing from what the other rows fit.
LEMMA MarkFits ==
  ASSUME P!CacheAssumption, PriceInv, NEW t \in Syncs, Marks(t),
         NEW Marked \in SUBSET P!Days, NEW Dropped \in SUBSET Marked,
         Marked \subseteq P!Stored, Dropped \subseteq Holidays, UNCHANGED <<today, actions>>,
         bars' = MarkedRows(Marked, Dropped),
         \A u \in Syncs \ {t} : sync'[u] = sync[u] /\ got'[u] = got[u] /\ base'[u] = base[u],
         base'[t].day \in {base[t].day, 0},
         \A e \in P!Stored \ Marked : Pending(t, e) => Pending(t, e)'
  PROVE  /\ bars' \in [P!Days -> BarRows] /\ P!Stored' \subseteq 0..today
         /\ \A d \in P!Days : (bars'[d].basis = "adjusted") = (bars'[d].adj \in 0..LastDay)
         /\ P!Stored' = P!Stored \ Dropped
         /\ \A d \in P!Days : bars'[d].adj = IF d \in Marked THEN P!NoFactor ELSE bars[d].adj
         /\ \A V \in SUBSET P!Days : /\ Fits(V) => Fits(V)'
                                     /\ Knows(V) => Knows(V)'
         /\ \A u \in Syncs \ {t} : HoldKept(u)'
<1>1. PriceTypes /\ Held
  BY DEF PriceInv
<1>2. /\ bars' \in [P!Days -> BarRows] /\ P!Stored' \subseteq 0..today
      /\ \A d \in P!Days : (bars'[d].basis = "adjusted") = (bars'[d].adj \in 0..LastDay)
      /\ P!Stored' = P!Stored \ Dropped
      /\ \A d \in P!Days : bars'[d].adj = IF d \in Marked THEN P!NoFactor ELSE bars[d].adj
  BY <1>1, MarkIs DEF MarkedRows
<1>3. P!Stored \subseteq P!Days
  BY DEF P!Stored
<1>4. ASSUME NEW e \in P!Stored \ Marked, Ready(e)' PROVE Ready(e)
  <2> SUFFICES ASSUME NEW w \in Syncs, Pending(w, e) PROVE FALSE
    BY DEF Ready
  <2>1. CASE w = t
    BY <1>4, <2>1 DEF Ready
  <2>2. CASE w # t
    <3>1. Pending(w, e)'
      BY <2>2 DEF Pending, Gap
    <3> QED
      BY <1>4, <3>1 DEF Ready
  <2> QED
    BY <2>1, <2>2
<1>5. ASSUME NEW V \in SUBSET P!Days, Fits(V) PROVE Fits(V)'
  <2> SUFFICES ASSUME NEW e \in P!Stored', Ready(e)', bars'[e].adj # P!NoFactor
               PROVE  bars'[e].adj = P!Factor(e, V)
    BY DEF Fits
  <2>1. e \in P!Stored \ Marked /\ bars'[e].adj = bars[e].adj
    BY <1>2, <1>3
  <2> QED
    BY <1>4, <1>5, <2>1 DEF Fits
<1>6. ASSUME NEW V \in SUBSET P!Days, Knows(V) PROVE Knows(V)'
  <2> SUFFICES ASSUME NEW b \in Reached' PROVE actions \intersect (1..b) \subseteq V
    BY <1>6 DEF Knows
  <2>1. CASE b = 0
    <3>1. 1..0 = {}
      OBVIOUS
    <3> QED
      BY <2>1, <3>1
  <2>2. CASE b # 0
    <3>1. b \in Reached
      BY <1>2, <2>2 DEF Reached
    <3> QED
      BY <1>6, <3>1 DEF Knows
  <2> QED
    BY <2>1, <2>2
<1>7. ASSUME NEW u \in Syncs \ {t} PROVE HoldKept(u)'
  <2>1. HoldKept(u)
    BY <1>1 DEF Held
  <2>2. Marks(u) => got[u].days \subseteq P!Stored'
    BY <1>2, <2>1 DEF HoldKept, Marks, Marking, Holds, Holding
  <2> QED
    BY <2>1, <2>2 DEF HoldKept, Marks, Holds
<1> QED
  BY <1>2, <1>5, <1>6, <1>7

\* A refetch marks the rows before its answer.
LEMMA MarkOlderKeeps ==
  ASSUME P!CacheAssumption, PriceInv, NEW t \in Syncs, P!MarkOlder(t) PROVE PriceInv'
<1> DEFINE Marked == {d \in P!Stored : d < P!Min(got[t].days)}
           Dropped == {}
<1>1. PriceTypes /\ Held
  BY DEF PriceInv
<1>2. /\ sync[t] = "older" /\ Marks(t) /\ Holds(t) /\ sync' = [sync EXCEPT ![t] = "reconcile"]
      /\ bars' = [d \in P!Days |-> IF d \in P!Stored /\ d < P!Min(got[t].days)
                                     THEN P!Legacy(bars[d]) ELSE bars[d]]
      /\ UNCHANGED <<today, closed, actions, base, got, overtaken, excused>>
  BY DEF P!MarkOlder, Marks, Marking, Holds, Holding
<1>3. Marked \in SUBSET P!Days /\ Marked \subseteq P!Stored
  BY DEF P!Stored
<1>4. bars' = MarkedRows(Marked, Dropped)
  BY <1>2 DEF MarkedRows
<1>5. /\ sync'[t] = "reconcile"
      /\ \A u \in Syncs \ {t} : sync'[u] = sync[u]
      /\ \A u \in Syncs : Holds(u)' = Holds(u) /\ Marks(u)' = Marks(u) /\ Current(u)' = Current(u)
  BY <1>1, <1>2 DEF PriceTypes, Holds, Holding, Marks, Marking, Current
<1>6. \A e \in P!Stored \ Marked : Pending(t, e) => Pending(t, e)'
  BY <1>2, <1>5 DEF Pending, Gap
<1>0. Dropped \in SUBSET Marked /\ Dropped \subseteq Holidays /\ P!Stored \ Dropped = P!Stored
  OBVIOUS
<1> HIDE DEF Marked, Dropped
<1>7. /\ bars' \in [P!Days -> BarRows] /\ P!Stored' \subseteq 0..today
      /\ \A d \in P!Days : (bars'[d].basis = "adjusted") = (bars'[d].adj \in 0..LastDay)
      /\ P!Stored' = P!Stored
      /\ \A d \in P!Days : bars'[d].adj = IF d \in Marked THEN P!NoFactor ELSE bars[d].adj
      /\ \A V \in SUBSET P!Days : /\ Fits(V) => Fits(V)'
                                  /\ Knows(V) => Knows(V)'
      /\ \A u \in Syncs \ {t} : HoldKept(u)'
  <2>1. \A u \in Syncs \ {t} : sync'[u] = sync[u] /\ got'[u] = got[u] /\ base'[u] = base[u]
    BY <1>2, <1>5
  <2>2. base'[t].day \in {base[t].day, 0}
    BY <1>2
  <2>3. UNCHANGED <<today, actions>>
    BY <1>2
  <2> QED
    BY <1>2, <1>3, <1>4, <1>6, <1>0, <2>1, <2>2, <2>3, MarkFits
<1>8. PriceTypes'
  BY <1>1, <1>2, <1>7 DEF PriceTypes, Holding
<1>9. Held'
  <2>1. HoldKept(t)'
    BY <1>1, <1>2, <1>5, <1>7 DEF Held, HoldKept
  <2> QED
    BY <1>7, <2>1 DEF Held
<1>10. \A u \in Syncs : got[u].actions \in SUBSET P!Days
  BY <1>1 DEF PriceTypes, AnswerRows
<1>11. SomeBasis'
  BY <1>2, <1>7 DEF PriceInv, SomeBasis, Basis
<1>12. AnswersKnow'
  <2> SUFFICES ASSUME NEW u \in Syncs, Current(u)', ~excused'
               PROVE  /\ (actions \intersect (1..P!Max(got[u].days)) \subseteq got[u].actions)'
                      /\ Knows(got[u].actions)'
    BY DEF AnswersKnow
  <2>1. PICK A \in SUBSET P!Days : A = got[u].actions
    BY <1>10
  <2>2. actions \intersect (1..P!Max(got[u].days)) \subseteq A /\ Knows(A)
    BY <1>2, <1>5, <2>1 DEF PriceInv, AnswersKnow, Knows
  <2>3. Knows(A)'
    BY <1>7, <2>2
  <2> QED
    BY <1>2, <2>1, <2>2, <2>3 DEF Knows
<1>13. AnswersFit'
  <2> SUFFICES ASSUME NEW u \in Syncs, Current(u)', sync'[u] # "upsert", ~excused'
               PROVE  Fits(got[u].actions)'
    BY DEF AnswersFit
  <2>1. PICK A \in SUBSET P!Days : A = got[u].actions
    BY <1>10
  <2>2. sync[u] # "upsert"
    BY <1>2, <1>5
  <2>3. Fits(A)
    BY <1>2, <1>5, <2>1, <2>2 DEF PriceInv, AnswersFit, Fits
  <2>4. Fits(A)'
    BY <1>7, <2>3
  <2> QED
    BY <1>2, <2>1, <2>4 DEF Fits
<1>14. LaterKnowsMore'
  BY <1>2, <1>5 DEF PriceInv, LaterKnowsMore
<1>15. RefetchRestates'
  <2> SUFFICES ASSUME NEW u \in Syncs, Current(u), Marks(u), got[u].noAdj = {}, NEW d \in P!Stored,
                      d \in got[u].days \/ (sync'[u] = "reconcile" /\ d < P!Min(got[u].days))
               PROVE  bars'[d].adj \in {P!NoFactor, P!Factor(d, got[u].actions)}
    BY <1>2, <1>5, <1>7 DEF RefetchRestates
  <2>1. d \in P!Days
    BY DEF P!Stored
  <2>2. CASE d \in Marked
    BY <1>7, <2>1, <2>2
  <2>3. CASE d \notin Marked
    <3>1. d \in got[u].days \/ (sync[u] = "reconcile" /\ d < P!Min(got[u].days))
      BY <1>5, <2>3 DEF Marked
    <3>2. bars[d].adj \in {P!NoFactor, P!Factor(d, got[u].actions)}
      BY <3>1 DEF PriceInv, RefetchRestates
    <3> QED
      BY <1>7, <2>1, <2>3, <3>2
  <2> QED
    BY <2>2, <2>3
<1>16. RowsNotAhead'
  <2> SUFFICES ASSUME NEW d \in P!Stored
               PROVE  /\ bars'[d].adj <= P!Factor(d, actions)
                      /\ \A w \in Syncs : Current(w) /\ ~excused => bars'[d].adj <= P!Factor(d, got[w].actions)
    BY <1>2, <1>5, <1>7 DEF RowsNotAhead
  <2>1. d \in P!Days
    BY DEF P!Stored
  <2>2. CASE d \notin Marked
    BY <1>7, <2>1, <2>2 DEF PriceInv, RowsNotAhead
  <2>3. CASE d \in Marked
    <3>1. \A A \in SUBSET P!Days : P!NoFactor <= P!Factor(d, A)
      <4> TAKE A \in SUBSET P!Days
      <4>1. P!Factor(d, A) \in 0..LastDay
        BY <2>1, FactorType
      <4> QED
        BY <4>1 DEF P!NoFactor, P!CacheAssumption
    <3>2. actions \in SUBSET P!Days
      BY <1>1 DEF PriceTypes, P!Days, P!CacheAssumption
    <3> QED
      BY <1>7, <1>10, <2>1, <2>3, <3>1, <3>2
  <2> QED
    BY <2>2, <2>3
<1>17. BasesNotAhead'
  BY <1>2, <1>5 DEF PriceInv, BasesNotAhead
<1>18. BaseTells'
  <2> SUFFICES ASSUME NEW u \in Syncs, sync[u] = "delta", ~excused,
                      base[u].adj = P!Factor(base[u].day, actions)
               PROVE  Fits(actions)' /\ \A w \in Syncs : Current(w) => got[w].actions = actions
    BY <1>2, <1>5 DEF BaseTells
  <2>1. PICK A \in SUBSET P!Days : A = actions
    BY <1>1 DEF PriceTypes, P!Days, P!CacheAssumption
  <2>2. Fits(A) /\ \A w \in Syncs : Current(w) => got[w].actions = actions
    BY <2>1 DEF PriceInv, BaseTells, Fits
  <2>3. Fits(A)'
    BY <1>7, <2>2
  <2> QED
    BY <1>2, <2>1, <2>2, <2>3 DEF Fits
<1> QED
  BY <1>8, <1>9, <1>11, <1>12, <1>13, <1>14, <1>15, <1>16, <1>17, <1>18 DEF PriceInv

\* A refetch ends: it marks the rows the source no longer has between its first and last
\* day, and drops those of days without a session.  If it was complete and of the present
\* basis, and nothing came between, nothing is excused any more.
LEMMA ReconcileKeeps ==
  ASSUME P!CacheAssumption, PriceInv, NEW t \in Syncs, P!Reconcile(t) PROVE PriceInv'
<1>28. PICK Marked \in SUBSET P!Days : Marked = P!Missing(got[t])
  BY DEF P!Missing, P!Stored
<1>29. PICK Dropped \in SUBSET Marked : Dropped = Marked \intersect Holidays
  OBVIOUS
<1> DEFINE
           complete == /\ got[t].noAdj = {} /\ got[t].actions = actions
                       /\ P!Newest <= P!Max(got[t].days) /\ ~overtaken[t]
<1>1. PriceTypes /\ Held
  BY DEF PriceInv
<1>2. /\ sync[t] = "reconcile" /\ Marks(t) /\ Holds(t) /\ sync' = [sync EXCEPT ![t] = "idle"]
      /\ bars' = [d \in P!Days |-> IF d \notin P!Missing(got[t]) THEN bars[d]
                                   ELSE IF d \in Holidays THEN P!Absent ELSE P!Legacy(bars[d])]
      /\ excused' = (excused /\ ~complete)
      /\ base' = [base EXCEPT ![t] = [day |-> 0, adj |-> P!NoFactor]]
      /\ got' = [got EXCEPT ![t] = P!NoAnswer]
      /\ overtaken' = [overtaken EXCEPT ![t] = FALSE]
      /\ UNCHANGED <<today, closed, actions>>
  BY DEF P!Reconcile, P!Return, Marks, Marking, Holds, Holding
<1>3. Marked \in SUBSET P!Days /\ Marked \subseteq P!Stored /\ Dropped \in SUBSET Marked
  BY <1>28, <1>29 DEF P!Missing, P!Stored
<1>4. bars' = MarkedRows(Marked, Dropped)
  BY <1>2, <1>28, <1>29 DEF MarkedRows
<1>5. /\ sync'[t] = "idle" /\ base'[t].day = 0 /\ got'[t] = P!NoAnswer /\ ~Holds(t)'
      /\ \A u \in Syncs \ {t} :
           /\ sync'[u] = sync[u] /\ got'[u] = got[u] /\ base'[u] = base[u]
           /\ overtaken'[u] = overtaken[u]
      /\ \A u \in Syncs : Current(u)' => u # t /\ Current(u) /\ Holds(u)' = Holds(u)
  BY <1>1, <1>2 DEF PriceTypes, Holds, Holding, Current
<1>6. \A e \in P!Stored \ Marked : Pending(t, e) => Pending(t, e)'
  BY <1>2, <1>28 DEF Pending, Gap, P!Missing
<1>7. complete \in BOOLEAN
  OBVIOUS
<1>20. complete => /\ got[t].noAdj = {} /\ got[t].actions = actions
                   /\ P!Newest <= P!Max(got[t].days) /\ Current(t)
  BY <1>2 DEF Current
<1> HIDE DEF complete
<1>8. /\ bars' \in [P!Days -> BarRows] /\ P!Stored' \subseteq 0..today
      /\ \A d \in P!Days : (bars'[d].basis = "adjusted") = (bars'[d].adj \in 0..LastDay)
      /\ P!Stored' = P!Stored \ Dropped
      /\ \A d \in P!Days : bars'[d].adj = IF d \in Marked THEN P!NoFactor ELSE bars[d].adj
      /\ \A V \in SUBSET P!Days : /\ Fits(V) => Fits(V)'
                                  /\ Knows(V) => Knows(V)'
      /\ \A u \in Syncs \ {t} : HoldKept(u)'
  <2>1. base'[t].day \in {base[t].day, 0} /\ Dropped \subseteq Holidays /\ Marks(t)
    BY <1>2, <1>5, <1>29
  <2>2. UNCHANGED <<today, actions>>
    BY <1>2
  <2>3. \A u \in Syncs \ {t} : sync'[u] = sync[u] /\ got'[u] = got[u] /\ base'[u] = base[u]
    BY <1>5
  <2>4. Marked \subseteq P!Stored
    BY <1>3
  <2> QED
    BY <1>3, <1>4, <1>6, <2>1, <2>2, <2>3, <2>4, MarkFits
<1>9. P!Stored \subseteq P!Days /\ P!Stored' \subseteq P!Days /\ P!Stored' \subseteq P!Stored
  BY <1>8 DEF P!Stored
<1>10. PriceTypes'
  <2>1. base' \in [Syncs -> [day : P!Days, adj : Factors]] /\ got' \in [Syncs -> AnswerRows]
    BY <1>1, <1>2 DEF PriceTypes, Factors, P!NoAnswer, AnswerRows, P!Days, P!CacheAssumption
  <2>2. excused' \in BOOLEAN
    BY <1>1, <1>2, <1>7 DEF PriceTypes
  <2> QED
    BY <1>1, <1>2, <1>8, <2>1, <2>2 DEF PriceTypes
<1>11. Held'
  <2>1. HoldKept(t)'
    BY <1>1, <1>2, <1>5 DEF HoldKept, Marks, Marking, PriceTypes
  <2> QED
    BY <1>8, <2>1 DEF Held
<1>12. PICK B \in SUBSET P!Days : B = actions
  BY <1>1 DEF PriceTypes, P!Days, P!CacheAssumption
<1>13. complete => Fits(B)'
  <2> SUFFICES ASSUME complete, NEW e \in P!Stored', Ready(e)', bars'[e].adj # P!NoFactor
               PROVE  bars'[e].adj = P!Factor(e, B)
    BY DEF Fits
  <2> DEFINE lo == P!Min(got[t].days)
             hi == P!Max(got[t].days)
  <2>1. e \in P!Days /\ e \in P!Stored /\ e \notin Marked /\ bars'[e].adj = bars[e].adj /\ e \in Int
    BY <1>8, <1>9 DEF P!Days
  <2>2. P!Newest <= hi /\ e <= P!Newest /\ P!Newest \in Int
    BY <1>1, <1>9, <1>20, <2>1, NewestIs DEF P!Days
  <2>3. lo \in Int /\ hi \in Int
    <3>1. got[t].days \in SUBSET P!Days /\ got[t].days # {}
      BY <1>1, <1>2 DEF PriceTypes, AnswerRows, Held, HoldKept
    <3> QED
      BY <3>1, AnswerEnds DEF P!Days
  <2>4. e \in got[t].days \/ e < lo
    <3>1. ~(lo <= e /\ e <= hi /\ e \notin got[t].days)
      BY <1>28, <2>1 DEF P!Missing
    <3> HIDE DEF lo, hi
    <3>2. P!Newest \in Int /\ P!Newest <= hi /\ e <= P!Newest
      BY <2>2
    <3> QED
      BY <2>1, <2>3, <3>1, <3>2
  <2>5. bars[e].adj \in {P!NoFactor, P!Factor(e, got[t].actions)}
    BY <1>2, <1>20, <2>1, <2>4 DEF PriceInv, RefetchRestates
  <2> QED
    BY <1>12, <1>20, <2>1, <2>5
<1>14. ASSUME complete, NEW u \in Syncs, Current(u) PROVE got[u].actions = B
  <2>1. got[t].actions \subseteq got[u].actions
    BY <1>2, <1>14, <1>20 DEF PriceInv, LaterKnowsMore
  <2>2. got[u].actions \subseteq actions
    BY <1>1, <1>14 DEF Held, HoldKept, Current
  <2> QED
    BY <1>12, <1>14, <1>20, <2>1, <2>2
<1>15. B = actions' /\ Knows(B)'
  BY <1>2, <1>12 DEF Knows
<1>16. ~excused' => complete \/ ~excused
  BY <1>2
<1>17. \A u \in Syncs : got[u].actions \in SUBSET P!Days
  BY <1>1 DEF PriceTypes, AnswerRows
<1>18. SomeBasis'
  <2> SUFFICES ASSUME ~excused' PROVE \E V \in SUBSET P!Days : Basis(V)'
    BY DEF SomeBasis
  <2>1. CASE complete
    BY <1>13, <1>15, <2>1 DEF Basis
  <2>2. CASE ~excused
    BY <1>8, <2>2 DEF PriceInv, SomeBasis, Basis
  <2> QED
    BY <1>16, <2>1, <2>2
<1>21. AnswersKnow'
  <2> SUFFICES ASSUME NEW u \in Syncs, Current(u)', ~excused'
               PROVE  /\ (actions \intersect (1..P!Max(got[u].days)) \subseteq got[u].actions)'
                      /\ Knows(got[u].actions)'
    BY DEF AnswersKnow
  <2>1. PICK A \in SUBSET P!Days : A = got[u].actions
    BY <1>17
  <2>2. Current(u) /\ got'[u] = got[u]
    BY <1>5
  <2>3. actions \intersect (1..P!Max(got[u].days)) \subseteq A /\ Knows(A)'
    <3>1. CASE complete
      BY <1>12, <1>14, <1>15, <2>1, <2>2, <3>1
    <3>2. CASE ~excused
      <4>1. actions \intersect (1..P!Max(got[u].days)) \subseteq A /\ Knows(A)
        BY <2>1, <2>2, <3>2 DEF PriceInv, AnswersKnow, Knows
      <4> QED
        BY <1>8, <4>1
    <3> QED
      BY <1>16, <3>1, <3>2
  <2> QED
    BY <1>2, <2>1, <2>2, <2>3 DEF Knows
<1>22. AnswersFit'
  <2> SUFFICES ASSUME NEW u \in Syncs, Current(u)', sync'[u] # "upsert", ~excused'
               PROVE  Fits(got[u].actions)'
    BY DEF AnswersFit
  <2>1. PICK A \in SUBSET P!Days : A = got[u].actions
    BY <1>17
  <2>2. Current(u) /\ got'[u] = got[u] /\ sync[u] # "upsert"
    BY <1>5
  <2>3. Fits(A)'
    <3>1. CASE complete
      <4>1. A = B
        BY <1>14, <2>1, <2>2, <3>1
      <4> QED
        BY <1>13, <3>1, <4>1
    <3>2. CASE ~excused
      <4>1. Fits(A)
        BY <2>1, <2>2, <3>2 DEF PriceInv, AnswersFit, Fits
      <4> QED
        BY <1>8, <4>1
    <3> QED
      BY <1>16, <3>1, <3>2
  <2> QED
    BY <2>1, <2>2, <2>3 DEF Fits
<1>23. LaterKnowsMore'
  <2> SUFFICES ASSUME NEW v \in Syncs, NEW u \in Syncs, Current(v)', Marks(v)', Current(u)'
               PROVE  got'[v].actions \subseteq got'[u].actions
    BY DEF LaterKnowsMore
  <2>1. Current(v) /\ Current(u) /\ got'[v] = got[v] /\ got'[u] = got[u] /\ Marks(v)
    BY <1>5 DEF Marks
  <2> QED
    BY <2>1 DEF PriceInv, LaterKnowsMore
<1>24. RefetchRestates'
  <2> SUFFICES ASSUME NEW u \in Syncs, Current(u)', Marks(u)', got'[u].noAdj = {}, NEW d \in P!Stored',
                      d \in got'[u].days \/ (sync'[u] = "reconcile" /\ d < P!Min(got'[u].days))
               PROVE  bars'[d].adj \in {P!NoFactor, P!Factor(d, got'[u].actions)}
    BY DEF RefetchRestates
  <2>1. Current(u) /\ got'[u] = got[u] /\ sync'[u] = sync[u] /\ Marks(u) /\ d \in P!Days /\ d \in P!Stored
    BY <1>5, <1>9 DEF Marks
  <2>2. bars[d].adj \in {P!NoFactor, P!Factor(d, got[u].actions)}
    BY <2>1 DEF PriceInv, RefetchRestates
  <2> QED
    BY <1>8, <2>1, <2>2
<1>25. RowsNotAhead'
  <2> SUFFICES ASSUME NEW d \in P!Stored'
               PROVE  /\ bars'[d].adj <= P!Factor(d, actions)
                      /\ \A w \in Syncs :
                           Current(w)' /\ ~excused' => bars'[d].adj <= P!Factor(d, got'[w].actions)
    BY <1>2 DEF RowsNotAhead
  <2>1. d \in P!Days /\ d \in P!Stored
    BY <1>9
  <2>2. bars'[d].adj <= P!Factor(d, actions)
    <3>1. bars[d].adj <= P!Factor(d, actions)
      BY <2>1 DEF PriceInv, RowsNotAhead
    <3>2. P!NoFactor <= P!Factor(d, actions)
      <4>1. P!Factor(d, B) \in 0..LastDay
        BY <2>1, FactorType
      <4> QED
        BY <1>12, <4>1 DEF P!NoFactor, P!CacheAssumption
    <3> QED
      BY <1>8, <2>1, <3>1, <3>2
  <2>3. ASSUME NEW w \in Syncs, Current(w)', ~excused' PROVE bars'[d].adj <= P!Factor(d, got[w].actions)
    <3>1. Current(w)
      BY <1>5, <2>3
    <3>2. CASE complete
      <4>1. got[w].actions = B
        BY <1>14, <3>1, <3>2
      <4> QED
        BY <1>12, <2>2, <4>1
    <3>3. CASE ~excused
      <4>1. bars[d].adj <= P!Factor(d, got[w].actions)
        BY <2>1, <3>1, <3>3 DEF PriceInv, RowsNotAhead
      <4>2. P!Factor(d, got[w].actions) \in 0..LastDay
        BY <1>17, <2>1, FactorType
      <4>3. P!NoFactor <= P!Factor(d, got[w].actions)
        BY <4>2 DEF P!NoFactor, P!CacheAssumption
      <4> QED
        BY <1>8, <2>1, <4>1, <4>3
    <3> QED
      BY <1>16, <2>3, <3>2, <3>3
  <2> QED
    BY <1>5, <2>2, <2>3
<1>26. BasesNotAhead'
  BY <1>2, <1>5 DEF PriceInv, BasesNotAhead
<1>27. BaseTells'
  <2> SUFFICES ASSUME NEW u \in Syncs, sync'[u] = "delta", ~excused',
                      base'[u].adj = P!Factor(base'[u].day, actions)
               PROVE  Fits(actions)' /\ \A w \in Syncs : Current(w)' => got'[w].actions = actions
    BY <1>2 DEF BaseTells
  <2>1. sync[u] = "delta" /\ base'[u] = base[u]
    BY <1>5
  <2>2. Fits(B)' /\ \A w \in Syncs : Current(w) => got[w].actions = B
    <3>1. CASE complete
      BY <1>13, <1>14, <3>1
    <3>2. CASE ~excused
      <4>1. Fits(B) /\ \A w \in Syncs : Current(w) => got[w].actions = B
        BY <1>12, <2>1, <3>2 DEF PriceInv, BaseTells, Fits
      <4> QED
        BY <1>8, <4>1
    <3> QED
      BY <1>16, <3>1, <3>2
  <2> QED
    BY <1>5, <1>12, <1>15, <2>2 DEF Fits
<1> QED
  BY <1>10, <1>11, <1>18, <1>21, <1>22, <1>23, <1>24, <1>25, <1>26, <1>27 DEF PriceInv

\* A corporate action comes: it is excused unless its day is after all rows and answers.
LEMMA ActionComes ==
  ASSUME P!CacheAssumption, PriceInv, NEW ex \in SUBSET P!Days,
         UNCHANGED <<bars, sync, base, got, overtaken>>, closed' \in BOOLEAN,
         today' \in 1..LastDay, today <= today',
         actions' = actions \union ex, actions' \subseteq 1..today',
         excused' \in BOOLEAN, excused => excused',
         \A x \in ex : ~excused' => /\ \A b \in Reached : b < x
                                    /\ \A u \in Syncs : Current(u) => P!Max(got[u].days) < x
  PROVE  PriceInv'
<1>1. PriceTypes /\ Held /\ today \in 1..LastDay /\ LastDay \in Nat
  BY DEF PriceInv, PriceTypes, P!CacheAssumption
<1>2. /\ P!Stored' = P!Stored /\ Reached' = Reached
      /\ \A u \in Syncs : Holds(u)' = Holds(u) /\ Marks(u)' = Marks(u) /\ Current(u)' = Current(u)
      /\ \A e \in P!Days : Ready(e)' = Ready(e)
  BY DEF P!Stored, Reached, Holds, Marks, Current, Ready, Pending, Gap
<1>3. PriceTypes'
  <2>1. P!Stored \subseteq 0..today'
    BY <1>1 DEF PriceTypes
  <2> QED
    BY <1>1, <1>2, <2>1 DEF PriceTypes
<1>4. Held'
  <2>1. ASSUME NEW u \in Syncs PROVE HoldKept(u)'
    <3>1. HoldKept(u) /\ 0..today \subseteq 0..today' /\ actions \subseteq actions'
      BY <1>1 DEF Held
    <3> QED
      BY <1>2, <3>1 DEF HoldKept
  <2> QED
    BY <2>1 DEF Held
<1>5. P!Stored \subseteq P!Days
  BY DEF P!Stored
<1>6. actions \in SUBSET P!Days /\ actions' \in SUBSET P!Days /\ actions \subseteq actions'
  BY <1>1 DEF PriceTypes, P!Days
<1>7. \A d \in P!Days : P!Factor(d, actions) <= P!Factor(d, actions')
  <2>1. PICK B \in SUBSET P!Days : B = actions'
    BY <1>6
  <2>2. \A d \in P!Days : P!Factor(d, actions) <= P!Factor(d, B)
    BY <1>6, <2>1, FactorGrows
  <2> QED
    BY <2>1, <2>2
<1>8. \A d \in P!Days, A \in SUBSET P!Days : P!Factor(d, A) \in Int
  BY FactorType, 0..LastDay \subseteq Int
<1>9. \A V \in SUBSET P!Days : /\ Fits(V) => Fits(V)'
                               /\ ~excused' /\ Knows(V) => Knows(V)'
  <2> TAKE V \in SUBSET P!Days
  <2>1. Fits(V) => Fits(V)'
    BY <1>2, <1>5 DEF Fits
  <2>2. ASSUME ~excused', Knows(V) PROVE Knows(V)'
    <3> SUFFICES ASSUME NEW b \in Reached, NEW x \in actions', x \in 1..b PROVE x \in V
      BY <1>2, <1>6, <2>2 DEF Knows
    <3>1. x \notin ex
      <4>1. b \in Int
        BY <1>1 DEF Reached, PriceTypes, Held, HoldKept
      <4> QED
        BY <2>2, <4>1
    <3> QED
      BY <2>2, <3>1 DEF Knows
  <2> QED
    BY <2>1, <2>2
<1>10. \A u \in Syncs : got[u].actions \in SUBSET P!Days
  BY <1>1 DEF PriceTypes, AnswerRows
<1>11. SomeBasis'
  BY <1>9 DEF PriceInv, SomeBasis, Basis
<1>12. AnswersKnow'
  <2> SUFFICES ASSUME NEW u \in Syncs, Current(u), ~excused'
               PROVE  /\ actions' \intersect (1..P!Max(got[u].days)) \subseteq got[u].actions
                      /\ Knows(got[u].actions)'
    BY <1>2 DEF AnswersKnow
  <2>1. PICK A \in SUBSET P!Days : A = got[u].actions
    BY <1>10
  <2>2. actions \intersect (1..P!Max(got[u].days)) \subseteq A /\ Knows(A)
    BY <2>1 DEF PriceInv, AnswersKnow, Knows
  <2>3. Knows(A)'
    BY <1>9, <2>2
  <2>4. P!Max(got[u].days) \in Int
    <3>1. got[u].days \in SUBSET P!Days /\ got[u].days # {}
      BY <1>1 DEF PriceTypes, AnswerRows, Held, HoldKept, Current
    <3> QED
      BY <1>1, <3>1, AnswerEnds DEF P!Days
  <2>5. ASSUME NEW x \in ex PROVE x \notin 1..P!Max(got[u].days)
    <3>1. P!Max(got[u].days) < x
      OBVIOUS
    <3> QED
      BY <2>4, <3>1
  <2> QED
    BY <2>1, <2>2, <2>3, <2>5 DEF Knows
<1>13. AnswersFit'
  <2> SUFFICES ASSUME NEW u \in Syncs, Current(u), sync[u] # "upsert", ~excused'
               PROVE  Fits(got[u].actions)'
    BY <1>2 DEF AnswersFit
  <2>1. PICK A \in SUBSET P!Days : A = got[u].actions
    BY <1>10
  <2>2. Fits(A)
    BY <2>1 DEF PriceInv, AnswersFit, Fits
  <2>3. Fits(A)'
    BY <1>9, <2>2
  <2> QED
    BY <2>1, <2>3 DEF Fits
<1>14. LaterKnowsMore'
  BY <1>2 DEF PriceInv, LaterKnowsMore
<1>15. RefetchRestates'
  BY <1>2 DEF PriceInv, RefetchRestates
<1>16. RowsNotAhead'
  <2> SUFFICES ASSUME NEW d \in P!Stored
               PROVE  /\ bars[d].adj <= P!Factor(d, actions')
                      /\ \A w \in Syncs : Current(w) /\ ~excused' => bars[d].adj <= P!Factor(d, got[w].actions)
    BY <1>2 DEF RowsNotAhead
  <2>1. bars[d].adj <= P!Factor(d, actions) /\ d \in P!Days
    BY <1>5 DEF PriceInv, RowsNotAhead
  <2>2. bars[d].adj \in Int
    BY <1>1, <2>1 DEF PriceTypes, BarRows, Factors, P!NoFactor
  <2>3. bars[d].adj <= P!Factor(d, actions')
    BY <1>6, <1>7, <1>8, <2>1, <2>2
  <2> QED
    BY <2>3 DEF PriceInv, RowsNotAhead
<1>17. BasesNotAhead'
  <2> SUFFICES ASSUME NEW u \in Syncs, sync[u] = "delta" PROVE base[u].adj <= P!Factor(base[u].day, actions')
    BY DEF BasesNotAhead
  <2>1. base[u].day \in P!Days /\ base[u].adj \in Int
    BY <1>1 DEF PriceTypes, Factors, P!NoFactor
  <2>2. base[u].adj <= P!Factor(base[u].day, actions)
    BY DEF PriceInv, BasesNotAhead
  <2>3. PICK b \in P!Days : b = base[u].day
    BY <2>1
  <2>4. P!Factor(b, actions) <= P!Factor(b, actions')
    BY <1>7
  <2>5. P!Factor(b, actions) \in Int /\ P!Factor(b, actions') \in Int
    BY <1>6, <1>8
  <2> QED
    BY <2>1, <2>2, <2>3, <2>4, <2>5
<1>18. BaseTells'
  <2> SUFFICES ASSUME NEW u \in Syncs, sync[u] = "delta", ~excused',
                      base[u].adj = P!Factor(base[u].day, actions')
               PROVE  Fits(actions)' /\ \A w \in Syncs : Current(w) => got[w].actions = actions'
    BY <1>2 DEF BaseTells
  <2>1. base[u].day \in P!Days /\ base[u].adj \in Int /\ base[u].day \in Reached
    BY <1>1 DEF PriceTypes, Factors, P!NoFactor, Reached
  <2>2. base[u].adj <= P!Factor(base[u].day, actions)
    BY DEF PriceInv, BasesNotAhead
  <2>3. P!Factor(base[u].day, actions) = P!Factor(base[u].day, actions')
    <3>1. PICK b \in P!Days : b = base[u].day
      BY <2>1
    <3>2. P!Factor(b, actions) <= P!Factor(b, actions')
      BY <1>7
    <3>3. P!Factor(b, actions) \in Int /\ P!Factor(b, actions') \in Int
      BY <1>6, <1>8
    <3> QED
      BY <2>1, <2>2, <3>1, <3>2, <3>3
  <2>4. PICK B \in SUBSET P!Days : B = actions'
    BY <1>6
  <2>5. {x \in actions : x > base[u].day} = {x \in B : x > base[u].day}
    BY <1>6, <2>1, <2>3, <2>4, FactorGrows
  <2>6. actions' = actions
    <3>1. ASSUME NEW x \in ex PROVE x \in actions
      <4>1. base[u].day < x /\ x \in B
        BY <2>1, <2>4
      <4>2. x > base[u].day
        BY <2>1, <4>1 DEF P!Days
      <4> QED
        BY <2>5, <4>1, <4>2
    <3> QED
      BY <3>1
  <2>7. Fits(B) /\ \A w \in Syncs : Current(w) => got[w].actions = B
    BY <2>3, <2>4, <2>6 DEF PriceInv, BaseTells, Fits
  <2>8. Fits(B)'
    BY <1>9, <2>7
  <2> QED
    BY <2>4, <2>7, <2>8 DEF Fits
<1> QED
  BY <1>3, <1>4, <1>11, <1>12, <1>13, <1>14, <1>15, <1>16, <1>17, <1>18 DEF PriceInv

\* A day begins, or the source restates its series for the day only after the session.
LEMMA DayKeeps ==
  ASSUME P!CacheAssumption, PriceInv, P!NextDay \/ P!LateRestatement PROVE PriceInv'
<1>1. /\ PriceTypes /\ Held /\ today \in 1..LastDay /\ LastDay \in Nat
      /\ actions \subseteq 1..today /\ closed \in BOOLEAN /\ excused \in BOOLEAN
  BY DEF PriceInv, PriceTypes, P!CacheAssumption
<1>2. \A b \in Reached : b \in 0..today
  BY <1>1 DEF Reached, PriceTypes, Held, HoldKept
<1>3. ASSUME NEW u \in Syncs, Current(u) PROVE P!Max(got[u].days) \in 0..today
  <2>1. got[u].days \in SUBSET P!Days /\ got[u].days # {} /\ got[u].days \subseteq 0..today
    BY <1>1, <1>3 DEF PriceTypes, AnswerRows, Held, HoldKept, Current
  <2> QED
    BY <2>1, AnswerEnds
<1>4. CASE P!NextDay
  <2>1. PICK ex \in SUBSET ({today + 1} \ Holidays) : actions' = actions \union ex
    BY <1>4 DEF P!NextDay
  <2>2. /\ today' = today + 1 /\ today < LastDay /\ closed' \in BOOLEAN
        /\ UNCHANGED <<bars, sync, base, got, overtaken, excused>>
    BY <1>4 DEF P!NextDay, P!syncVars
  <2>3. today' \in 1..LastDay /\ today <= today' /\ actions' \subseteq 1..today' /\ ex \in SUBSET P!Days
    BY <1>1, <2>1, <2>2 DEF P!Days
  <2>4. \A x \in ex : x = today + 1
    BY <2>1
  <2>5. \A x \in ex : /\ \A b \in Reached : b < x
                      /\ \A u \in Syncs : Current(u) => P!Max(got[u].days) < x
    BY <1>1, <1>2, <1>3, <2>4
  <2> QED
    BY <1>1, <2>1, <2>2, <2>3, <2>5, ActionComes
<1>5. CASE P!LateRestatement
  <2> DEFINE ex == {today}
             busy == \E t \in Syncs : sync[t] # "idle"
  <2>1. /\ actions' = actions \union {today}
        /\ excused' = (excused \/ today \in P!Stored \/ busy)
        /\ UNCHANGED <<today, closed, bars, sync, base, got, overtaken>>
    BY <1>5 DEF P!LateRestatement, P!syncVars
  <2>2. today' \in 1..LastDay /\ today <= today' /\ actions' \subseteq 1..today' /\ today \in P!Days
    BY <1>1, <2>1 DEF P!Days
  <2>3. excused' \in BOOLEAN /\ (excused => excused')
    <3>1. busy \in BOOLEAN
      OBVIOUS
    <3> HIDE DEF busy
    <3> QED
      BY <1>1, <2>1, <3>1
  <2>4. ~excused' => /\ \A b \in Reached : b < today
                     /\ \A u \in Syncs : ~Current(u)
    <3> SUFFICES ASSUME ~excused'
                 PROVE  (\A b \in Reached : b < today) /\ \A u \in Syncs : ~Current(u)
      OBVIOUS
    <3>1. today \notin P!Stored /\ \A t \in Syncs : sync[t] = "idle"
      BY <2>1
    <3>2. \A t \in Syncs : base[t].day = 0 /\ ~Current(t)
      BY <1>1, <3>1 DEF Held, HoldKept, Current, Holds, Holding
    <3>3. \A b \in Reached : b # today
      BY <1>1, <3>1, <3>2 DEF Reached
    <3> QED
      BY <1>1, <1>2, <3>2, <3>3
  <2>5. PICK x0 \in P!Days : x0 = today
    BY <2>2
  <2>6. /\ {x0} \in SUBSET P!Days /\ actions' = actions \union {x0}
        /\ \A x \in {x0} : ~excused' => /\ \A b \in Reached : b < x
                                        /\ \A u \in Syncs : Current(u) => P!Max(got[u].days) < x
    BY <2>1, <2>4, <2>5
  <2>7. PICK X \in SUBSET P!Days : X = {x0}
    BY <2>6
  <2>8. /\ actions' = actions \union X
        /\ \A x \in X : ~excused' => /\ \A b \in Reached : b < x
                                     /\ \A u \in Syncs : Current(u) => P!Max(got[u].days) < x
    BY <2>6, <2>7
  <2>9. /\ UNCHANGED <<bars, sync, base, got, overtaken>> /\ closed' \in BOOLEAN
    BY <1>1, <2>1
  <2> QED
    BY <2>2, <2>3, <2>8, <2>9, ActionComes
<1> QED
  BY <1>4, <1>5

\* The server stops: what no refetch has still to mark stays of one basis.
LEMMA CrashKeeps == ASSUME P!CacheAssumption, PriceInv, P!Crash PROVE PriceInv'
<1> DEFINE marking == \E t \in Syncs : sync[t] \in Marking
<1>1. /\ PriceTypes /\ Held /\ today \in 1..LastDay /\ LastDay \in Nat /\ excused \in BOOLEAN
  BY DEF PriceInv, PriceTypes, P!CacheAssumption
<1>2. /\ excused' = (excused \/ marking)
      /\ sync' = [t \in Syncs |-> "idle"]
      /\ base' = [t \in Syncs |-> [day |-> 0, adj |-> P!NoFactor]]
      /\ got' = [t \in Syncs |-> P!NoAnswer]
      /\ overtaken' = [t \in Syncs |-> FALSE]
      /\ UNCHANGED <<today, closed, actions, bars>>
  BY DEF P!Crash, Marking
<1>3. /\ P!Stored' = P!Stored
      /\ \A u \in Syncs : /\ sync'[u] = "idle" /\ ~Holds(u)' /\ ~Current(u)' /\ ~Marks(u)'
                          /\ base'[u].day = 0 /\ got'[u] = P!NoAnswer
  BY <1>2 DEF P!Stored, Holds, Holding, Current, Marks, Marking
<1>4. excused' \in BOOLEAN /\ (~excused' => ~excused /\ ~marking)
  <2>1. marking \in BOOLEAN
    OBVIOUS
  <2> HIDE DEF marking
  <2> QED
    BY <1>1, <1>2, <2>1
<1>5. PriceTypes'
  <2>1. base' \in [Syncs -> [day : P!Days, adj : Factors]] /\ got' \in [Syncs -> AnswerRows]
    BY <1>1, <1>2 DEF Factors, P!NoAnswer, AnswerRows, P!Days
  <2> QED
    BY <1>1, <1>2, <1>3, <1>4, <2>1 DEF PriceTypes
<1>6. Held'
  <2>1. 0 \in 0..today'
    BY <1>1, <1>2
  <2> QED
    BY <1>3, <2>1 DEF Held, HoldKept
<1>7. SomeBasis'
  <2> SUFFICES ASSUME ~excused' PROVE \E V \in SUBSET P!Days : Basis(V)'
    BY DEF SomeBasis
  <2>1. PICK V \in SUBSET P!Days : Basis(V)
    BY <1>4 DEF PriceInv, SomeBasis
  <2>2. \A e \in P!Days : Ready(e)
    BY <1>4 DEF Ready, Pending, Marking
  <2>3. Fits(V)'
    BY <1>2, <1>3, <2>1, <2>2 DEF Basis, Fits, P!Stored
  <2>4. ASSUME NEW b \in Reached' PROVE actions \intersect (1..b) \subseteq V
    <3>1. CASE b \in P!Stored
      BY <2>1, <3>1 DEF Basis, Knows, Reached
    <3>2. CASE b = 0
      <4>1. 1..0 = {}
        OBVIOUS
      <4> QED
        BY <3>2, <4>1
    <3> QED
      BY <1>3, <3>1, <3>2 DEF Reached
  <2>5. Knows(V)'
    BY <1>2, <2>1, <2>4 DEF Basis, Knows
  <2> QED
    BY <2>3, <2>5 DEF Basis
<1>8. AnswersKnow' /\ AnswersFit' /\ LaterKnowsMore' /\ RefetchRestates'
  BY <1>3 DEF AnswersKnow, AnswersFit, LaterKnowsMore, RefetchRestates
<1>9. RowsNotAhead'
  BY <1>2, <1>3 DEF PriceInv, RowsNotAhead
<1>10. BasesNotAhead' /\ BaseTells'
  BY <1>3 DEF BasesNotAhead, BaseTells
<1> QED
  BY <1>5, <1>6, <1>7, <1>8, <1>9, <1>10 DEF PriceInv

\* Initially the rows are of no corporate action.
LEMMA InitPriceInv == ASSUME P!CacheAssumption, P!Init PROVE PriceInv
<1>1. LastDay \in Nat /\ Today0 \in 1..LastDay /\ P!Days = 0..LastDay
  BY DEF P!CacheAssumption, P!Days
<1>2. PICK kept \in {{}, P!Days},
           old \in {[basis |-> "adjusted", adj |-> 0, final |-> TRUE],
                    [basis |-> "null", adj |-> P!NoFactor, final |-> TRUE]} :
        bars = [d \in P!Days |-> IF d < Today0 /\ d \in kept THEN old ELSE P!Absent]
  BY DEF P!Init
<1>3. /\ today = Today0 /\ closed = FALSE /\ actions = {} /\ excused = FALSE
      /\ sync = [t \in Syncs |-> "idle"] /\ got = [t \in Syncs |-> P!NoAnswer]
      /\ base = [t \in Syncs |-> [day |-> 0, adj |-> P!NoFactor]]
      /\ overtaken = [t \in Syncs |-> FALSE]
  BY DEF P!Init
<1>4. ASSUME NEW d \in P!Days
      PROVE  /\ bars[d] \in BarRows /\ bars[d].adj \in {P!NoFactor, 0}
             /\ (bars[d].basis = "adjusted") = (bars[d].adj \in 0..LastDay)
             /\ bars[d].basis # "absent" => d < Today0
  <2>1. bars[d] \in {old, P!Absent} /\ (bars[d] = old \/ bars[d] = P!Absent)
    BY <1>2
  <2>2. bars[d].basis # "absent" => d < Today0
    BY <1>2 DEF P!Absent
  <2>3. old \in BarRows /\ P!Absent \in BarRows
    <3>1. 0 \in Factors /\ P!NoFactor \in Factors
      BY <1>1 DEF Factors
    <3>2. \/ old = [basis |-> "adjusted", adj |-> 0, final |-> TRUE]
          \/ old = [basis |-> "null", adj |-> P!NoFactor, final |-> TRUE]
      OBVIOUS
    <3>3. [basis |-> "adjusted", adj |-> 0, final |-> TRUE] \in BarRows
      BY <3>1 DEF BarRows
    <3>4. [basis |-> "null", adj |-> P!NoFactor, final |-> TRUE] \in BarRows
      BY <3>1 DEF BarRows
    <3>5. P!Absent \in BarRows
      BY <3>1 DEF BarRows, P!Absent
    <3> QED
      BY <3>2, <3>3, <3>4, <3>5
  <2> QED
    BY <1>1, <2>1, <2>2, <2>3 DEF P!Absent, P!NoFactor
<1>5. P!Stored \subseteq 0..today /\ \A d \in P!Stored : bars[d].adj \in {P!NoFactor, 0}
  BY <1>1, <1>3, <1>4 DEF P!Stored
<1>6. PriceTypes
  <2>1. bars \in [P!Days -> BarRows]
    BY <1>2, <1>4
  <2>2. base \in [Syncs -> [day : P!Days, adj : Factors]] /\ got \in [Syncs -> AnswerRows]
    BY <1>1, <1>3 DEF Factors, P!NoAnswer, AnswerRows
  <2> QED
    BY <1>1, <1>3, <1>4, <1>5, <2>1, <2>2 DEF PriceTypes
<1>7. \A t \in Syncs : /\ sync[t] = "idle" /\ ~Holds(t) /\ ~Current(t) /\ ~Marks(t)
                       /\ base[t].day = 0 /\ got[t] = P!NoAnswer
  BY <1>3 DEF Holds, Holding, Current, Marks, Marking
<1>8. Held
  BY <1>1, <1>3, <1>7 DEF Held, HoldKept
<1>9. \A d \in P!Days : P!Factor(d, {}) = 0
  <2> TAKE d \in P!Days
  <2>1. {x \in {} : x > d} = {}
    OBVIOUS
  <2> QED
    BY <2>1, FS_EmptySet, FactorIs
<1>10. SomeBasis
  <2> SUFFICES Basis({})
    BY DEF SomeBasis
  <2>1. Knows({})
    BY <1>3 DEF Knows
  <2>2. Fits({})
    BY <1>5, <1>9 DEF Fits, P!Stored
  <2> QED
    BY <2>1, <2>2 DEF Basis
<1>11. AnswersKnow /\ AnswersFit /\ LaterKnowsMore /\ RefetchRestates
  BY <1>7 DEF AnswersKnow, AnswersFit, LaterKnowsMore, RefetchRestates
<1>12. RowsNotAhead
  BY <1>3, <1>5, <1>7, <1>9 DEF RowsNotAhead, P!Stored, P!NoFactor
<1>13. BasesNotAhead /\ BaseTells
  BY <1>7 DEF BasesNotAhead, BaseTells
<1> QED
  BY <1>6, <1>8, <1>10, <1>11, <1>12, <1>13 DEF PriceInv

\* Every step of the cache keeps the invariant.
LEMMA NextPriceInv ==
  ASSUME P!CacheAssumption PROVE PriceInv /\ [P!Next]_P!vars => PriceInv'
<1> SUFFICES ASSUME PriceInv, [P!Next]_P!vars PROVE PriceInv'
  OBVIOUS
<1>1. ASSUME NEW t \in Syncs, P!BeginDelta(t) \/ P!BeginFull(t) \/ P!NoData(t) PROVE PriceInv'
  BY <1>1, QuietSteps
<1>2. ASSUME NEW t \in Syncs, P!FetchDelta(t) PROVE PriceInv'
  BY <1>2, QuietSteps, FetchSteps
<1>3. ASSUME NEW t \in Syncs, P!FetchFull(t) PROVE PriceInv'
  BY <1>3, FetchSteps
<1>4. ASSUME NEW t \in Syncs, P!Append(t) PROVE PriceInv'
  BY <1>4, AppendKeeps
<1>5. ASSUME NEW t \in Syncs, P!Upsert(t) PROVE PriceInv'
  BY <1>5, UpsertKeeps
<1>6. ASSUME NEW t \in Syncs, P!MarkOlder(t) PROVE PriceInv'
  BY <1>6, MarkOlderKeeps
<1>7. ASSUME NEW t \in Syncs, P!Reconcile(t) PROVE PriceInv'
  BY <1>7, ReconcileKeeps
<1>8. CASE P!Close \/ UNCHANGED P!vars
  BY <1>8, QuietSteps
<1>9. CASE P!NextDay \/ P!LateRestatement
  BY <1>9, DayKeeps
<1>10. CASE P!Crash
  BY <1>10, CrashKeeps
<1> QED
  BY <1>1, <1>2, <1>3, <1>4, <1>5, <1>6, <1>7, <1>8, <1>9, <1>10 DEF P!Next

\* Rows that nobody has still to mark share a basis, and between any two of them lie the
\* actions by which their factors differ.
LEMMA OneBasisOfAll == ASSUME P!CacheAssumption, PriceInv PROVE P!OneBasis
<1> SUFFICES ASSUME ~excused, \A t \in Syncs : sync[t] \notin {"older", "reconcile"},
                    NEW d \in P!Stored, NEW e \in P!Stored, d < e,
                    bars[d].adj # P!NoFactor, bars[e].adj # P!NoFactor
             PROVE  bars[d].adj - bars[e].adj = P!Cardinality({x \in actions : d < x /\ x <= e})
  BY DEF P!OneBasis
<1>1. PICK V \in SUBSET P!Days : Basis(V)
  BY DEF PriceInv, SomeBasis
<1>2. Ready(d) /\ Ready(e)
  BY DEF Ready, Pending
<1>3. d \in P!Days /\ e \in P!Days /\ d \in Nat /\ e \in Nat
  BY DEF P!Stored, P!Days, P!CacheAssumption
<1>4. bars[d].adj = P!Factor(d, V) /\ bars[e].adj = P!Factor(e, V)
  BY <1>1, <1>2 DEF Basis, Fits
<1>5. P!Factor(d, V) - P!Factor(e, V) = Cardinality({x \in V : d < x /\ x <= e})
  BY <1>3, FactorDiffers
<1>6. {x \in V : d < x /\ x <= e} = {x \in actions : d < x /\ x <= e}
  <2>1. V \subseteq actions /\ actions \intersect (1..e) \subseteq V /\ actions \subseteq Int
    <3>1. e \in Reached /\ Knows(V)
      BY <1>1 DEF Basis, Reached
    <3>2. actions \subseteq 1..today
      BY DEF PriceInv, PriceTypes
    <3> QED
      BY <3>1, <3>2 DEF Knows
  <2>2. ASSUME NEW x \in actions, d < x, x <= e PROVE x \in V
    <3>1. x \in 1..e
      BY <1>3, <2>1, <2>2
    <3> QED
      BY <2>1, <3>1
  <2> QED
    BY <2>1, <2>2
<1>7. ASSUME NEW S PROVE P!Cardinality(S) = Cardinality(S)
  BY DEF P!Cardinality, Cardinality
<1> QED
  BY <1>4, <1>5, <1>6, <1>7

\* The values of the cache's variables.
LEMMA PriceTypesAre == ASSUME P!CacheAssumption, PriceInv PROVE P!TypeOK
BY DEF P!CacheAssumption, PriceInv, PriceTypes, P!TypeOK, BarRows, Factors, Holding, P!Days

\* The adjusted rows are of one basis: whatever the source leaves out, whichever days have
\* corporate actions, and however many synchronizations overlap.
THEOREM CachedRowsShareABasis == ASSUME P!CacheAssumption PROVE P!Spec => [](P!OneBasis /\ P!TypeOK)
<1>1. P!Init => PriceInv
  BY InitPriceInv
<1>2. PriceInv /\ [P!Next]_P!vars => PriceInv'
  BY NextPriceInv
<1>3. PriceInv => P!OneBasis /\ P!TypeOK
  BY OneBasisOfAll, PriceTypesAre
<1> QED
  BY <1>1, <1>2, <1>3, PTL DEF P!Spec
-----------------------------------------------------------------------------
(* The values of the variables of each part *)

\* A set of at most one alert.
LEMMA OneAtMost == /\ Cardinality({}) <= 1
                   /\ \A a \in Alerts : Cardinality({a}) <= 1
<1>1. Cardinality({}) = 0 /\ \A a \in Alerts : Cardinality({a}) = 1
  BY FS_EmptySet, FS_Singleton
<1> QED
  BY <1>1

\* Counts up to two stay within their values.
LEMMA OneMoreAtMost == /\ \A n \in -1 .. 2 : OneMore(n) \in -1 .. 2
                       /\ \A n \in 0 .. 2 : OneMore(n) \in 0 .. 2
BY DEF OneMore

\* The alerts' variables keep their values.
LEMMA AlertTypes == TypeOK /\ [Next]_vars => TypeOK'
<1> SUFFICES ASSUME TypeOK, [Next]_vars PROVE TypeOK'
  OBVIOUS
<1> USE DEF row, job, history
<1>1. ASSUME NEW c \in Creators, CountAlerts(c) PROVE TypeOK'
  BY <1>1 DEF CountAlerts, TypeOK
<1>2. ASSUME NEW c \in Creators, NEW a \in Alerts, InsertAlert(c, a) PROVE TypeOK'
  BY <1>2 DEF InsertAlert, TypeOK
<1>3. ASSUME NEW a \in Alerts, TurnOn(a) PROVE TypeOK'
  BY <1>3, AlertsAssumption DEF TurnOn, TypeOK, Null
<1>4. ASSUME NEW a \in Alerts, TurnOff(a) PROVE TypeOK'
  BY <1>4 DEF TurnOff, TypeOK
<1>5. ASSUME NEW a \in Alerts, Delete(a) PROVE TypeOK'
  BY <1>5, AlertsAssumption DEF Delete, TypeOK, Null
<1>6. CASE ReadActive
  <2>1. snap' \in Rows(0 .. MaxDay)
    BY <1>6 DEF ReadActive, TypeOK, Rows
  <2> QED
    BY <1>6, <2>1 DEF ReadActive, TypeOK
<1>7. CASE FetchQuotes
  BY <1>7 DEF FetchQuotes, TypeOK
<1>8. ASSUME NEW a \in Alerts, StartRing(a) PROVE TypeOK'
  BY <1>8, OneAtMost DEF StartRing, TypeOK
<1>9. ASSUME NEW a \in Alerts, Push(a) PROVE TypeOK'
  <2>1. Marker(a) \in Alerts \X (0 .. MaxDay) \X (1 .. MaxDay)
    BY DEF TypeOK, Rows, Marker, Today
  <2>2. sent' \subseteq Alerts \X (0 .. MaxDay) \X (1 .. MaxDay)
    BY <1>9, <2>1 DEF Push, TypeOK
  <2>3. pushes' \in [Alerts -> -1 .. 2] /\ delivered' \subseteq Alerts
    <3>1. pushes[a] \in -1 .. 2
      BY DEF TypeOK
    <3>2. OneMore(pushes[a]) \in -1 .. 2
      BY <3>1, OneMoreAtMost
    <3> QED
      BY <1>9, <3>2 DEF Push, TypeOK
  <2> QED
    BY <1>9, <2>2, <2>3 DEF Push, TypeOK
<1>10. ASSUME NEW a \in Alerts, WriteRing(a) PROVE TypeOK'
  <2>1. (a \in PctMove \union Rearm) \in BOOLEAN
    OBVIOUS
  <2>2. CASE exists[a] = "yes"
    <3>1. active' \in [Alerts -> BOOLEAN] /\ armed' \in [Alerts -> BOOLEAN]
      BY <1>10, <2>1, <2>2 DEF WriteRing, TypeOK
    <3>2. triggeredOn' \in [Alerts -> 0 .. MaxDay]
      BY <1>10, <2>2 DEF WriteRing, TypeOK, Today
    <3>3. pushes' \in [Alerts -> -1 .. 2] /\ rings' \in [Alerts -> 0 .. 2] /\ delivered' \subseteq Alerts
      <4>1. rings[a] \in 0 .. 2
        BY DEF TypeOK
      <4>2. OneMore(rings[a]) \in 0 .. 2
        BY <4>1, OneMoreAtMost
      <4>3. pushes' = [pushes EXCEPT ![a] = 0] /\ delivered' = delivered \ {a}
            /\ rings' = [rings EXCEPT ![a] = OneMore(rings[a])]
        BY <1>10, <2>2 DEF WriteRing
      <4> QED
        BY <4>2, <4>3 DEF TypeOK
    <3> QED
      BY <1>10, <3>1, <3>2, <3>3, OneAtMost DEF WriteRing, TypeOK
  <2>3. CASE exists[a] # "yes"
    BY <1>10, <2>3, OneAtMost DEF WriteRing, TypeOK
  <2> QED
    BY <2>2, <2>3
<1>11. ASSUME NEW a \in Alerts, WriteQuiet(a) PROVE TypeOK'
  <2>1. (armed[a] \/ (Rearms(a) /\ exists[a] = "yes")) \in BOOLEAN
    OBVIOUS
  <2>2. armed' \in [Alerts -> BOOLEAN]
    BY <1>11, <2>1 DEF WriteQuiet, TypeOK
  <2> QED
    BY <1>11, <2>2 DEF WriteQuiet, TypeOK
<1>12. CASE EndCheck
  <2>1. NoRows \in Rows(0 .. MaxDay)
    BY AlertsAssumption DEF NoRows, Rows, Null
  <2> QED
    BY <1>12, <2>1, OneAtMost DEF EndCheck, TypeOK
<1>13. CASE Midnight
  BY <1>13, AlertsAssumption DEF Midnight, TypeOK
<1>14. CASE Restart
  <2>1. NoRows \in Rows(0 .. MaxDay)
    BY AlertsAssumption DEF NoRows, Rows, Null
  <2> QED
    BY <1>14, <2>1, OneAtMost DEF Restart, TypeOK
<1>15. CASE UNCHANGED vars
  BY <1>15 DEF vars, TypeOK
<1> QED
  BY <1>1, <1>2, <1>3, <1>4, <1>5, <1>6, <1>7, <1>8, <1>9, <1>10, <1>11, <1>12, <1>13, <1>14, <1>15
     DEF Next

\* The poller's variables keep their values.
LEMMA QuoteTypes == ASSUME Q!PollerAssumption PROVE Q!TypeOK /\ [Q!Next]_Q!vars => Q!TypeOK'
<1> SUFFICES ASSUME Q!TypeOK, [Q!Next]_Q!vars PROVE Q!TypeOK'
  OBVIOUS
<1> USE DEF Q!PollerAssumption, Q!broker, Q!calls, Q!Tokens
<1>1. CASE Q!Exchange
  BY <1>1 DEF Q!Exchange, Q!TypeOK
<1>2. CASE Q!StoreToken
  <2>1. [token |-> login, valid |-> TRUE, expired |-> FALSE]
          \in [token : 0..MaxLogins, valid : BOOLEAN, expired : BOOLEAN]
    BY DEF Q!TypeOK
  <2>2. session' \in [token : 0..MaxLogins, valid : BOOLEAN, expired : BOOLEAN]
    BY <1>2, <2>1 DEF Q!StoreToken, Q!TypeOK
  <2> QED
    BY <1>2, <2>2 DEF Q!StoreToken, Q!TypeOK
<1>3. CASE Q!Morning
  BY <1>3 DEF Q!Morning, Q!TypeOK
<1>4. CASE Q!Age
  BY <1>4 DEF Q!Age, Q!TypeOK
<1>5. ASSUME NEW s \in Symbols, Q!PriceMoves(s) PROVE Q!TypeOK'
  BY <1>5 DEF Q!PriceMoves, Q!TypeOK
<1>6. ASSUME NEW c \in Q!Callers,
             \/ Q!StartDashboard(c) \/ Q!StartButton(c) \/ Q!TakeLock(c) \/ Q!AllFresh(c)
             \/ Q!TokenRejected(c)
      PROVE  Q!TypeOK'
  BY <1>6 DEF Q!StartDashboard, Q!StartButton, Q!TakeLock, Q!AllFresh, Q!TokenRejected, Q!Goes, Q!TypeOK
<1>7. ASSUME NEW c \in Q!Callers, Q!Returns(c), session' \in {session, [session EXCEPT !.valid = FALSE]},
             UNCHANGED <<Q!broker, login, answers, live, written>>
      PROVE  Q!TypeOK'
  <2>1. quotes' \in [Q!Callers -> [Symbols -> {Q!Missing} \union 1..MaxPrice]]
    BY <1>7 DEF Q!Returns, Q!TypeOK
  <2>2. lock' \in Q!Callers \union {None} /\ session' \in [token : 0..MaxLogins, valid : BOOLEAN, expired : BOOLEAN]
    BY <1>7 DEF Q!Returns, Q!TypeOK
  <2> QED
    BY <1>7, <2>1, <2>2 DEF Q!Returns, Q!Goes, Q!TypeOK
<1>8. ASSUME NEW c \in Q!Callers,
             Q!LoginRequired(c) \/ Q!NetworkError(c) \/ Q!Invalidate(c) \/ Q!PollEnds(c)
      PROVE  Q!TypeOK'
  BY <1>7, <1>8 DEF Q!LoginRequired, Q!NetworkError, Q!Invalidate, Q!PollEnds
<1>9. ASSUME NEW c \in Q!Callers, Q!Authenticate(c) PROVE Q!TypeOK'
  BY <1>9 DEF Q!Authenticate, Q!StoredToken, Q!Goes, Q!TypeOK
<1>10. ASSUME NEW c \in Q!Callers, Q!Quote(c) PROVE Q!TypeOK'
  <2>1. quotes' \in [Q!Callers -> [Symbols -> {Q!Missing} \union 1..MaxPrice]]
    BY <1>10 DEF Q!Quote, Q!TypeOK
  <2> QED
    BY <1>10, <2>1 DEF Q!Quote, Q!Goes, Q!TypeOK
<1>11. ASSUME NEW c \in Q!Callers, NEW s \in Symbols, Q!WriteQuote(c, s) \/ Q!MarkMissing(c, s)
       PROVE  Q!TypeOK'
  <2>1. live[s] \in [price : 0..MaxPrice, stale : BOOLEAN, aged : BOOLEAN]
    BY DEF Q!TypeOK
  <2>2. ASSUME NEW r \in [price : 0..MaxPrice, stale : BOOLEAN, aged : BOOLEAN], NEW how, Q!Write(c, s, r, how)
        PROVE  Q!TypeOK'
    BY <2>2 DEF Q!Write, Q!TypeOK
  <2>3. CASE Q!WriteQuote(c, s)
    <3>1. quotes[c][s] \in 0..MaxPrice
      BY <2>3 DEF Q!WriteQuote, Q!TypeOK
    <3>2. Q!Updated(s, quotes[c][s]) \in [price : 0..MaxPrice, stale : BOOLEAN, aged : BOOLEAN]
      BY <2>1, <3>1 DEF Q!Updated
    <3> QED
      BY <2>2, <2>3, <3>2 DEF Q!WriteQuote
  <2>4. CASE Q!MarkMissing(c, s)
    <3>1. (live[s].price # 0) \in BOOLEAN
      OBVIOUS
    <3>2. [live[s] EXCEPT !.stale = (live[s].price # 0)] \in [price : 0..MaxPrice, stale : BOOLEAN, aged : BOOLEAN]
      BY <2>1, <3>1
    <3> QED
      BY <2>2, <2>4, <3>2 DEF Q!MarkMissing
  <2> QED
    BY <1>11, <2>3, <2>4
<1>12. CASE UNCHANGED Q!vars
  BY <1>12 DEF Q!vars, Q!TypeOK
<1> QED
  BY <1>1, <1>2, <1>3, <1>4, <1>5, <1>6, <1>8, <1>9, <1>10, <1>11, <1>12 DEF Q!Next, Q!Step

\* Initially the variables of the alerts and of the poller have their values.
LEMMA InitTypes == ASSUME Q!PollerAssumption PROVE (Init => TypeOK) /\ (Q!Init => Q!TypeOK)
<1>1. ASSUME Init PROVE TypeOK
  <2>1. NoRows \in Rows(0 .. MaxDay) /\ day \in 1 .. MaxDay /\ Null \in 0 .. MaxDay
    BY <1>1, AlertsAssumption DEF NoRows, Rows, Null, Init
  <2> QED
    BY <1>1, <2>1, OneAtMost DEF Init, TypeOK
<1>2. ASSUME Q!Init PROVE Q!TypeOK
  <2>1. live \in [Symbols -> [price : 0..MaxPrice, stale : BOOLEAN, aged : BOOLEAN]]
    <3>1. live \in [Symbols -> {[price |-> p, stale |-> FALSE, aged |-> p # 0] : p \in {0, 1}}]
      BY <1>2 DEF Q!Init
    <3>2. ASSUME NEW p \in {0, 1}
          PROVE  [price |-> p, stale |-> FALSE, aged |-> p # 0]
                   \in [price : 0..MaxPrice, stale : BOOLEAN, aged : BOOLEAN]
      <4>1. (p # 0) \in BOOLEAN /\ p \in 0..MaxPrice
        BY DEF Q!PollerAssumption
      <4> QED
        BY <4>1
    <3>3. {[price |-> p, stale |-> FALSE, aged |-> p # 0] : p \in {0, 1}}
            \subseteq [price : 0..MaxPrice, stale : BOOLEAN, aged : BOOLEAN]
      BY <3>2
    <3> QED
      BY <3>1, <3>3
  <2>2. quotes \in [Q!Callers -> [Symbols -> {Q!Missing} \union 1..MaxPrice]]
    BY <1>2 DEF Q!Init
  <2> QED
    BY <1>2, <2>1, <2>2 DEF Q!Init, Q!TypeOK, Q!PollerAssumption, Q!Callers
<1> QED
  BY <1>1, <1>2
-----------------------------------------------------------------------------
(* All parts together *)

\* Each part takes its own steps only.
LEMMA AllSpecIsEach == AllSpec => Spec /\ Q!Spec /\ C!Spec /\ P!Spec
<1> DEFINE allVars == <<part, alertVars, quoteVars, calendarVars, cacheVars>>
<1>1. AllInit => Init /\ Q!Init /\ C!Init /\ P!Init
  BY DEF AllInit
<1>2. /\ UNCHANGED alertVars => UNCHANGED vars
      /\ UNCHANGED quoteVars => UNCHANGED Q!vars
      /\ UNCHANGED calendarVars => UNCHANGED C!vars
      /\ UNCHANGED cacheVars => UNCHANGED P!vars
  BY DEF alertVars, vars, row, job, history, quoteVars, Q!vars, Q!broker, Q!calls,
         calendarVars, C!vars, cacheVars, P!vars
<1>3. [AllNext]_allVars => [Next]_vars
  BY <1>2 DEF AllNext
<1>4. [AllNext]_allVars => [Q!Next]_Q!vars
  BY <1>2 DEF AllNext
<1>5. [AllNext]_allVars => [C!Next]_C!vars
  BY <1>2 DEF AllNext
<1>6. [AllNext]_allVars => [P!Next]_P!vars
  BY <1>2 DEF AllNext
<1> QED
  BY <1>1, <1>3, <1>4, <1>5, <1>6, PTL DEF AllSpec, Spec, Q!Spec, C!Spec, P!Spec

\* Every variable of every part keeps its values.
THEOREM RecordsTypes == AllSpec => []TypesOK
<1>1. Spec => []TypeOK
  BY InitTypes, AlertTypes, RecordsAssumption, PTL DEF Spec
<1>2. Q!Spec => []Q!TypeOK
  BY InitTypes, QuoteTypes, RecordsAssumption, PTL DEF Q!Spec
<1>3. C!Spec => []C!TypeOK
  <2>1. CalInv => C!TypeOK
    BY DEF CalInv
  <2> QED
    BY <2>1, CalInvHolds, RecordsAssumption, PTL
<1>4. P!Spec => []P!TypeOK
  BY CachedRowsShareABasis, RecordsAssumption, PTL
<1>5. AllSpec => [](part \in {"alerts", "quotes", "calendar", "prices"})
  <2>1. AllInit => part \in {"alerts", "quotes", "calendar", "prices"}
    BY DEF AllInit
  <2>2. /\ part \in {"alerts", "quotes", "calendar", "prices"}
        /\ [AllNext]_<<part, alertVars, quoteVars, calendarVars, cacheVars>>
        => (part \in {"alerts", "quotes", "calendar", "prices"})'
    BY DEF AllNext
  <2> QED
    BY <2>1, <2>2, PTL DEF AllSpec
<1>6. (/\ TypeOK /\ Q!TypeOK /\ C!TypeOK /\ P!TypeOK
       /\ part \in {"alerts", "quotes", "calendar", "prices"}) => TypesOK
  <2> SUFFICES ASSUME TypeOK, Q!TypeOK, C!TypeOK, P!TypeOK,
                      part \in {"alerts", "quotes", "calendar", "prices"}
               PROVE  TypesOK
    OBVIOUS
  <2>1. CASE part = "alerts"
    BY <2>1 DEF TypesOK
  <2>2. CASE part = "quotes"
    BY <2>2 DEF TypesOK
  <2>3. CASE part = "calendar"
    BY <2>3 DEF TypesOK
  <2>4. CASE part = "prices"
    BY <2>4 DEF TypesOK
  <2> QED
    BY <2>1, <2>2, <2>3, <2>4
<1> QED
  BY <1>1, <1>2, <1>3, <1>4, <1>5, <1>6, AllSpecIsEach, PTL

\* A poll that ends, in whatever way, holds no lock and leaves no row marked stale without
\* a reason.
THEOREM NothingLeftByPolls == AllSpec => []NothingIsLeftBehind
<1>1. Q!NothingIsLeftBehind => NothingIsLeftBehind
  BY DEF NothingIsLeftBehind
<1> QED
  BY <1>1, AllSpecIsEach, PollsLeaveNothingBehind, RecordsAssumption, PTL

\* Of the live prices and the session, what is newer is undone by a poll round the lock and
\* by the refusal of an older token, and by nothing else.
THEOREM NewerUndoneOnlyUnguarded == AllSpec => UndoneOnlyUnguarded
<1>1. Q!Spec => Q!UndoneOnlyUnguarded
  BY UndoneOnlyThere, RecordsAssumption
<1> QED
  BY <1>1, AllSpecIsEach, PTL DEF UndoneOnlyUnguarded

\* Between a post's commit and its clearing aside, the cached calendar is the table's.
THEOREM CalendarIsFollowed == AllSpec => []CacheFollowsTable
<1>1. CalInv => CacheFollowsTable
  BY DEF CalInv, CacheFollowsTable
<1> QED
  BY <1>1, AllSpecIsEach, CalInvHolds, RecordsAssumption, PTL

\* The wait that is announced ends at the first moment the market is open, for every
\* calendar and all hours.
THEOREM OpeningsAreEarliest == AllSpec => []NextOpenIsEarliest
<1>1. C!NextOpenIsEarliest => NextOpenIsEarliest
  BY DEF NextOpenIsEarliest
<1>2. CalInv => C!NextOpenIsEarliest
  BY OpeningsAnnounced, RecordsAssumption
<1> QED
  BY <1>1, <1>2, AllSpecIsEach, CalInvHolds, RecordsAssumption, PTL

\* The adjusted rows of a symbol share one basis.
THEOREM PricesShareABasis == AllSpec => []OneBasis
<1>1. P!OneBasis => OneBasis
  BY DEF OneBasis
<1> QED
  BY <1>1, AllSpecIsEach, CachedRowsShareABasis, RecordsAssumption, PTL
=============================================================================
