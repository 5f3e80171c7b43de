------------------------------ MODULE Outcomes ------------------------------
(***************************************************************************)
(* How a call turned out: the forward returns that are written beside the  *)
(* evening signals (analytics/signal_recorder.py), the committee's ratings *)
(* (settle_research_runs of research/runs.py) and the entries of the       *)
(* decision journal (analytics/journal.py), against the index.             *)
(*                                                                         *)
(* The three tables and their jobs share nothing but forward_return and    *)
(* the price cache, so a behaviour follows one of them, for one stock.     *)
(* Days are trading days.  A series is the set of the days that have a     *)
(* bar in the cache; a return is the window it is taken over, its prices   *)
(* being PriceCache's concern.                                             *)
(***************************************************************************)
EXTENDS Integers, FiniteSets, FiniteSetsExt

CONSTANTS Kinds,      \* of {"signal", "rating", "entry"}
          LastDay,    \* bound: days
          MaxCalls,   \* bound: calls to be settled
          Horizons,   \* per kind, in days: 5, 20, 60 in the code, 20 for entries
          Lookback,   \* per kind: the oldest bars a settlement reads
          Cut,        \* per horizon: the age in days from which a call is looked at
          None

Days == 0..LastDay

\* What is asked of the constants.  A horizon in calendar days, which the queries
\* wait for, is no longer than in trading days.
OutcomesAssumption ==
  /\ LastDay \in Nat /\ MaxCalls \in Nat /\ None \notin Days
  /\ \A k \in Kinds : Horizons[k] \subseteq Nat \ {0} /\ Lookback[k] \in Nat
  /\ \A k \in Kinds : \A h \in Horizons[k] : Cut[h] \in 0..h

VARIABLES
  kind,     \* the table this behaviour follows
  day,      \* today
  stock,    \* the days with a bar of the stock,
  index,    \* and of the index
  outcome,  \* per call, known by its day, and horizon: None or the window
  todo,     \* the job: the calls and horizons it found unsettled and not tried yet
  bench     \* the job: the bars of the index it began with

vars == <<kind, day, stock, index, outcome, todo, bench>>

Calls == DOMAIN outcome

Init ==
  /\ kind \in Kinds /\ day = 0 /\ stock = {} /\ index = {}
  /\ outcome = << >> /\ todo = {} /\ bench = {}
-----------------------------------------------------------------------------
(* Outside *)

NewDay == day < LastDay /\ day' = day + 1 /\ UNCHANGED <<kind, stock, index, outcome, todo, bench>>

\* A bar comes into the cache, at once, late or never.
BarOfStock(d) ==
  /\ d \in 0..day \ stock /\ stock' = stock \union {d}
  /\ UNCHANGED <<kind, day, index, outcome, todo, bench>>
BarOfIndex(d) ==
  /\ d \in 0..day \ index /\ index' = index \union {d}
  /\ UNCHANGED <<kind, day, stock, outcome, todo, bench>>
-----------------------------------------------------------------------------
(* Calls *)

\* A signal or an entry is of today; a rating of the newest bar it was based on.
Start == IF kind = "rating" THEN Max(stock) ELSE day

\* record_eod_signals, the end of a committee's run, journal.record.  A signal
\* recorded again on its day keeps its row and what is settled in it.
Record ==
  /\ kind = "rating" => stock # {}
  /\ Start \notin Calls /\ Cardinality(Calls) < MaxCalls
  /\ outcome' = [d \in Calls \union {Start} |->
                   IF d \in Calls THEN outcome[d] ELSE [h \in Horizons[kind] |-> None]]
  /\ UNCHANGED <<kind, day, stock, index, todo, bench>>
-----------------------------------------------------------------------------
(* Settlement *)

Visible(series) == {d \in series : d >= day - Lookback[kind]}

\* Mutant: the first bar after the call's day.
AfterStart(series, start) == {d \in series : d > start}
\* The bars forward_return looks at.
OnOrAfter(series, start) == {d \in series : d >= start}

\* Mutant: one bar more than the horizon needs has to be there.
LongEnoughLate(series, start, h) == Cardinality(OnOrAfter(series, start)) >= h + 2
\* The horizon has passed.
LongEnough(series, start, h) == Cardinality(OnOrAfter(series, start)) >= h + 1

\* The day the return ends: h bars after its base.
EndOf(series, start, h) ==
  CHOOSE d \in OnOrAfter(series, start) :
    Cardinality({x \in OnOrAfter(series, start) : x < d}) = h

\* forward_return of both; complete tells whether no bar it spans was missing.
Window(bars, start, h) ==
  [base  |-> Min(OnOrAfter(bars, start)),  end  |-> EndOf(bars, start, h),
   ibase |-> Min(OnOrAfter(bench, start)), iend |-> EndOf(bench, start, h),
   complete |-> start..(start + h) \subseteq bars \intersect bench]

\* Mutant: calls are settled again while the job finds them old enough.
UnsettledOrNot == {c \in Calls \X Horizons[kind] : c[1] + Cut[c[2]] <= day}
Unsettled == {c \in Calls \X Horizons[kind] : outcome[c[1]][c[2]] = None /\ c[1] + Cut[c[2]] <= day}

\* The evening job reads the index once and the unsettled calls.  Without an index
\* it settles nothing.
Begin ==
  /\ todo = {} /\ Unsettled # {} /\ Visible(index) # {}
  /\ bench' = Visible(index) /\ todo' = Unsettled
  /\ UNCHANGED <<kind, day, stock, index, outcome>>

Tried(c) == todo' = todo \ {c} /\ bench' = IF todo = {c} THEN {} ELSE bench

\* A call of the list, with the stock's bars of this moment.
Settle(c) ==
  /\ c \in todo /\ Tried(c)
  /\ outcome' = IF LongEnough(Visible(stock), c[1], c[2]) /\ LongEnough(bench, c[1], c[2])
                THEN [outcome EXCEPT ![c[1]][c[2]] = Window(Visible(stock), c[1], c[2])]
                ELSE outcome
  /\ UNCHANGED <<kind, day, stock, index>>

\* The stock's bars cannot be had: the call waits for another evening.
Skip(c) == c \in todo /\ Tried(c) /\ UNCHANGED <<kind, day, stock, index, outcome>>

\* The process ends in the middle: what is settled is.
Stop == todo # {} /\ todo' = {} /\ bench' = {} /\ UNCHANGED <<kind, day, stock, index, outcome>>

Next ==
  \/ NewDay \/ Record \/ Begin \/ Stop
  \/ \E d \in Days : BarOfStock(d) \/ BarOfIndex(d)
  \/ \E c \in todo : Settle(c) \/ Skip(c)

\* The job runs every market day, and a stock's bars can be had again and again.
Fairness ==
  /\ WF_vars(Begin)
  /\ \A d \in Days, h \in UNION {Horizons[k] : k \in Kinds} : SF_vars(Settle(<<d, h>>))

Spec == Init /\ [][Next]_vars /\ Fairness
-----------------------------------------------------------------------------
Windows == [base : Days, end : Days, ibase : Days, iend : Days, complete : BOOLEAN]

TypeOK ==
  /\ kind \in Kinds /\ day \in Days /\ stock \subseteq Days /\ index \subseteq Days
  /\ Calls \subseteq Days /\ bench \subseteq Days /\ todo \subseteq Calls \X Horizons[kind]
  /\ outcome \in [Calls -> [Horizons[kind] -> Windows \union {None}]]

\* A settled return begins no sooner than its call, spans the whole horizon for the
\* stock and for the index, and where no bar was missing it is over the very days
\* from the call's on, the same for both.  (A missing bar stretches one of them, and
\* a call older than the bars that are read has its first ones missing.)
WindowIsTheCalls ==
  \A d \in Calls : \A h \in Horizons[kind] :
    LET w == outcome[d][h]
    IN  w # None =>
          /\ w.base >= d /\ w.ibase >= d /\ w.end >= w.base + h /\ w.iend >= w.ibase + h
          /\ w.end <= day /\ w.iend <= day
          /\ w.complete => /\ w.base = d /\ w.end = d + h
                           /\ w.ibase = d /\ w.iend = d + h

\* A return once written is never written again, whichever bars come in later.
SettledIsFinal ==
  [][\A d \in Calls : \A h \in Horizons[kind] :
       outcome[d][h] # None => outcome'[d][h] = outcome[d][h]]_vars

\* In the end every call whose bars are there is settled, although runs of the job
\* break off and bars of the stock cannot be had at times.
ReadyIsSettled ==
  <>[](\A d \in Calls : \A h \in Horizons[kind] :
         (\A series \in {stock, index} : Cardinality({x \in Visible(series) : x >= d}) > h)
           => outcome[d][h] # None)

\* A call is settled, and settled once.
SettledOnce == SettledIsFinal /\ ReadyIsSettled
=============================================================================
