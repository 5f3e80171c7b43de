------------------------------ MODULE PriceCache ------------------------------
(***************************************************************************)
(* The cache of one symbol's daily bars: src/analytics/historical_cache.py *)
(* over historical_daily_bars in src/db/repository.py.                     *)
(*                                                                         *)
(* A row keeps a traded close and an adjusted one.  Returns are computed   *)
(* from the adjusted series, so its rows have to share one basis: every    *)
(* dividend or split between two days is in the factor of the earlier one, *)
(* and none is in it twice.  The source restates its whole series at a     *)
(* corporate action; the cache notices by comparing the newest day it      *)
(* holds with the source's answer and then fetches everything again.       *)
(*                                                                         *)
(* A factor is the number of corporate actions after the day; prices do    *)
(* not matter otherwise.  The source answers with any day missing, any     *)
(* adjusted close missing, or all of them.  A synchronization is several   *)
(* requests and transactions, and several may be at work: the handlers'    *)
(* threads and the scheduler's jobs call it without a lock.                *)
(***************************************************************************)
EXTENDS Integers, FiniteSets, FiniteSetsExt

CONSTANTS Syncs,        \* the threads that may synchronize the symbol
          Today0,       \* the first day of the behaviour
          LastDay,      \* bound: its last day
          Holidays,     \* the days without a session
          FirstFetched, \* the oldest day a full fetch returns
          MaxSyncs      \* bound: synchronizations that ask the source

VARIABLES
  today, closed,   \* now_ist(): the day, and whether it is past 16:00
  actions,         \* the ex-days the source has restated its series for
  bars,            \* historical_daily_bars
  pc,              \* per thread: where get_or_sync_historical_bars is
  base,            \* per thread: the newest row of db_bars
  got,             \* per thread: the source's answer
  crossed,         \* per thread: did another one write an answer of another basis since?
  excused,         \* has something happened that the comparison cannot see?
  begun            \* how many synchronizations there were

vars == <<today, closed, actions, bars, pc, base, got, crossed, excused, begun>>
syncVars == <<pc, base, got, crossed>>

Days == 0..LastDay
NoFactor == -1

\* What is asked of the constants.
CacheAssumption ==
  /\ LastDay \in Nat /\ Today0 \in Days /\ \E d \in 0..(Today0 - 1) : d \notin Holidays
  /\ FirstFetched \in Nat /\ MaxSyncs \in Nat

Absent == [basis |-> "absent", adj |-> NoFactor, final |-> FALSE]
NoAnswer == [days |-> {}, noAdj |-> {}, actions |-> {}, partial |-> {}]

Stored == {d \in Days : bars[d].basis # "absent"}
Newest == Max(Stored)

\* The source's adjustment factor of a day, with the actions it knows.
Factor(d, known) == Cardinality({x \in known : x > d})

\* get_last_completed_trading_date.
LastCompleted == Max({d \in 0..(IF closed THEN today ELSE today - 1) : d \notin Holidays})

\* _fetch_from_yfinance: the days from the first one asked for; one of them may be
\* left out or have no adjusted close, or none has one.  The bar of a day that
\* is not over holds the price of the moment.
Answers(first) ==
  LET offered == {d \in first..today : d \notin Holidays}
  IN  {a \in [days : SUBSET offered, noAdj : SUBSET offered, actions : {actions},
              partial : {IF closed THEN {} ELSE {today}}] :
         /\ a.days # {} /\ a.noAdj \subseteq a.days
         /\ a.noAdj = a.days \/ Cardinality(offered \ a.days) + Cardinality(a.noAdj) <= 1}

\* _adjustment_restated; a base with no factor and an answer without the day say
\* nothing.
Comparable(b, a) == b.adj # NoFactor /\ b.day \in a.days \ a.noAdj

\* Mutant: the series is never found restated.
RestatedNever(b, a) == FALSE
Restated(b, a) == Comparable(b, a) /\ Factor(b.day, a.actions) # b.adj

\* Mutant: every row of an answer is labelled adjusted.
UpsertedLabelled(rows, a, after) ==
  [d \in Days |->
     IF d \notin a.days \/ d <= after THEN rows[d]
     ELSE [final |-> d \notin a.partial, basis |-> "adjusted",
           adj   |-> IF d \notin a.noAdj THEN Factor(d, a.actions) ELSE rows[d].adj]]

\* upsert_historical_bars: a missing factor or label leaves the row's own.
Upserted(rows, a, after) ==
  [d \in Days |->
     IF d \notin a.days \/ d <= after THEN rows[d]
     ELSE [final |-> d \notin a.partial,
           adj   |-> IF d \notin a.noAdj THEN Factor(d, a.actions) ELSE rows[d].adj,
           basis |-> IF d \notin a.noAdj THEN "adjusted"
                     ELSE IF rows[d].basis = "absent" THEN "null" ELSE rows[d].basis]]

Legacy(row) == [row EXCEPT !.basis = "legacy", !.adj = NoFactor]

\* The days _reconcile_missing_days finds cached but not returned.
Missing(a) == {d \in Stored : Min(a.days) <= d /\ d <= Max(a.days)} \ a.days
-----------------------------------------------------------------------------
Init ==
  /\ today = Today0 /\ closed = FALSE
  /\ actions = {}
  \* Nothing yet; the rows of an older build, with one for every day; or rows from
  \* before the adjusted close was kept.
  /\ bars \in {[d \in Days |-> IF d < Today0 /\ d \in kept THEN row ELSE Absent] :
                 kept \in {{}, Days},
                 row \in {[basis |-> "adjusted", adj |-> 0, final |-> TRUE],
                          [basis |-> "null", adj |-> NoFactor, final |-> TRUE]}}
  /\ pc = [t \in Syncs |-> "idle"]
  /\ base = [t \in Syncs |-> [day |-> 0, adj |-> NoFactor]]
  /\ got = [t \in Syncs |-> NoAnswer]
  /\ crossed = [t \in Syncs |-> FALSE]
  /\ excused = FALSE /\ begun = 0

\* Over for this thread, whatever it held.
Return(t) ==
  /\ pc' = [pc EXCEPT ![t] = "idle"]
  /\ base' = [base EXCEPT ![t] = [day |-> 0, adj |-> NoFactor]]
  /\ got' = [got EXCEPT ![t] = NoAnswer]
  /\ crossed' = [crossed EXCEPT ![t] = FALSE]

\* get_or_sync_historical_bars reads the rows.  A hit returns them.
BeginDelta(t) ==
  /\ pc[t] = "idle" /\ Stored # {} /\ Newest < LastCompleted
  /\ begun < MaxSyncs /\ begun' = begun + 1
  /\ pc' = [pc EXCEPT ![t] = "delta"]
  /\ base' = [base EXCEPT ![t] = [day |-> Newest, adj |-> bars[Newest].adj]]
  /\ UNCHANGED <<today, closed, actions, bars, got, crossed, excused>>

\* A cold start, or a forced one: backfill_adjusted_prices for a symbol with
\* unlabelled rows, or the scanner's first deep synchronization.
BeginFull(t) ==
  /\ pc[t] = "idle"
  /\ begun < MaxSyncs /\ begun' = begun + 1
  /\ pc' = [pc EXCEPT ![t] = "full"]
  /\ UNCHANGED <<today, closed, actions, bars, base, got, crossed, excused>>

\* No answer, or an empty one: the cached rows are returned as they are.
NoData(t) ==
  /\ pc[t] \in {"delta", "full"}
  /\ Return(t)
  /\ UNCHANGED <<today, closed, actions, bars, excused, begun>>

FetchDelta(t) ==
  /\ pc[t] = "delta"
  /\ \E a \in Answers(base[t].day) :
       IF Restated(base[t], a)
       THEN /\ pc' = [pc EXCEPT ![t] = "full"] /\ UNCHANGED <<got, excused>>
       ELSE /\ pc' = [pc EXCEPT ![t] = "append"]
            /\ got' = [got EXCEPT ![t] = a]
            \* An action since, and nothing to compare.
            /\ excused' = (excused \/ (/\ ~Comparable(base[t], a)
                                       /\ \E x \in actions : x > base[t].day))
  /\ UNCHANGED <<today, closed, actions, bars, base, crossed, begun>>

\* The threads whose answer is of another basis than the one t has written.
Cross(t) == crossed' = [u \in Syncs |-> \/ crossed[u] /\ u # t
                                        \/ /\ u # t /\ got[u] # NoAnswer
                                           /\ got[u].actions # got[t].actions]

Append(t) ==
  /\ pc[t] = "append"
  /\ bars' = Upserted(bars, got[t], base[t].day)
  /\ excused' = (excused \/ crossed[t])
  /\ Cross(t)
  /\ pc' = [pc EXCEPT ![t] = "idle"]
  /\ base' = [base EXCEPT ![t] = [day |-> 0, adj |-> NoFactor]]
  /\ got' = [got EXCEPT ![t] = NoAnswer]
  /\ UNCHANGED <<today, closed, actions, begun>>

FetchFull(t) ==
  /\ pc[t] = "full"
  /\ \E a \in Answers(FirstFetched) : got' = [got EXCEPT ![t] = a]
  /\ pc' = [pc EXCEPT ![t] = "upsert"]
  /\ UNCHANGED <<today, closed, actions, bars, base, crossed, excused, begun>>

\* The whole answer in one statement.  A row keeps its factor where the answer
\* has none, and rows newer than the answer keep theirs.
Upsert(t) ==
  /\ pc[t] = "upsert"
  /\ bars' = Upserted(bars, got[t], -1)
  /\ excused' = \/ excused \/ crossed[t]
                \/ \E d \in Stored : /\ bars[d].adj \notin {NoFactor, Factor(d, got[t].actions)}
                                     /\ d \in got[t].noAdj \/ d > Max(got[t].days)
  /\ Cross(t)
  /\ pc' = [pc EXCEPT ![t] = "older"]
  /\ UNCHANGED <<today, closed, actions, base, got, begun>>

\* Mutant: rows older than the answer keep their factor.
MarkOlderSkipped(t) ==
  /\ pc[t] = "older"
  /\ pc' = [pc EXCEPT ![t] = "reconcile"]
  /\ UNCHANGED <<today, closed, actions, bars, base, got, crossed, excused, begun>>

\* mark_bars_legacy_before: rows older than the answer have the old basis.
MarkOlder(t) ==
  /\ pc[t] = "older"
  /\ bars' = [d \in Days |-> IF d \in Stored /\ d < Min(got[t].days) THEN Legacy(bars[d])
                             ELSE bars[d]]
  /\ pc' = [pc EXCEPT ![t] = "reconcile"]
  /\ UNCHANGED <<today, closed, actions, base, got, crossed, excused, begun>>

\* Mutant: the rows the source no longer returns stay as they are.
ReconcileSkipped(t) ==
  /\ pc[t] = "reconcile"
  /\ excused' = (excused /\ ~(/\ got[t].noAdj = {} /\ got[t].actions = actions
                              /\ Newest <= Max(got[t].days) /\ ~crossed[t]))
  /\ Return(t)
  /\ UNCHANGED <<today, closed, actions, bars, begun>>

\* _reconcile_missing_days: a day without a session has no bar; a gap of the
\* source keeps its row, labelled.  A complete answer of the present basis that
\* nothing crossed leaves nothing to excuse.
Reconcile(t) ==
  /\ pc[t] = "reconcile"
  /\ bars' = [d \in Days |-> IF d \notin Missing(got[t]) THEN bars[d]
                             ELSE IF d \in Holidays THEN Absent ELSE Legacy(bars[d])]
  /\ excused' = (excused /\ ~(/\ got[t].noAdj = {} /\ got[t].actions = actions
                              /\ Newest <= Max(got[t].days) /\ ~crossed[t]))
  /\ Return(t)
  /\ UNCHANGED <<today, closed, actions, begun>>
-----------------------------------------------------------------------------
Close ==
  /\ ~closed /\ closed' = TRUE
  /\ UNCHANGED <<today, actions, bars, syncVars, excused, begun>>

\* The next day, an ex-day or not.  The source restates its series before the
\* session; if it is late, rows of the ex-day may be cached on the old basis.
NextDay ==
  /\ closed /\ today < LastDay
  /\ today' = today + 1 /\ closed' = FALSE
  /\ \E ex \in SUBSET ({today + 1} \ Holidays) : actions' = actions \cup ex
  /\ UNCHANGED <<bars, syncVars, excused, begun>>

LateRestatement ==
  /\ today \notin Holidays \cup actions
  /\ actions' = actions \cup {today}
  /\ excused' = (excused \/ today \in Stored \/ \E t \in Syncs : pc[t] # "idle")
  /\ UNCHANGED <<today, closed, bars, syncVars, begun>>

\* The server stops.  Between the upsert and the marks the series stays mixed.
Crash ==
  /\ \E t \in Syncs : pc[t] # "idle"
  /\ excused' = (excused \/ \E t \in Syncs : pc[t] \in {"older", "reconcile"})
  /\ pc' = [t \in Syncs |-> "idle"]
  /\ base' = [t \in Syncs |-> [day |-> 0, adj |-> NoFactor]]
  /\ got' = [t \in Syncs |-> NoAnswer]
  /\ crossed' = [t \in Syncs |-> FALSE]
  /\ UNCHANGED <<today, closed, actions, bars, begun>>

Next ==
  \/ \E t \in Syncs : \/ BeginDelta(t) \/ BeginFull(t) \/ NoData(t) \/ FetchDelta(t)
                      \/ Append(t) \/ FetchFull(t) \/ Upsert(t) \/ MarkOlder(t) \/ Reconcile(t)
  \/ Close \/ NextDay \/ LateRestatement \/ Crash

Spec == Init /\ [][Next]_vars
-----------------------------------------------------------------------------
\* The values the variables may have.
TypeOK ==
  /\ today \in Days /\ closed \in BOOLEAN /\ actions \subseteq Days
  /\ \A d \in Days : /\ bars[d].basis \in {"absent", "null", "adjusted", "legacy"}
                     /\ (bars[d].basis = "adjusted") = (bars[d].adj \in 0..LastDay)
                     /\ bars[d].adj \in {NoFactor} \cup 0..LastDay /\ bars[d].final \in BOOLEAN
  /\ pc \in [Syncs -> {"idle", "delta", "full", "append", "upsert", "older", "reconcile"}]
  /\ crossed \in [Syncs -> BOOLEAN] /\ excused \in BOOLEAN

\* The adjusted rows are of one basis whenever no refetch is half-way: between
\* any two, the factors differ by exactly the corporate actions between the
\* days.  Excused are, until a complete refetch, a comparison the source gave no
\* way to make, a row the refetch did not restate, a restatement after the
\* ex-day's bar was cached, an answer that another one of a later basis overtook,
\* and a stop between the refetch and its marks.
OneBasis ==
  excused \/ (\E t \in Syncs : pc[t] \in {"older", "reconcile"})
  \/ \A d, e \in {x \in Stored : bars[x].adj # NoFactor} :
       d < e => bars[d].adj - bars[e].adj = Cardinality({x \in actions : d < x /\ x <= e})

\* A hit serves closes that are final: "Before 16:00 IST, today's close is not
\* finalized" (historical_cache.py:44).
HitIsFinal ==
  Stored # {} /\ Newest >= LastCompleted
    => \A d \in Stored : d <= LastCompleted => bars[d].final
=============================================================================
