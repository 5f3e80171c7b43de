--------------------------- MODULE MarketCalendar ---------------------------
(***************************************************************************)
(* The exchange calendar of src/ingestion/market_hours.py: when the market *)
(* is open, when it opens next, and the cache that every gate, job and     *)
(* alert of the program asks.                                              *)
(*                                                                         *)
(* A year's rows are read once and kept (lru_cache) until an entry is      *)
(* posted, which clears the cache after its commit.  A lookup that missed  *)
(* reads the rows, or the bundled file when the database fails, and then   *)
(* stores what it read; the first to store wins.                           *)
(***************************************************************************)
EXTENDS Integers, FiniteSetsExt

CONSTANTS LastDay,          \* bound: days of the year
          Weekends,         \* the Saturdays and Sundays among them
          Slots,            \* the moments of a day are 0..Slots-1
          OpenAt, CloseAt,  \* the regular session, both moments in it
          SpecialOpen, SpecialClose,  \* the hours of a special session
          Bundled,          \* nse_holidays.json: a calendar
          Lookups,          \* threads that ask
          None

Days == 0..LastDay
\* A row: a holiday, a day with a session of its own (special_session_open and
\* _close set, holiday or not), or none.
Kinds == {"none", "holiday", "special"}
Calendars == [Days -> Kinds]

\* What is asked of the constants.
CalendarAssumption ==
  /\ LastDay \in Nat /\ Slots \in Nat \ {0} /\ Weekends \subseteq Days /\ Bundled \in Calendars
  /\ OpenAt \in 0..(Slots - 1) /\ CloseAt \in OpenAt..(Slots - 1)
  /\ SpecialOpen \in 0..(Slots - 1) /\ SpecialClose \in SpecialOpen..(Slots - 1)
-----------------------------------------------------------------------------
(* is_market_day, is_market_open, seconds_until_market_open *)

\* Past the bound there are rows for no day and no weekend.
Row(cal, d) == IF d \in Days THEN cal[d] ELSE "none"
IsSpecial(cal, d) == Row(cal, d) = "special"

IsMarketDay(cal, d) == IsSpecial(cal, d) \/ (d \notin Weekends /\ Row(cal, d) # "holiday")

OpenTime(cal, d) == d * Slots + (IF IsSpecial(cal, d) THEN SpecialOpen ELSE OpenAt)
CloseTime(cal, d) == d * Slots + (IF IsSpecial(cal, d) THEN SpecialClose ELSE CloseAt)

IsMarketOpen(cal, t) ==
  LET d == t \div Slots
  IN IsMarketDay(cal, d) /\ OpenTime(cal, d) <= t /\ t <= CloseTime(cal, d)

\* Mutant: today is taken although its opening has passed.
UntilOpenToday(cal, now) ==
  LET today == now \div Slots
      ahead == {d \in today..(LastDay + 1) : IsMarketDay(cal, d)}
  IN IF IsMarketOpen(cal, now) THEN 0 ELSE Max({0, OpenTime(cal, Min(ahead)) - now})

UntilOpen(cal, now) ==
  LET today == now \div Slots
      ahead == {d \in (today + 1)..(LastDay + 1) : IsMarketDay(cal, d)}
      next  == IF OpenTime(cal, today) <= now \/ ~IsMarketDay(cal, today) THEN Min(ahead) ELSE today
  IN IF IsMarketOpen(cal, now) THEN 0 ELSE Max({0, OpenTime(cal, next) - now})
-----------------------------------------------------------------------------
VARIABLES
  rows,     \* market_calendar
  cached,   \* the cache: None or a calendar
  seen,     \* per lookup: None or what it read and will store
  writing,  \* an entry is committed, the cache not yet cleared
  failed,   \* history: the cache holds the bundled file
  crossed   \* history, per lookup: an entry was committed since it read

vars == <<rows, cached, seen, writing, failed, crossed>>

Init ==
  /\ rows \in Calendars /\ cached = None
  /\ seen = [c \in Lookups |-> None] /\ writing = FALSE
  /\ failed = FALSE /\ crossed = {}

\* A miss.
ReadRows(c) ==
  /\ cached = None /\ seen[c] = None
  /\ seen' = [seen EXCEPT ![c] = rows] /\ crossed' = crossed \ {c}
  /\ UNCHANGED <<rows, cached, writing, failed>>

\* The database does not answer.
ReadBundled(c) ==
  /\ cached = None /\ seen[c] = None
  /\ seen' = [seen EXCEPT ![c] = Bundled] /\ crossed' = crossed \union {c}
  /\ UNCHANGED <<rows, cached, writing, failed>>

\* The end of a miss: what another stored meanwhile stays.
StoreRows(c) ==
  /\ seen[c] # None
  /\ cached' = IF cached = None THEN seen[c] ELSE cached
  /\ failed' = IF cached = None THEN c \in crossed ELSE failed
  /\ seen' = [seen EXCEPT ![c] = None]
  /\ UNCHANGED <<rows, writing, crossed>>

\* post_market_calendar: the upsert.  An entry without its session hours, an
\* ordinary holiday, fails: its statement binds what exclude_none left out.
Upsert(d) ==
  /\ ~writing /\ writing' = TRUE
  /\ rows' = [rows EXCEPT ![d] = "special"]
  /\ crossed' = {c \in Lookups : seen[c] # None}
  /\ UNCHANGED <<cached, seen, failed>>

\* Mutant: the entry is left to the next restart.
KeepCache == writing /\ writing' = FALSE /\ UNCHANGED <<rows, cached, seen, failed, crossed>>

\* _get_calendar_records.cache_clear()
ClearCache ==
  /\ writing /\ writing' = FALSE
  /\ cached' = None /\ failed' = FALSE
  /\ UNCHANGED <<rows, seen, crossed>>

Restart ==
  /\ cached' = None /\ seen' = [c \in Lookups |-> None]
  /\ writing' = FALSE /\ failed' = FALSE /\ crossed' = {}
  /\ UNCHANGED rows

Next ==
  \/ \E c \in Lookups : ReadRows(c) \/ ReadBundled(c) \/ StoreRows(c)
  \/ \E d \in Days : Upsert(d)
  \/ ClearCache \/ Restart

Spec == Init /\ [][Next]_vars
-----------------------------------------------------------------------------
TypeOK ==
  /\ rows \in Calendars /\ cached \in Calendars \union {None}
  /\ seen \in [Lookups -> Calendars \union {None}]
  /\ writing \in BOOLEAN /\ failed \in BOOLEAN /\ crossed \subseteq Lookups

\* Outside the moment between a posted entry's commit and the clearing, the
\* cache agrees with the table; but for a lookup that read before the commit, or
\* the bundled file, and stored after the clearing: that stays to the next post.
CacheFollowsTable == (cached # None /\ ~writing /\ ~failed) => cached = rows

\* The wait that is shown for the next opening ends at the first open moment,
\* with weekends, holidays and special sessions on either.
NextOpenIsEarliest ==
  \A t \in 0..((LastDay + 1) * Slots - 1) :
    LET wait == UntilOpen(rows, t)
    IN IsMarketOpen(rows, t + wait) /\ \A k \in 0..(wait - 1) : ~IsMarketOpen(rows, t + k)
=============================================================================
