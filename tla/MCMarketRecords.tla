--------------------------- MODULE MCMarketRecords ---------------------------
(***************************************************************************)
(* The parts that follow the market, for TLC: PriceAlerts, QuotePoller,    *)
(* MarketCalendar and PriceCache.  They share no state, so a behaviour     *)
(* picks one of them at its start and the others stay as they began.       *)
(***************************************************************************)
EXTENDS PriceAlerts, Sequences, TLC

CONSTANTS None,
          Dashboards, Buttons, Symbols, MaxLogins, MaxQuotes, MaxPrice,
          Lookups, YearEnd, Weekends, Slots, OpenAt, CloseAt, SpecialOpen, SpecialClose, Bundled,
          Syncs, Today0, LastDay, Holidays, FirstFetched, MaxSyncs

VARIABLES part,
          alive, market, issued, login, session, lock, pc, token, quotes, asked, left,
          answers, live, written,
          rows, cached, seen, writing, failed, crossed,
          today, closed, actions, bars, sync, base, got, overtaken, excused, begun

quoteVars == <<alive, market, issued, login, session, lock, pc, token, quotes, asked, left,
               answers, live, written>>
calendarVars == <<rows, cached, seen, writing, failed, crossed>>
cacheVars == <<today, closed, actions, bars, sync, base, got, overtaken, excused, begun>>
alertVars == <<exists, active, armed, triggeredOn, creating, day, check, todo, snap, beyond,
               current, sent, pushes, rings, settledOff, delivered>>

Repeats == {"repeats", "move"}
Moves == {"move"}
\* The requests that create alerts are alike, and so are the synchronizations.
Alike == Permutations(Creators) \union Permutations(Syncs)

\* The middle one of three days is a holiday in the bundled file.
MiddleHoliday == [d \in 0..2 |-> IF d = 1 THEN "holiday" ELSE "none"]

Q == INSTANCE QuotePoller WITH todo <- left
C == INSTANCE MarketCalendar WITH LastDay <- YearEnd
P == INSTANCE PriceCache WITH pc <- sync, crossed <- overtaken

ASSUME RecordsAssumption == Q!PollerAssumption /\ C!CalendarAssumption /\ P!CacheAssumption

AllInit ==
  /\ part \in {"alerts", "quotes", "calendar", "prices"}
  /\ Init
  /\ Q!Init /\ (part # "quotes" => \A s \in Symbols : live[s].price = 0)
  /\ C!Init /\ (part # "calendar" => rows = Bundled)
  /\ P!Init /\ (part # "prices" => P!Stored = {} /\ ~\E d \in P!Days : bars[d] # P!Absent)

AllNext ==
  /\ UNCHANGED part
  /\ \/ /\ part = "alerts" /\ Next
        /\ UNCHANGED <<quoteVars, calendarVars, cacheVars>>
     \/ /\ part = "quotes" /\ Q!Next
        /\ UNCHANGED <<alertVars, calendarVars, cacheVars>>
     \/ /\ part = "calendar" /\ C!Next
        /\ UNCHANGED <<alertVars, quoteVars, cacheVars>>
     \/ /\ part = "prices" /\ P!Next
        /\ UNCHANGED <<alertVars, quoteVars, calendarVars>>

AllSpec == AllInit /\ [][AllNext]_<<part, alertVars, quoteVars, calendarVars, cacheVars>>
-----------------------------------------------------------------------------
\* The values every variable may have.
TypesOK ==
  CASE part = "quotes" -> Q!TypeOK [] part = "calendar" -> C!TypeOK [] part = "prices" -> P!TypeOK
    [] part = "alerts" -> TypeOK

\* QuotePoller: a poll that ended keeps no lock and leaves no stale mark without reason.
NothingIsLeftBehind == part = "quotes" => Q!NothingIsLeftBehind
\* QuotePoller: a newer quote is overwritten by an older answer only round the lock, and
\* only the refusal of an older token ends a session that the broker accepts.
UndoneOnlyUnguarded == Q!UndoneOnlyUnguarded
\* MarketCalendar: outside a post, the cache agrees with the table.
CacheFollowsTable == part = "calendar" => C!CacheFollowsTable
\* MarketCalendar: the next opening announced is the earliest one.
NextOpenIsEarliest == part = "calendar" => C!NextOpenIsEarliest
\* PriceCache: the adjusted rows are of one basis.
OneBasis == part = "prices" => P!OneBasis
=============================================================================
