\* Alerts: one on a level that repeats and one on the day's move, two requests racing
\* for the last place, failing pushes and writes, restarts, a midnight.  Two dashboards
\* and a button over one symbol's quote.  Two synchronizations of a symbol's bars.
SPECIFICATION AllSpec
CONSTANTS
  None = None
  Alerts <- Repeats
  PctMove <- Moves
  Rearm = {"repeats"}
  MaxAlerts = 1
  Creators = {tab1, tab2}
  PushWorks = FALSE
  MaxDay = 2
  Dashboards = {"d1", "d2"}
  Buttons = {"b"}
  Symbols = {"s"}
  MaxLogins = 2
  MaxQuotes = 2
  MaxPrice = 2
  Lookups = {"l1", "l2"}
  YearEnd = 2
  Weekends = {0, 2}
  Slots = 5
  OpenAt = 1
  CloseAt = 2
  SpecialOpen = 3
  SpecialClose = 3
  Bundled <- MiddleHoliday
  Syncs = {sync1, sync2}
  Today0 = 2
  LastDay = 3
  Holidays = {1}
  FirstFetched = 0
  MaxSyncs = 2
SYMMETRY Alike
\* The bounds on days, sign-ins, answers and bars run out.
CHECK_DEADLOCK FALSE
INVARIANTS
  TypesOK
  CountsAreKept
  OffStaysOff
  NothingIsLeftBehind
  CacheFollowsTable
  NextOpenIsEarliest
  OneBasis
PROPERTIES
  UndoneOnlyUnguarded
