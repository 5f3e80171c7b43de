\* Three requests, one a retry, on one day or two; a crash.  Three scans, a crash.
\* A call to be settled over four days; two instances starting, two kills.
SPECIFICATION AllSpec
CONSTANTS
  Requests = {"first", "retry", "other"}
  Key <- RetriedKey
  Limit = 1
  Outcomes = {"completed", "failed", "abandoned"}
  MaxPaid = 1
  MaxDay = 1
  MaxCrashes = 1
  Faults = FALSE
  MarginHolds = TRUE
  None = None
  FaultyLimit = 2
  MaxScans = 3
  Kinds = {"signal", "rating", "entry"}
  LastDay = 3
  MaxCalls = 1
  Horizons <- ShortHorizons
  Lookback <- ShortLookback
  Cut <- OneDayEarlier
  Instances = {"i", "j"}
  Releases <- SomeReleases
  Broken = {"x"}
  MaxFile = 3
  MaxKills = 2
\* Every request is answered in the end, and the scans run out.
CHECK_DEADLOCK FALSE
INVARIANTS
  TypesOK
  RowsTellWhatHappened
  RunsAreSingle
  WindowIsTheCalls
  SchemaIsSound
PROPERTIES
  TerminalIsFinal
  ScansInTurn
  SettledOnce
  WorkSettles
