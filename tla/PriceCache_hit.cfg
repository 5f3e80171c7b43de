\* One synchronization at a time: are the closes served after the session final?
SPECIFICATION Spec
CONSTANTS
  Syncs = {"sync1"}
  Today0 = 2
  LastDay = 3
  Holidays = {1}
  FirstFetched = 0
  MaxSyncs = 2
\* The bound on days runs out.
CHECK_DEADLOCK FALSE
INVARIANTS
  HitIsFinal
