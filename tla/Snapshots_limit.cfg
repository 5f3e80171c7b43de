\* More snapshots than one read returns: is a day's return against the day before?
SPECIFICATION Spec
CONSTANTS
  LastDay = 3
  MarketDays = {0, 1, 2, 3}
  Limit = 2
  Amounts = {100}
  Gains = {0, 100}
  StartNav = 200
  Kinds = {"DEPOSIT"}
CHECK_DEADLOCK FALSE
INVARIANTS
  ReturnIsAgainstPriorDay
