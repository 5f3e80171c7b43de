\* One symbol on two exchanges, overlapping syncs, an import, trades and a midnight.
SPECIFICATION Spec
CONSTANTS
  Symbols = {"s"}
  Exchanges = {"NSE", "BSE"}
  AtBroker <- OneListing
  Syncs = {scheduled, button}
  Configs <- Gates
  None = None
  MaxQty = 1
  MaxTrades = 2
  MaxImports = 1
  MaxDay = 1
  Kinds = {"holdings", "positions"}
\* Syncs and days end.
CHECK_DEADLOCK FALSE
SYMMETRY Symmetric
INVARIANTS
  TablesAreSound
  OverstatedOnlyByFills
  OkSyncIsExact
PROPERTIES
  ImportsSurvive
