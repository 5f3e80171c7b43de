\* Does a token that cannot be replaced leave the sync alone?
SPECIFICATION Spec
CONSTANTS
  Symbols = {"s"}
  Exchanges = {"NSE"}
  AtBroker <- OneListing
  Syncs = {scheduled}
  Configs <- Plain
  None = None
  MaxQty = 1
  MaxTrades = 1
  MaxImports = 1
  MaxDay = 0
  Kinds = {"holdings"}
CHECK_DEADLOCK FALSE
INVARIANTS
  SyncKeepsExistingToken
