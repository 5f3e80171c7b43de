\* One command with two orders, every gate can fail; or two commands with the same order.
SPECIFICATION AllSpec
CONSTANTS
  Runs = {"r1", "r2"}
  Orders = {"sell", "buy"}
  Buys = {"buy"}
  MaxOrders = 2
  Plans <- TwoOrders
  Uncertain = {"MARGIN", "SELLABLE", "PRICE_BAND", "SLIPPAGE", "CONCENTRATION", "PORTFOLIO_LIMITS"}
  Schemas <- Either
INVARIANTS
  TypeOK
  OrdersAreLicensed
  AuditTellsTheTruth
  LogIsKeptAndHeeded
PROPERTIES
  ImplementsLedger
  CommandAloneEnds
