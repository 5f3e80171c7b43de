\* The columns the migrations create: are all orders logged?
SPECIFICATION AllSpec
CONSTANTS
  Runs = {"r1", "r2"}
  Orders = {"sell", "buy"}
  Buys = {"buy"}
  MaxOrders = 2
  Plans <- TwoOrders
  Uncertain = {"MARGIN", "SELLABLE", "PRICE_BAND", "SLIPPAGE", "CONCENTRATION", "PORTFOLIO_LIMITS"}
  Schemas <- Deployed
INVARIANTS
  AllOrdersAreLogged
