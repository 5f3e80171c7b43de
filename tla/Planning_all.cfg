\* A plan over three stocks in two sectors, whose book moves once while it is made;
\* three days of snapshots; a backtest of three folds; the tax lots of two holdings;
\* three activations of allocation profiles that overlap.
SPECIFICATION AllSpec
CONSTANTS
  Symbols <- MCSymbols
  Sectors <- MCSectors
  SectorOf <- MCSectorOf
  SectorTargets <- MCSectorTargets
  StockTargets <- MCStockTargets
  CashTargets <- MCCashTargets
  ConcentrationLimit = 4000
  Books <- MCBooks
  Valuation <- MCValuation
  MaxAdv <- MCMaxAdv
  Lot <- MCLot
  Arguments <- MCArguments
  MaxOrders = 4
  Tactical = {"a1", "b1"}
  Evidence <- MCEvidence
  SuppressUnproven = TRUE
  None = None
  MaxChanges = 1
  \* Three folds that touch, as the default request's, and two charges a round trip.
  TotalBars = 9
  TrainWindow = 2
  TestWindow = 2
  FoldStep = 2
  Horizon = 1
  Capital = 25
  Prices = {6, 9}
  Impacts = {0, 1}
  Charge = 2
  \* Three activations of three profiles.
  Ids = {1, 2, 3}
  Seeded = 1
  Requests = {"x", "y", "z"}
  Asked <- MCAsked
  \* Three days of snapshots, and of asking about the tax on the lots of two holdings.
  LastDay = 2
  MarketDays = {0, 1, 2}
  Limit = 9
  Amounts = {100}
  Gains = {0, 100}
  StartNav = 200
  Kinds = {"DEPOSIT", "WITHDRAWAL", "DIVIDEND"}
  Holdings = {"h1", "h2"}
  LotChoices <- MCLots
  MaxQuantity = 4
  Year = 3
  Window = 1
  Exemption = 7
  LastQuarter = {1, 2}
  Realized = {0, 2, 8}
INVARIANTS
  TypesOK
  PlanKeepsLimits
  SalesAreSound
  FlowsCountOnce
  NoLookahead
  TradesAreTheMoney
  LotsAreUsedWell
  OneActive
  ProfilesAreSound
\* A plan and a backtest end; the bounds on days run out.
CHECK_DEADLOCK FALSE
