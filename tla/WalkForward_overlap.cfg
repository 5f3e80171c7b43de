\* A request for a test window longer than the step, which stays: does time only move
\* forward in the backtest?
SPECIFICATION Spec
CONSTANTS
  TotalBars = 8
  TrainWindow = 2
  TestWindow = 4
  FoldStep = 2
  Horizon = 1
  Capital = 25
  Prices = {6, 9}
  Impacts = {0}
  Charge = 1
\* A backtest ends.
CHECK_DEADLOCK FALSE
INVARIANTS
  BoughtBeforeSold
