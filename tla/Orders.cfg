CONSTANTS
  c1 = c1
  c2 = c2
  Calls = {c1, c2}
  Assets = {"algo", "gold"}
  Algo = "algo"
  Asks <- MCAsks
  Estimating = {c1}
  BoxCost <- MCBoxCost
  AssetCost = 3
  AccountCost = 7
  Fee = 1
  MaxVersion = 2
  MaxFills = 1
  Starts <- MCStarts
SPECIFICATION Spec
INVARIANTS TypeOK OrdersFunded EstimateIsCost
PROPERTIES RefusedOnlyIfMoved NeverPaidTwice
CHECK_DEADLOCK FALSE
