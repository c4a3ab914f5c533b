CONSTANTS
  c1 = c1
  c2 = c2
  u = u
  Calls = {c1, c2}
  Owner <- MCOwner
  Asks <- MCAsks
  WEEK = 4
  ArrayLen = 4
  MaxRefs = 8
  Unit = 8
  MaxLockTime = 20
  MinLockAmount = 5
  Cost <- MCCost
  Amounts = {4, 20}
  Ends = {24}
  Times = {8, 21}
  Instants = {8, 12, 22}
  Lags = {0, 1}
  OtherLocks <- MCOtherLocks
  MaxOthers = 1
  Starts <- MCStarts
SPECIFICATION Spec
INVARIANTS TypeOK NextTotalBoxSuffices PowerReadIsReal
PROPERTIES QuietGroupExecutes PaysForItsBoxes TotalReadIsReal
CHECK_DEADLOCK FALSE
