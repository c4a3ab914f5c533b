\* Two operations of one user at once.
CONSTANTS
  Calls <- MCCalls
  Owner <- MCOwner
  SwapAmounts = {1500}
  Deposits <- MCDeposits
  Burns = {1200}
  Slippages = {0, 10}
  HasAlgo = TRUE
  Starts <- MCStarts
  InitialExcess <- MCInitialExcess
SPECIFICATION Spec
INVARIANTS TypeOK TradesWithinTolerance UndisturbedReportIsExact
PROPERTIES RefusedOnlyIfMoved
CHECK_DEADLOCK FALSE
