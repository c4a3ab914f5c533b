\* The assets a v1.1 swap is reported with.
CONSTANTS
  Calls <- MCCalls
  Owner <- MCOwner
  SwapAmounts = {1500}
  Deposits <- MCDeposits
  Burns = {1200}
  Slippages = {0, 10}
  HasAlgo = TRUE
  Starts <- MCStarts
  InitialExcess <- MCInitialExcess
SPECIFICATION Spec
INVARIANT SwapReportNamesItsAssets
CHECK_DEADLOCK FALSE
