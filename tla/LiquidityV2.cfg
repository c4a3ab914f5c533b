\* Two calls on one v2 pool from its bootstrap to its last withdrawal.
CONSTANTS
  Calls <- MCCalls
  Owner <- MCOwner
  FeeShare = 1000
  LockedTokens = 10
  FirstDeposits <- MCFirstDeposits
  Deposits <- MCDeposits
  SingleDeposits = {40}
  Burns = {1, 45}
  Slippages = {10}
  Swaps = {25}
  MaxSwaps = 1
  Starts <- MCStarts
SPECIFICATION Spec
INVARIANTS TypeOK NothingStrandedNorTaken ExecutedWithinTolerance
PROPERTIES ShareValueNeverFalls RefusedOnlyIfMoved
CHECK_DEADLOCK FALSE
