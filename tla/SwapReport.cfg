\* What execute reports as spent, against what was spent.
CONSTANTS
  Users = {u1, u2}
  Amounts = {1500}
  Slippages = {1}
  FeeShare = 30
  ProtocolRatio = 6
  InitialPools <- MCPools
  InitialWallet = 3000
  MaxSwaps = 1
SPECIFICATION Spec
INVARIANT ReportedInputIsSpent
CHECK_DEADLOCK FALSE
