\* Two users of one pool, a swap each, in every direction and of both kinds,
\* with slippages of 0, 1 and 100%; a pool that holds liquidity and an empty one.
CONSTANTS
  Users = {u1, u2}
  Amounts = {100, 1500, 10000}
  Slippages = {0, 1, 100}
  FeeShare = 10
  ProtocolRatio = 6
  InitialPools <- MCPools
  InitialWallet = 3000
  MaxSwaps = 1
SPECIFICATION Spec
INVARIANTS TypeOK ReportsTheExchange
PROPERTIES ConstantProduct RefusedOnlyIfPoolMoved ImplementsExchange
CHECK_DEADLOCK FALSE
