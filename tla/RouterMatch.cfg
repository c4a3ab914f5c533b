\* The router quote is accepted for other assets than were asked for.
CONSTANTS
  Amounts = {100, 1500}
  V11Pools <- MCV11Pools
  V2Pools <- MCV2Pools
  FeeShare = 30
  RouterAnswers <- MCRouterAnswers
SPECIFICATION Spec
INVARIANT RouterQuoteIsForTheAssets
CHECK_DEADLOCK FALSE
