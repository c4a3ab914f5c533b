\* One request, every order and outcome of its three sources.
CONSTANTS
  Amounts = {100, 1500}
  V11Pools <- MCV11Pools
  V2Pools <- MCV2Pools
  FeeShare = 30
  RouterAnswers <- MCRouterAnswers
SPECIFICATION Spec
INVARIANTS TypeOK BestQuoteWins AmountErrorIsReported
CHECK_DEADLOCK FALSE
