CONSTANTS
  c1 = c1
  c2 = c2
  u = u
  Calls = {c1, c2}
  Owner <- MCOwner
  Asks <- VotingAsks
  WEEK = 4
  ArrayLen = 4
  MaxRefs = 8
  Unit = 8
  MaxLockTime = 12
  MinLockAmount = 5
  Cost <- MCCost
  Amounts = {20}
  Ends = {12}
  Times = {9}
  Instants = {9, 13}
  Lags = {0}
  OtherLocks <- MCOtherLocks
  MaxOthers = 0
  Starts <- MCStarts
  Ballots <- MCBallots
  SheetBits = 2
  StakingSpan = 8
  ClaimBits = 2
  PeriodsPerBox = 2
  FirstPeriod = 0
  Price <- MCPrice
  FirstProposals <- MCProposals
  FirstPeriods = 1
  MaxPeriods = 3
  OtherVotes <- MCOtherVotes
SPECIFICATION VotingSpec
INVARIANTS VotingTypeOK PowerIndexStaysRight
PROPERTIES RefusedOnlyIfKnown PaysForWhatItMakes
CHECK_DEADLOCK FALSE
