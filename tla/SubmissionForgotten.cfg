\* A group that the network forgets, and the wait for it.
CONSTANTS
  Items <- MCItems
  GroupCount <- MCGroupCount
SPECIFICATION FairSpec
PROPERTY EveryWaitEnds
CHECK_DEADLOCK FALSE
