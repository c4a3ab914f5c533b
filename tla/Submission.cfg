\* Three submissions at once, one of them of two groups.
CONSTANTS
  Items <- MCItems
  GroupCount <- MCGroupCount
SPECIFICATION FairSpec
INVARIANTS SubmissionTypeOK ResolvedMeansConfirmed
PROPERTIES SentInOrder EverySubmissionEnds
CHECK_DEADLOCK FALSE
