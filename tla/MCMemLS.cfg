SPECIFICATION Spec
CONSTANTS
  Names <- MCNames
  Segments <- MCSegments
  Durations <- MCDurations
  ConditionLists <- MCConditions
  StartTime = 1
  MaxTime = 2
  MaxTokens = 3
INVARIANTS NodesExact ExpiryExact CanCreateExact HoldersExact ExclusiveAccess
PROPERTIES NoEarlyLoss KeepsPromise
