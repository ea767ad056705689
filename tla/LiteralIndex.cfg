SPECIFICATION FairSpec
CONSTANTS
  q1 = q1
  q2 = q2
  Queries <- TwoQueries
  MaxAttempts = 4
INVARIANTS WaitersCounted StoppedIffUnwanted OneBuild IndexCurrent FailuresExplained
PROPERTIES InvalidatedForGood QueriesReturn
CHECK_DEADLOCK FALSE
