CONSTANTS
  Nobody = Nobody
  c1 = c1
  c2 = c2
  Connections <- TwoConnections
  Ids = {1, 2}
  MaxJobs = 2
SPECIFICATION FairSpec
CHECK_DEADLOCK FALSE
INVARIANTS CancelReaches
PROPERTIES AnswersHonest CallsAnswered CancelStopsWork
