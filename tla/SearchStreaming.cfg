CONSTANTS
  w1 = w1
  w2 = w2
  NumClasses = 3
  Workers <- TwoWorkers
  Window = 2
  Limit = 2
  Sizes <- SmallAndLarge
  MaxHits = 1
  MaxClassHits = 1
SPECIFICATION FairSpec
INVARIANTS NoClassLost OneExceptionalThread CancelStopsScan
PROPERTIES ImplementsSequential ImplementsBudget Termination
