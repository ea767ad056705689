CONSTANTS
  NumClasses = 4
  Limit = 4
  Sizes <- MCSizes
SPECIFICATION Spec
INVARIANT Accounted
INVARIANT FutureWithinLimit
