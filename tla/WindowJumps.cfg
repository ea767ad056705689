CONSTANTS
  Nothing = Nothing
  Classes = {c1}
  Files = {f}
  Summaries = {s}
  MaxHistory = 1
  MaxGeneration = 1
  MaxLate = 1
SPECIFICATION WindowSpec
CHECK_DEADLOCK FALSE
INVARIANTS JumpsEnd
