CONSTANTS
  Nothing = Nothing
  Classes = {c1}
  Files = {f}
  Summaries = {s}
  MaxHistory = 1
  MaxGeneration = 2
  MaxLate = 1
SPECIFICATION WindowSpec
CHECK_DEADLOCK FALSE
INVARIANTS EngineOnce JumpsServed
