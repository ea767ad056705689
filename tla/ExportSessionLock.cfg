SPECIFICATION Spec
CONSTANTS
  Nobody = Nobody
  Absent = Absent
  Foreign = Foreign
  s1 = s1
  s2 = s2
  v1 = v1
  v2 = v2
  Sessions <- TwoSessions
  Versions <- TwoVersions
  NumClasses = 2
  MaxRuns = 2
  MaxTampers = 0
PROPERTY LockedWriters
CHECK_DEADLOCK FALSE
