CONSTANTS
  Nobody = Nobody
  Stopper = Stopper
  c1 = c1
  c2 = c2
  j1 = j1
  j2 = j2
  j3 = j3
  Callers <- TwoCallers
  Jobs <- ThreeJobs
  MaxRetained = 2
SPECIFICATION Spec
SYMMETRY Symmetry
INVARIANTS OneSession LiveListed StopReachesAll
