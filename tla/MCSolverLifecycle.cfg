\* Three calls: two setups and a solve, or a setup and two solves.
CONSTANTS
  s1 = s1
  s2 = s2
  m1 = m1
  m2 = m2
  Solvers = {s1, s2}
  Matrices = {m1, m2}
  Configs <- MCConfigs
  MaxCalls = 3
SYMMETRY Symmetry
SPECIFICATION Spec
INVARIANTS
  SolvesItsSetup
  ResultsOfOneSolve
  UsesLiveMatrix
PROPERTIES
  ScalingUndone
\* The number of calls is bounded, and a crash is the end.
CHECK_DEADLOCK FALSE
