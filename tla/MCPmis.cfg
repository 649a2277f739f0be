\* Every strength graph on a path of five points, over three ranks.
CONSTANTS
  Points <- MCPoints
  Ranks <- MCRanks
  Adjacent <- MCAdjacent
  Inputs <- MCInputs
  Unit <- MCUnit
SPECIFICATION Spec
INVARIANTS
  CoarsePointsMaximal
  HalosAgree
  RoundsBounded
  NobodyWaitsForever
  SameOnAnyPartition
