\* The aggressive selector, wherever the coarse points are.
CONSTANTS
  Points <- MCPoints
  Ranks <- MCRanks
  Adjacent <- MCAdjacent
  Inputs <- MCAggressiveInputs
  Unit <- MCUnit
SPECIFICATION Spec
INVARIANTS
  CollectivesMatch
