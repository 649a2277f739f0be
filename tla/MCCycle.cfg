\* Three iterations, of one solve or of several.
CONSTANTS
  Modes <- MCModes
  MaxRounds = 3
SPECIFICATION Spec
INVARIANTS
  StartsRight
  ResultsUsable
  VisitsCounted
\* The number of iterations is bounded.
CHECK_DEADLOCK FALSE
