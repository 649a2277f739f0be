\* Every mode, setups that throw while coarsening or copying, setups that reuse
\* the structure.
CONSTANTS
  Addresses = {a1, a2, a3, a4, a5}
  Null = Null
  Primary = "device"
  FineRows <- MCFineRows
  MaxLevels = 3
  Threshold = 100
  ReuseChoices <- MCReuse
  Configs <- MCConfigs
  MaxSetups = 2
SPECIFICATION Spec
INVARIANTS
  NothingLeaks
  SolversCurrent
  LevelsFit
  PlainNeverCrashes
PROPERTIES
  StructureKept
  SetupEnds
\* A solver is destroyed once, and the number of setups is bounded.
CHECK_DEADLOCK FALSE
