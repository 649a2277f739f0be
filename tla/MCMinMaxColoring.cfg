\* Graphs of five rows, coloring levels 1 and 2.
CONSTANTS
  Rows <- MCRows
  Inputs <- MCInputs
  INT_MIN <- MCMin
  INT_MAX = 8
SPECIFICATION Spec
INVARIANTS
  Perfect
PROPERTIES
  ImplementsRounds
