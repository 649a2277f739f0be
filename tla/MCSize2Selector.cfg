\* Graphs of six rows, with ties and with entries of one direction.
CONSTANTS
  Rows <- MCRows
  Inputs <- MCInputs
SPECIFICATION Spec
INVARIANTS
  AggregatesConnected
  OnlyLimitsLeaveNeighbors
  TimingIrrelevant
PROPERTIES
  SelectorReturns
