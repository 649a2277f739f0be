\* What the comment in ~AMG says of the two roots of a hierarchy.
CONSTANTS
  Addresses = {a1, a2, a3, a4, a5}
  Null = Null
  Primary = "device"
  FineRows <- MCFineRows
  MaxLevels = 3
  Threshold = 100
  ReuseChoices <- MCReuse
  Configs <- MCHostLevels
  MaxSetups = 1
SPECIFICATION Spec
INVARIANTS
  NeverDeletedTwice
CHECK_DEADLOCK FALSE
