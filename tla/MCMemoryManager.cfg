\* Two threads allocating, freeing, expanding and switching the async flag.
CONSTANTS
  PageSize = 100
  MaxSize = 450
  Threshold = 200
  Factor = 50
  Threads = {t1, t2}
  Regions <- MCRegions
  Requests <- MCRequests
  ExpandSizes <- MCExpandSizes
SPECIFICATION ManagerSpec
INVARIANTS
  HeldApartAndLive
  NothingForgotten
  OvershootBounded
PROPERTIES
  ImplementsPool
  EveryCallReturns
\* A request of no bytes leaves the pool's mutex locked: threads really stop.
CHECK_DEADLOCK FALSE
