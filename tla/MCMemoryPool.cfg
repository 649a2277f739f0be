\* Exhaustive: four regions in any order of arrival, requests of 0 to 2 pages.
CONSTANTS
  PageSize = 2
  MaxSize = 20
  Regions <- MCRegions
  Requests <- MCRequests
SPECIFICATION PoolSpec
INVARIANTS
  BlocksTileRegions
  AccountingExact
PROPERTIES
  ImplementsAllocator
\* allocate(0) leaves the mutex locked: the pool really stops.
CHECK_DEADLOCK FALSE
