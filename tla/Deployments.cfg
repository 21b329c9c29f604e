SPECIFICATION FairSpec
CONSTANTS
  MaxRuns = 2
  MaxHead = 1
  MaxPending = 1
  MaxDeaths = 2
  Window = 3
INVARIANTS HealthyIsSeeded BreakerHolds BoxServesTheHealthy OrphansCostDeaths
PROPERTIES KeepsTheRecord EveryRunEnds
CHECK_DEADLOCK FALSE
