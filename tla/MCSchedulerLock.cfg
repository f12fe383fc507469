CONSTANTS
  Workers = {w1, w2, w3}
  Jobs = {j1}
  MaxErrors = 1
  MaxDrops = 1
  MaxCrashes = 2
  None = None
SPECIFICATION FairSpec
INVARIANTS TypeOK SchedulersBounded JobOnce
PROPERTIES ColdStart
