SPECIFICATION Spec
CONSTANTS
  Workers = {w1, w2}
  Views = {}
  Attempts <- MCAttempts
  LeaseTicks = 1
  RetryTicks = 1
  DeferTicks = 1
  MaxJobsPerCycle = 1
  KeepRows = 0
  BucketsPerHour = 30
  MaxRevision = 2
  MaxBucket = 0
  MaxCrashes = 0
  None = None
  Orphan = Orphan
INVARIANT TokensFresh
INVARIANT ScopeExclusive
