SPECIFICATION FairSpec
CONSTANTS
  Workers = {w1}
  Views = {"dashboard"}
  Attempts <- MCAttempts
  LeaseTicks = 1
  RetryTicks = 1
  DeferTicks = 1
  MaxJobsPerCycle = 2
  KeepRows = 0
  BucketsPerHour = 30
  MaxRevision = 1
  MaxBucket = 1
  MaxCrashes = 1
  None = None
  Orphan = Orphan
INVARIANT TypeOK
INVARIANT NoStrandedJob
PROPERTY ConfigDelivered
PROPERTY LastViewsPrepared
