SPECIFICATION Spec
CONSTANTS
  Devices = {d1}
  Ui = {u1}
  Loop = Loop
  None = None
  All = All
  RequestsPerWake = 2
  Threshold = 1
  MaxRequests = 2
  MaxRevision = 2
  MaxSurprises = 0
  MaxUiRuns = 1
  MaxFaults = 1
  MaxDbFaults = 1
  MaxCrashes = 1
INVARIANT HoldBlocksWrites
PROPERTY SupersededHasSuccessor
PROPERTY SucceededIsConverged
CHECK_DEADLOCK FALSE
