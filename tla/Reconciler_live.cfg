SPECIFICATION FairSpec
CONSTANTS
  Devices = {d1}
  Ui = {}
  Loop = Loop
  None = None
  All = All
  RequestsPerWake = 2
  Threshold = 1
  MaxRequests = 1
  MaxRevision = 2
  MaxSurprises = 1
  MaxUiRuns = 0
  MaxFaults = 1
  MaxDbFaults = 0
  MaxCrashes = 1
PROPERTY RequestsServed
PROPERTY Converges
