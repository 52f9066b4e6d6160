SPECIFICATION FairSpec
CONSTANTS
  Threads = {t1, t2}
  Ops = {"redeem", "start", "cancel", "recheck", "observe"}
  None = None
  MaxIds = 1
  MaxCredit = 1
  MaxOps = 2
  MaxFaults = 1
  MaxCrashes = 1
INVARIANT AppliedMeansGranted
PROPERTY ActiveAccessKept
PROPERTY NormalIsTemporary
