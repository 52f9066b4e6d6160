SPECIFICATION Spec
CONSTANTS
  Threads = {t1, t2}
  Ops = {"redeem", "start", "cancel", "reader", "observe", "enforce"}
  None = None
  MaxIds = 2
  MaxCredit = 2
  MaxOps = 3
  MaxFaults = 1
  MaxCrashes = 1
SYMMETRY Symmetry
INVARIANT FailSafe
INVARIANT Conservation
