SPECIFICATION Spec
CONSTANTS
  d1 = d1
  d2 = d2
  p1 = p1
  p2 = p2
  Admins = {a1, a2}
  None = None
  Devices = {d1, d2}
  Managed = {d1}
  Profiles = {p1, p2}
  ProfileOf <- MCProfileOf
  MaxTransfers = 4
  MaxFaults = 2
  MaxCrashes = 1
INVARIANT RecoveryEvidence
INVARIANT RollbackFeasible
INVARIANT NoGap
INVARIANT RolledBackRestores
