SPECIFICATION Spec
CONSTANTS
  p1 = p1
  s1 = s1
  g1 = g1
  b1 = b1
  d1 = d1
  n1 = n1
  n2 = n2
  d2 = d2
  Admins = {a1, a2}
  Devices = {d1, d2}
  Presets = {p1}
  Services = {s1}
  Groups = {g1, b1}
  BuiltinGroups = {b1}
  Names = {n2}
  InitialConfigs <- Households
  MaxRefs = 1
  MaxOps = 3
  MaxEdits = 2
  MaxCrashes = 1
  Retention = 5
CONSTRAINT UntilRaced
SYMMETRY Symmetry
INVARIANT ReferencesResolve
INVARIANT ConsistentBackupRestores
INVARIANT RestoreIsFaithful
PROPERTY DeletedIsSaved
CHECK_DEADLOCK FALSE
