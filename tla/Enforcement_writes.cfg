SPECIFICATION Spec
CONSTANTS
  s1 = s1
  s2 = s2
  Devices = {d1}
  Catalog <- Builtin
  Customs = {c1}
  Groups = {g1}
  Days = {"mon", "tue"}
  MaxJobs = 2
  MaxUpsets = 1
PROPERTY FailsRestrictive
PROPERTY ReleasesLast
PROPERTY ArmedBeforeNormal
PROPERTY NoSelfLockout
CHECK_DEADLOCK FALSE
