SPECIFICATION Spec
CONSTANTS
  Households <- MCHouseholds
  SlotsPerDay = 4
  DaysPerWeek = 7
  GapLimit = 1
  HistoryLimit = 2
  Retention = 3
  ModeOverrides = {"inherit", "slow"}
  Device = Device
  Observers = {o1, o2}
  None = None
INVARIANT RefusalForeseen
INVARIANT ExplanationAgrees
INVARIANT HistoryTruthful
PROPERTY ChangesAnnounced
PROPERTY PreviewPredicts
SYMMETRY Symmetry
CHECK_DEADLOCK FALSE
