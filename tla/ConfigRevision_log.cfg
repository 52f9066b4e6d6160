SPECIFICATION Spec
CONSTANTS
  Writers = {w1, w2, w3}
  None = None
  MaxRevision = 4
PROPERTY ImplementsLog
