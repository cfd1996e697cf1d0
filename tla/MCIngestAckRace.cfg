SPECIFICATION PipelineSpec
CONSTANTS
  MaxRows = 2
  Refs = {a}
  Owners = {w1, w2}
  NoOwner = NoOwner
  NoRef = NoRef
  MaxAttempts = 2
  Batch = 2
  AutoCreate = TRUE
  MaxFaults = 1
  MaxGen = 2
  ManualIds = {}
  NoIncident = NoIncident
  Limiting = FALSE
  RateLimit = 1
  MaxWindow = 0
  MaxDesk = 2
SYMMETRY Interchangeable
INVARIANT
  AckedNeverClosedBySystem
CHECK_DEADLOCK FALSE
