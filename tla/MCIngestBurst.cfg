SPECIFICATION PipelineSpec
CONSTANTS
  MaxRows = 2
  Refs = {a}
  Owners = {w1, w2}
  NoOwner = NoOwner
  NoRef = NoRef
  MaxAttempts = 2
  Batch = 2
  AutoCreate = TRUE
  MaxFaults = 1
  MaxGen = 2
  ManualIds = {}
  NoIncident = NoIncident
  Limiting = TRUE
  RateLimit = 1
  MaxWindow = 1
  MaxDesk = 0
SYMMETRY Interchangeable
INVARIANTS
  RecoveryLands
CHECK_DEADLOCK FALSE
