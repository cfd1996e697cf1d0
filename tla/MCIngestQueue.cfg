SPECIFICATION FairSpec
CONSTANTS
  MaxRows = 2
  Refs = {a, b}
  Owners = {w1, w2}
  NoOwner = NoOwner
  MaxAttempts = 2
  Batch = 2
  AutoCreate = TRUE
  MaxFaults = 2
  NoRef = NoRef
INVARIANTS
  HeldItemIsCurrent
  UnstalledOwnerKeepsRows
  DeadLettersReported
PROPERTIES
  AtLeastOnceSpec
  EventuallySettled
CHECK_DEADLOCK FALSE
