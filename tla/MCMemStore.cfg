SPECIFICATION MemSpec
CONSTANTS
  Series = {s1}
  MaxGen = 2
  ManualIds = {m1}
  Clusters = {k1}
  NoIncident = NoIncident
  Limits = {0, 2}
INVARIANTS
  MemTypeOK
  IndexIsExact
PROPERTIES
  ImplementsContract
CHECK_DEADLOCK FALSE
