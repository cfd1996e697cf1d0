SPECIFICATION MCSpec
CONSTANTS
  Series = {s1}
  MaxGen = 2
  ManualIds = {}
  Clusters = {k1}
  NoIncident = NoIncident
  Calls = {c1, c2, c3}
  Retries = 2
  MaxHistory = 4
SYMMETRY Symmetry
INVARIANTS
  PgTypeOK
PROPERTIES
  CommitsKeepTheContract
CHECK_DEADLOCK FALSE
