SPECIFICATION MemSpec
CONSTANTS
  Series = {s1}
  MaxGen = 2
  ManualIds = {m1, m2}
  Clusters = {}
  NoIncident = NoIncident
  Limits = {3}
INVARIANT
  RepushNeverForks
CHECK_DEADLOCK FALSE
