SPECIFICATION Spec
CONSTANTS
  Series = {s1}
  MaxGen = 3
  ManualIds = {}
  Clusters = {k1}
  NoIncident = NoIncident
INVARIANTS
  OnlyNewestActive
  AckedIsHandedOver
  ClustersHaveOwners
PROPERTIES
  Lifecycle
  MergeEmptiesSource
