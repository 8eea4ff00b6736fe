SPECIFICATION Spec
CONSTANTS
  n1 = n1
  n2 = n2
  None = None
  Names <- MCNames
  Krakends <- TwoKrakends
  Namespace = "ns"
  ESpecs <- SpecsTwo
  KSpecs <- OnlyP
  Apps <- MCApps
  ClusterDomain <- UnsetDomain
  NetpolEnabled = FALSE
  Bound <- TwoOps
SYMMETRY Symmetry
INVARIANTS OwnKrakendOnly
CHECK_DEADLOCK FALSE
