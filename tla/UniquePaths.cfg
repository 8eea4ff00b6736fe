SPECIFICATION Spec
CONSTANTS
  n1 = n1
  n2 = n2
  None = None
  Names <- MCNames
  Krakends <- OneKrakend
  Namespace = "ns"
  ESpecs <- SpecsAC
  KSpecs <- OnlyP
  Apps <- MCApps
  ClusterDomain <- UnsetDomain
  NetpolEnabled = FALSE
  Bound <- TwoOps
SYMMETRY Symmetry
INVARIANTS UniquePaths
CHECK_DEADLOCK FALSE
