SPECIFICATION Spec
CONSTANTS
  n1 = n1
  n2 = n2
  None = None
  Names <- MCNames
  Krakends <- OneKrakend
  Namespace = "ns"
  ESpecs <- SpecsAD
  KSpecs <- OnlyP
  Apps <- MCApps
  ClusterDomain <- UnsetDomain
  NetpolEnabled = TRUE
  Bound <- ThreeOps
SYMMETRY Symmetry
INVARIANTS PolicyKept
CHECK_DEADLOCK FALSE
