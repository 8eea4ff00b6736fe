SPECIFICATION Spec
CONSTANTS
  n1 = n1
  n2 = n2
  None = None
  Names <- MCNames
  Krakends <- OneKrakend
  Namespace = "ns"
  ESpecs <- SpecsAQ
  KSpecs <- PAndPQ
  Apps <- MCApps
  ClusterDomain <- UnsetDomain
  NetpolEnabled = FALSE
  Bound <- KrakendBound
SYMMETRY Symmetry
INVARIANTS Authenticated Converged MigrationFaithful
CHECK_DEADLOCK FALSE
