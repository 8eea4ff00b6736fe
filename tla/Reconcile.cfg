SPECIFICATION Spec
CONSTANTS
  n1 = n1
  n2 = n2
  None = None
  Names <- MCNames
  Krakends <- OneKrakend
  Namespace = "ns"
  ESpecs <- SpecsAB
  KSpecs <- OnlyP
  Apps <- MCApps
  ClusterDomain <- UnsetDomain
  NetpolEnabled = FALSE
  Bound <- ReconcileBound
SYMMETRY Symmetry
INVARIANTS DuplicateOnlyByRace GhostFree Converged
CHECK_DEADLOCK FALSE
