SPECIFICATION FairSpec
CONSTANTS
  n1 = n1
  n2 = n2
  None = None
  Names <- MCNames
  Krakends <- OneKrakend
  Namespace = "ns"
  ESpecs <- SpecsAD
  KSpecs <- OnlyP
  Apps <- MCApps
  ClusterDomain <- UnsetDomain
  NetpolEnabled = TRUE
  Bound <- NetpolBound
INVARIANTS TypeOK PolicyBeforeSync MigrationFaithful
PROPERTIES AdmissionSpec ImplementsRegistry Settles
CHECK_DEADLOCK FALSE
