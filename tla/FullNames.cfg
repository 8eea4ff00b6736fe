SPECIFICATION Spec
CONSTANTS
  None = None
  Names = {}
  Krakends = {}
  Namespace = "ns"
  Elsewhere = "other"
  ESpecs = {}
  KSpecs = {}
  Apps <- MCApps
  ClusterDomain <- UnsetDomain
  Backends <- MCBackends
  Labels <- MCLabels
  MaxBackends = 3
  JwkUrls <- MCJwkUrls
  Settings <- MCSettings
  Trees <- MCTrees
  Keys <- MCKeys
INVARIANTS DocumentedNamesReached
CHECK_DEADLOCK FALSE
