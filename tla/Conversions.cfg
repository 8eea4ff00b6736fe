SPECIFICATION Spec
CONSTANTS
  None = None
  Names = {}
  Krakends = {}
  Namespace = "ns"
  Elsewhere = "other"
  ESpecs = {}
  KSpecs = {}
  Apps <- MCApps
  ClusterDomain <- UnsetDomain
  Backends <- MCBackends
  Labels <- MCLabels
  MaxBackends = 3
  JwkUrls <- MCJwkUrls
  Settings <- MCSettings
  Trees <- MCTrees
  Keys <- MCKeys
INVARIANTS BackendsReached EgressComplete IngressesKept SettingsReach MergeIsDeep
CHECK_DEADLOCK FALSE
