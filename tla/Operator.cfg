SPECIFICATION InstalledSpec
CONSTANTS
  None = None
  Names <- OneName
  Krakends <- OneKrakend
  Namespace = "ns"
  ESpecs <- MCESpecs
  KSpecs <- OneKSpec
  Apps <- OneApp
  ClusterDomain <- UnsetDomain
  Self = "ns"
  NoHost <- NoSpecs
  Resources <- NoResource
  NetpolEnabled = TRUE
  Bound <- SafetyBound
INVARIANTS GatewayServes
CHECK_DEADLOCK FALSE
