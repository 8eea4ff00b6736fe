SPECIFICATION Spec
CONSTANTS
  i1 = i1
  i2 = i2
  i3 = i3
  deployment = deployment
  ingress = ingress
  None = None
  Names <- OneName
  Krakends <- OneKrakend
  Namespace = "ns"
  ESpecs <- MCESpecs
  KSpecs <- MCSpecs
  Apps = {}
  Self = "ns"
  NoHost <- NoSpecs
  Resources <- TwoResources
  NetpolEnabled = TRUE
  Bound <- StaleBound
INVARIANTS RoutesKept
CHECK_DEADLOCK FALSE
