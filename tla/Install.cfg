SPECIFICATION Spec
CONSTANTS
  i1 = i1
  i2 = i2
  i3 = i3
  deployment = deployment
  ingress = ingress
  None = None
  Names <- OneName
  Krakends <- OneKrakend
  Namespace = "ns"
  ESpecs <- MCESpecs
  KSpecs <- MCSpecsBad
  Apps = {}
  Self = "ns"
  NoHost <- MCNoHost
  Resources <- OneResource
  NetpolEnabled = TRUE
  Bound <- InstallBound
SYMMETRY Symmetry
INVARIANTS TypeOK Applied PartialsInstalled RoutesLostByStaleReadOnly
CHECK_DEADLOCK FALSE
