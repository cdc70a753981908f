SPECIFICATION Spec
CONSTANTS
  Workspaces = {w1, w2}
  Names = {n1, n2}
  Clients = {c1}
  Keys = {k1, k2, k3}
  ServerKeys = {h1, h2}
  Sessions = {s1, s2}
  None = None
  Torn = Torn
  MaxIssued = 3
  MaxUpsets = 3
  Reconfigure = TRUE
CHECK_DEADLOCK FALSE
SYMMETRY Symmetry
INVARIANTS
  DevicesHaveWorkspace
  RegistryVerifies
  CertificateIsForKey
  PinnedKeyIsIdentity
  CertifiedDevicesAreKnown
  AcceptedIsRecorded
PROPERTIES
  ImplementsMembership
