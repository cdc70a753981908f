SPECIFICATION FairSpec
CONSTANTS
  Workspaces = {w1}
  Names = {n1, n2}
  Clients = {c1}
  Keys = {k1, k2, k3}
  ServerKeys = {h1}
  Sessions = {s1, s2}
  None = None
  Torn = Torn
  MaxIssued = 4
  MaxUpsets = 2
  Reconfigure = FALSE
CHECK_DEADLOCK FALSE
PROPERTIES
  KeepsCheckingIn
  LearnsWorkspaceName
