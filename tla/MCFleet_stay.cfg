SPECIFICATION Spec
CONSTANTS
  Workspaces = {w1, w2}
  Names = {n1}
  Clients = {c1, c2}
  Keys = {k1, k2, k3}
  ServerKeys = {h1}
  Sessions = {s1, s2}
  None = None
  Torn = Torn
  MaxIssued = 3
  MaxUpsets = 1
  Reconfigure = FALSE
CHECK_DEADLOCK FALSE
SYMMETRY Symmetry
INVARIANTS
  FleetInv
  MembersOfLiveWorkspacesAreKnown
