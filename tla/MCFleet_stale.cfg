SPECIFICATION Spec
CONSTANTS
  Workspaces = {w1}
  Names = {n1}
  Clients = {c1}
  Keys = {k1}
  ServerKeys = {h1}
  Sessions = {s1, s2}
  None = None
  Torn = Torn
  MaxIssued = 2
  MaxUpsets = 2
  Reconfigure = FALSE
CHECK_DEADLOCK FALSE
PROPERTIES
  NewerRecordStays
