SPECIFICATION FairSpec
CONSTANTS
  Workspaces = {w1}
  None = None
  MaxMounts = 2
  MaxChanges = 2
  MaxOthers = 1
CHECK_DEADLOCK FALSE
INVARIANTS
  PageInv
  OwnChangesAreShown
PROPERTIES
  ListNeverGoesBack
  PageLoads
