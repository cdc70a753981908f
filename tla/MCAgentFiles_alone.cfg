SPECIFICATION FairSpec
CONSTANTS
  Procs = {a1}
  Targets = {t1, t2}
  Envs = {t2}
  Ports = {d, e}
  DefaultPort = d
  None = None
  Torn = Torn
  Blank = Blank
  EditsWhileRunning = FALSE
  MaxCheckins = 2
  MaxCrashes = 2
INVARIANTS
  IInv
  FileShowsTarget
  OutageShowsLastKnown
PROPERTIES
  KeepsReporting
