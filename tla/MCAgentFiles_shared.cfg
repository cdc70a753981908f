SPECIFICATION Spec
CONSTANTS
  Procs = {a1,a2}
  Targets = {t1}
  Envs = {}
  Ports = {d}
  DefaultPort = d
  None = None
  Torn = Torn
  Blank = Blank
  EditsWhileRunning = TRUE
  MaxCheckins = 1
  MaxCrashes = 1
SYMMETRY Symmetry
INVARIANTS
  NeverRunsBlank
