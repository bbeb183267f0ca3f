SPECIFICATION Spec
CONSTANTS
  NCPU = 2
  NTASK = 4
  MaxSleep = 1
  Signals = {9, 10, 18, 19}
  Calls = {"exit", "create", "sleep"}
  Pids <- AnyChild
  Windows = {}
INVARIANTS
  NoLostExit
  
