SPECIFICATION Spec
CONSTANTS
  NCPU = 2
  NTASK = 4
  MaxSleep = 1
  Signals = {9, 19}
  Calls = {"exit", "create"}
  Pids <- AnyChild
  Windows = {"signal"}
PROPERTIES
  DeadStayDead
