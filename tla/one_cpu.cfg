SPECIFICATION TickSpec
CONSTANTS
  NCPU = 1
  NTASK = 3
  MaxSleep = 1
  Signals = {9}
  Calls = {"exit", "create"}
  Pids <- AnyChild
  Windows = {}
PROPERTIES
  CoreLetsGo
