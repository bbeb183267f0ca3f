SPECIFICATION FairSpec
CONSTANTS
  NCPU = 2
  NTASK = 4
  MaxSleep = 1
  Signals = {9}
  Calls = {"exit", "create", "sleep"}
  Pids <- AnyChild
  Windows = {}
PROPERTIES
  CoreLetsGo
  WaitpidReturns
  SleeperWakes
