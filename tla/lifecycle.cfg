SPECIFICATION Spec
CONSTANTS
  NCPU = 2
  NTASK = 4
  MaxSleep = 1
  Signals = {9}
  Calls = {"exit", "create", "block"}
  Pids <- AnyChild
  Windows = {"create", "signal", "cid", "switch"}
INVARIANTS
  TypeOK
  OneCore
  DeadNotQueued
  RunningIsCurrent
  NotStranded
  NoLostExit
  NumTasks
  NoDeadContext
PROPERTIES
  DeadStayDead
  
