SPECIFICATION PageDirsSpec
CONSTANTS
  Task = {1, 2}
  None = None
  Owner = {1, 2}
  Cpu = {0, 1}
  Dir = {1, 2, 3}
  Kernel = Kernel
  DEFERRED_PD_MAX = 1
INVARIANTS
  NeverWalkedFreed
CHECK_DEADLOCK FALSE
