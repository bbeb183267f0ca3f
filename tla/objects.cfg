SPECIFICATION ObjectsSpec
CONSTANTS
  Task = {1, 2, 3}
  None = None
  Sender = {2, 3}
  Receiver = {1, 2}
  Mortal = {1}
  Qid = {1}
  Key = {k1}
  Type = {y1}
  DEPTH = 2
  Client = client
  Server = server
  Slot <- TcpSlots
  PORT = 7000
  Ephemeral = 5000
  Isn <- Isns
  STEP = 8
  MOD = 64
  BUF = 1
  MSS = 1
  RETRANS_MAX = 2
  Writes <- Bytes
  MaxLen = 1
  MaxFaults = 1
  Faults = {"loss", "dup", "early", "reset"}
  Shell = 1
  MAX_FDS = 2
  MAX_GLOBAL = 2
  MAX_PIPES = 1
  PIPE_BUF_SIZE = 2
  MAX_PTYS = 1
  PTY_BUF_SIZE = 2
  Size = {2}
  Objects = {"file", "pipe", "pty"}
  MaxRefs = 2
  Proc = {1, 2}
  Main = 1
  Seg = {1}
  ShmKey = {k1}
  Frame = {1, 2}
  PINNED = 4
  Reader = {1}
  Writer = {2}
  LAST = 2
  Val = {v0, v1}
  Blank = v0
  ENTRIES = 2
  BATCH = 2
  RA_SECTORS = 1
  RA_SMALL_MAX = 1
  MaxWrites = 1
  Owner = {1, 2}
  Cpu = {0, 1}
  Dir = {1, 2, 3}
  Kernel = Kernel
  DEFERRED_PD_MAX = 1
INVARIANTS
  ObjectsTypeOK WaitersJustified StreamIntact NothingForgotten RefsExact EndsExact
  SegmentReclaimed FramesApart CacheIsDisk ReadsFresh DirsOwned DirLive
PROPERTIES
  ImplementsChannel NobodyStranded SentArrives ReaderReturns
CHECK_DEADLOCK FALSE
