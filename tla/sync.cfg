SPECIFICATION SyncSpec
CONSTANTS
  Tid = {t1, t2, t3}
  Sem = {s1, s2}
  None = None
  SEM_MAX_WAITERS = 2
  Initial = {0, 1}
  MaxTokens = 2
  Calls = {"signal", "kill", "reuse", "destroy"}
  Producers = {p1}
  BUFFER_SIZE = 1
  MAX_FUTEX = 2
  MAX_WAITERS = 2
  Timeout = 1
  Consumers = {c1, c2}
  Items = 2
  Last = {"wake", "requeue"}
  Ahead = {0, 1}
SYMMETRY Perms
INVARIANTS
  SyncTypeOK
  NoneForgotten
  NoIdleToken
  TokensConserved
  OneInside
  ParkedListed
  NoLostSignal
