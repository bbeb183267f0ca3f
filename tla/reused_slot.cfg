SPECIFICATION SemSpec
CONSTANTS
  Tid = {t1, t2, t3}
  Sem = {s1}
  None = None
  SEM_MAX_WAITERS = 2
  Initial = {0, 1}
  MaxTokens = 2
  Calls = {"kill", "reuse"}
PROPERTIES
  EntriesOwned
