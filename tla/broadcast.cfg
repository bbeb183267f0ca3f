SPECIFICATION Spec
CONSTANTS
  Producers = {p1}
  BUFFER_SIZE = 1
  MAX_FUTEX = 2
  MAX_WAITERS = 2
  Timeout = 1
  Consumers = {c1, c2, c3}
  Items = 1
  Last = {"requeue"}
  Ahead = {1}
PROPERTIES
  BroadcastReaches
