\* Two threads of one process on a system without POSIX locks.
CONSTANTS
  w1 = w1
  w2 = w2
  s1 = s1
  s2 = s2
  Writer = {w1, w2}
  Store = {s1}
  StoreOf <- SharedStore
  FileLocks = FALSE
  MaxLines = 2
  NoWriter = NoWriter
  Torn = Torn
  MaxCalls = 2
  MaxCrashes = 2
SPECIFICATION Spec
INVARIANT NumberedInOrder
