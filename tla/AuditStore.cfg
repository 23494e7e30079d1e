\* Two processes with POSIX locks; a file of two lines at most, so that
\* four calls fill it and go beyond it.
CONSTANTS
  w1 = w1
  w2 = w2
  s1 = s1
  s2 = s2
  Writer = {w1, w2}
  Store = {s1, s2}
  StoreOf <- OwnStores
  FileLocks = TRUE
  MaxLines = 2
  NoWriter = NoWriter
  Torn = Torn
  MaxCalls = 2
  MaxCrashes = 2
SPECIFICATION Spec
INVARIANTS
  NumberedInOrder
  AnswersAreDurable
PROPERTIES
  UnreadableStays
  CallsEnd
  KeepsTheLedger
