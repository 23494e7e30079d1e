\* Two threads on a tree of at most three spans.
CONSTANTS
  t1 = t1
  t2 = t2
  None = None
  Thread = {t1, t2}
  Cause <- Causes
  CauseLists <- SomeLists
  MaxCauses = 2
  MaxResponse = 1
  MaxSpans = 3
SYMMETRY Threads
CHECK_DEADLOCK FALSE
SPECIFICATION Spec
INVARIANTS
  ToldOnce
  CausesAreKept
  NestedUnlessOverlapped
  ReceiverIsHarmless
