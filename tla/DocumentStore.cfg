\* Two callers with two calls each: two stores and a deletion can meet.
CONSTANTS
  c1 = c1
  c2 = c2
  Caller = {c1, c2}
  MaxCalls = 2
  MaxCrashes = 1
SYMMETRY Callers
SPECIFICATION Spec
INVARIANTS
  DocumentsAreWhole
  LeftoversAreExplained
  DeleteLeavesNothing
