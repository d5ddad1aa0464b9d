SPECIFICATION Spec
CONSTANTS
  N = 2
  Packs <- OneEach
  EmptyLast = {}
  Ulong = 3
INVARIANTS
  SuccessMeansSent
CHECK_DEADLOCK FALSE
