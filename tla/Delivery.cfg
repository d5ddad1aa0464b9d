CONSTANTS
  PackLen = 2
  MaxSize = 5
  HeadLen = 2
  Chunks = {1, 2}
SPECIFICATION Spec
INVARIANTS PacketsAddUp StreamPrefix FailureDisconnects
PROPERTIES EmptySendNeedsPeer SendEnds
CHECK_DEADLOCK FALSE
