SPECIFICATION FairSpec
CONSTANTS
  N = 2
  Packs <- OneEach
  EmptyLast = {}
  Ulong = 3
PROPERTIES
  EveryFileTried
CHECK_DEADLOCK FALSE
