SPECIFICATION FairSpec
CONSTANTS
  N = 2
  Packs <- FourAndOne
  EmptyLast = {0}
  Ulong = 3
INVARIANTS
  SendOnlyPrepared
  FrameOutlivesPreparer
  RecordAlwaysListed
  OneDonePerSent
  DanglesOnlyAfterVerdict
  CrashOnlyBeforeCount
  SpeedNeverWraps
PROPERTIES
  Refines
  RunEnds
CHECK_DEADLOCK FALSE
