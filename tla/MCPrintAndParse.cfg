CONSTANTS
  NULL = NULL
  IntMax = 34
  DefaultSize = 4
  Limit = 2
  NumberMax = 2
  Sizes <- MCSizes
  Trees <- MCTrees
  Texts <- MCTexts
  NumberTexts <- MCNumberTexts
SPECIFICATION PrintAndParseSpec
INVARIANTS StaysInMemory DepthIsNesting BufferNeverOverrun TextIsWhole RoomMeansSuccess AgreesWithJsonText
PROPERTIES Utf16Agrees
CHECK_DEADLOCK FALSE
