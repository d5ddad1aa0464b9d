SPECIFICATION FairSpec
CONSTANTS
  Texts = 2
  Bars = 2
  TextKinds = {"text"}
  BarKinds = {"bar", "endless"}
  Delay = 2
  Horizon = 3
PROPERTIES
  StopsWhenAsked
CHECK_DEADLOCK FALSE
