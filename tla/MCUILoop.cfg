SPECIFICATION FairSpec
CONSTANTS
  Texts = 2
  Bars = 2
  TextKinds = {"text", "long"}
  BarKinds = {"bar"}
  Delay = 2
  Horizon = 3
INVARIANTS
  TextsDelivered
  ShownInOrder
PROPERTIES
  StopsWhenAsked
CHECK_DEADLOCK FALSE
