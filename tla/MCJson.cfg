CONSTANTS
  Limit = 2
  IntMax = 4
  Numbers <- MCNumbers
  Values <- MCValues
  Records <- MCRecords
SPECIFICATION Spec
INVARIANTS RoundTrips RereadLosesOnlyBlanks CutIsNothingOrWhole MinifyAgrees CompareIsSameMeaning
CHECK_DEADLOCK FALSE
