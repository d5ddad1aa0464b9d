CONSTANTS
  p1 = p1
  p2 = p2
  Procs = {p1, p2}
  Lines <- MCLines
  Ids = {1, 2}
  Existing = {"a", "b c"}
SPECIFICATION Spec
INVARIANTS MixedRunsNothing MemCoversLine LastOccurrenceDecides EachRecordOnce OldRecordsStayUndone
PROPERTIES HistoryKept ProcessEnds
CHECK_DEADLOCK FALSE
