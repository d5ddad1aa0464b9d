CONSTANTS
  p1 = p1
  p2 = p2
  Procs = {p1}
  Lines <- MCLinesPort
  Ids = {1, 2}
  Existing = {"a", "b c"}
SPECIFICATION Spec
INVARIANT RunUsesDefaultPort
CHECK_DEADLOCK FALSE
