SPECIFICATION Spec
CONSTANTS
  t1 = t1
  ToolCalls = {t1}
  RequestTimeout = 1
  ClientTimeout = 2
  KServeDefault = 2
  MaxTime = 9
INVARIANTS
  CallsInTime
  OkMeansApplied
  AppliedAtMostOnce
PROPERTIES
  CallsEnd
CHECK_DEADLOCK FALSE
