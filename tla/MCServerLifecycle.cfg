SPECIFICATION Spec
CONSTANTS
  r1 = r1
  r2 = r2
  e1 = e1
  Calls = {r1, r2}
  Streams = {e1}
  Grace = 3
  PollInterval = 1
  MaxSignals = 2
INVARIANTS
  CleanExitLosesNothing
  FailsOnlyForCause
PROPERTIES
  SignalEndsProcess
CHECK_DEADLOCK FALSE
