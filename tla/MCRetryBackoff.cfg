SPECIFICATION Spec
CONSTANTS
  MaxRetries = 3
  InitialBackoff = 1
  MaxBackoff = 3
  Multiplier = 2
INVARIANTS
  SleepsFollowSchedule
  ResultIsHonest
PROPERTIES
  Returns
CHECK_DEADLOCK FALSE
