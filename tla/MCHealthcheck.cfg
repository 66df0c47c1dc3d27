SPECIFICATION ProbeSpec
CONSTANTS
  MaxRetriesOption = 3
  MaxProbes = 4
INVARIANT
  LimitBoundsProbes
CHECK_DEADLOCK FALSE
