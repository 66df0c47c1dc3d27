SPECIFICATION CommandSpec
CONSTANTS
  Unset = Unset
  Junk = Junk
  Ports <- MCPorts
  TTLs <- MCTTLs
  Timeouts <- MCTimeouts
  MaxRetriesOption = 3
  MaxProbes = 4
INVARIANTS
  ServedIsUsable
  PromptsLeadSomewhere
  
PROPERTIES
  ValidEnvironmentServes
  EndsWithinLimit
CHECK_DEADLOCK FALSE
