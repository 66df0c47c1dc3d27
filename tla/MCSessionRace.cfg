SPECIFICATION Spec
CONSTANTS
  s1 = s1
  c1 = c1
  c2 = c2
  SessionIds = {s1}
  Clients = {c1, c2}
  MaxSessions = 1
  TTL = 1
  MaxTime = 3
  Unlocked = Unlocked
  NoId = NoId
PROPERTIES
  NilOnlyIfGoneOrExpired
