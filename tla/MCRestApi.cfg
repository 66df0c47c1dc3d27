SPECIFICATION FairSpec
CONSTANTS
  s1 = s1
  s2 = s2
  c1 = c1
  c2 = c2
  SessionIds = {s1, s2}
  Clients = {c1, c2}
  MaxSessions = 1
  TTL = 2
  RunLimit = 1
  MaxTime = 3
  Unlocked = Unlocked
  NoId = NoId
INVARIANTS
  TypeOK
  AnsweredSessionUsable
PROPERTIES
  RunsOnlyForTouchedSession
  RequestsAnswered
  ExpiredAreSwept
