SPECIFICATION Spec
CONSTANTS
  s1 = s1
  s2 = s2
  s3 = s3
  c1 = c1
  c2 = c2
  SessionIds = {s1, s2, s3}
  Clients = {c1, c2}
  MaxSessions = 2
  TTL = 2
  MaxTime = 4
  Unlocked = Unlocked
  NoId = NoId
SYMMETRY Symmetry
INVARIANTS
  TypeOK
  SessionsBounded
  TouchedSessionPresent
  FullTTLFromLastUse
PROPERTIES
  LiveSessionsStay
  LifeSpec
