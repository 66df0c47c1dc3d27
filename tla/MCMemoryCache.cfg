SPECIFICATION FairSpec
CONSTANTS
  ka = ka
  kb = kb
  c1 = c1
  c2 = c2
  Keys = {ka, kb}
  Callers = {c1, c2}
  KeyTTL <- MCKeyTTL
  FetchLimit = 1
  MaxTime = 3
  MaxGets = 2
  NoEntry = NoEntry
  NoKey = NoKey
INVARIANTS
  CountersNeverInflate
  EvictionsAccount
PROPERTIES
  ServedValueFresh
  ExpiredEntriesRemoved
  StoreSpec
