SPECIFICATION Spec
CONSTANTS
  n1 = n1
  p1 = p1
  i1 = i1
  i2 = i2
  i3 = i3
  a1 = a1
  r1 = r1
  r2 = r2
  Nodes = {n1}
  Pods = {p1}
  Incidents = {i1, i2, i3}
  ADRs = {a1}
  Worlds <- MCWorlds
  Keys = {"health", "nodes", "incidents", "history", "tool", "adrs"}
  Asked <- MCAsked
  Readers = {r1, r2}
  TTL <- MCTTL
  PageLimit = 2
  FetchLimit = 1
  MaxTime = 4
  MaxChanges = 1
  NoEntry = NoEntry
  NoKey = NoKey
SYMMETRY Symmetry
INVARIANTS
  QuietClusterSeen
  ViewsAgree
  HistoryCountsOnce
PROPERTIES
  CachedSpec
