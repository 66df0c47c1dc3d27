SPECIFICATION Spec
CONSTANTS
  Asks <- MCAsks
  Quotas <- MCQuotas
  Usages <- MCUsages
  NodeSets <- MCNodeSets
  MaxChanges = 0
  NoQuota = NoQuota
  NoPods = NoPods
  NotGiven = NotGiven
INVARIANT WithinPodQuota
CHECK_DEADLOCK FALSE
