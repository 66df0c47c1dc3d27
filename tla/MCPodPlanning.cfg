SPECIFICATION Spec
CONSTANTS
  Asks <- MCAsks
  Quotas <- MCQuotas
  Usages <- MCUsages
  NodeSets <- MCNodeSets
  MaxChanges = 1
  NoQuota = NoQuota
  NoPods = NoPods
  NotGiven = NotGiven
INVARIANTS
  EstimateExact
  TrendExact
  AlternativesHold
  AdviceMatchesWarnings
  SuggestionHelps
CHECK_DEADLOCK FALSE
