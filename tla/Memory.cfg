SPECIFICATION Spec
CONSTANTS
  s1 = s1
  c1 = c1
  c2 = c2
  None = None
  SessionIds <- MCSessionIds
  Statuses <- MCStatuses
  Calls <- MCCalls
  UseRedis = TRUE
  WorkingCapacity = 1
  EpisodicCapacity = 2
  SemanticCapacity = 2
  MaxContextWindow = 2
  ConsolidationThreshold = 0
  TopK = 1
  BatchLimit = 2
  EmbeddingLimit = 1
  TurnLimit = 3
  ClockLimit = 1
SYMMETRY CallSymmetry
INVARIANT HistoryIsWhole
PROPERTY EvictsLeastRecent
PROPERTY GoneStaysGone
