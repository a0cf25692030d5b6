\* An execution of the long version, under each strategy, and one of the short version share the breaker.
CONSTANTS
  one = one
  two = two
  c = c
  p = p
  q = q
  f = f
  j = j
  k = k
  d = d
  None = None
  Execs = {one, two}
  Nodes <- AllNodes
  Versions <- AllVersions
  Branches <- AllBranches
  Rank <- AllRanks
  MaxRetries <- AllRetries
  Concurrency = 1
  Threshold = 1
SPECIFICATION FairSpec
INVARIANTS
  RunsOnDoneSources
  SkippedNeverRuns
  DeadBranchesSkipped
  WaitingIsStarved
  NoNodeForgotten
  BreakerAgrees
PROPERTY ExecutionsEnd
CHECK_DEADLOCK FALSE
