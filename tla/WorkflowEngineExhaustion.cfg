\* One execution of the long version, whose parallel nodes raise under the strategy all.
CONSTANTS
  one = one
  two = two
  c = c
  p = p
  q = q
  f = f
  j = j
  k = k
  d = d
  None = None
  Execs = {one}
  Nodes <- AllNodes
  Versions <- AllOnly
  Branches <- AllBranches
  Rank <- AllRanks
  MaxRetries <- AllRetries
  Concurrency = 1
  Threshold = 1
SPECIFICATION Spec
PROPERTY ExhaustionCounts
CHECK_DEADLOCK FALSE
