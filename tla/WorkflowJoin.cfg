\* One plain execution of the join, every handler under a timeout, breakers as earlier executions left them.
CONSTANTS
  plain = plain
  stream = stream
  third = third
  a = a
  b = b
  c = c
  None = None
  Execs = {plain}
  Streams = {}
  Nodes <- JoinNodes
  Deps <- JoinDeps
  Comp <- JoinComp
  Handled <- JoinNodes
  MaxRetries = 1
  Threshold = 1
SPECIFICATION FairSpec
INVARIANTS
  DependenciesSettled
  CompletedMeansSettled
PROPERTIES
  ResultsWrittenOnce
  CancelledEnds
  UnpausedEnds
