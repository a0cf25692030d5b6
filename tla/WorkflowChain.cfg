\* One plain and one streamed execution of the chain share two breakers.
CONSTANTS
  plain = plain
  stream = stream
  third = third
  a = a
  b = b
  c = c
  None = None
  Execs = {plain, stream}
  Streams = {stream}
  Nodes <- ChainNodes
  Deps <- ChainDeps
  Comp <- ChainComp
  Handled = {a}
  MaxRetries = 0
  Threshold = 1
SPECIFICATION Spec
INVARIANTS
  BlockedOnlyWhilePaused
  BreakerAgreesWithCount
PROPERTIES
  Lifecycle
