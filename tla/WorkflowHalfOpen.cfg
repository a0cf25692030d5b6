\* Three executions of a one-node workflow share its breaker.
CONSTANTS
  plain = plain
  stream = stream
  third = third
  a = a
  b = b
  c = c
  None = None
  Execs = {plain, stream, third}
  Streams = {}
  Nodes = {a}
  Deps <- OneDeps
  Comp <- OneComp
  Handled = {a}
  MaxRetries = 0
  Threshold = 1
SPECIFICATION Spec
PROPERTY OneTrial
