\* One execution of a one-node workflow, paused, resumed and paused again.
CONSTANTS
  plain = plain
  stream = stream
  third = third
  a = a
  b = b
  c = c
  None = None
  Execs = {plain}
  Streams = {}
  Nodes = {a}
  Deps <- OneDeps
  Comp <- OneComp
  Handled = {a}
  MaxRetries = 0
  Threshold = 1
SPECIFICATION Spec
PROPERTY NoLevelWhilePaused
