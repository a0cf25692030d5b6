\* Two executions of one agent, whose sessions are copied to Redis.
CONSTANTS
  single = single
  stream = stream
  chain = chain
  plain = plain
  agent = agent
  agent2 = agent2
  agent3 = agent3
  None = None
  Execs = {single, stream}
  Streams = {stream}
  Keys = {agent}
  KeyOf <- PairKeys
  Remembering = {single, stream}
  Returning = {single}
  Links <- PairLinks
  MaxIterations <- PairIterations
  MaxCalls = 1
  Capacity = 2
  Window = 2
SPECIFICATION Spec
INVARIANT TurnsAreFound
CHECK_DEADLOCK FALSE
