\* Executions of two agents share their sessions, in memory or with a copy in Redis.
CONSTANTS
  single = single
  chain = chain
  stream = stream
  plain = plain
  agent = agent
  agent2 = agent2
  agent3 = agent3
  None = None
  Execs = {single, stream, chain, plain}
  Streams = {stream}
  Keys = {agent, agent2, agent3}
  KeyOf <- AllKeys
  Remembering = {single, stream, chain}
  Returning = {single, chain}
  Links <- AllLinks
  MaxIterations <- AllIterations
  MaxCalls = 2
  Capacity = 2
  Window = 2
SPECIFICATION FairSpec
INVARIANTS
  WholeTurns
  RememberedIsCompleted
  AgentsApart
  TurnsAreFoundInMemory
PROPERTY OutcomeKept
PROPERTY ExecutionsEnd
CHECK_DEADLOCK FALSE
