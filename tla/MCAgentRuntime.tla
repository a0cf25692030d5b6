--------------------------- MODULE MCAgentRuntime ---------------------------
(* Small sets of executions on which TLC checks AgentRuntime.              *)
EXTENDS AgentRuntime, TLC

CONSTANTS single, stream, chain, plain, agent, agent2, agent3

\* Two executions of one agent, one of them a stream, an execution of an agent with a chain,
\* and one of an agent without memory.
AllKeys  == (single :> agent) @@ (stream :> agent) @@ (chain :> agent2) @@ (plain :> agent3)
AllLinks == (single :> 0) @@ (stream :> 0) @@ (chain :> 2) @@ (plain :> 0)
AllIterations == (single :> 1) @@ (stream :> 1) @@ (chain :> 2) @@ (plain :> 1)

\* The first two of them.
PairKeys  == (single :> agent) @@ (stream :> agent)
PairLinks == (single :> 0) @@ (stream :> 0)
PairIterations == (single :> 1) @@ (stream :> 1)
=============================================================================
