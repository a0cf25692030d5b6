---------------------------- MODULE AgentRuntime ----------------------------
(***************************************************************************)
(* agent_os/ai_layer/agent_runtime_v3/runtime.py with the sessions and the *)
(* working memory of agent_os/core_platform/memory_system: executions of   *)
(* agents, streamed or not, with a loop of tool calls, chains of agents,   *)
(* and a table that gives each agent of a tenant one memory session.       *)
(*                                                                         *)
(* One action is the code between two awaits that suspend.  Publishing an  *)
(* event touches nothing that executions share and never raises, so the    *)
(* events around a model or a tool call belong to the wait for that call.  *)
(***************************************************************************)
EXTENDS Naturals, Sequences, FiniteSets

CONSTANTS
  Execs,          \* calls of execute_agent and execute_agent_stream
  Streams,        \* those of execute_agent_stream
  Keys,           \* pairs of an agent and a tenant
  KeyOf,          \* call -> its agent and tenant
  Remembering,    \* calls whose agent has memory_enabled
  Returning,      \* calls all of whose tools return
  Links,          \* call -> length of the agent's chain_agents; 0 without a chain
  MaxIterations,  \* call -> max_iterations of its agent, or of each agent of its chain
  MaxCalls,       \* bound on the tool calls in one answer of the model
  Capacity,       \* working_memory_capacity
  Window,         \* the entries _load_memory asks for
  None            \* no session

ASSUME ConstantsAssumption ==
  /\ Streams \subseteq Execs
  /\ KeyOf \in [Execs -> Keys]
  /\ Remembering \subseteq Execs
  /\ Returning \subseteq Execs
  /\ Links \in [Execs -> Nat]
  /\ MaxIterations \in [Execs -> Nat \ {0}]
  /\ MaxCalls \in Nat \ {0}
  /\ None \notin Execs

\* The default capacity and the window, both 20, hold whole turns.
ASSUME WholeTurnsAssumption ==
  /\ Capacity \in Nat \ {0} /\ Capacity % 2 = 0
  /\ Window \in Nat \ {0} /\ Window % 2 = 0

VARIABLES
  backend,    \* of the memory store, a setting: "memory" or "redis"
  status,     \* execution.status ("none": not called yet)
  pc,         \* what the call awaits
  link,       \* the agent of the chain that runs; 0 for an agent without a chain
  iteration,  \* of the tool loop
  pending,    \* tool calls of the model's answer that have not returned
  heard,      \* the memory entries in the prompt
  table,      \* runtime._sessions: key -> session; a session is named by its creator
  working     \* store._working: session -> entries

vars == <<backend, status, pc, link, iteration, pending, heard, table, working>>
loop == <<link, iteration, pending>>
memory == <<table, working>>

Entries == [of : Execs, role : {"user", "assistant"}]
Places == {"idle", "building", "creating", "model", "tool", "closing", "done", "dropped"}

TypeOK ==
  /\ backend \in {"memory", "redis"}
  /\ status \in [Execs -> {"none", "running", "completed", "failed"}]
  /\ pc \in [Execs -> Places]
  /\ link \in [Execs -> Nat] /\ \A e \in Execs : link[e] <= Links[e]
  /\ iteration \in [Execs -> Nat] /\ \A e \in Execs : iteration[e] <= MaxIterations[e]
  /\ pending \in [Execs -> 0..MaxCalls]
  /\ heard \in [Execs -> Seq(Entries)]
  /\ table \in [Keys -> Execs \cup {None}]
  /\ working \in [Execs -> Seq(Entries)]

Init ==
  /\ backend \in {"memory", "redis"}
  /\ status = [e \in Execs |-> "none"]
  /\ pc = [e \in Execs |-> "idle"]
  /\ link = [e \in Execs |-> 0]
  /\ iteration = [e \in Execs |-> 0]
  /\ pending = [e \in Execs |-> 0]
  /\ heard = [e \in Execs |-> <<>>]
  /\ table = [k \in Keys |-> None]
  /\ working = [e \in Execs |-> <<>>]

----------------------------------------------------------------------------
(* Memory.                                                                 *)

\* A fault: a key that leaves out the agent.
OneKey(e) == CHOOSE k \in Keys : TRUE

\* session_key
SessionKey(e) == KeyOf[e]
Session(e) == table[SessionKey(e)]

\* A fault: the table is not tested.
AlwaysCreates(e) == FALSE
HasSession(e) == Session(e) # None

\* The last entries of the session, as the working part of assemble_context; the query is
\* empty, so no other memory is searched.
Recall(entries) ==
  IF Len(entries) <= Window THEN entries
  ELSE SubSeq(entries, Len(entries) - Window + 1, Len(entries))

\* A fault: the bound is tested one too late.
PushLate(entries, entry) ==
  Append(IF Len(entries) > Capacity THEN Tail(entries) ELSE entries, entry)

\* add_working: the oldest entry makes room.
Push(entries, entry) ==
  Append(IF Len(entries) >= Capacity THEN Tail(entries) ELSE entries, entry)

Turn(e) == <<[of |-> e, role |-> "user"], [of |-> e, role |-> "assistant"]>>

\* _save_memory: the two entries of a turn, without a suspension between them.
Saved(e) ==
  IF e \notin Remembering THEN working
  ELSE [working EXCEPT ![Session(e)] = Push(Push(@, Turn(e)[1]), Turn(e)[2])]

----------------------------------------------------------------------------
(* The end of an execution.                                                *)

\* A stream has its last event to yield.
Closing(e) == IF e \in Streams THEN "closing" ELSE "done"

Complete(e) ==
  /\ status' = [status EXCEPT ![e] = "completed"]
  /\ pc' = [pc EXCEPT ![e] = Closing(e)]
  /\ pending' = [pending EXCEPT ![e] = 0]
  /\ working' = Saved(e)
  /\ UNCHANGED <<link, iteration>>

\* A fault: memory is saved whatever the outcome.
FailSaving(e) ==
  /\ status' = [status EXCEPT ![e] = "failed"]
  /\ pc' = [pc EXCEPT ![e] = Closing(e)]
  /\ pending' = [pending EXCEPT ![e] = 0]
  /\ working' = Saved(e)
  /\ UNCHANGED <<link, iteration>>

Fail(e) ==
  /\ status' = [status EXCEPT ![e] = "failed"]
  /\ pc' = [pc EXCEPT ![e] = Closing(e)]
  /\ pending' = [pending EXCEPT ![e] = 0]
  /\ UNCHANGED <<link, iteration, working>>

\* The loop of one agent is over: the next agent of the chain starts with its result.
NextLink(e) ==
  /\ link[e] < Links[e]
  /\ link' = [link EXCEPT ![e] = @ + 1]
  /\ iteration' = [iteration EXCEPT ![e] = 1]
  /\ pending' = [pending EXCEPT ![e] = 0]
  /\ pc' = [pc EXCEPT ![e] = "model"]
  /\ UNCHANGED <<status, working>>

LinkOver(e) == NextLink(e) \/ (link[e] = Links[e] /\ Complete(e))

\* A fault: an agent of a chain that has raised is run again.
RaiseRepeats(e) ==
  \/ link[e] = 0 /\ Fail(e)
  \/ /\ link[e] > 0
     /\ iteration' = [iteration EXCEPT ![e] = 1]
     /\ pending' = [pending EXCEPT ![e] = 0]
     /\ pc' = [pc EXCEPT ![e] = "model"]
     /\ UNCHANGED <<status, link, working>>

\* An exception ends a single agent's execution; a chain swallows it and goes on with the
\* input of the agent that has raised.
Raise(e) ==
  \/ link[e] = 0 /\ Fail(e)
  \/ link[e] > 0 /\ LinkOver(e)

----------------------------------------------------------------------------
(* The steps of an execution.                                              *)

Submit(e) ==
  /\ pc[e] = "idle"
  /\ status' = [status EXCEPT ![e] = "running"]
  /\ pc' = [pc EXCEPT ![e] = "building"]
  /\ UNCHANGED <<backend, loop, heard, memory>>

\* The prompt is complete and the first model is called.  The agents of a chain get the
\* user's input only; a stream ignores the chain.
Prompt(e, entries) ==
  LET chained == e \notin Streams /\ Links[e] > 0 IN
  /\ heard' = [heard EXCEPT ![e] = IF chained THEN <<>> ELSE entries]
  /\ link' = [link EXCEPT ![e] = IF chained THEN 1 ELSE 0]
  /\ iteration' = [iteration EXCEPT ![e] = 1]
  /\ pc' = [pc EXCEPT ![e] = "model"]
  /\ UNCHANGED <<backend, status, pending, working>>

\* The started event is published and the search for knowledge is over, which never raises.
PromptWithoutMemory(e) ==
  /\ pc[e] = "building" /\ e \notin Remembering
  /\ Prompt(e, <<>>)
  /\ UNCHANGED table

PromptFromSession(e) ==
  /\ pc[e] = "building" /\ e \in Remembering
  /\ HasSession(e)
  /\ Prompt(e, Recall(working[Session(e)]))
  /\ UNCHANGED table

\* Without Redis, create_session does not suspend.
CreateAtOnce(e) ==
  /\ pc[e] = "building" /\ e \in Remembering
  /\ ~HasSession(e) /\ backend = "memory"
  /\ table' = [table EXCEPT ![SessionKey(e)] = e]
  /\ Prompt(e, <<>>)

CreateInRedis(e) ==
  /\ pc[e] = "building" /\ e \in Remembering
  /\ ~HasSession(e) /\ backend = "redis"
  /\ pc' = [pc EXCEPT ![e] = "creating"]
  /\ UNCHANGED <<backend, status, loop, heard, memory>>

\* The copy in Redis is written or has failed; the table is not tested again.
SessionCreated(e) ==
  /\ pc[e] = "creating"
  /\ table' = [table EXCEPT ![SessionKey(e)] = e]
  /\ Prompt(e, Recall(working[e]))

BuildPrompt(e) ==
  \/ PromptWithoutMemory(e) \/ PromptFromSession(e)
  \/ CreateAtOnce(e) \/ CreateInRedis(e) \/ SessionCreated(e)

\* An answer without tool calls, or the last token of a stream.
ModelAnswers(e) ==
  /\ pc[e] = "model"
  /\ IF e \in Streams THEN Complete(e) ELSE LinkOver(e)
  /\ UNCHANGED <<backend, heard, table>>

\* The provider fails, the next agent of a chain does not exist, or the first tool call of
\* the answer is not an object.
ModelRaises(e) ==
  /\ pc[e] = "model"
  /\ IF e \in Streams THEN Fail(e) ELSE Raise(e)
  /\ UNCHANGED <<backend, heard, table>>

\* The answer asks for tools, which are called one after the other.
ModelAsks(e) ==
  /\ pc[e] = "model" /\ e \notin Streams
  /\ \E n \in 1..MaxCalls : pending' = [pending EXCEPT ![e] = n]
  /\ pc' = [pc EXCEPT ![e] = "tool"]
  /\ UNCHANGED <<backend, status, link, iteration, heard, memory>>

NextCall(e) ==
  /\ pending[e] > 1
  /\ pending' = [pending EXCEPT ![e] = @ - 1]
  /\ UNCHANGED <<status, pc, link, iteration, working>>

MayIterate(e) == iteration[e] < MaxIterations[e]

\* The results are in the conversation and the model is called again.
NextIteration(e) ==
  /\ pending[e] = 1 /\ MayIterate(e)
  /\ iteration' = [iteration EXCEPT ![e] = @ + 1]
  /\ pending' = [pending EXCEPT ![e] = 0]
  /\ pc' = [pc EXCEPT ![e] = "model"]
  /\ UNCHANGED <<status, link, working>>

\* The iterations are used up: the text of the last tool result is the agent's result.
IterationsEnd(e) ==
  /\ pending[e] = 1 /\ ~MayIterate(e)
  /\ LinkOver(e)

\* A tool of the runtime or of the MCP registry has returned, has raised, or is unknown;
\* each leaves a message and the loop goes on.
ToolReturns(e) ==
  /\ pc[e] = "tool"
  /\ NextCall(e) \/ NextIteration(e) \/ IterationsEnd(e)
  /\ UNCHANGED <<backend, heard, table>>

\* The next tool call is not an object, which is read outside the try of the call.
CallMalformed(e) ==
  /\ pc[e] = "tool" /\ pending[e] > 1
  /\ Raise(e)
  /\ UNCHANGED <<backend, heard, table>>

\* The reader has taken the last event of the stream.
EventRead(e) ==
  /\ pc[e] = "closing"
  /\ pc' = [pc EXCEPT ![e] = "done"]
  /\ UNCHANGED <<backend, status, loop, heard, memory>>

\* A fault: the cancellation of a stream is taken for a failure.
DisconnectFails(e) ==
  /\ e \in Streams /\ pc[e] \notin {"idle", "done", "dropped"}
  /\ pc' = [pc EXCEPT ![e] = "dropped"]
  /\ status' = [status EXCEPT ![e] = "failed"]
  /\ UNCHANGED <<backend, loop, heard, memory>>

\* The reader of a stream goes away and the generator is closed where it is suspended; no
\* except clause of the runtime catches that.
Disconnect(e) ==
  /\ e \in Streams /\ pc[e] \notin {"idle", "done", "dropped"}
  /\ pc' = [pc EXCEPT ![e] = "dropped"]
  /\ UNCHANGED <<backend, status, loop, heard, memory>>

\* A client of the memory service deletes a session.  The runtime keeps its id, and the
\* next turn is stored under it again.
DeleteSession(s) ==
  /\ working[s] # <<>>
  /\ working' = [working EXCEPT ![s] = <<>>]
  /\ UNCHANGED <<backend, status, pc, loop, heard, table>>

Step(e) == BuildPrompt(e) \/ ModelAnswers(e) \/ ModelRaises(e) \/ ModelAsks(e) \/ EventRead(e)

Next == \E e \in Execs :
  \/ Submit(e) \/ Step(e) \/ ToolReturns(e) \/ CallMalformed(e)
  \/ Disconnect(e) \/ DeleteSession(e)

Spec == Init /\ [][Next]_vars

\* The event loop runs what is ready and model calls time out.  A tool has no timeout, and
\* nobody has to read a stream.
FairSpec ==
  /\ Spec
  /\ \A e \in Execs \ Streams :
       WF_vars(Step(e) \/ (e \in Returning /\ (ToolReturns(e) \/ CallMalformed(e))))

----------------------------------------------------------------------------
(* Properties.                                                             *)

\* The entries are turns: what the user said, then the answer of the same execution.
IsTurns(entries) ==
  /\ Len(entries) % 2 = 0
  /\ \A i \in 1..Len(entries) : i % 2 = 1 =>
       /\ entries[i].role = "user"
       /\ entries[i + 1] = [of |-> entries[i].of, role |-> "assistant"]

\* Executions that end together never interleave their turns, and neither the capacity of
\* the working memory nor the window of the prompt cuts a turn in half.
WholeTurns ==
  /\ \A s \in Execs : IsTurns(working[s])
  /\ \A e \in Execs : IsTurns(heard[e])

\* What a session holds, or a prompt was built from, was said in a completed execution.
RememberedIsCompleted ==
  \A e, s \in Execs : \A i \in 1..Len(working[s]) :
    working[s][i].of = e => status[e] = "completed" /\ e \in Remembering

\* An agent of a tenant is never prompted with what was said to another.
AgentsApart ==
  \A e \in Execs : \A i \in 1..Len(heard[e]) : KeyOf[heard[e][i].of] = KeyOf[e]

\* A session that holds turns is the one its agent reads.
TurnsAreFound == \A s \in Execs : working[s] # <<>> => table[KeyOf[s]] = s

\* Unless sessions are written to Redis, no turn is lost by a second session.
TurnsAreFoundInMemory == backend = "memory" => TurnsAreFound

\* An outcome that clients can see is final: a reader that leaves before the last event does
\* not turn it around.
OutcomeKept ==
  [][\A e \in Execs : status[e] \in {"completed", "failed"} => status'[e] = status[e]]_vars

\* An execution that is not streamed ends if its tools return: no sequence of answers, tool
\* results and exceptions keeps the loop, or the chain, going for ever.
ExecutionsEnd ==
  \A e \in Returning \ Streams : status[e] = "running" ~> pc[e] = "done"

----------------------------------------------------------------------------
(* The inductive invariant.                                                *)

\* Where the call of an execution is, and the status it shows, agree.
PlaceInv ==
  \A e \in Execs :
    /\ pc[e] = "idle" => status[e] = "none"
    /\ pc[e] \in {"building", "creating", "model", "tool"} => status[e] = "running"
    /\ pc[e] = "creating" => backend = "redis" /\ e \in Remembering

\* The table gives each key a session of its own, and has one whenever a turn may be saved.
SessionInv ==
  /\ \A k \in Keys : table[k] # None => KeyOf[table[k]] = k
  /\ \A e \in Remembering : pc[e] \in {"model", "tool"} => table[KeyOf[e]] # None

\* A session holds only what was said to the agent it was created for.
SessionsApart ==
  \A s \in Execs : \A i \in 1..Len(working[s]) : KeyOf[working[s][i].of] = KeyOf[s]

IInv ==
  /\ TypeOK
  /\ PlaceInv
  /\ SessionInv
  /\ SessionsApart
  /\ AgentsApart
  /\ RememberedIsCompleted
  /\ TurnsAreFoundInMemory
  /\ WholeTurns
=============================================================================
