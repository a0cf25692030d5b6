# Verification of AgentOS

TLA+ models of the parts of this repository (`src/agent_os`, `src/observability_platform`)
whose behaviour depends on the order of events, TLC configurations that check them on small
instances, and proofs that TLAPS checks for every instance.

- `tlc -config X.cfg M` checks module `M`; the pairs are listed under *Runs*.
- `tlapm X_proofs.tla` checks the proofs about module `X` (eight modules, some fifteen thousand obligations,
  a few minutes each).
- `PROJECT.json` maps every definition to the lines it models and lists hazards, findings
  and, for each property, a faulty variant of the code under which the property fails.

## Inventory

AgentOS is one asyncio process: a FastAPI gateway in front of services and engines that keep
their state in dictionaries of singletons. Nothing but the event broker, Redis and an optional
vector store lives outside. Coroutines interleave only where an `await` really suspends
(a handler, `asyncio.sleep`, `Event.wait`, a lock, a socket, Redis, the broker); an `await` of
a coroutine that never suspends is atomic, and the models cut their actions accordingly.

| component | state | operations | what is hard |
|---|---|---|---|
| Workflow service (`services/workflow_service`) | executions, pause events, one breaker per node | create, execute, stream, pause, resume, cancel | requests against a running level loop; parallel levels; retries, compensation; breakers shared by executions; readers that leave a stream |
| Workflow engine V6 (`core_platform/workflow_engine`) | graphs, execution contexts, one breaker per graph | register, execute, condition routing, parallel strategies | skipping, race and any leave nodes without results; exceptions on different paths; shared breaker |
| Agent runtime V3 (`ai_layer/agent_runtime_v3`) | agents, executions, the session of each agent | execute, stream, chain, save memory | a session table tested before an await and written after it; turns of executions that end together; exceptions on different paths |
| LLM gateway (`ai_layer/llm_gateway`) | three adapters, settings | chat, stream, fall back to another provider | which failures are mocked, swallowed, raised or passed on |
| Memory engine and service (`core_platform/memory_system`, `services/memory_service`) | sessions, working, episodic, semantic memories, Redis copies | remember, recall, consolidate, update and delete sessions | bounded lists cut apart; eviction by time stamps; late and failing Redis commands; restarts |
| Knowledge base (`ai_layer/rag`, `services/rag_service`) | documents, embeddings, metadata | ingest, search, delete | a wait per chunk; metadata shared by the chunks of a request |
| Guardrails (`core_platform/guardrail`, `services/guardrail_service`) | policies, default policy, audit log, counters | validate prompts and answers, change policies | how violations combine into an action; a log that is trimmed |
| Event bus (`core_platform/event_bus`) | broker, subscriptions, singleton | publish, subscribe, consume | two constructors of one singleton; handlers added during a publication; replaced consumers |
| WebSocket manager (`api_gateway/ws_manager.py`) | connections, index by tenant | connect, subscribe, broadcast, disconnect, clean up | sends that fail or wait during a broadcast; ids that are reused |
| API gateway (`api_gateway/gateway.py`), rate limiter | requests between middlewares, token buckets | admit, refuse, authenticate, route | other requests between any two middlewares; limits fixed when a bucket is made |
| Tenant manager (`core_platform/tenant_global`) | tenants, index by region | create, update, delete, fail over | an index beside attributes that anyone may set |
| Prompt center (`core_platform/prompt_center`) | templates with versions, the current version | create, add, roll back, delete, render | version numbers that are reused |
| Billing, economy, plugins, revenue share, usage, marketplace | accounts, shares, invoices, purchases, listings, installations | charge, pay, purchase, install, review, list | five ways to change an account; waits between two halves of a sale |
| Tools (`core_platform/mcp_tool_server`) | tools, waiting calls, sandbox files and processes | register, update, invoke, time out | tools changed under a call; processes a time-out leaves behind |
| Observability platform | traces, spans, events, costs, alerts | start, end, record, replay, evict | totals beside tables; requests about evicted traces; replays of traces being evicted |
| Legacy memory, reasoning engine, pricing engine, IAM | a list per agent; nothing; plans; users and keys | add, prompt, price, look up | nothing that depends on order, see *Not modelled* |
| Database layer, Redis client, SDKs, frontends, deployment | - | session factory, commands, clients | pure I/O and views over the above |

What makes each component correct, in one line: a workflow runs a node only on the finished
inputs the graph asks for, ends, and reports an end that matches what ran; a breaker's state
agrees with what was reported to it; an agent execution keeps the outcome it announced; a history
is whole and what is deleted stays away; an index lists what its table holds; a sale is shared and
counted once; a rendered prompt does not change under its reader; a broadcast reaches everyone; a
limit holds over every stretch of time; nothing severe passes a guardrail; totals are what the
tables add up to.

## Modules

| module | models |
|---|---|
| `WorkflowLifecycle` | what clients of the workflow service rely on: statuses, requests, results, ends (abstract) |
| `WorkflowService` | `services/workflow_service/service.py` |
| `WorkflowService_proofs` | theorems about `WorkflowService` |
| `WorkflowEngine` | `execute()` of `core_platform/workflow_engine`, with its router and parallel executor |
| `WorkflowEngine_proofs` | theorems about `WorkflowEngine` |
| `AgentRuntime` | executions of `ai_layer/agent_runtime_v3/runtime.py` with the sessions and the working memory of `core_platform/memory_system` |
| `AgentRuntime_proofs` | theorems about `AgentRuntime` |
| `Memory` | `core_platform/memory_system` and `services/memory_service` |
| `Economy` | billing, revenue share, usage, agent economy, plugin runtime, marketplace stores |
| `Observability` | `src/observability_platform`: collector, store, events, replays, detector, dashboards |
| `ToolServer` | `core_platform/mcp_tool_server` and its service |
| `PromptCenter` | `core_platform/prompt_center` and its service |
| `Gateway` | the middlewares of `api_gateway/gateway.py`, `rate_limiter.py`, the tenant manager |
| `EventBus` | `core_platform/event_bus/bus.py` and the WebSocket routes that subscribe to it |
| `WebSockets` | `api_gateway/ws_manager.py` |
| `Guardrail` | `core_platform/guardrail` and its service |
| `LLMGateway` | `ai_layer/llm_gateway/gateway.py` |
| `RAG` | `ai_layer/rag` (without the embedding providers) and its service |
| `Requests` | the constants that the eight modules above share |
| `Sums` | sums of lists and of selected rows, for `Economy` and `Observability` |
| `Platform` | the process that holds these eight components |
| `Memory_proofs`, `Economy_proofs`, `Observability_proofs` | theorems about these modules |
| `Connections_proofs` | theorems about `Gateway`, `EventBus` and `WebSockets` |
| `Platform_proofs` | theorems about `ToolServer`, `PromptCenter`, `Guardrail`, `LLMGateway`, `RAG`, and about the process of all eight |
| `MC...` | small instances for TLC |

The two workflow modules stand side by side: the gateway drives the service, the engine is a
second implementation that the V6 API drives. They share no state with each other, and none with
the agent runtime, which they reach only through a node's handler. `AgentRuntime` has its own
small copy of the sessions and the working memory, since its questions need a prompt's history and
none of the rest; `Memory` has every operation of the memory system and no executions.

### WorkflowService

One workflow, a set of executions of it, some of them streamed. `status`, `gate` and `results`
are the fields of `WorkflowExecution` and `_pause_events`; `entered` and `outputs` are the loop's
position and `node_outputs`; `task`, `comped`, `attempts` are the locals of
`_execute_node_with_cb` and `_execute_node`; `breaker`, `failures`, `cooled` the `CircuitBreaker`
of each node. `pc` says at which suspension point the coroutine of an execution is.

- *The loop*: `Submit`, `Launch`, `Block`, `EnterAlone`, `EnterLevel`, `LevelEnds`, `Break`,
  `Finish`, `Close`. A level of one node is awaited directly in `execute_workflow`; otherwise
  `gather` makes tasks that start later, and a stream is suspended in its yields.
- *A node*: `StartNode` (admit, compensate or refuse), `HandlerReturns`, `RetryAfterTimeout`,
  `RetryAfterError`, `BackoffEnds`, `Exhaust`, `NodeReturns`.
- *Requests*: `Pause`, `Resume`, `Cancel`, `Disconnect`. The clock: `RecoveryTimePasses`.

Abstractions. Handlers return a dict, with or without an `error` key (the code tests
`"error" in result`); publishing suspends and never raises, as the bus swallows its errors;
logging, timestamps and payloads are left out; the definition store only adds validated graphs
and appears as `AcyclicAssumption`. Each attempt ends by value, exception or, if the node's type
has a registered handler, timeout.

### WorkflowEngine

Executions of one graph id; `graph` is the version an execution has fetched, since
`register_graph` may replace it. `NextLevel` is the level `get_levels` puts next, `Skips` the
closure of `_mark_downstream_skipped`, `RunGroup` and the `Collect` actions are
`_execute_parallel_nodes` with `ParallelExecutor` under each strategy, the `Call` actions are
`_execute_node_with_retry`. The breaker belongs to the graph and is the only thing executions
share, so the loop may be cut at the head of each level.

Abstractions. What an expression or a rule evaluates to appears as the branch it skips
(`Branches`; `None` when a rule matched or the branch has no name); a condition that is not alone
in its level runs as an ordinary node, as in the code. A cancelled task ends at once. The
semaphore of `batch` admits waiting calls in any order. The sequential fallback (parallel
execution switched off), the merge helpers and the retention limit are not modelled.
`SkippedNeverRuns` presumes that a condition names nodes below it.

### AgentRuntime

Calls of `execute_agent` and `execute_agent_stream` for several agents. `status` is
`execution.status`; `link`, `iteration`, `pending` are the position in `chain_agents`, in the
tool loop of `_execute_single` and in the tool calls of one answer; `heard` is the part of the
prompt that comes from memory. `table` is `runtime._sessions`, `working` the store's
`_working`; a session is named by the execution that created it, and the key is the agent and
the tenant, since the code never passes the user. `backend` is the setting of the memory store:
with Redis, `create_session` suspends between the test of the table and the write.

- *Prompt*: `Submit`, `PromptWithoutMemory`, `PromptFromSession`, `CreateAtOnce`,
  `CreateInRedis`, `SessionCreated`.
- *Loop*: `ModelAnswers`, `ModelAsks`, `ModelRaises`, `ToolReturns`, `CallMalformed`; how it ends
  is `Complete` (with `Saved`, the two entries of the turn), `Fail` or `NextLink`.
- *Streams and clients*: `EventRead`, `Disconnect`, `DeleteSession`.

Abstractions. An event that is published touches no shared state and never raises, so it belongs
to the wait before or after it; only the last yield of a stream has a place of its own
(`closing`), because the status is visible before it. Saving a turn does not suspend. Costs are
left out: the test of the limit is never reached (`runtime.py:487`, after branches that all
continue or break). Episodic memory is written and never read by the runtime; nothing counts
accesses of its entries, so `auto_consolidate` promotes none.

### Memory

`sessions`, `working`, `episodic` and `semantic` are the tables of `MemoryStore`; `copies` is
`mem:session:*` in Redis; `calls` are what suspends: a Redis command (`set`, `delete`, `get`, then
the `answer` not yet installed) or the embedding of a text. `born` and `deleted` are history.

- *Sessions*: `CreateSession`, `UpdateSession`, `DeleteSession`, `GetSession`, `SessionRead`. The
  table changes first; the command carries the value of that moment and may be applied late
  (`RedisApplies`), fail unnoticed (`RedisFails`) or meet an expired key. `Restart` loses the
  process, not the copies.
- *Lists*: `AddToWorking` (both lists, as in the engine), `AddToWorkingBatch`, `AddToEpisodic`,
  `ClearWorking`; `GetEpisodic` is the paging by `limit` and `offset`.
- *Semantic memory*: `AddToSemantic` waits for its embedding, `ConsolidateEpisodic` and
  `AutoConsolidate` read an entry before the wait and store it after; `Oldest` compares time
  stamps the way the text comparison of the two formats does.

An entry is the number of its turn. With the default threshold of 5 (`config.py:192`) automatic
consolidation never fires, since nothing counts reads of episodic entries; the run sets 0.

### Economy

`books` (accounts, shares, usage, invoices, subscriptions, contracts, payouts), `market` (agents,
purchases, reviews, listings, runtime configurations) and `store` (plugins, installations,
listings, files) are records of tables, and the engines' methods are operators from one state of
the books to the next, composed as the code calls them. Requests are one action except where they
change state after an event: `RegisterAgent`/`AgentRegistered`, `InstallPlugin`/`PluginPaid`,
`ExecutePlugin`/`PluginEnds`/`PluginTimesOut`/`PluginFails`, the last when the process of a plugin cannot
be started and only its file is left. Amounts are whole units for which every percentage
is exact (`SharesAssumption`: the percentages of a price are whole numbers, and no share is empty,
as in the defaults of the code); rounding of floats is left out. Plugins are numbered in the order
of their registration; `PluginLimit` bounds how many are made. `ListMarketplace` is the first page of
the default order, newest first, cut at `PageLimit` (50 in the code); the other orders, the search by
text and later pages are left out. That no tenant is called `platform`
(`PartiesAssumption`) is what the revenue engine presumes and does not check.

### Observability

The store is one record `obs`; a request is one action, because the FastAPI routes of this
platform call synchronous code that no other request interrupts between its reads and writes of
one trace. The order that matters is that of requests: clients keep ids of traces that are
evicted (`KnownTraces`), replays start a trace, which may evict their original, and spans may be
ended twice. `Emit` routes an event to its handler with the nested cost event; `GetOverview`,
`GetTokenStats`, `GetTenantCost` and `GetRequestBreakdown` are what dashboards add up, used in the
properties. The demo routes are compositions of the same operators. Prices and token counts are
integers (`ObservabilityAssumption`). The code never tests their sign; that the table of prices and
the counts that are posted have none below zero is an assumption of its own (`CountsAssumption`),
which only `TotalsFollowEvents` takes: a trace that costs less than nothing would leave the
dashboards above the cost records when it is evicted.

### Platform and its eight components

Each component keeps its tables in an object of its own, and none touches another's. So the modules
share no variables, and `Platform` interleaves their steps at will. Since no step of one reads or
writes what another has, a behaviour of the process is, for each component, one of that component
alone (lemma `PlatformImplements`). Every property is about one component, so `MCPlatform` looks at
the behaviours in which one of them, whichever it is, is asked for something (`served`), each under
every interleaving of its own requests. That loses nothing and spares TLC the product of eight state
spaces. The slots for overlapping requests (`Calls`) are a shared constant of `Requests`.

- `ToolServer`: `Register...`, `UpdateTool` (a refused update keeps its half), `InvokeTool` and
  `InvokeToolByName` with validation, defaults and the three sandbox modes; a call keeps the schema
  it began with. A time-out leaves a file and a running process.
- `PromptCenter`: every request is one step. A template maps its contents, numbered in the order
  they were written, to the numbers of their versions; `CreateVersion` may repeat a number after
  `DeleteVersion`, and `Resolve` finds the content of a number that was written first.
- `Gateway`: a request goes through the stages limit, auth, isolation, route; the middlewares are
  tasks of their own, so any other request, tenant change or tick of the clock may come between.
  `Admit` and `Refuse` both refill the bucket. Each middleware has its own list of the paths it lets
  pass, so there are four kinds: public, login (counted, but neither authenticated nor isolated), open
  and scoped. A token is of a tenant, of none (`Untenanted`), or does not decode.
- `EventBus`: `Emit`, `Initialized`, `Proceed` are the two-step singleton with its lock, `Join` its
  synchronous constructor, which may make a bus that `Initialized` then overwrites with its subscribers
  (`during` tells who joined at such a time); `Deliver` awaits one handler after another. With Kafka only the
  consumers and their loops are modelled (`Subscribed`, `LoopBegins`).
- `WebSockets`: a serial tells two sockets with one id apart. `SendNext` waits at every send,
  `EndBroadcast` removes the ids whose send failed, whoever has them by then. `SetConnectionTenant` is
  what the three routes do with the tenant a client sends: `tenantOf` changes, the index does not.
  The manager is modelled as its methods allow it to be used; in this repository the routes connect
  everybody without a tenant (`gateway.py:425`, 465, 505) and call no broadcast.
- `Guardrail`: a text is the set of fragments the detectors know; every check of the configuration
  is switched on. `DetermineAction` and the redaction of answers combine what was found.
  `LogAndCount` trims the log and counts the entries of each action.
- `LLMGateway`: what an adapter may do follows from key, mock setting and installed library
  (`Mocks`, `MayAnswer`), and differs between the three adapters as in the code. A call with
  fallbacks keeps the positions of its list it has asked (`asked`); `Known` are those with an
  adapter, the others are skipped.
- `RAG`: a text is its length, a chunk an interval; one wait per chunk, then all chunks of a text
  are stored at once. `left` are the texts of a batch still to come. `Merge` writes how a chunk was found into metadata that chunks may share.

## Runs

| run | configuration | shows |
|---|---|---|
| `workflow_join` | `WorkflowJoin.cfg`: two parallel nodes and their join, one retry, a compensation node, breakers open or closed at the start; `FairSpec` | dependencies settle before a node starts, completion covers every node, results are written once, cancelled and unpaused executions end |
| `workflow_chain` | `WorkflowChain.cfg`: a plain and a streamed execution of a chain of two nodes, all requests | the pause gate, the breakers under late reports, refinement of `WorkflowLifecycle` (no level begins after a cancel, outcomes stay) |
| `workflow_engine` | `WorkflowEngine.cfg`: a condition, three branches, a join and a tail under each strategy, next to an execution of a short version; `FairSpec` | routing and skipping, starvation by race and any, breaker, every execution ends |
| `agent_runtime` | `AgentRuntime.cfg`: a plain and a streamed execution of one agent, a chain of two, an agent without memory, each backend; `FairSpec` | whole turns, sessions per agent, only completed turns remembered, final outcomes, executions end |
| `memory` | `Memory.cfg`: one session, two suspended calls, lists of one and two, a semantic memory of two, two seconds | histories are whole and pages add up, the least recent entry is evicted, a deleted session stays away once nothing is in flight |
| `economy` | `Economy.cfg`: two tenants, an agent with two prices, a plugin, five requests | accounts agree with the tables they are made of, sales are shared and counted once, what clients were shown stays or gives way to newer listings |
| `observability` | `Observability.cfg`: a store of two traces, three ever started, four requests | the newest traces are kept, totals follow events, spans agree in their two tables, requests leave other traces alone |
| `platform` | `Platform.cfg`: each of the eight components with two overlapping requests | `ToolsHold`, `PromptsHold`, `GatewayHolds`, `SentOnce`, `BroadcastsReach`, `GuardsHold`, `LLMAnswers`, `TextsHold`, one for each component |
| `workflow_half_open`, `workflow_pause_race`, `workflow_engine_exhaustion`, `agent_session_race` | one claim of the source each | the claim is violated, see *Findings* |

**Bounds.** `Threshold = 1` in all runs: one failure opens a breaker, so that every state of it
and every order of late reports occurs within one level. `MaxRetries = 1` (join) lets a retry
happen and run out; the chain has none, since its question is the requests. Two executions are
enough for one to report to a breaker the other has opened, three for a second trial during the
first. The join has the smallest level with several nodes and a node with several dependencies;
the chain has several levels of one node, which take the other path of the code. In the engine's
graph, skipping one branch leaves a group of two, a join that must survive or starve, and
a tail that must die with its only source; concurrency 1 makes `batch` queue. `failures` needs no
bound: each execution reports finitely often. `WorkflowEngine.cfg` checks no deadlock because its
executions end for good; so do those of `AgentRuntime.cfg`. There a capacity of two entries makes
the second turn of an agent evict the first; two iterations and two calls per answer occur in the
chain, whose two links are enough for an exception to be swallowed by a link that is not the
last; the other executions iterate once. The window is as large as the capacity, as in the
defaults (20 and 20).

In `Memory.cfg` a working list of one and an episodic list of two make every addition an eviction
in one list before the other; two calls are enough for a read that overtakes a deletion; the second
tick separates "last second" from "now". `ConsolidationThreshold = 0` makes automatic consolidation
happen. Deadlock is checked: the process can always restart. In `Economy.cfg` and
`Observability.cfg` requests are counted (`RequestLimit`) and the system rests at the bound; five
are enough to register, publish, buy, change the price and buy again, or to install while another
install waits; `BooksLimit` and `DemoLimit` keep requests that interact with nothing to the
beginning. Three traces in a store of two evict one, also while it is replayed.

In `Platform.cfg` the bounds are those of each component: three tools ever with a limit of two, and one
time-out that litters; two templates and three versions, so that a number is deleted and reused; buckets
of two and four tokens that gain one and two a tick, so that one tick refills them in part; six requests,
of which a tenant or a change of one takes the place of two (`WorkLimit`); two events, two clients; two
sockets on two ids, one broadcast and one change of a connection's tenant, so that a stale entry meets a
new socket with its id; a log of two checks out of three; one chunk of a stream; texts of one and two
chunks. In `Economy.cfg` a page of one listing lets the second listing push out the first. Names with
`Limit` are bounds of the model (except `PageLimit`, `LogLimit`), the other constants exist in the code or
its configuration. Two clients use the names of the two calls, and the two tenants of sockets those of
the two slugs, since no step is about both; hence a permutation of either pair is a symmetry of every
component (`Symmetric`). It checks no deadlock, since a component whose bounds are reached rests.

**Fairness.** Weak fairness on the steps of coroutines: the event loop runs whatever is ready,
sleeps end, and `wait_for` bounds a call. In `WorkflowService` it covers a handler only if its
node is in `Handled`: the built-in executors run without a timeout. No fairness on requests or on
the clock of a breaker. Hence `UnpausedEnds` allows an execution to stay paused for ever, and
`CancelledEnds` holds because a cancel also opens the gate. In `WorkflowEngine` one fair step per
execution suffices, since every execution has finitely many. In `AgentRuntime` model calls time
out, but tools do not (`timeout_seconds` is not used), and nobody has to read a stream: fairness
covers the tools of `Returning` only, and streams not at all, so `ExecutionsEnd` speaks of
executions that are not streamed and whose tools return.

## Proofs

`WorkflowService_proofs` proves, for any acyclic workflow, any set of executions, any retry limit
and any threshold (`ConstantsAssumption`, `AcyclicAssumption`):

- `TypeCorrect`, `InductiveInvariant`;
- from the invariant: `DependenciesSettledCorrect`, `CompletedMeansSettledCorrect`,
  `BlockedOnlyWhilePausedCorrect`, `EndedIsTerminalCorrect`, `BreakerAgreesWithCountCorrect`;
- the action property `ResultsWrittenOnceCorrect`;
- `ImplementsLifecycle`: the service refines `WorkflowLifecycle` when an execution counts as
  ended in `done` or `dropped`, as begun with the nodes it has entered, and a node as settled when it
  has a result. The life cycle begins with nothing once an execution is cancelled or over, and settles
  only what was begun or compensates for it.

The invariant `IInv` adds to the type:

- `PlaceInv`: pc, status and pause event agree. Without it a cleared event under a status other
  than paused could not be excluded, and `BlockedOnlyWhilePaused` is not inductive.
- `LevelInv`: outputs lag behind `entered` only while a level runs, a task exists exactly for
  entered nodes, and active tasks occur only in place `level`. This carries
  `DependenciesSettled`: when a level starts, everything entered is merged.
- `ResultInv`: a call that is over, or compensates, has a result under its own node. With
  `LevelInv` and acyclicity it gives `CompletedMeansSettled`: no next level means that all nodes
  are entered, all are over, all have results.
- `FreshInv`: a node that compensates for no other has no result until its call is over; it
  carries `ResultsWrittenOnce`.

The lemmas prove one part each, one step per action.

`AgentRuntime_proofs` proves, for any executions, agents, chains and numbers of iterations and
any even capacity and window (`ConstantsAssumption`, `WholeTurnsAssumption`): `TypeCorrect`,
`WholeTurnsCorrect`, `RememberedIsCompletedCorrect`, `AgentsApartCorrect`,
`TurnsAreFoundInMemoryCorrect`, `OutcomeKeptCorrect`. Lemmas on `Push` and `Recall` say what a
bounded list keeps (`PushTurnWhole`: an even bound drops both entries of a turn or none). Every
step is then reduced to what it may do to each shared variable (`WorkingChanges`,
`HeardChanges`, `TableChanges`, `StatusChanges`), and the parts of `IInv` follow from these:

- `PlaceInv`: a call in progress has the status running, and waits for Redis only with that
  backend; it carries `OutcomeKept` and the case of `CreateAtOnce`.
- `SessionInv`: sessions in the table were created for their key, and one exists while a turn
  may still be saved. Without it `Saved` could write to no session at all.
- `SessionsApart`: a session holds what was said to its agent; prompts are built from it.

`Connections_proofs` proves three components. `GatewayHoldsCorrect` is for any tiers and limits (positive,
`GatewayAssumption`), tenants, paths and number of requests. The invariant `GatewayInv` adds:

- `LimitInv`: for every earlier admission, the admissions since, with the tokens that are left,
  are at most a full bucket and what it gained from then to its last refill. A refill adds no more
  than the gain of its interval (`RefillKeepsStretches`), an admission moves one from the tokens
  to the count (`AdmissionKeepsStretches`). `LimitHeld` alone says nothing of the tokens left, so
  it is not inductive.
- `ListInv`: every tenant has one place in the lists of the regions, and no list is longer than
  the table of tenants. `StageInv`: past the authentication a request has the tenant of its token, none
  if the token names none, and the header's on the paths where no token is looked at.

`BroadcastsReachCorrect` is for any addresses and tenants (`None` is none
of them), and any changes of the tenants of connections. Since the index is not told of these, it is not
exact: it lists each connection under the tenant it joined with, and what else it lists are ids at which
a tenant was changed (`moved`). `SendingInv` is what carries it: whoever a broadcast is due to and is still connected was
sent to, is still a target, or has an id the broadcast will disconnect at its end (`Pending`), and
nobody it is kept from was sent to. `IndexInv` is the statement about the index.
`TableInv` keeps serials distinct, so that a new socket under an old id is never taken for one that
the broadcast was due to.

`SentOnceCorrect` is for any clients and overlapping publications. `BusInv` says where everybody is:

- `HandlerInv`: a client has one place among the handlers of all buses, although the singleton may
  be replaced; without it a client could be sent an event by two buses.
- `NumberInv`, `ReceivedInv`: publications under way have numbers of their own, and nobody has an
  event before its turn in the list of handlers. Together they exclude the second sending.
- `ReachedInv`: whoever a publication has passed and still listens has the event; at the end of
  the list that is everyone who had subscribed to its bus before. Clients that leave shorten no list, so the
  positions of the others stay what they were.
- `StrandedInv`: a bus that is not the instance has only handlers of clients that joined while one was
  being made.
- `LockInv`: who waits for the lock of the singleton waits for somebody, or the instance exists.

`Platform_proofs` proves the other five components and their composition.

- `ToolsHoldCorrect`, for any finite set of calls. Its three parts are inductive together with the
  type: `FilledConforms` says that arguments that were validated conform once defaults are filled
  in, which needs that no two parameters have one name; `UsingChanges` says how the number of calls
  in a stage changes, and the accounts of the sandbox follow it.
- `LLMAnswersCorrect`: `InOrder` says that the positions a call has asked ascend and that none with
  an adapter is left out below the last of them; so when the next position does not exist,
  everything was asked (`Exhausted`), and the call may fail.
- `GuardsHoldCorrect`: an entry of the log is `Fitting` when what is severe is stopped.
  `MoreIsStricter` is the monotonicity of the check in its rules. `StatsInv` relates counters and
  log: each counter covers what the log shows of it, and equals it until the log is trimmed;
  redactions have no counter and are what the other counters leave.
- `TextsHoldCorrect`: `ChunksCover` is the arithmetic of the splitter, that steps no longer than a
  chunk leave no character out; `AddIs` lifts it to the documents a text adds.
- `PromptsHoldCorrect`: `PromptInv` keeps the current number of a template among its versions while
  it has any, `OneVersionMore` and `NumberDropped` say how the two requests change the numbers.

The lemmas `PlatformImplements` and `PlatformCorrect` at its end are no results about the code: they say
that components which share no state may be checked one at a time, which is what `MCPlatform` does.

`Economy_proofs` proves `BooksBalanceCorrect`, `SalesAccountedCorrect` and `ShownStaysCorrect` for
any tenants, agents, plugins, prices and shares, and any number of requests that wait. A sum is a
recursive function; that one more row adds its value is proved once from its partial sums
(`SumOfRows`) and then said of each table (`UsedRows`, `SharesRows`, ...). `Sold` is what the
distribution of a sale does to shares and accounts, whatever is sold. The parts of `IInv`:

- `Balanced`: an account is what its tenant was granted, earned in shares and payouts, less its
  usage; the costs recorded never exceed what was spent.
- `Counted`: purchases, revenue and ratings of an agent are those of its rows. `Divided`: the
  entries of a sale are of its buyer, two or none, and add up to its amount less the part of an
  affiliate; `Recorded` keeps the numbers of sales apart.
- `Earned`: the shares of plugins are the revenue of plugins and what the requests that wait for
  their payment will book; `InstalledOK`, `FilesOK`, `Known` are the same for installations, files
  of executions, and agents whose runtime is being created. Without the requests that wait none of
  these is inductive, since the tables disagree between the two halves of a request.

`ShownStays` follows from what a step shows (`Visible`, `Grown`), proved next to the invariant.

`Observability_proofs` proves `NewestKeptCorrect`, `SpanTablesAgreeCorrect`, `TracesApartCorrect`
and `TotalsFollowEventsCorrect` for any size of the store, any tenants, agents, models, prices and events, and
any number of requests; the last one for prices and counts that are not below zero. A request
composes operations on one record, so the proof does: each
operation leaves the record `Sound` (typed, the newest traces stored and indexed, each with spans
of its own) and every trace it does not name the `Same`. It is `Proper` if it also leaves the
tables of spans agreeing and the sums `Tallied`. `ProperTrans`, `BeginsProper` and `BeginsTwice`
compose them, and `NextServes` finds that every request is either proper on one trace or begins new
ones and touches none. The copies of a replay are a recursive function; that it exists and that each
copy works on the new trace only follow from a least counterexample (`CopyingExists`,
`CopyingWorks`). Between a copy that is opened and the end of the replay the tables need not agree;
ending a trace restores it (`CloseTrace`), which is why an unfinished trace may be replayed.

`TotalsFollowEvents` is not inductive: it says nothing of the rows of traces that are gone, or of
the figures of each trace, of which the dashboards are the sum. `Tallied` adds that

- every trace is paid what its own rows come to and carries the risk of its own latest alert, and
  no row or alert names a trace that is yet to be made (or a new trace would start with a debt);
- the dashboards, which add up only what is stored, are at most what the cost records add up to;
- per type, the routed events are as many as the records they left.

Most operations book nothing (`CalmTallies`). A call of a model writes its row, its nested cost
record and the trace's totals (`CallTallies`); sums over selected rows take it from their partial
sums (`SumOfRows`, `RecordSums`, `EventSums`). A new trace may evict one, which lowers the
dashboards and no record (`NewTraceTallies`); this step needs `CountsAssumption`.

`Memory_proofs` proves `GoneStaysGoneCorrect`, `HistoryIsWholeCorrect` and
`EvictsLeastRecentCorrect` for any sessions, calls in flight and capacities. A step either leaves
the sessions alone (`OtherSteps`) or is one of the session's own, and an id that was given is not
given again (`SessionInv`).

- The lists: `HistInv` adds to `HistoryIsWhole` that no turn in a list is newer than the last one
  made, without which the next turn need not come last. `Shifted` says what one addition does to a
  bounded list, `TookTurn` what follows for its order, and `AddWhole` that the two lists of a session
  stay `Whole`. A batch and the pages of a history are recursive functions; that they exist and what
  they compute follows from a least counterexample (`AddingExists`, `AddingWhole`, `PagingExists`,
  `PagingWorks`). A page put in front of the last k makes the last k + 1 (`NextPage`); enough pages
  are the list (`PagesWhole`). An embedding that comes late numbers an entry by what its call
  carries, so the proof needs `CallInv`: a call that waits for the embedder carries turns.
- The semantic memory: `OldestShape` shows that the comparison of texts orders by seconds.
  `EvictsLeastRecent` reads off the list which entry went; where two answers are possible the
  entries are equal (`SameWithout`), and a read that stamps entries never looks like an eviction
  (`ReadsDoNotShift`).

`WorkflowEngine_proofs` proves the six invariants of the run `workflow_engine` for any finite set of
nodes, versions, strategies and retries, given that the order of `register_graph` puts sources
first (`OrderAssumption`). Each step is reduced to one of five kinds (`Proceeds`, `Advances`,
`Routes`, `Breaks`, `Completes`), which the invariant `ExecInv` survives:

- `EnteredInv`: the levels entered are closed under sources and hold whatever ran. Without it
  nothing says that a source that starves a node is behind the loop (`StarvedInv`).
- `MarkedNotEntered`: what a condition takes with it is ahead of the loop, because everything not
  entered is closed under edges. This needs `BranchesBelow`, a hypothesis of
  `SkippedNeverRunsCorrect` and `WaitingIsStarvedCorrect`: a branch names a node below its
  condition. `register_graph` does not check it; the graphs of the run satisfy it. With a branch
  above its condition both properties can fail, and the other four hold all the same.
- `MarkedCloses`: the least closed set leaves no node alive below dead branches only.
- `LevelsExhaust`: when no level is left every node has been entered; the first that was not, in
  topological order, would make a level.

`TypeOK` and `IInv` of `WorkflowService` and `AgentRuntime` and `EndedIsTerminal` are proved and no
longer run; the properties that rest on them still are.

Only model-checked: the liveness properties (fairness and ENABLED are out of the prover's reach).
Every invariant that a passing run checks has a theorem.

## Findings

Each is a violated claim of the source, shown by a run.

1. `workflow_half_open`: the comment in `CircuitBreaker.is_allowed` says one trial; a half-open
   breaker lets every call through.
2. `workflow_pause_race`: a pause that comes after a resume but before the waiting coroutine has
   run is missed, and a level starts under the status paused.
3. `workflow_engine_exhaustion`: exhausted retries in a parallel level do not reach the graph's
   breaker; the execution completes and resets it.
4. `agent_session_race`: two executions that create the session of an agent at the same time,
   with Redis, leave the turns of one in a session that is not read again.

Without a run, because no statement of the repository speaks against them; the models behave the
same way:

- `cancel_workflow` replaces the status of an execution that has ended, which `WorkflowLifecycle`
  therefore allows. A stream dropped before its `try` leaves its pause event in the table. A node
  without a registered handler is never timed out.
- The user in the session key of an agent is always empty. An execution whose reader goes away
  stays running.
- `get_session` installs what it read from Redis although the session was deleted meanwhile;
  `GoneStaysGone` is about sessions that no call is about any more. An update that was sent before
  a deletion may be applied after it.
- The default list of fallbacks (`config.py:87`) names `claude`, and the adapter is called
  `anthropic`: `chat_with_fallback` skips it. `chat` takes an unknown name for OpenAI.
- A timed-out process is not killed and its file not removed, in the sandbox and in the plugin
  runtime; nor is the file when the process cannot be started (`runtime.py:265`, 282). `server.py:121` speaks of an asynchronous execution; the server awaits the call.
- A custom rule of category `pii_leak` turns a blocked answer into a redacted one;
  `rule.action` and `policy.default_action` are never read.
- With Kafka, each subscription replaces the consumer that the loops of earlier ones have yet to
  read (`bus.py:216`); the synchronous constructor of the bus does not take the lock, so the bus it
  made can be replaced, with its subscribers (`bus.py:253`). They stay connected and get no event any
  more; `SentOnce` says that nobody else misses one.
- `gateway.py:443`, 493 and 552 write the tenant of a client into its connection, and the index by tenant
  of `ws_manager.py` is not told. A `broadcast_to_tenant` (`ws_manager.py:98`) would go to those who
  joined under the tenant, whatever they are by now, and not to those who became its clients; an entry
  looked for under the wrong tenant stays when its connection goes, and holds for the next one with its
  id. As all routes connect without a tenant, the index stays empty here.
- A login is charged to the tenant its header names, and its token, if any, is not looked at.
- A failover that is requested twice swaps the regions back; the index by region is not updated,
  so it lists tenants by the region they were created in.
- An invoice can be paid again; an installed plugin is paid for at every install; the share of an
  affiliate is booked for nobody.
- `RAG.ask` calls a method the LLM gateway does not have. A batch that fails in the middle leaves
  the texts before it. Chunks of one request share the dictionary in which a search notes how it
  found them.

## Not modelled

- *DAG visualizer, reasoning engine, pricing engine, embedding providers, tracing*: functions or
  export lists without state that anything reads back.
- *IAM*: tables from which nothing is taken away, so no order of requests matters. What a token
  says is an input of `Gateway`.
- *Legacy memory*: superseded by the memory engine.
- *Redis client*: `check_rate_limit` and `acquire_lock` read and write in separate awaits, but
  nothing calls them; the commands the memory store sends are in `Memory`.
- *Database layer, SDKs, frontends, deployment files, configuration*: I/O, views and settings.
- Within modelled components: HTTP routes, which hand requests on; what a Kafka server does;
  rounding of amounts and the scores of searches and detectors; log lines, prompt versions and
  span events of the observability platform, which are only appended to, and its PostgreSQL
  backend, which nothing writes to; registration and collaboration in the agent runtime; the
  sequential fallback, merge helpers and retention limit of the workflow engine.

## Plan

The plan this project began with is done; these would be next.

1. A property for the one hazard that has none: two subscriptions to Kafka that replace each
   other's consumer (`bus.py:216`). It needs a model of Kafka's consumer groups, which are outside
   the repository.
2. The HTTP routes of the gateway, where they do more than hand a request on, and the definition
   store of the workflow service.
