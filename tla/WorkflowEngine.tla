--------------------------- MODULE WorkflowEngine ---------------------------
(***************************************************************************)
(* agent_os/core_platform/workflow_engine: executions of one DAG graph by  *)
(* WorkflowEngine.execute(), level by level, with condition nodes that     *)
(* skip branches, the strategies of ParallelExecutor for levels of several *)
(* nodes, retries, and a circuit breaker of the graph.                     *)
(*                                                                         *)
(* One action is the code between two awaits that suspend, cut once more   *)
(* at the head of each level.  Executions meet only in the breaker.        *)
(***************************************************************************)
EXTENDS Naturals, FiniteSets

CONSTANTS
  Execs,        \* calls of execute() for the graph
  Nodes,        \* the node ids of all its versions
  Versions,     \* call -> the versions of the graph it may fetch
  Branches,     \* node -> what a condition node may skip; {} for any other node
  None,         \* nothing is skipped: a rule matched, or the branch has no name
  Rank,         \* node -> its place in the topological order
  MaxRetries,   \* node -> max_retries
  Concurrency,  \* parallel_max_concurrency
  Threshold     \* circuit_breaker_threshold

Strategies == {"all", "map", "batch", "race", "any"}

\* What register_graph stores: nodes, enabled edges <<source, target>> and the
\* parallel_strategy of each node.  It may replace the graph while executions run, which
\* keep the version they have fetched.
IsGraph(g) ==
  /\ g.nodes \subseteq Nodes
  /\ g.edges \subseteq g.nodes \X g.nodes
  /\ g.strategy \in [Nodes -> Strategies]

ASSUME ConstantsAssumption ==
  /\ IsFiniteSet(Nodes)
  /\ None \notin Nodes
  /\ Branches \in [Nodes -> SUBSET (Nodes \cup {None})]
  /\ Rank \in [Nodes -> Nat]
  /\ \A m, n \in Nodes : Rank[m] = Rank[n] => m = n
  /\ \A e \in Execs : \A g \in Versions[e] : IsGraph(g)
  /\ MaxRetries \in [Nodes -> Nat]
  /\ Concurrency \in Nat \ {0}
  /\ Threshold \in Nat \ {0}

\* register_graph sorts the nodes; the order puts the source of an edge before its target.
ASSUME OrderAssumption ==
  \A e \in Execs : \A g \in Versions[e] : \A m, n \in Nodes :
    <<m, n>> \in g.edges => Rank[m] < Rank[n]

VARIABLES
  status,    \* ctx.status ("none": not called yet)
  graph,     \* the version of the graph that the call has fetched
  pc,        \* where execute() is: "idle", "top" of the loop, in a "group", "done"
  entered,   \* the nodes of the levels the loop has reached
  skipped,   \* ctx.skipped_nodes
  waiting,   \* the nodes whose ctx.node_statuses is WAITING
  results,   \* ctx.node_results[node]["status"]
  group,     \* the nodes whose calls the loop awaits
  mode,      \* how it awaits them: "single", or the strategy of a parallel group
  task,      \* the state of _execute_node_with_retry for a node
  attempts,  \* its local variable attempts: the calls of the handler that failed
  circuit,   \* the state of the graph's breaker
  failures,  \* its failure count
  cooled     \* its timeout has passed since opened_at

vars == <<status, graph, pc, entered, skipped, waiting, results, group, mode, task,
          attempts, circuit, failures, cooled>>

breaker == <<circuit, failures, cooled>>
routing == <<graph, skipped, waiting>>
calls   == <<group, mode, task, attempts>>

----------------------------------------------------------------------------
TaskStates == {"idle", "ready", "running", "backoff", "value", "errorText", "raised", "killed"}
Over == {"value", "errorText", "raised"}

TypeOK ==
  /\ status   \in [Execs -> {"none", "running", "completed", "failed"}]
  /\ DOMAIN graph = Execs /\ \A e \in Execs : graph[e] \in Versions[e]
  /\ pc       \in [Execs -> {"idle", "top", "group", "done"}]
  /\ entered  \in [Execs -> SUBSET Nodes]
  /\ skipped  \in [Execs -> SUBSET Nodes]
  /\ waiting  \in [Execs -> SUBSET Nodes]
  /\ results  \in [Execs -> [Nodes -> {"none", "completed", "failed"}]]
  /\ group    \in [Execs -> SUBSET Nodes]
  /\ mode     \in [Execs -> Strategies \cup {"single"}]
  /\ task     \in [Execs -> [Nodes -> TaskStates]]
  /\ attempts \in [Execs -> [Nodes -> Nat]]
  /\ \A e \in Execs, n \in Nodes : attempts[e][n] <= MaxRetries[n] + 1
  /\ circuit  \in {"closed", "open", "half_open"}
  /\ failures \in Nat
  /\ cooled   \in BOOLEAN

Init ==
  /\ status   = [e \in Execs |-> "none"]
  /\ graph    \in {g \in [Execs -> UNION {Versions[e] : e \in Execs}] :
                   \A e \in Execs : g[e] \in Versions[e]}
  /\ pc       = [e \in Execs |-> "idle"]
  /\ entered  = [e \in Execs |-> {}]
  /\ skipped  = [e \in Execs |-> {}]
  /\ waiting  = [e \in Execs |-> {}]
  /\ results  = [e \in Execs |-> [n \in Nodes |-> "none"]]
  /\ group    = [e \in Execs |-> {}]
  /\ mode     = [e \in Execs |-> "single"]
  /\ task     = [e \in Execs |-> [n \in Nodes |-> "idle"]]
  /\ attempts = [e \in Execs |-> [n \in Nodes |-> 0]]
  /\ circuit = "closed" /\ failures = 0 /\ cooled = FALSE

----------------------------------------------------------------------------
(* The breaker of the graph.                                               *)

\* _check_circuit_breaker
Allowed == circuit = "open" => cooled

RecordFailure ==
  /\ failures' = failures + 1
  /\ circuit'  = IF failures + 1 >= Threshold THEN "open" ELSE circuit
  /\ cooled'   = IF failures + 1 >= Threshold THEN FALSE ELSE cooled

\* Faulty variant: closes the breaker and keeps the old count.
ResetKeepsCount == circuit' = "closed" /\ cooled' = FALSE /\ UNCHANGED failures

Reset == circuit' = "closed" /\ failures' = 0 /\ cooled' = FALSE

TimeoutPasses ==
  /\ circuit = "open" /\ ~cooled
  /\ cooled' = TRUE
  /\ UNCHANGED <<status, pc, entered, results, routing, calls, circuit, failures>>

----------------------------------------------------------------------------
(* The level loop.                                                         *)

Members(e) == graph[e].nodes

Sources(e, n) == {d \in Nodes : <<d, n>> \in graph[e].edges}

\* ctx.is_node_done
Done(e, n) == results[e][n] # "none" \/ n \in skipped[e]

\* Faulty variant: one level holds all the nodes.
NextLevelFlat(e) == Members(e) \ entered[e]

\* graph.get_levels()
NextLevel(e) == {n \in Members(e) \ entered[e] : Sources(e, n) \subseteq entered[e]}

\* Faulty variant: skipped nodes stay in their levels.
ActiveWithSkipped(e) == NextLevel(e)

Active(e) == NextLevel(e) \ skipped[e]

\* Faulty variant: nodes run whether or not their sources are done.
ReadyAtOnce(e) == Active(e)

Ready(e) == {n \in Active(e) : \A d \in Sources(e, n) : Done(e, d)}

\* Faulty variant: nodes that are not ready leave no mark.
DropsUnready(e) == UNCHANGED waiting

\* node_statuses of the active nodes that are not ready; they are never tried again.
Postpone(e) == waiting' = [waiting EXCEPT ![e] = @ \cup (Active(e) \ Ready(e))]

Enter(e) == entered' = [entered EXCEPT ![e] = @ \cup NextLevel(e)]

\* The breaker lets the call pass, half open when its timeout is over.
Start(e) ==
  /\ pc[e] = "idle" /\ Allowed
  /\ circuit' = IF circuit = "open" THEN "half_open" ELSE circuit
  /\ status'  = [status EXCEPT ![e] = "running"]
  /\ pc'      = [pc EXCEPT ![e] = "top"]
  /\ UNCHANGED <<entered, results, routing, calls, failures, cooled>>

Reject(e) ==
  /\ pc[e] = "idle" /\ ~Allowed
  /\ status' = [status EXCEPT ![e] = "failed"]
  /\ pc'     = [pc EXCEPT ![e] = "done"]
  /\ UNCHANGED <<entered, results, routing, calls, breaker>>

\* `except Exception` of execute().
Fail(e) ==
  /\ status' = [status EXCEPT ![e] = "failed"]
  /\ pc'     = [pc EXCEPT ![e] = "done"]
  /\ RecordFailure

\* Every node of the level is skipped.
PassLevel(e) ==
  /\ pc[e] = "top" /\ NextLevel(e) # {} /\ Active(e) = {}
  /\ Enter(e)
  /\ UNCHANGED <<status, pc, results, routing, calls, breaker>>

\* The level has one active node, and a source of it has no result.
WaitAlone(e) ==
  /\ pc[e] = "top"
  /\ \E n \in Nodes : Active(e) = {n}
  /\ Ready(e) = {}
  /\ Enter(e)
  /\ Postpone(e)
  /\ UNCHANGED <<status, pc, results, graph, skipped, calls, breaker>>

\* _mark_downstream_skipped follows the edges of what it marks to every node all of
\* whose incoming edges come from skipped nodes: it marks the least set closed so.
Closed(e, marked) ==
  \A n \in Members(e) :
    /\ Sources(e, n) \cap marked # {}
    /\ Sources(e, n) \subseteq skipped[e] \cup marked
    => n \in skipped[e] \cup marked

Marked(e, branch) ==
  {n \in Members(e) \cup {branch} : \A marked \in SUBSET (Members(e) \cup {branch}) :
     branch \in marked /\ Closed(e, marked) => n \in marked}

\* Faulty variant: the nodes after the skipped branch are left alone.
SkipsBranchOnly(e, branch) == IF branch = None THEN skipped[e] ELSE skipped[e] \cup {branch}

Skips(e, branch) == IF branch = None THEN skipped[e] ELSE skipped[e] \cup Marked(e, branch)

\* A condition node that is alone and ready is evaluated at once: one branch is skipped,
\* or none.
Route(e) ==
  /\ pc[e] = "top"
  /\ \E n \in Nodes :
       /\ Active(e) = {n} /\ Ready(e) = {n} /\ Branches[n] # {}
       /\ \E branch \in Branches[n] : skipped' = [skipped EXCEPT ![e] = Skips(e, branch)]
       /\ results' = [results EXCEPT ![e][n] = "completed"]
  /\ Enter(e)
  /\ UNCHANGED <<status, pc, graph, waiting, calls, breaker>>

\* A rule whose operator raises (a pattern that does not compile) fails the execution.
RouteRaises(e) ==
  /\ pc[e] = "top"
  /\ \E n \in Nodes : Active(e) = {n} /\ Ready(e) = {n} /\ Branches[n] # {}
  /\ Enter(e)
  /\ Fail(e)
  /\ UNCHANGED <<results, routing, calls>>

\* Any other node that is alone is awaited directly.
RunAlone(e) ==
  /\ pc[e] = "top"
  /\ \E n \in Nodes :
       /\ Active(e) = {n} /\ Ready(e) = {n} /\ Branches[n] = {}
       /\ group' = [group EXCEPT ![e] = {n}]
       /\ task'  = [task EXCEPT ![e][n] = "running"]
  /\ mode' = [mode EXCEPT ![e] = "single"]
  /\ pc'   = [pc EXCEPT ![e] = "group"]
  /\ Enter(e)
  /\ UNCHANGED <<status, results, routing, attempts, breaker>>

First(S) == CHOOSE n \in S : \A m \in S : Rank[n] <= Rank[m]

\* Several active nodes: those that are ready go to the executor, conditions included,
\* under the strategy of the first of them.
RunGroup(e) ==
  /\ pc[e] = "top"
  /\ \A n \in Nodes : Active(e) # {n}
  /\ Active(e) # {}
  /\ Enter(e)
  /\ Postpone(e)
  /\ IF Ready(e) = {}
     THEN UNCHANGED <<pc, calls>>
     ELSE /\ pc'    = [pc EXCEPT ![e] = "group"]
          /\ group' = [group EXCEPT ![e] = Ready(e)]
          /\ mode'  = [mode EXCEPT ![e] = graph[e].strategy[First(Ready(e))]]
          /\ task'  = [task EXCEPT ![e] = [n \in Nodes |->
                         IF n \in Ready(e) THEN "ready" ELSE task[e][n]]]
          /\ UNCHANGED attempts
  /\ UNCHANGED <<status, results, graph, skipped, breaker>>

Finish(e) ==
  /\ pc[e] = "top" /\ NextLevel(e) = {}
  /\ status' = [status EXCEPT ![e] = "completed"]
  /\ pc'     = [pc EXCEPT ![e] = "done"]
  /\ Reset
  /\ UNCHANGED <<entered, results, routing, calls>>

----------------------------------------------------------------------------
(* One call: _execute_node_with_retry, under wait_for for every handler.   *)

\* The semaphore of _execute_batch.
Slot(e) == mode[e] = "batch" =>
  Cardinality({n \in group[e] : task[e][n] \in {"running", "backoff"}}) < Concurrency

BeginNode(e, n) ==
  /\ task[e][n] = "ready" /\ Slot(e)
  /\ task' = [task EXCEPT ![e][n] = "running"]
  /\ UNCHANGED <<status, pc, entered, results, routing, group, mode, attempts, breaker>>

\* The text of the returned value may contain "error".
HandlerReturns(e, n) ==
  /\ task[e][n] = "running"
  /\ \E value \in {"value", "errorText"} : task' = [task EXCEPT ![e][n] = value]
  /\ UNCHANGED <<status, pc, entered, results, routing, group, mode, attempts, breaker>>

RetriesLeft(e, n) == attempts[e][n] < MaxRetries[n]

FailedCall(e, n) == attempts' = [attempts EXCEPT ![e][n] = @ + 1]

\* A timeout is retried at once, an exception after a sleep.
Retry(e, n) ==
  /\ task[e][n] = "running" /\ RetriesLeft(e, n)
  /\ FailedCall(e, n)
  /\ \E next \in {"running", "backoff"} : task' = [task EXCEPT ![e][n] = next]
  /\ UNCHANGED <<status, pc, entered, results, routing, group, mode, breaker>>

BackoffEnds(e, n) ==
  /\ task[e][n] = "backoff"
  /\ task' = [task EXCEPT ![e][n] = "running"]
  /\ UNCHANGED <<status, pc, entered, results, routing, group, mode, attempts, breaker>>

Exhaust(e, n) ==
  /\ task[e][n] = "running" /\ ~RetriesLeft(e, n)
  /\ FailedCall(e, n)
  /\ task' = [task EXCEPT ![e][n] = "raised"]
  /\ UNCHANGED <<status, pc, entered, results, routing, group, mode, breaker>>

----------------------------------------------------------------------------
(* The loop collects the calls it awaits.                                  *)

\* The loop goes on without the group; the calls that are not over are cancelled.
Leave(e) ==
  /\ pc'    = [pc EXCEPT ![e] = "top"]
  /\ group' = [group EXCEPT ![e] = {}]
  /\ task'  = [task EXCEPT ![e] = [n \in Nodes |->
                 IF n \in group[e] /\ task[e][n] \notin Over THEN "killed" ELSE task[e][n]]]
  /\ UNCHANGED <<status, entered, routing, mode, attempts, breaker>>

CollectAlone(e) ==
  /\ pc[e] = "group" /\ mode[e] = "single"
  /\ \E n \in group[e] :
       /\ task[e][n] \in {"value", "errorText"}
       /\ results' = [results EXCEPT ![e][n] =
                        IF task[e][n] = "value" THEN "completed" ELSE "failed"]
  /\ Leave(e)

\* The exception of a single node is the exception of the execution.
RaiseAlone(e) ==
  /\ pc[e] = "group" /\ mode[e] = "single"
  /\ \E n \in group[e] : task[e][n] = "raised"
  /\ Fail(e)
  /\ group' = [group EXCEPT ![e] = {}]
  /\ UNCHANGED <<entered, results, routing, mode, task, attempts>>

\* Faulty variant: a call that raised keeps its group waiting.
AllReturned(e) == \A n \in group[e] : task[e][n] \in {"value", "errorText"}

AllOver(e) == \A n \in group[e] : task[e][n] \in Over

\* all, map and batch: an exception becomes the FAILED result of its node.
CollectAll(e) ==
  /\ pc[e] = "group" /\ mode[e] \in {"all", "map", "batch"} /\ AllOver(e)
  /\ results' = [results EXCEPT ![e] = [n \in Nodes |->
                   IF n \notin group[e] THEN results[e][n]
                   ELSE IF task[e][n] = "raised" THEN "failed" ELSE "completed"]]
  /\ Leave(e)

\* race: the first call that is over decides, even by an exception.  Its result goes to
\* the key "winner", which is no node.
CollectRace(e) ==
  /\ pc[e] = "group" /\ mode[e] = "race"
  /\ \E n \in group[e] : task[e][n] \in Over
  /\ UNCHANGED results
  /\ Leave(e)

\* any: only the first node that returned gets a result.
CollectAny(e) ==
  /\ pc[e] = "group" /\ mode[e] = "any"
  /\ LET returned == {n \in group[e] : task[e][n] \in {"value", "errorText"}}
     IN  /\ returned # {}
         /\ results' = [results EXCEPT ![e][First(returned)] = "completed"]
  /\ Leave(e)

\* any, and every call raised: nobody gets a result.
CollectNone(e) ==
  /\ pc[e] = "group" /\ mode[e] = "any"
  /\ \A n \in group[e] : task[e][n] = "raised"
  /\ UNCHANGED results
  /\ Leave(e)

----------------------------------------------------------------------------
Loop(e) ==
  \/ PassLevel(e) \/ WaitAlone(e) \/ Route(e) \/ RouteRaises(e) \/ RunAlone(e) \/ RunGroup(e)
  \/ Finish(e)

Collect(e) ==
  \/ CollectAlone(e) \/ RaiseAlone(e) \/ CollectAll(e) \/ CollectRace(e) \/ CollectAny(e)
  \/ CollectNone(e)

Call(e, n) ==
  \/ BeginNode(e, n) \/ HandlerReturns(e, n) \/ Retry(e, n) \/ BackoffEnds(e, n) \/ Exhaust(e, n)

Next ==
  \/ \E e \in Execs : Start(e) \/ Reject(e) \/ Loop(e) \/ Collect(e)
  \/ \E e \in Execs, n \in Nodes : Call(e, n)
  \/ TimeoutPasses

Spec == Init /\ [][Next]_vars

\* The event loop runs some coroutine of an execution while one is ready, and every call
\* ends within its timeout.
FairSpec ==
  /\ Spec
  /\ \A e \in Execs : WF_vars(Loop(e) \/ Collect(e) \/ \E n \in Nodes : Call(e, n))

----------------------------------------------------------------------------
(* Properties.                                                             *)

\* A node runs only when each of its sources has a result or is skipped, although race
\* and any leave nodes of earlier levels without a result.
RunsOnDoneSources ==
  \A e \in Execs, n \in Nodes :
    task[e][n] # "idle" => \A d \in Sources(e, n) : Done(e, d)

\* The branch a condition did not choose never runs and gets no result, when branches
\* name nodes below their condition.
SkippedNeverRuns ==
  \A e \in Execs : \A n \in skipped[e] : task[e][n] = "idle" /\ results[e][n] = "none"

\* No node below dead branches only stays alive, whichever conditions killed them.
DeadBranchesSkipped ==
  \A e \in Execs, n \in Nodes :
    Sources(e, n) # {} /\ Sources(e, n) \subseteq skipped[e] => n \in skipped[e]

\* A node left WAITING misses nothing: a source of it never gets a result later, so the
\* engine may forget it.
WaitingIsStarved ==
  \A e \in Execs : \A n \in waiting[e] : \E d \in Sources(e, n) : ~Done(e, d)

\* A completed execution accounts for every node: it has a result, is skipped, waits, or
\* lost a race or an any.
NoNodeForgotten ==
  \A e \in Execs : status[e] = "completed" =>
    \A n \in Members(e) : Done(e, n) \/ n \in waiting[e] \/ task[e][n] # "idle"

\* The state and the counter of the breaker agree, whatever executions report late.
BreakerAgrees == circuit = "closed" <=> failures < Threshold

\* Every started execution ends: no strategy waits for a call that was cancelled, raised
\* or queued behind the semaphore.
ExecutionsEnd == \A e \in Execs : status[e] = "running" ~> pc[e] = "done"

----------------------------------------------------------------------------
(* A claim of the source that a run refutes.                               *)

\* "Retries exhausted - propagate failure to trigger circuit breaker": an execution in
\* which a node has exhausted its retries counts as a failure when it ends.
ExhaustionCounts ==
  [][\A e \in Execs :
       /\ pc[e] # "done" /\ pc'[e] = "done"
       /\ \E n \in Nodes : task[e][n] = "raised"
       => failures' = failures + 1]_vars
=============================================================================
