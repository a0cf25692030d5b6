-------------------------- MODULE WorkflowService --------------------------
(***************************************************************************)
(* agent_os/services/workflow_service/service.py: executions of one        *)
(* workflow, level by level over its DAG, with pause, resume and cancel    *)
(* from other requests, retries, compensation nodes, and one circuit       *)
(* breaker per node that all the executions share.                         *)
(*                                                                         *)
(* asyncio runs one coroutine at a time and switches only where an await   *)
(* suspends.  An action below is the code between two such points.  What   *)
(* may suspend: emit_event (the broker), a node handler, asyncio.sleep,    *)
(* Event.wait on a cleared event, gather, and every yield of the stream.   *)
(***************************************************************************)
EXTENDS Naturals

CONSTANTS
  Execs,       \* executions of the workflow that clients may start
  Streams,     \* those started by execute_workflow_stream
  Nodes,       \* the workflow's node ids
  Deps,        \* node -> the nodes of its depends_on
  Comp,        \* node -> compensation_node_id, or None
  None,        \* no compensation node
  Handled,     \* nodes whose type has a registered handler (it runs under wait_for)
  MaxRetries,  \* node.max_retries
  Threshold    \* CircuitBreaker.failure_threshold

ASSUME ConstantsAssumption ==
  /\ Streams \subseteq Execs
  /\ Handled \subseteq Nodes
  /\ None \notin Nodes
  /\ Deps \in [Nodes -> SUBSET Nodes]
  /\ Comp \in [Nodes -> Nodes \cup {None}]
  /\ MaxRetries \in Nat
  /\ Threshold \in Nat \ {0}

\* create_workflow sorts the nodes first and refuses a graph with a cycle:
\* every set of nodes has one that depends on no other of the set.
ASSUME AcyclicAssumption ==
  \A S \in SUBSET Nodes : S # {} => \E n \in S : Deps[n] \cap S = {}

VARIABLES
  status,    \* execution.status ("none": not created yet)
  gate,      \* the asyncio.Event in _pause_events: "set", "cleared" or "absent"
  pc,        \* where the coroutine of the execution is
  entered,   \* the nodes of the levels the loop has entered
  outputs,   \* the nodes whose result is in node_outputs
  task,      \* the state of _execute_node_with_cb for a node of an execution
  comped,    \* that call runs the compensation node in place of its own
  attempts,  \* its local variable attempts
  results,   \* execution.node_results[node]["status"]
  breaker,   \* CircuitBreaker.state of the node
  failures,  \* CircuitBreaker.failure_count
  cooled     \* breakers whose recovery_timeout has passed since last_failure_time

vars == <<status, gate, pc, entered, outputs, task, comped, attempts, results,
          breaker, failures, cooled>>

control  == <<status, gate, pc, entered, outputs>>
work     == <<task, comped, attempts, results>>
breakers == <<breaker, failures, cooled>>

----------------------------------------------------------------------------
Statuses == {"none", "running", "paused", "completed", "failed", "cancelled"}
Terminal == {"completed", "failed", "cancelled"}

\* idle: no coroutine; starting: before the try; top: at the head of the level loop;
\* blocked: in Event.wait; woken: its future is resolved; level: a level is running;
\* closing: status is final, the last event is being published; done: returned;
\* dropped: the stream's generator was closed or cancelled from outside.
Places == {"idle", "starting", "top", "blocked", "woken", "level", "closing", "done", "dropped"}

TaskStates == {"idle", "ready", "running", "backoff", "reportOk", "reportError",
               "returned", "raised", "killed"}

TypeOK ==
  /\ status   \in [Execs -> Statuses]
  /\ gate     \in [Execs -> {"set", "cleared", "absent"}]
  /\ pc       \in [Execs -> Places]
  /\ entered  \in [Execs -> SUBSET Nodes]
  /\ outputs  \in [Execs -> SUBSET Nodes]
  /\ task     \in [Execs -> [Nodes -> TaskStates]]
  /\ comped   \in [Execs -> [Nodes -> BOOLEAN]]
  /\ attempts \in [Execs -> [Nodes -> 0 .. MaxRetries]]
  /\ results  \in [Execs -> [Nodes -> {"none", "completed", "failed"}]]
  /\ breaker  \in [Nodes -> {"closed", "open", "half_open"}]
  /\ failures \in [Nodes -> Nat]
  /\ cooled   \subseteq Nodes

\* Executions that ended earlier have left each breaker closed or open.
Init ==
  /\ status   = [e \in Execs |-> "none"]
  /\ gate     = [e \in Execs |-> "absent"]
  /\ pc       = [e \in Execs |-> "idle"]
  /\ entered  = [e \in Execs |-> {}]
  /\ outputs  = [e \in Execs |-> {}]
  /\ task     = [e \in Execs |-> [n \in Nodes |-> "idle"]]
  /\ comped   = [e \in Execs |-> [n \in Nodes |-> FALSE]]
  /\ attempts = [e \in Execs |-> [n \in Nodes |-> 0]]
  /\ results  = [e \in Execs |-> [n \in Nodes |-> "none"]]
  /\ breaker  \in [Nodes -> {"closed", "open"}]
  /\ failures = [n \in Nodes |-> IF breaker[n] = "open" THEN Threshold ELSE 0]
  /\ cooled   = {}

----------------------------------------------------------------------------
(* The circuit breaker of a node.                                          *)

\* is_allowed(): only an open breaker whose recovery time is not over refuses.
Allowed(n) == breaker[n] = "open" => n \in cooled

\* What is_allowed() does to the state when it answers True.
Admitted(n) == IF breaker[n] = "open" THEN "half_open" ELSE breaker[n]

RecordFailure(n) ==
  /\ failures' = [failures EXCEPT ![n] = @ + 1]
  /\ breaker'  = [breaker EXCEPT ![n] = IF failures[n] + 1 >= Threshold THEN "open" ELSE @]
  /\ cooled'   = cooled \ {n}

\* Faulty variant: closes the breaker and keeps the old count.
RecordSuccessKeepsCount(n) ==
  /\ breaker' = [breaker EXCEPT ![n] = "closed"]
  /\ UNCHANGED <<failures, cooled>>

RecordSuccess(n) ==
  /\ failures' = [failures EXCEPT ![n] = 0]
  /\ breaker'  = [breaker EXCEPT ![n] = "closed"]
  /\ UNCHANGED cooled

\* The clock passes last_failure_time + recovery_timeout.
RecoveryTimePasses(n) ==
  /\ breaker[n] = "open" /\ n \notin cooled
  /\ cooled' = cooled \cup {n}
  /\ UNCHANGED <<control, work, breaker, failures>>

----------------------------------------------------------------------------
(* The level loop of execute_workflow and execute_workflow_stream.         *)

\* _group_by_level: the remaining nodes all of whose dependencies are in earlier levels.
NextLevel(e) == {n \in Nodes \ entered[e] : Deps[n] \subseteq entered[e]}

\* The level that is running.
Level(e) == entered[e] \ outputs[e]

\* The coroutine gets past `await self._pause_events[id].wait()`.  wait() does not look at
\* the event again once its future is resolved: a pause after the resume comes too late.
PassesGate(e) == (pc[e] = "top" /\ gate[e] = "set") \/ pc[e] = "woken"

Submit(e) ==
  /\ pc[e] = "idle"
  /\ status' = [status EXCEPT ![e] = "running"]
  /\ gate'   = [gate EXCEPT ![e] = "set"]
  /\ pc'     = [pc EXCEPT ![e] = "starting"]
  /\ UNCHANGED <<entered, outputs, work, breakers>>

\* WORKFLOW_STARTED is published; the sort and the levels are computed at once.
Launch(e) ==
  /\ pc[e] = "starting"
  /\ pc' = [pc EXCEPT ![e] = "top"]
  /\ UNCHANGED <<status, gate, entered, outputs, work, breakers>>

Block(e) ==
  /\ pc[e] = "top" /\ gate[e] = "cleared" /\ NextLevel(e) # {}
  /\ pc' = [pc EXCEPT ![e] = "blocked"]
  /\ UNCHANGED <<status, gate, entered, outputs, work, breakers>>

\* `except Exception`: the status becomes failed, whatever it was.
Raise(e) ==
  /\ status' = [status EXCEPT ![e] = "failed"]
  /\ pc'     = [pc EXCEPT ![e] = "closing"]

\* _execute_node starts: the attempts counter is its local variable.
Begin(e, n, compensates) ==
  /\ task'   = [task EXCEPT ![e][n] = "running"]
  /\ comped' = [comped EXCEPT ![e][n] = compensates]

\* Faulty variant: a refused node leaves no trace in node_results.
RefusedSilently(e, n) == results' = results

\* node_results[node] = FAILED, "Circuit breaker open".
Refused(e, n) == results' = [results EXCEPT ![e][n] = "failed"]

\* The head of _execute_node_with_cb for node n of a level: admit it, ...
Admit(e, n) ==
  /\ Allowed(n)
  /\ breaker' = [breaker EXCEPT ![n] = Admitted(n)]
  /\ Begin(e, n, FALSE)
  /\ pc' = [pc EXCEPT ![e] = "level"]
  /\ UNCHANGED <<results, status>>

\* ... run its compensation node in its place, ...
Compensate(e, n) ==
  /\ ~Allowed(n) /\ Comp[n] # None
  /\ Refused(e, n)
  /\ Begin(e, n, TRUE)
  /\ pc' = [pc EXCEPT ![e] = "level"]
  /\ UNCHANGED <<breaker, status>>

\* ... or raise.  gather keeps the exception of one node among several; a node that
\* is alone in its level is awaited directly, and its exception ends the loop.
Refuse(e, n, level) ==
  /\ ~Allowed(n) /\ Comp[n] = None
  /\ Refused(e, n)
  /\ task' = [task EXCEPT ![e][n] = "raised"]
  /\ UNCHANGED <<breaker, comped>>
  /\ IF level = {n} THEN Raise(e)
     ELSE pc' = [pc EXCEPT ![e] = "level"] /\ UNCHANGED status

Dispatch(e, n, level) ==
  /\ Admit(e, n) \/ Compensate(e, n) \/ Refuse(e, n, level)
  /\ UNCHANGED <<gate, outputs, attempts, failures, cooled>>

\* Faulty variant: the loop does not look at the status after the gate.
ProceedsAlways(e) == TRUE

Proceeds(e) == status[e] # "cancelled"

\* execute_workflow awaits the only node of a level in the same step.
EnterAlone(e) ==
  /\ PassesGate(e) /\ Proceeds(e) /\ e \notin Streams
  /\ \E n \in Nodes :
       /\ NextLevel(e) = {n}
       /\ entered' = [entered EXCEPT ![e] = @ \cup {n}]
       /\ Dispatch(e, n, {n})

\* With several nodes gather makes a task of each, which starts later; a stream is
\* suspended in its yields ("level_started", "node_executing") even before a single node.
EnterLevel(e) ==
  /\ PassesGate(e) /\ Proceeds(e)
  /\ NextLevel(e) # {}
  /\ e \in Streams \/ \A n \in Nodes : NextLevel(e) # {n}
  /\ entered' = [entered EXCEPT ![e] = @ \cup NextLevel(e)]
  /\ task'    = [task EXCEPT ![e] = [n \in Nodes |->
                   IF n \in NextLevel(e) THEN "ready" ELSE task[e][n]]]
  /\ pc'      = [pc EXCEPT ![e] = "level"]
  /\ UNCHANGED <<status, gate, outputs, comped, attempts, results, breakers>>

StartNode(e, n) ==
  /\ pc[e] = "level" /\ task[e][n] = "ready"
  /\ Dispatch(e, n, Level(e))
  /\ UNCHANGED entered

\* Faulty variant: the level ends with the first of its nodes.
LevelSettledByOne(e) == \E n \in Level(e) : task[e][n] \in {"returned", "raised"}

\* Faulty variant: a node whose call raised keeps its level waiting.
LevelReturned(e) == \A n \in Level(e) : task[e][n] = "returned"

LevelSettled(e) == \A n \in Level(e) : task[e][n] \in {"returned", "raised"}

LevelEnds(e) ==
  /\ pc[e] = "level" /\ LevelSettled(e)
  /\ outputs' = [outputs EXCEPT ![e] = entered[e]]
  /\ pc'      = [pc EXCEPT ![e] = "top"]
  /\ UNCHANGED <<status, gate, entered, work, breakers>>

\* `break`: cancelled when the loop looked.
Break(e) ==
  /\ PassesGate(e) /\ NextLevel(e) # {} /\ status[e] = "cancelled"
  /\ pc'   = [pc EXCEPT ![e] = "done"]
  /\ gate' = [gate EXCEPT ![e] = "absent"]
  /\ UNCHANGED <<status, entered, outputs, work, breakers>>

FinalStatus(e) == [status EXCEPT ![e] = IF @ = "cancelled" THEN @ ELSE "completed"]

\* The levels are exhausted; a cancelled execution has nothing to publish.
Finish(e) ==
  /\ pc[e] = "top" /\ NextLevel(e) = {}
  /\ status' = FinalStatus(e)
  /\ IF status[e] = "cancelled"
     THEN pc' = [pc EXCEPT ![e] = "done"] /\ gate' = [gate EXCEPT ![e] = "absent"]
     ELSE pc' = [pc EXCEPT ![e] = "closing"] /\ UNCHANGED gate
  /\ UNCHANGED <<entered, outputs, work, breakers>>

\* The last event is published; `finally` removes the pause event.
Close(e) ==
  /\ pc[e] = "closing"
  /\ pc'   = [pc EXCEPT ![e] = "done"]
  /\ gate' = [gate EXCEPT ![e] = "absent"]
  /\ UNCHANGED <<status, entered, outputs, work, breakers>>

----------------------------------------------------------------------------
(* One node: _execute_node and the end of _execute_node_with_cb.           *)

\* The node whose handler runs and whose entry in node_results is written.
Target(e, n) == IF comped[e][n] THEN Comp[n] ELSE n

\* cb.record_*: the compensation path returns before it.
Account(e, n, report) ==
  \/ comped[e][n] /\ UNCHANGED breakers
  \/ ~comped[e][n] /\ report = "reportOk" /\ RecordSuccess(n)
  \/ ~comped[e][n] /\ report = "reportError" /\ RecordFailure(n)

\* The call of _execute_node_with_cb is over and its locals are gone.
Return(e, n) ==
  /\ task'     = [task EXCEPT ![e][n] = "returned"]
  /\ comped'   = [comped EXCEPT ![e][n] = FALSE]
  /\ attempts' = [attempts EXCEPT ![e][n] = 0]

\* The handler returns.  A dict with an "error" key is stored as COMPLETED all the same
\* and only the breaker counts it as a failure.  NODE_EXECUTED is then published.
HandlerReturns(e, n) ==
  /\ task[e][n] = "running"
  /\ \E report \in {"reportOk", "reportError"} : task' = [task EXCEPT ![e][n] = report]
  /\ results' = [results EXCEPT ![e][Target(e, n)] = "completed"]
  /\ UNCHANGED <<control, comped, attempts, breakers>>

\* attempts + 1 <= max_retries
RetriesLeft(e, n) == attempts[e][n] < MaxRetries

\* Faulty variant: a failed attempt is stored as the node's result, before the retry.
NoteAttemptStored(e, n) == results' = [results EXCEPT ![e][Target(e, n)] = "failed"]

\* A failed attempt that is retried stays out of node_results.
NoteAttempt(e, n) == results' = results

Reattempt(e, n) ==
  /\ task[e][n] = "running" /\ RetriesLeft(e, n)
  /\ attempts' = [attempts EXCEPT ![e][n] = @ + 1]
  /\ NoteAttempt(e, n)
  /\ UNCHANGED <<control, comped, breakers>>

\* After a timeout the handler is called again at once.  The built-in executors run
\* without wait_for: only a registered handler times out.
RetryAfterTimeout(e, n) ==
  /\ Target(e, n) \in Handled
  /\ Reattempt(e, n)
  /\ UNCHANGED task

\* After an exception it is called again when a sleep is over.
RetryAfterError(e, n) ==
  /\ Reattempt(e, n)
  /\ task' = [task EXCEPT ![e][n] = "backoff"]

BackoffEnds(e, n) ==
  /\ task[e][n] = "backoff"
  /\ task' = [task EXCEPT ![e][n] = "running"]
  /\ UNCHANGED <<control, comped, attempts, results, breakers>>

\* The last attempt fails: the result is stored and {"error": ...} returned, not raised.
Exhaust(e, n) ==
  /\ task[e][n] = "running" /\ ~RetriesLeft(e, n)
  /\ results' = [results EXCEPT ![e][Target(e, n)] = "failed"]
  /\ Account(e, n, "reportError")
  /\ Return(e, n)
  /\ UNCHANGED control

NodeReturns(e, n) ==
  /\ task[e][n] \in {"reportOk", "reportError"}
  /\ Account(e, n, task[e][n])
  /\ Return(e, n)
  /\ UNCHANGED <<control, results>>

----------------------------------------------------------------------------
(* The other requests.                                                     *)

Pause(e) ==
  /\ status[e] = "running"
  /\ status' = [status EXCEPT ![e] = "paused"]
  /\ gate'   = [gate EXCEPT ![e] = IF @ = "absent" THEN @ ELSE "cleared"]
  /\ UNCHANGED <<pc, entered, outputs, work, breakers>>

\* Event.set() resolves the future of a waiting coroutine, which runs later.
OpenGate(e) ==
  /\ gate' = [gate EXCEPT ![e] = IF @ = "absent" THEN @ ELSE "set"]
  /\ pc'   = [pc EXCEPT ![e] = IF @ = "blocked" THEN "woken" ELSE @]

Resume(e) ==
  /\ status[e] = "paused"
  /\ status' = [status EXCEPT ![e] = "running"]
  /\ OpenGate(e)
  /\ UNCHANGED <<entered, outputs, work, breakers>>

\* Faulty variant: cancel does not unblock a paused execution.
CancelLeavesGate(e) ==
  /\ status[e] # "none"
  /\ status' = [status EXCEPT ![e] = "cancelled"]
  /\ UNCHANGED <<gate, pc, entered, outputs, work, breakers>>

\* No test of the status: any execution that exists can be cancelled.
Cancel(e) ==
  /\ status[e] # "none"
  /\ status' = [status EXCEPT ![e] = "cancelled"]
  /\ OpenGate(e)
  /\ UNCHANGED <<entered, outputs, work, breakers>>

\* Faulty variant: the tasks of a level outlive the stream they belong to.
KilledNone(e) == task

\* The tasks of an abandoned level get CancelledError, which no handler here catches.
Killed(e) == [task EXCEPT ![e] = [n \in Nodes |->
               IF task[e][n] \in {"idle", "returned", "raised"} THEN task[e][n] ELSE "killed"]]

\* The reader of a stream goes away: GeneratorExit or CancelledError at the suspension
\* point is no Exception, so no status is set; `finally` runs if the `try` was entered.
Disconnect(e) ==
  /\ e \in Streams /\ pc[e] \notin {"idle", "done", "dropped"}
  /\ pc'       = [pc EXCEPT ![e] = "dropped"]
  /\ gate'     = [gate EXCEPT ![e] = IF pc[e] = "starting" THEN @ ELSE "absent"]
  /\ task'     = Killed(e)
  /\ UNCHANGED <<status, entered, outputs, comped, attempts, results, breakers>>

----------------------------------------------------------------------------
Coordinate(e) ==
  \/ Launch(e) \/ Block(e) \/ EnterAlone(e) \/ EnterLevel(e) \/ LevelEnds(e)
  \/ Break(e) \/ Finish(e) \/ Close(e)

Step(e, n) ==
  \/ StartNode(e, n) \/ HandlerReturns(e, n) \/ RetryAfterTimeout(e, n)
  \/ RetryAfterError(e, n) \/ BackoffEnds(e, n) \/ Exhaust(e, n) \/ NodeReturns(e, n)

Request(e) == Submit(e) \/ Pause(e) \/ Resume(e) \/ Cancel(e) \/ Disconnect(e)

Next ==
  \/ \E e \in Execs : Coordinate(e) \/ Request(e)
  \/ \E e \in Execs, n \in Nodes : Step(e, n)
  \/ \E n \in Nodes : RecoveryTimePasses(n)

Spec == Init /\ [][Next]_vars

\* The event loop runs every ready coroutine, publishing and sleeping end, and a
\* registered handler ends within its timeout.  Nobody has to send a request, no clock
\* has to reach a recovery time, and a built-in executor may run for ever.
Fairness ==
  /\ \A e \in Execs : WF_vars(Coordinate(e))
  /\ \A e \in Execs, n \in Nodes :
       /\ WF_vars(StartNode(e, n) \/ BackoffEnds(e, n) \/ NodeReturns(e, n))
       /\ WF_vars(Target(e, n) \in Handled
                    /\ (HandlerReturns(e, n) \/ RetryAfterTimeout(e, n)
                          \/ RetryAfterError(e, n) \/ Exhaust(e, n)))

FairSpec == Spec /\ Fairness

----------------------------------------------------------------------------
(* Properties.                                                             *)

Live(e)  == pc[e] \notin {"idle", "done", "dropped"}
Ended(e) == pc[e] \in {"done", "dropped"}

\* A node runs only on the finished results of all its dependencies: their calls are
\* over and their outputs merged, although several levels and tasks are in flight.
DependenciesSettled ==
  \A e \in Execs, n \in Nodes :
    task[e][n] # "idle" =>
      \A d \in Deps[n] : d \in outputs[e] /\ task[e][d] \in {"returned", "raised"}

\* A coroutine waits at its gate only while its execution is paused: no order of pause,
\* resume, cancel and level ends strands it there under another status.
BlockedOnlyWhilePaused ==
  \A e \in Execs : pc[e] = "blocked" => status[e] = "paused" /\ gate[e] = "cleared"

\* An execution is reported completed only over a result for every node, whichever
\* breakers were open, retries exhausted or levels failed on the way.
CompletedMeansSettled ==
  \A e \in Execs : status[e] = "completed" => \A n \in Nodes : results[e][n] # "none"

\* The state and the counter of a breaker agree, although concurrent executions
\* admitted before it opened report to it afterwards.
BreakerAgreesWithCount ==
  \A n \in Nodes : breaker[n] = "closed" <=> failures[n] < Threshold

\* When the coroutine of an execution has returned, its status is final.
EndedIsTerminal == \A e \in Execs : pc[e] = "done" => status[e] \in Terminal

\* The result of a node that compensates for no other is written once: retries and late
\* reports of the same node never overwrite it.
ResultsWrittenOnce ==
  [][\A e \in Execs, n \in Nodes :
       results[e][n] # "none" /\ (\A m \in Nodes : Comp[m] # n)
         => results'[e][n] = results[e][n]]_vars

\* The service implements the life cycle its clients see, in which a cancelled execution
\* gets no result but those of the nodes it had begun with and of their compensations,
\* whatever gates, tasks, retries and breakers do after the request.
Abstract == INSTANCE WorkflowLifecycle WITH
  ended   <- [e \in Execs |-> Ended(e)],
  begun   <- entered,
  settled <- [e \in Execs |-> {n \in Nodes : results[e][n] # "none"}]

Lifecycle == Abstract!Spec

\* Cancelling ends the execution, paused or not, when every handler has a timeout.
CancelledEnds == \A e \in Execs : status[e] = "cancelled" ~> Ended(e)

\* An execution that nobody pauses ends: no level, retry or breaker blocks it.
UnpausedEnds == \A e \in Execs : Live(e) ~> (Ended(e) \/ status[e] = "paused")

----------------------------------------------------------------------------
(* The inductive invariant from which the safety properties follow.        *)

Active == {"ready", "running", "backoff", "reportOk", "reportError"}
Looping == {"starting", "top", "blocked", "woken", "level"}

\* The coroutine, the status and the pause event of an execution agree.
PlaceInv == \A e \in Execs :
  /\ pc[e] = "idle" <=> status[e] = "none"
  /\ pc[e] \in {"closing", "done"} => status[e] \in Terminal
  /\ pc[e] \in Looping => /\ status[e] \in {"running", "paused", "cancelled"}
                          /\ gate[e] # "absent"
                          /\ gate[e] = "cleared" => status[e] = "paused"
  /\ pc[e] = "blocked" => gate[e] = "cleared"

\* Levels are entered on merged outputs only, and only a running level has active calls.
LevelInv == \A e \in Execs :
  /\ outputs[e] \subseteq entered[e]
  /\ pc[e] \in {"idle", "starting", "top", "blocked", "woken"} => outputs[e] = entered[e]
  /\ \A n \in Nodes :
       /\ task[e][n] # "idle" <=> n \in entered[e]
       /\ n \in entered[e] => Deps[n] \subseteq outputs[e]
       /\ n \in outputs[e] => task[e][n] \in {"returned", "raised"}
       /\ task[e][n] \in Active => pc[e] = "level"
       /\ task[e][n] = "ready" => e \in Streams \/ Level(e) # {n}

\* A call that is over, or that compensates, has left a result under its own node.
ResultInv == \A e \in Execs, n \in Nodes :
  /\ task[e][n] \in {"reportOk", "reportError", "returned", "raised"} => results[e][n] # "none"
  /\ comped[e][n] => /\ Comp[n] # None /\ results[e][n] # "none"
                     /\ task[e][n] \notin {"idle", "ready"}

\* Until its call is over, a node that compensates for no other has no result.
FreshInv == \A e \in Execs, n \in Nodes :
  /\ task[e][n] \in {"idle", "ready", "running", "backoff"} /\ ~comped[e][n]
  /\ \A m \in Nodes : Comp[m] # n
  => results[e][n] = "none"

\* What every step preserves: the parts above with the type of the state.
IInv ==
  /\ TypeOK /\ PlaceInv /\ LevelInv /\ ResultInv /\ FreshInv
  /\ CompletedMeansSettled /\ BreakerAgreesWithCount

----------------------------------------------------------------------------
(* Claims of the source that the runs refute.                              *)

\* "HALF_OPEN: allow one trial": while the breaker is half open and its trial is still
\* in flight, is_allowed() lets no second call through.
OneTrial ==
  [][\A e \in Execs, n \in Nodes :
       breaker[n] = "half_open" => ~(task[e][n] \in {"idle", "ready"} /\ task'[e][n] = "running"
                                     /\ ~comped'[e][n])]_vars

\* "Check pause" before every level: no level is entered while the execution is paused.
NoLevelWhilePaused ==
  [][\A e \in Execs : status[e] = "paused" => entered'[e] = entered[e]]_vars
=============================================================================
