------------------------- MODULE WorkflowLifecycle -------------------------
(***************************************************************************)
(* What a client of the workflow service may rely on: the life of a        *)
(* WorkflowExecution as get_execution() and list_executions() show it,     *)
(* without levels, tasks, retries or circuit breakers.  WorkflowService    *)
(* is shown to implement it.                                               *)
(***************************************************************************)

CONSTANTS
  Execs,    \* the executions a client may ask for
  Nodes,    \* the nodes of the workflow they run
  Comp,     \* node -> the node that compensates for it, or None
  None,
  Streams   \* those consumed as a stream, whose reader may go away

VARIABLES
  status,   \* execution.status, "none" before the execution exists
  ended,    \* the coroutine that runs the execution has returned or died
  begun,    \* the nodes the execution has begun with
  settled   \* the nodes that have an entry in execution.node_results

vars == <<status, ended, begun, settled>>

Terminal == {"completed", "failed", "cancelled"}

Init ==
  /\ status  = [e \in Execs |-> "none"]
  /\ ended   = [e \in Execs |-> FALSE]
  /\ begun   = [e \in Execs |-> {}]
  /\ settled = [e \in Execs |-> {}]

Become(e, from, to) ==
  /\ status[e] \in from
  /\ status' = [status EXCEPT ![e] = to]

\* A result is that of a node begun with, or of one that compensates for it.
Settle(e, n) ==
  /\ ~ended[e]
  /\ n \in begun'[e] \/ \E m \in begun'[e] : Comp[m] = n
  /\ settled' = [settled EXCEPT ![e] = @ \cup {n}]

\* Once it is cancelled, or over, an execution begins with nothing more.
MayBegin(e) ==
  \/ UNCHANGED begun
  \/ /\ status[e] \in {"running", "paused"}
     /\ \E N \in SUBSET Nodes : begun' = [begun EXCEPT ![e] = @ \cup N]

Submit(e) == Become(e, {"none"}, "running") /\ UNCHANGED <<ended, begun, settled>>
Pause(e)  == Become(e, {"running"}, "paused") /\ UNCHANGED <<ended, begun, settled>>
Resume(e) == Become(e, {"paused"}, "running") /\ UNCHANGED <<ended, begun, settled>>

\* A request to cancel is honoured in every state, even after the end.
Cancel(e) ==
  Become(e, Terminal \cup {"running", "paused"}, "cancelled")
  /\ UNCHANGED <<ended, begun, settled>>

\* A level is begun with, results are written, or both.
Work(e) ==
  /\ MayBegin(e)
  /\ UNCHANGED settled \/ \E n \in Nodes : Settle(e, n)
  /\ UNCHANGED <<status, ended>>

\* Success is reported only over a complete set of node results.
Complete(e) ==
  /\ Become(e, {"running", "paused"}, "completed")
  /\ ~ended[e] /\ settled[e] = Nodes
  /\ UNCHANGED <<ended, begun, settled>>

\* Only a stream, which is suspended between the cancellation check and the
\* node it is about to run, can turn a cancelled execution into a failed one.
Fail(e) ==
  /\ \/ Become(e, {"running", "paused"}, "failed")
     \/ e \in Streams /\ Become(e, {"cancelled"}, "failed")
  /\ MayBegin(e) /\ \E n \in Nodes : Settle(e, n)
  /\ UNCHANGED ended

End(e) ==
  /\ ~ended[e] /\ status[e] \in Terminal
  /\ ended' = [ended EXCEPT ![e] = TRUE]
  /\ UNCHANGED <<status, begun, settled>>

\* The reader of a stream goes away: the execution keeps whatever status it had.
Abandon(e) ==
  /\ e \in Streams /\ ~ended[e] /\ status[e] # "none"
  /\ ended' = [ended EXCEPT ![e] = TRUE]
  /\ UNCHANGED <<status, begun, settled>>

Next ==
  \E e \in Execs :
    \/ Submit(e) \/ Pause(e) \/ Resume(e) \/ Cancel(e)
    \/ Work(e) \/ Complete(e) \/ Fail(e) \/ End(e) \/ Abandon(e)

Spec == Init /\ [][Next]_vars
=============================================================================
