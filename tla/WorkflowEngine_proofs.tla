------------------------- MODULE WorkflowEngine_proofs -------------------------
(***************************************************************************)
(* Proofs about WorkflowEngine, for any graphs, strategies and retries and *)
(* any number of executions.                                               *)
(***************************************************************************)
EXTENDS WorkflowEngine, WellFoundedInduction, TLAPS

\* Some node of a set comes first in the topological order.
LEMMA FirstExists ==
  ASSUME NEW S \in SUBSET Nodes, S # {}
  PROVE  \E n \in S : \A m \in S : Rank[n] <= Rank[m]
<1> DEFINE ranks == {Rank[n] : n \in S}
<1>1. ranks \subseteq Nat /\ ranks # {}
  BY ConstantsAssumption
<1>2. PICK x \in ranks : \A y \in ranks : ~ (<<y, x>> \in OpToRel(<, Nat))
  BY <1>1, NatLessThanWellFounded, WFMin
<1>3. \A y \in ranks : ~ (y < x)
  BY <1>1, <1>2 DEF OpToRel
<1>4. PICK n \in S : x = Rank[n]
  OBVIOUS
<1>5. ASSUME NEW m \in S PROVE Rank[n] <= Rank[m]
  <2>1. Rank[m] \in ranks /\ Rank[m] \in Nat /\ x \in Nat
    BY <1>1
  <2> HIDE DEF ranks
  <2>2. ~ (Rank[m] < x)
    BY <1>3, <2>1
  <2> QED
    BY <1>4, <2>1, <2>2
<1> QED
  BY <1>5

----------------------------------------------------------------------------
(* The invariant, for each execution. *)

Shape ==
  /\ DOMAIN graph = Execs /\ \A e \in Execs : graph[e] \in Versions[e]
  /\ status  \in [Execs -> {"none", "running", "completed", "failed"}]
  /\ pc      \in [Execs -> {"idle", "top", "group", "done"}]
  /\ entered \in [Execs -> SUBSET Nodes]
  /\ skipped \in [Execs -> SUBSET Nodes]
  /\ waiting \in [Execs -> SUBSET Nodes]
  /\ results \in [Execs -> [Nodes -> {"none", "completed", "failed"}]]
  /\ group   \in [Execs -> SUBSET Nodes]
  /\ task    \in [Execs -> [Nodes -> TaskStates]]

Called(e, n) == task[e][n] # "idle"

\* What was entered is closed under sources, and holds whatever ran or has a result.
EnteredInv(e) ==
  /\ \A n \in entered[e] : Sources(e, n) \subseteq entered[e]
  /\ \A n \in Nodes : Called(e, n) \/ results[e][n] # "none" => n \in entered[e]

\* The loop awaits nothing outside a group.
GroupInv(e) ==
  /\ pc[e] # "group" => group[e] = {}
  /\ \A n \in group[e] : Called(e, n)

RunInv(e) == \A n \in Nodes : Called(e, n) => \A d \in Sources(e, n) : Done(e, d)

DeadInv(e) ==
  \A n \in Nodes : Sources(e, n) # {} /\ Sources(e, n) \subseteq skipped[e] => n \in skipped[e]

\* Until an execution fails it accounts for the nodes of the levels it has entered.
AccountInv(e) ==
  /\ status[e] # "failed" =>
       \A n \in entered[e] : Done(e, n) \/ n \in waiting[e] \/ Called(e, n)
  /\ status[e] = "completed" => Members(e) \subseteq entered[e]
  /\ pc[e] = "idle" => status[e] = "none"
  /\ pc[e] \in {"top", "group"} => status[e] = "running"

\* Branches name nodes below their condition: a set that holds the condition and, with a
\* node, the targets of its edges holds the branch.
BranchesBelow ==
  \A e \in Execs : \A g \in Versions[e] : \A c \in g.nodes : \A branch \in Branches[c] \ {None} :
    /\ branch # c
    /\ \A S \in SUBSET Nodes :
         c \in S /\ (\A m, n \in Nodes : m \in S /\ <<m, n>> \in g.edges => n \in S)
           => branch \in S

SkippedInv(e) == \A n \in skipped[e] : ~ Called(e, n) /\ results[e][n] = "none"

\* A source that starves a waiting node is behind the loop.
StarvedInv(e) ==
  \A n \in waiting[e] : \E d \in Sources(e, n) : d \in entered[e] \ group[e] /\ ~ Done(e, d)

ExecInv(e) ==
  /\ EnteredInv(e) /\ GroupInv(e) /\ RunInv(e) /\ DeadInv(e) /\ AccountInv(e)
  /\ BranchesBelow => SkippedInv(e) /\ StarvedInv(e)

EngineInv == Shape /\ \A e \in Execs : ExecInv(e)

----------------------------------------------------------------------------
(* What a step does to an execution. *)

RestsAt(x) ==
  /\ graph'[x] = graph[x] /\ status'[x] = status[x] /\ pc'[x] = pc[x]
  /\ entered'[x] = entered[x] /\ skipped'[x] = skipped[x] /\ waiting'[x] = waiting[x]
  /\ results'[x] = results[x] /\ group'[x] = group[x] /\ task'[x] = task[x]

OthersRest(e) == \A x \in Execs \ {e} : RestsAt(x)

\* A call, the breaker, or the end of a group.
Proceeds(e) ==
  /\ graph'[e] = graph[e] /\ entered'[e] = entered[e]
  /\ skipped'[e] = skipped[e] /\ waiting'[e] = waiting[e]
  /\ \A n \in Nodes : task'[e][n] = "idle" <=> task[e][n] = "idle"
  /\ group'[e] \subseteq group[e]
  /\ pc'[e] # "group" => group'[e] = {}
  /\ \A n \in Nodes : \/ results'[e][n] = results[e][n]
                      \/ n \in group[e] /\ results'[e][n] # "none"
  /\ status'[e] = "completed" => status[e] = "completed"
  /\ status'[e] # "failed" => status[e] # "failed"
  /\ pc'[e] = "idle" => pc[e] = "idle" /\ status'[e] = status[e]
  /\ pc'[e] \in {"top", "group"} => status'[e] = "running"

\* A level is entered: what is ready is called, the rest waits.
Advances(e) ==
  /\ pc[e] = "top"
  /\ graph'[e] = graph[e] /\ status'[e] = status[e]
  /\ entered'[e] = entered[e] \cup NextLevel(e)
  /\ skipped'[e] = skipped[e] /\ results'[e] = results[e]
  /\ waiting'[e] = waiting[e] \cup (Active(e) \ Ready(e))
  /\ group'[e] = Ready(e)
  /\ pc'[e] # "idle" /\ (pc'[e] # "group" => group'[e] = {})
  /\ \A n \in Nodes : task'[e][n] = "idle" <=> task[e][n] = "idle" /\ n \notin Ready(e)

\* A condition is evaluated.
Routes(e) ==
  /\ pc[e] = "top"
  /\ graph'[e] = graph[e] /\ status'[e] = status[e] /\ pc'[e] = pc[e]
  /\ entered'[e] = entered[e] \cup NextLevel(e)
  /\ waiting'[e] = waiting[e] /\ group'[e] = group[e] /\ task'[e] = task[e]
  /\ \E c \in Nodes :
       /\ Active(e) = {c} /\ Branches[c] # {}
       /\ \E branch \in Branches[c] : skipped'[e] = Skips(e, branch)
       /\ results'[e][c] = "completed"
       /\ \A n \in Nodes : n # c => results'[e][n] = results[e][n]

\* A condition raises.
Breaks(e) ==
  /\ pc[e] = "top" /\ pc'[e] = "done" /\ status'[e] = "failed"
  /\ graph'[e] = graph[e] /\ entered'[e] = entered[e] \cup NextLevel(e)
  /\ skipped'[e] = skipped[e] /\ waiting'[e] = waiting[e] /\ results'[e] = results[e]
  /\ group'[e] = group[e] /\ task'[e] = task[e]

\* No level is left.
Completes(e) ==
  /\ pc[e] = "top" /\ pc'[e] = "done" /\ status'[e] = "completed"
  /\ NextLevel(e) = {}
  /\ graph'[e] = graph[e] /\ entered'[e] = entered[e] /\ skipped'[e] = skipped[e]
  /\ waiting'[e] = waiting[e] /\ results'[e] = results[e]
  /\ group'[e] = group[e] /\ task'[e] = task[e]

Steps(e) ==
  /\ Shape' /\ OthersRest(e)
  /\ Proceeds(e) \/ Advances(e) \/ Routes(e) \/ Breaks(e) \/ Completes(e)

LEMMA LevelType ==
  ASSUME Shape, NEW e \in Execs
  PROVE  /\ Members(e) \subseteq Nodes /\ NextLevel(e) \subseteq Members(e)
         /\ Active(e) \subseteq NextLevel(e) /\ Ready(e) \subseteq Active(e)
         /\ \A n \in Nodes : Sources(e, n) # {} => n \in Members(e)
         /\ \A n \in Nodes : Sources(e, n) \subseteq Members(e)
<1>1. IsGraph(graph[e])
  BY ConstantsAssumption DEF Shape
<1> QED
  BY <1>1 DEF IsGraph, Members, NextLevel, Active, Ready, Sources

----------------------------------------------------------------------------
(* The calls and the end of a group. *)

LEMMA CallSteps ==
  ASSUME EngineInv, NEW e \in Execs, NEW n \in Nodes, Call(e, n)
  PROVE  Steps(e)
<1>1. PICK next \in TaskStates \ {"idle"} :
        /\ task' = [task EXCEPT ![e][n] = next] /\ task[e][n] # "idle"
        /\ UNCHANGED <<status, pc, entered, results, routing, group>>
  <2>1. CASE BeginNode(e, n)
    BY <2>1 DEF BeginNode, TaskStates
  <2>2. CASE HandlerReturns(e, n)
    BY <2>2 DEF HandlerReturns, TaskStates
  <2>3. CASE Retry(e, n)
    BY <2>3 DEF Retry, TaskStates
  <2>4. CASE BackoffEnds(e, n)
    BY <2>4 DEF BackoffEnds, TaskStates
  <2>5. CASE Exhaust(e, n)
    BY <2>5 DEF Exhaust, TaskStates
  <2> QED
    BY <2>1, <2>2, <2>3, <2>4, <2>5 DEF Call
<1>2. Shape' /\ OthersRest(e)
  BY <1>1 DEF EngineInv, Shape, OthersRest, RestsAt, routing
<1>3. \A m \in Nodes : task'[e][m] = "idle" <=> task[e][m] = "idle"
  BY <1>1 DEF EngineInv, Shape
<1>4. Proceeds(e)
  BY <1>1, <1>3 DEF EngineInv, ExecInv, GroupInv, AccountInv, Proceeds, routing
<1> QED
  BY <1>2, <1>4 DEF Steps

LEMMA StartSteps ==
  ASSUME EngineInv, NEW e \in Execs, Start(e) \/ Reject(e)
  PROVE  Steps(e)
<1>1. Shape' /\ OthersRest(e)
  BY DEF Start, Reject, EngineInv, Shape, OthersRest, RestsAt, routing, calls
<1>2. /\ group'[e] = group[e] /\ task'[e] = task[e] /\ results'[e] = results[e]
      /\ UNCHANGED <<graph, entered, skipped, waiting>>
      /\ pc[e] = "idle" /\ group[e] = {} /\ status[e] = "none"
      /\ \/ pc'[e] = "top" /\ status'[e] = "running"
         \/ pc'[e] = "done" /\ status'[e] = "failed"
  BY DEF Start, Reject, EngineInv, ExecInv, GroupInv, AccountInv, Shape, routing, calls
<1>3. Proceeds(e)
  BY <1>2 DEF Proceeds
<1> QED
  BY <1>1, <1>3 DEF Steps

\* The loop leaves a group: results only for its members, and every call stays called.
LEMMA LeaveSteps ==
  ASSUME EngineInv, NEW e \in Execs, Leave(e), pc[e] = "group",
         results' \in [Execs -> [Nodes -> {"none", "completed", "failed"}]],
         \A x \in Execs \ {e} : results'[x] = results[x],
         \A n \in Nodes : \/ results'[e][n] = results[e][n]
                          \/ n \in group[e] /\ results'[e][n] # "none"
  PROVE  Steps(e)
<1> DEFINE tasks == [n \in Nodes |-> IF n \in group[e] /\ task[e][n] \notin Over
                                     THEN "killed" ELSE task[e][n]]
<1>1. /\ pc' = [pc EXCEPT ![e] = "top"] /\ group' = [group EXCEPT ![e] = {}]
      /\ task' = [task EXCEPT ![e] = tasks]
      /\ UNCHANGED <<status, entered, graph, skipped, waiting>>
  BY DEF Leave, routing
<1>2. tasks \in [Nodes -> TaskStates]
  BY DEF EngineInv, Shape, TaskStates
<1>3. \A n \in Nodes : tasks[n] = "idle" <=> task[e][n] = "idle"
  BY DEF EngineInv, ExecInv, GroupInv, Called
<1> HIDE DEF tasks
<1>4. Shape' /\ OthersRest(e)
  BY <1>1, <1>2 DEF EngineInv, Shape, OthersRest, RestsAt
<1>5. Proceeds(e)
  BY <1>1, <1>3 DEF EngineInv, Shape, ExecInv, AccountInv, Proceeds
<1> QED
  BY <1>4, <1>5 DEF Steps

LEMMA CollectSteps ==
  ASSUME EngineInv, NEW e \in Execs, Collect(e)
  PROVE  Steps(e)
<1>1. /\ results \in [Execs -> [Nodes -> {"none", "completed", "failed"}]]
      /\ group[e] \subseteq Nodes
  BY DEF EngineInv, Shape
<1>2. CASE CollectAlone(e)
  <2>1. PICK n \in group[e] :
          results' = [results EXCEPT ![e][n] =
                        IF task[e][n] = "value" THEN "completed" ELSE "failed"]
    BY <1>2 DEF CollectAlone
  <2> QED
    BY <1>1, <1>2, <2>1, LeaveSteps DEF CollectAlone
<1>3. CASE RaiseAlone(e)
  <2>1. Shape' /\ OthersRest(e)
    BY <1>3 DEF RaiseAlone, Fail, EngineInv, Shape, OthersRest, RestsAt, routing
  <2>2. Proceeds(e)
    BY <1>3 DEF RaiseAlone, Fail, EngineInv, Shape, Proceeds, routing
  <2> QED
    BY <2>1, <2>2 DEF Steps
<1>4. CASE CollectAll(e)
  <2> DEFINE row == [n \in Nodes |->
                       IF n \notin group[e] THEN results[e][n]
                       ELSE IF task[e][n] = "raised" THEN "failed" ELSE "completed"]
  <2>1. results' = [results EXCEPT ![e] = row]
    BY <1>4 DEF CollectAll
  <2>2. row \in [Nodes -> {"none", "completed", "failed"}]
    BY <1>1
  <2>3. \A n \in Nodes : row[n] = results[e][n] \/ (n \in group[e] /\ row[n] # "none")
    OBVIOUS
  <2> HIDE DEF row
  <2> QED
    BY <1>1, <1>4, <2>1, <2>2, <2>3, LeaveSteps DEF CollectAll
<1>5. CASE CollectRace(e) \/ CollectNone(e)
  BY <1>1, <1>5, LeaveSteps DEF CollectRace, CollectNone
<1>6. CASE CollectAny(e)
  <2> DEFINE returned == {n \in group[e] : task[e][n] \in {"value", "errorText"}}
  <2>1. returned # {} /\ returned \in SUBSET Nodes
    BY <1>1, <1>6 DEF CollectAny
  <2>2. First(returned) \in returned
    <3>1. \E n \in returned : \A m \in returned : Rank[n] <= Rank[m]
      BY <2>1, FirstExists
    <3> QED
      BY <3>1 DEF First
  <2>3. results' = [results EXCEPT ![e][First(returned)] = "completed"]
    BY <1>6 DEF CollectAny
  <2>4. First(returned) \in group[e]
    BY <2>2
  <2> DEFINE winner == First(returned)
  <2>5. winner \in Nodes /\ winner \in group[e]
    BY <1>1, <2>4
  <2>6. results' = [results EXCEPT ![e][winner] = "completed"]
    BY <2>3
  <2> HIDE DEF returned, winner
  <2>7. /\ results' \in [Execs -> [Nodes -> {"none", "completed", "failed"}]]
        /\ \A x \in Execs \ {e} : results'[x] = results[x]
        /\ \A n \in Nodes : \/ results'[e][n] = results[e][n]
                            \/ n \in group[e] /\ results'[e][n] # "none"
    BY <1>1, <2>5, <2>6
  <2>8. Leave(e) /\ pc[e] = "group"
    BY <1>6 DEF CollectAny
  <2> QED
    BY <2>7, <2>8, LeaveSteps
<1> QED
  BY <1>2, <1>3, <1>4, <1>5, <1>6 DEF Collect

----------------------------------------------------------------------------
(* The level loop. *)

\* What is ready was not called before.
LEMMA ReadyIsNew ==
  ASSUME EngineInv, NEW e \in Execs
  PROVE  \A n \in NextLevel(e) : n \notin entered[e] /\ task[e][n] = "idle" /\ n \in Nodes
<1>1. NextLevel(e) \subseteq Nodes /\ NextLevel(e) \cap entered[e] = {}
  BY LevelType DEF EngineInv, NextLevel
<1> QED
  BY <1>1 DEF EngineInv, ExecInv, EnteredInv, Called

LEMMA AdvanceSteps ==
  ASSUME EngineInv, NEW e \in Execs,
         PassLevel(e) \/ WaitAlone(e) \/ RunAlone(e) \/ RunGroup(e)
  PROVE  Steps(e)
<1>1. /\ pc[e] = "top" /\ group[e] = {}
      /\ NextLevel(e) \subseteq Nodes /\ Active(e) \subseteq NextLevel(e)
      /\ Ready(e) \subseteq Active(e) /\ entered[e] \cup NextLevel(e) \in SUBSET Nodes
      /\ waiting[e] \cup (Active(e) \ Ready(e)) \in SUBSET Nodes
  BY LevelType
  DEF PassLevel, WaitAlone, RunAlone, RunGroup, EngineInv, Shape, ExecInv, GroupInv
<1> DEFINE level == NextLevel(e)
           ready == Ready(e)
           rest  == Active(e) \ Ready(e)
<1>2. /\ entered' = [entered EXCEPT ![e] = @ \cup level]
      /\ UNCHANGED <<status, results, graph, skipped>>
  BY DEF PassLevel, WaitAlone, RunAlone, RunGroup, Enter, routing
<1>3. ASSUME NEW t \in [Nodes -> TaskStates],
             \A n \in Nodes : t[n] = "idle" <=> task[e][n] = "idle" /\ n \notin ready,
             task' = [task EXCEPT ![e] = t],
             waiting' = [waiting EXCEPT ![e] = @ \cup rest],
             group' = [group EXCEPT ![e] = ready],
             \/ pc' = pc /\ ready = {}
             \/ pc' = [pc EXCEPT ![e] = "group"]
      PROVE  Steps(e)
  <2> HIDE DEF level, ready, rest
  <2>1. entered[e] \cup level \in SUBSET Nodes /\ waiting[e] \cup rest \in SUBSET Nodes
        /\ ready \in SUBSET Nodes
    BY <1>1 DEF level, ready, rest
  <2>2. Shape' /\ OthersRest(e)
    BY <1>2, <1>3, <2>1 DEF EngineInv, Shape, OthersRest, RestsAt
  <2>3. /\ graph'[e] = graph[e] /\ status'[e] = status[e] /\ entered'[e] = entered[e] \cup level
        /\ skipped'[e] = skipped[e] /\ results'[e] = results[e]
        /\ waiting'[e] = waiting[e] \cup rest /\ group'[e] = ready
        /\ pc'[e] # "idle" /\ (pc'[e] # "group" => group'[e] = {})
        /\ \A n \in Nodes : task'[e][n] = "idle" <=> task[e][n] = "idle" /\ n \notin ready
    BY <1>1, <1>2, <1>3 DEF EngineInv, Shape
  <2>4. Advances(e)
    BY <1>1, <2>3 DEF Advances, level, ready, rest
  <2> QED
    BY <2>2, <2>4 DEF Steps
<1>4. /\ task[e] \in [Nodes -> TaskStates] /\ task = [task EXCEPT ![e] = task[e]]
      /\ waiting = [waiting EXCEPT ![e] = waiting[e] \cup {}]
      /\ group = [group EXCEPT ![e] = {}]
  BY <1>1 DEF EngineInv, Shape
<1>5. CASE PassLevel(e)
  <2>1. ready = {} /\ rest = {}
    BY <1>1, <1>5 DEF PassLevel
  <2>2. UNCHANGED <<pc, waiting, group, task>>
    BY <1>5 DEF PassLevel, routing, calls
  <2> HIDE DEF ready, rest
  <2> QED
    BY <1>3, <1>4, <2>1, <2>2
<1>6. CASE WaitAlone(e)
  <2>1. ready = {}
    BY <1>6 DEF WaitAlone
  <2>2. UNCHANGED <<pc, group, task>> /\ waiting' = [waiting EXCEPT ![e] = @ \cup rest]
    BY <1>6 DEF WaitAlone, Postpone, calls
  <2> HIDE DEF ready, rest
  <2> QED
    BY <1>3, <1>4, <2>1, <2>2
<1>7. CASE RunAlone(e)
  <2>1. PICK n \in Nodes :
          /\ Active(e) = {n} /\ Ready(e) = {n}
          /\ group' = [group EXCEPT ![e] = {n}]
          /\ task' = [task EXCEPT ![e][n] = "running"]
    BY <1>7 DEF RunAlone
  <2> DEFINE t == [task[e] EXCEPT ![n] = "running"]
  <2>2. /\ t \in [Nodes -> TaskStates]
        /\ \A m \in Nodes : t[m] = "idle" <=> task[e][m] = "idle" /\ m # n
    BY <1>4 DEF TaskStates
  <2>3. task' = [task EXCEPT ![e] = t]
    BY <1>4, <2>1
  <2>4. ready = {n} /\ rest = {} /\ UNCHANGED waiting /\ pc' = [pc EXCEPT ![e] = "group"]
    BY <1>7, <2>1 DEF RunAlone, routing
  <2> HIDE DEF t, ready, rest
  <2>5. \A m \in Nodes : t[m] = "idle" <=> task[e][m] = "idle" /\ m \notin ready
    BY <2>2, <2>4
  <2>6. waiting' = [waiting EXCEPT ![e] = @ \cup rest] /\ group' = [group EXCEPT ![e] = ready]
    BY <1>4, <2>1, <2>4
  <2> QED
    BY <1>3, <2>2, <2>3, <2>4, <2>5, <2>6
<1>8. CASE RunGroup(e)
  <2>1. waiting' = [waiting EXCEPT ![e] = @ \cup rest]
    BY <1>8 DEF RunGroup, Postpone
  <2>2. CASE ready = {}
    <3>1. UNCHANGED <<pc, group, task>>
      BY <1>8, <2>2 DEF RunGroup, calls
    <3> HIDE DEF ready, rest
    <3> QED
      BY <1>3, <1>4, <2>1, <2>2, <3>1
  <2>3. CASE ready # {}
    <3> DEFINE t == [n \in Nodes |-> IF n \in Ready(e) THEN "ready" ELSE task[e][n]]
    <3>1. /\ pc' = [pc EXCEPT ![e] = "group"] /\ group' = [group EXCEPT ![e] = ready]
          /\ task' = [task EXCEPT ![e] = t]
      BY <1>8, <2>3 DEF RunGroup
    <3>2. t \in [Nodes -> TaskStates]
      BY <1>4 DEF TaskStates
    <3>3. \A n \in Nodes : t[n] = "idle" <=> task[e][n] = "idle" /\ n \notin ready
      OBVIOUS
    <3> HIDE DEF t, ready, rest
    <3> QED
      BY <1>3, <2>1, <3>1, <3>2, <3>3
  <2> QED
    BY <2>2, <2>3
<1> QED
  BY <1>5, <1>6, <1>7, <1>8

LEMMA RouteSteps ==
  ASSUME EngineInv, NEW e \in Execs, Route(e)
  PROVE  Steps(e)
<1>1. PICK c \in Nodes :
        /\ Active(e) = {c} /\ Branches[c] # {}
        /\ \E branch \in Branches[c] : skipped' = [skipped EXCEPT ![e] = Skips(e, branch)]
        /\ results' = [results EXCEPT ![e][c] = "completed"]
  BY DEF Route
<1>2. PICK branch \in Branches[c] : skipped' = [skipped EXCEPT ![e] = Skips(e, branch)]
  BY <1>1
<1>3. Skips(e, branch) \in SUBSET Nodes
  BY <1>2, LevelType, ConstantsAssumption DEF EngineInv, Shape, Skips, Marked
<1>4. entered[e] \cup NextLevel(e) \in SUBSET Nodes
  BY LevelType DEF EngineInv, Shape
<1>5. /\ pc[e] = "top" /\ entered' = [entered EXCEPT ![e] = @ \cup NextLevel(e)]
      /\ UNCHANGED <<status, pc, graph, waiting, group, task>>
  BY DEF Route, Enter, calls
<1>6. Shape' /\ OthersRest(e)
  BY <1>1, <1>2, <1>3, <1>4, <1>5 DEF EngineInv, Shape, OthersRest, RestsAt
<1>7. skipped'[e] = Skips(e, branch) /\ results'[e][c] = "completed"
      /\ entered'[e] = entered[e] \cup NextLevel(e)
      /\ \A n \in Nodes : n # c => results'[e][n] = results[e][n]
  BY <1>1, <1>2, <1>5 DEF EngineInv, Shape
<1>8. Routes(e)
  BY <1>1, <1>5, <1>7 DEF Routes
<1> QED
  BY <1>6, <1>8 DEF Steps

LEMMA LoopSteps ==
  ASSUME EngineInv, NEW e \in Execs, Loop(e)
  PROVE  Steps(e)
<1>1. CASE RouteRaises(e)
  <2>1. entered[e] \cup NextLevel(e) \in SUBSET Nodes
    BY LevelType DEF EngineInv, Shape
  <2>2. /\ pc[e] = "top" /\ entered' = [entered EXCEPT ![e] = @ \cup NextLevel(e)]
        /\ status' = [status EXCEPT ![e] = "failed"] /\ pc' = [pc EXCEPT ![e] = "done"]
        /\ UNCHANGED <<results, graph, skipped, waiting, group, task>>
    BY <1>1 DEF RouteRaises, Enter, Fail, routing, calls
  <2>3. Shape' /\ OthersRest(e)
    BY <2>1, <2>2 DEF EngineInv, Shape, OthersRest, RestsAt
  <2>4. Breaks(e)
    BY <2>2 DEF EngineInv, Shape, Breaks
  <2> QED
    BY <2>3, <2>4 DEF Steps
<1>2. CASE Finish(e)
  <2>1. /\ pc[e] = "top" /\ NextLevel(e) = {}
        /\ status' = [status EXCEPT ![e] = "completed"] /\ pc' = [pc EXCEPT ![e] = "done"]
        /\ UNCHANGED <<entered, results, graph, skipped, waiting, group, task>>
    BY <1>2 DEF Finish, routing, calls
  <2>2. Shape' /\ OthersRest(e)
    BY <2>1 DEF EngineInv, Shape, OthersRest, RestsAt
  <2>3. Completes(e)
    BY <2>1 DEF EngineInv, Shape, Completes
  <2> QED
    BY <2>2, <2>3 DEF Steps
<1> QED
  BY <1>1, <1>2, AdvanceSteps, RouteSteps DEF Loop

----------------------------------------------------------------------------
(* Each kind of step keeps the invariant of its execution. *)

LEMMA ProceedsKeeps ==
  ASSUME EngineInv, NEW e \in Execs, Proceeds(e)
  PROVE  ExecInv(e)'
<1> USE DEF Members, Sources, Done, Called
<1>1. ExecInv(e) /\ group[e] \subseteq Nodes /\ entered[e] \subseteq Nodes
      /\ skipped[e] \subseteq Nodes /\ waiting[e] \subseteq Nodes
  BY DEF EngineInv, Shape
<1>2. \A n \in Nodes : Done(e, n) => Done(e, n)'
  BY DEF Proceeds
<1>3. \A n \in Nodes : Called(e, n) <=> Called(e, n)'
  BY DEF Proceeds
<1>4. EnteredInv(e)'
  BY <1>1 DEF ExecInv, EnteredInv, GroupInv, Proceeds
<1>5. GroupInv(e)'
  BY <1>1 DEF ExecInv, GroupInv, Proceeds
<1>6. RunInv(e)'
  BY <1>1, <1>2 DEF ExecInv, RunInv, Proceeds
<1>7. DeadInv(e)'
  BY <1>1 DEF ExecInv, DeadInv, Proceeds
<1>8. AccountInv(e)'
  BY <1>1, <1>2 DEF ExecInv, AccountInv, Proceeds
<1>9. SkippedInv(e) => SkippedInv(e)'
  BY <1>1 DEF ExecInv, SkippedInv, GroupInv, Proceeds
<1>10. StarvedInv(e) => StarvedInv(e)'
  BY <1>1 DEF ExecInv, StarvedInv, Proceeds
<1> QED
  BY <1>1, <1>4, <1>5, <1>6, <1>7, <1>8, <1>9, <1>10 DEF ExecInv

LEMMA AdvancesKeeps ==
  ASSUME EngineInv, NEW e \in Execs, Advances(e)
  PROVE  ExecInv(e)'
<1> USE DEF Members, Sources, Done, Called
<1>1. ExecInv(e) /\ group[e] = {} /\ entered[e] \subseteq Nodes
      /\ skipped[e] \subseteq Nodes /\ waiting[e] \subseteq Nodes
  BY DEF EngineInv, Shape, ExecInv, GroupInv, Advances
<1>2. /\ NextLevel(e) \subseteq Nodes /\ Active(e) = NextLevel(e) \ skipped[e]
      /\ Ready(e) \subseteq Active(e)
      /\ \A n \in NextLevel(e) : Sources(e, n) \subseteq entered[e]
      /\ \A n \in Active(e) : n \in Ready(e) <=> \A d \in Sources(e, n) : Done(e, d)
  BY LevelType DEF EngineInv, NextLevel, Active, Ready
<1>3. \A n \in NextLevel(e) : n \notin entered[e] /\ task[e][n] = "idle"
  BY ReadyIsNew
<1> HIDE DEF Done
<1>4. \A n : Done(e, n)' <=> Done(e, n)
  BY DEF Done, Advances
<1>5. EnteredInv(e)'
  BY <1>1, <1>2 DEF ExecInv, EnteredInv, Advances
<1>6. GroupInv(e)'
  BY <1>1, <1>2 DEF ExecInv, GroupInv, Advances
<1>7. RunInv(e)'
  BY <1>1, <1>2, <1>4 DEF ExecInv, RunInv, Advances
<1>8. DeadInv(e)'
  BY <1>1 DEF ExecInv, DeadInv, Advances
<1>9. AccountInv(e)'
  <2>1. \A n \in NextLevel(e) : n \in skipped[e] \/ n \in Ready(e) \/ n \in Active(e) \ Ready(e)
    BY <1>2
  <2>2. \A n \in NextLevel(e) : Done(e, n) \/ n \in waiting'[e] \/ task'[e][n] # "idle"
    BY <1>2, <2>1 DEF Done, Advances
  <2>3. \A n \in entered[e] : Done(e, n) \/ n \in waiting[e] \/ task[e][n] # "idle" =>
          Done(e, n) \/ n \in waiting'[e] \/ task'[e][n] # "idle"
    BY <1>1 DEF Advances
  <2> QED
    BY <1>1, <1>4, <2>2, <2>3 DEF ExecInv, AccountInv, Advances
<1>10. SkippedInv(e) => SkippedInv(e)'
  BY <1>1, <1>2 DEF ExecInv, SkippedInv, Advances
<1>11. StarvedInv(e) => StarvedInv(e)'
  <2> SUFFICES ASSUME StarvedInv(e), NEW n \in waiting'[e]
               PROVE  \E d \in Sources(e, n) :
                        d \in entered'[e] \ group'[e] /\ ~ Done(e, d)
    BY <1>4 DEF StarvedInv, Advances
  <2>1. entered'[e] = entered[e] \cup NextLevel(e) /\ group'[e] = Ready(e)
    BY DEF Advances
  <2>2. \A d \in entered[e] : d \in entered'[e] \ group'[e]
    BY <1>2, <1>3, <2>1
  <2>3. CASE n \in waiting[e]
    BY <2>2, <2>3 DEF StarvedInv
  <2>4. CASE n \in Active(e) \ Ready(e)
    <3>1. PICK d \in Sources(e, n) : ~ Done(e, d)
      BY <1>2, <2>4
    <3>2. d \in entered[e]
      BY <1>2, <2>4
    <3> QED
      BY <2>2, <3>1, <3>2
  <2> QED
    BY <2>3, <2>4 DEF Advances
<1> QED
  BY <1>1, <1>5, <1>6, <1>7, <1>8, <1>9, <1>10, <1>11 DEF ExecInv

\* The nodes that a branch takes with it are not entered yet.
LEMMA MarkedNotEntered ==
  ASSUME EngineInv, BranchesBelow, NEW e \in Execs, NEW c \in Nodes, Active(e) = {c},
         NEW branch \in Branches[c], branch # None
  PROVE  Marked(e, branch) \cap (entered[e] \cup NextLevel(e)) = {}
<1> DEFINE behind == entered[e] \cup NextLevel(e)
           ahead  == (Members(e) \cup {branch}) \ behind
           below  == {c} \cup (Nodes \ behind)
<1>1. /\ Members(e) \subseteq Nodes /\ c \in NextLevel(e) /\ c \in Members(e) /\ c \notin entered[e]
      /\ branch \in Nodes /\ graph[e] \in Versions[e]
      /\ \A n \in behind : Sources(e, n) \subseteq entered[e]
  BY LevelType, ConstantsAssumption
  DEF EngineInv, Shape, ExecInv, EnteredInv, NextLevel, Active
<1>2. branch \notin behind
  <2>1. below \in SUBSET Nodes /\ c \in below
    OBVIOUS
  <2>2. ASSUME NEW m \in Nodes, NEW n \in Nodes, m \in below, <<m, n>> \in graph[e].edges
        PROVE  n \in below
    <3>1. m \in Sources(e, n) /\ m \notin entered[e]
      BY <1>1, <2>2 DEF Sources
    <3> QED
      BY <1>1, <3>1
  <2>3. /\ branch # c
        /\ \A S \in SUBSET Nodes :
             c \in S /\ (\A m, n \in Nodes : m \in S /\ <<m, n>> \in graph[e].edges => n \in S)
               => branch \in S
    BY <1>1 DEF BranchesBelow, Members
  <2>4. \A m, n \in Nodes : m \in below /\ <<m, n>> \in graph[e].edges => n \in below
    BY <2>2
  <2> HIDE DEF below
  <2>5. branch \in below
    BY <2>1, <2>3, <2>4
  <2> QED
    BY <2>3, <2>5 DEF below
<1>3. Closed(e, ahead)
  <2> SUFFICES ASSUME NEW n \in Members(e), Sources(e, n) \cap ahead # {}
               PROVE  n \in ahead
    BY DEF Closed
  <2> QED
    BY <1>1
<1>4. ahead \in SUBSET (Members(e) \cup {branch}) /\ branch \in ahead
  BY <1>2
<1>5. Marked(e, branch) \subseteq ahead
  BY <1>3, <1>4 DEF Marked
<1> QED
  BY <1>5

\* What a branch takes with it is closed: nothing below it only is left.
LEMMA MarkedCloses ==
  ASSUME EngineInv, NEW e \in Execs, NEW branch \in Nodes, DeadInv(e), NEW n \in Nodes,
         Sources(e, n) # {}, Sources(e, n) \subseteq skipped[e] \cup Marked(e, branch)
  PROVE  n \in skipped[e] \cup Marked(e, branch)
<1>1. n \in Members(e)
  BY LevelType DEF EngineInv
<1>2. CASE Sources(e, n) \subseteq skipped[e]
  BY <1>2 DEF DeadInv
<1>3. CASE ~ (Sources(e, n) \subseteq skipped[e])
  <2> SUFFICES ASSUME n \notin skipped[e],
                      NEW marked \in SUBSET (Members(e) \cup {branch}),
                      branch \in marked, Closed(e, marked)
               PROVE  n \in marked
    BY <1>1 DEF Marked
  <2>1. Marked(e, branch) \subseteq marked
    BY DEF Marked
  <2>2. Sources(e, n) \cap marked # {} /\ Sources(e, n) \subseteq skipped[e] \cup marked
    BY <1>3, <2>1
  <2> QED
    BY <1>1, <2>2 DEF Closed
<1> QED
  BY <1>2, <1>3

LEMMA RoutesKeeps ==
  ASSUME EngineInv, NEW e \in Execs, Routes(e)
  PROVE  ExecInv(e)'
<1> USE DEF Members, Sources, Called
<1>1. /\ ExecInv(e) /\ group[e] = {} /\ entered[e] \subseteq Nodes
      /\ skipped[e] \subseteq Nodes /\ waiting[e] \subseteq Nodes
  BY DEF EngineInv, Shape, ExecInv, GroupInv, Routes
<1>2. /\ NextLevel(e) \subseteq Nodes /\ Active(e) = NextLevel(e) \ skipped[e]
      /\ \A n \in NextLevel(e) : Sources(e, n) \subseteq entered[e] /\ n \notin entered[e]
  BY LevelType DEF EngineInv, NextLevel, Active
<1>3. PICK c \in Nodes :
        /\ Active(e) = {c} /\ Branches[c] # {}
        /\ \E branch \in Branches[c] : skipped'[e] = Skips(e, branch)
        /\ results'[e][c] = "completed"
        /\ \A n \in Nodes : n # c => results'[e][n] = results[e][n]
  BY DEF Routes
<1>4. PICK branch \in Branches[c] : skipped'[e] = Skips(e, branch)
  BY <1>3
<1>5. /\ c \in NextLevel(e) /\ c \notin skipped[e] /\ NextLevel(e) \subseteq skipped[e] \cup {c}
      /\ skipped[e] \subseteq skipped'[e]
      /\ graph'[e] = graph[e] /\ entered'[e] = entered[e] \cup NextLevel(e)
      /\ waiting'[e] = waiting[e] /\ group'[e] = group[e] /\ task'[e] = task[e]
      /\ status'[e] = status[e] /\ pc'[e] = pc[e] /\ pc[e] = "top"
  BY <1>2, <1>3, <1>4 DEF Skips, Routes
<1>6. \A n \in Nodes : Done(e, n) => Done(e, n)'
  BY <1>3, <1>5 DEF Done
<1>7. EnteredInv(e)'
  BY <1>1, <1>2, <1>3, <1>5 DEF ExecInv, EnteredInv
<1>8. GroupInv(e)'
  BY <1>1, <1>5 DEF ExecInv, GroupInv
<1>9. RunInv(e)'
  BY <1>1, <1>5, <1>6 DEF ExecInv, RunInv
<1>10. DeadInv(e)'
  <2>1. CASE branch = None
    BY <1>1, <1>4, <1>5, <2>1 DEF ExecInv, DeadInv, Skips
  <2>2. CASE branch # None
    <3>1. branch \in Nodes /\ skipped'[e] = skipped[e] \cup Marked(e, branch)
      BY <1>4, <2>2, ConstantsAssumption DEF Skips
    <3>2. \A n \in Nodes :
            Sources(e, n) # {} /\ Sources(e, n) \subseteq skipped'[e] => n \in skipped'[e]
      BY <1>1, <3>1, MarkedCloses DEF ExecInv
    <3> QED
      BY <1>5, <3>2 DEF DeadInv
  <2> QED
    BY <2>1, <2>2
<1>11. AccountInv(e)'
  <2>1. \A n \in NextLevel(e) : Done(e, n)'
    BY <1>3, <1>5 DEF Done
  <2> HIDE DEF Called
  <2>2. \A n \in entered[e] : Done(e, n) \/ n \in waiting[e] \/ Called(e, n) =>
          Done(e, n)' \/ n \in waiting'[e] \/ Called(e, n)'
    BY <1>1, <1>5, <1>6 DEF Called
  <2> QED
    BY <1>1, <1>5, <2>1, <2>2 DEF ExecInv, AccountInv
<1>12. ASSUME BranchesBelow PROVE SkippedInv(e)' /\ StarvedInv(e)'
  <2>1. \A n \in skipped'[e] : n \in skipped[e] \/ (n \notin entered[e] /\ n \notin NextLevel(e))
    BY <1>3, <1>4, <1>12, MarkedNotEntered DEF Skips
  <2>2. skipped'[e] \subseteq Nodes
    <3>1. CASE branch = None
      BY <1>1, <1>4, <3>1 DEF Skips
    <3>2. CASE branch # None
      BY <1>1, <1>4, <3>2, LevelType, ConstantsAssumption DEF EngineInv, Skips, Marked
    <3> QED
      BY <3>1, <3>2
  <2>3. SkippedInv(e)'
    BY <1>1, <1>3, <1>5, <1>12, <2>1, <2>2 DEF ExecInv, SkippedInv, EnteredInv
  <2>4. StarvedInv(e)'
    <3> SUFFICES ASSUME NEW n \in waiting[e]
                 PROVE  \E d \in Sources(e, n) : d \in entered'[e] \ group'[e] /\ ~ Done(e, d)'
      BY <1>5 DEF StarvedInv
    <3>1. PICK d \in Sources(e, n) : d \in entered[e] \ group[e] /\ ~ Done(e, d)
      BY <1>1, <1>12 DEF ExecInv, StarvedInv
    <3>2. d # c /\ d \notin skipped'[e] /\ d \in Nodes
      BY <1>1, <1>2, <1>5, <2>1, <3>1 DEF Done
    <3> QED
      BY <1>3, <1>5, <3>1, <3>2 DEF Done
  <2> QED
    BY <2>3, <2>4
<1> QED
  BY <1>7, <1>8, <1>9, <1>10, <1>11, <1>12 DEF ExecInv, BranchesBelow

LEMMA BreaksKeeps ==
  ASSUME EngineInv, NEW e \in Execs, Breaks(e)
  PROVE  ExecInv(e)'
<1> USE DEF Members, Sources, Done, Called
<1>1. ExecInv(e) /\ group[e] = {}
  BY DEF EngineInv, Shape, ExecInv, GroupInv, Breaks
<1>2. \A n \in NextLevel(e) : Sources(e, n) \subseteq entered[e]
  BY DEF NextLevel
<1>3. EnteredInv(e)'
  BY <1>1, <1>2 DEF ExecInv, EnteredInv, Breaks
<1>4. GroupInv(e)' /\ RunInv(e)' /\ DeadInv(e)' /\ AccountInv(e)'
  BY <1>1 DEF ExecInv, GroupInv, RunInv, DeadInv, AccountInv, Breaks
<1>5. (SkippedInv(e) => SkippedInv(e)') /\ (StarvedInv(e) => StarvedInv(e)')
  BY <1>1 DEF SkippedInv, StarvedInv, Breaks
<1> QED
  BY <1>1, <1>3, <1>4, <1>5 DEF ExecInv, BranchesBelow

\* When no level is left, every node has been entered: the first that was not, in the
\* order of the sort, would be in the next level.
LEMMA LevelsExhaust ==
  ASSUME EngineInv, NEW e \in Execs, NextLevel(e) = {}
  PROVE  Members(e) \subseteq entered[e]
<1> SUFFICES ASSUME Members(e) \ entered[e] # {} PROVE FALSE
  OBVIOUS
<1>1. /\ Members(e) \ entered[e] \in SUBSET Nodes /\ graph[e] \in Versions[e]
      /\ \A n \in Nodes : Sources(e, n) \subseteq Members(e)
  BY LevelType DEF EngineInv, Shape
<1>2. PICK n \in Members(e) \ entered[e] : \A m \in Members(e) \ entered[e] : Rank[n] <= Rank[m]
  BY <1>1, FirstExists
<1>3. PICK d \in Sources(e, n) : d \notin entered[e]
  BY <1>2 DEF NextLevel
<1>4. d \in Nodes /\ n \in Nodes /\ <<d, n>> \in graph[e].edges /\ d \in Members(e) \ entered[e]
  BY <1>1, <1>2, <1>3 DEF Sources
<1>5. Rank[d] < Rank[n]
  BY <1>1, <1>4, OrderAssumption
<1>6. Rank[n] <= Rank[d] /\ Rank[n] \in Nat /\ Rank[d] \in Nat
  BY <1>2, <1>4, ConstantsAssumption
<1> QED
  BY <1>5, <1>6

LEMMA CompletesKeeps ==
  ASSUME EngineInv, NEW e \in Execs, Completes(e)
  PROVE  ExecInv(e)'
<1> USE DEF Members, Sources, Done, Called
<1>1. ExecInv(e) /\ group[e] = {}
  BY DEF EngineInv, ExecInv, GroupInv, Completes
<1>2. Members(e) \subseteq entered[e]
  BY LevelsExhaust DEF Completes
<1>3. EnteredInv(e)' /\ GroupInv(e)' /\ RunInv(e)' /\ DeadInv(e)'
  BY <1>1 DEF ExecInv, EnteredInv, GroupInv, RunInv, DeadInv, Completes
<1>4. status[e] # "failed"
  BY DEF EngineInv, ExecInv, AccountInv, Completes
<1>5. AccountInv(e)'
  BY <1>1, <1>2, <1>4 DEF ExecInv, AccountInv, Completes
<1>6. (SkippedInv(e) => SkippedInv(e)') /\ (StarvedInv(e) => StarvedInv(e)')
  BY <1>1 DEF SkippedInv, StarvedInv, Completes
<1> QED
  BY <1>1, <1>3, <1>5, <1>6 DEF ExecInv, BranchesBelow

----------------------------------------------------------------------------
(* Every step of the engine keeps the invariant. *)

LEMMA RestKeeps ==
  ASSUME EngineInv, NEW x \in Execs, RestsAt(x)
  PROVE  ExecInv(x)'
BY SMTT(30) DEF RestsAt, EngineInv, ExecInv, EnteredInv, GroupInv, RunInv, DeadInv, AccountInv, SkippedInv,
       StarvedInv, BranchesBelow, Members, Sources, Done, Called

LEMMA StepsKeep ==
  ASSUME EngineInv, NEW e \in Execs, Steps(e)
  PROVE  EngineInv'
<1>1. ExecInv(e)'
  BY ProceedsKeeps, AdvancesKeeps, RoutesKeeps, BreaksKeeps, CompletesKeeps DEF Steps
<1>2. \A x \in Execs \ {e} : ExecInv(x)'
  BY RestKeeps DEF Steps, OthersRest
<1> QED
  BY <1>1, <1>2 DEF Steps, EngineInv

LEMMA InitHolds ==
  ASSUME Init
  PROVE  EngineInv
<1>1. Shape
  BY DEF Init, Shape, TaskStates
<1>2. ASSUME NEW e \in Execs PROVE ExecInv(e)
  BY <1>2
  DEF Init, ExecInv, EnteredInv, GroupInv, RunInv, DeadInv, AccountInv, SkippedInv,
      StarvedInv, Members, Sources, Done, Called
<1> QED
  BY <1>1, <1>2 DEF EngineInv

LEMMA StillKeeps ==
  ASSUME EngineInv,
         UNCHANGED <<status, graph, pc, entered, skipped, waiting, results, group, task>>
  PROVE  EngineInv'
<1>1. Shape'
  BY DEF EngineInv, Shape
<1>2. \A x \in Execs : ExecInv(x)'
  BY RestKeeps DEF RestsAt
<1> QED
  BY <1>1, <1>2 DEF EngineInv

LEMMA StepKeeps ==
  ASSUME EngineInv, [Next]_vars
  PROVE  EngineInv'
<1>1. ASSUME NEW e \in Execs, Start(e) \/ Reject(e) PROVE EngineInv'
  BY <1>1, StartSteps, StepsKeep
<1>2. ASSUME NEW e \in Execs, Loop(e) PROVE EngineInv'
  BY <1>2, LoopSteps, StepsKeep
<1>3. ASSUME NEW e \in Execs, Collect(e) PROVE EngineInv'
  BY <1>3, CollectSteps, StepsKeep
<1>4. ASSUME NEW e \in Execs, NEW n \in Nodes, Call(e, n) PROVE EngineInv'
  BY <1>4, CallSteps, StepsKeep
<1>5. CASE TimeoutPasses \/ UNCHANGED vars
  <2>1. UNCHANGED <<status, graph, pc, entered, skipped, waiting, results, group, task>>
    BY <1>5 DEF TimeoutPasses, vars, routing, calls
  <2> QED
    BY <2>1, StillKeeps
<1> QED
  BY <1>1, <1>2, <1>3, <1>4, <1>5 DEF Next

\* The invariant of the executions: every action of the engine keeps it.
THEOREM EngineHolds == Spec => []EngineInv
<1>1. Init => EngineInv
  BY InitHolds
<1>2. EngineInv /\ [Next]_vars => EngineInv'
  BY StepKeeps
<1> QED
  BY <1>1, <1>2, PTL DEF Spec

----------------------------------------------------------------------------
(* The properties. *)

\* The order of the levels never starts a node ahead of its sources, although race and
\* any leave nodes of earlier levels without a result (_execute_node_with_retry).
THEOREM RunsOnDoneSourcesCorrect == Spec => []RunsOnDoneSources
<1>1. EngineInv => RunsOnDoneSources
  BY DEF EngineInv, ExecInv, RunInv, RunsOnDoneSources, Called
<1> QED
  BY <1>1, EngineHolds, PTL

\* _mark_downstream_skipped leaves no node alive below dead branches only.
THEOREM DeadBranchesSkippedCorrect == Spec => []DeadBranchesSkipped
<1>1. EngineInv => DeadBranchesSkipped
  BY DEF EngineInv, ExecInv, DeadInv, DeadBranchesSkipped
<1> QED
  BY <1>1, EngineHolds, PTL

\* A completed execution accounts for every node of its version of the graph.
THEOREM NoNodeForgottenCorrect == Spec => []NoNodeForgotten
<1>1. EngineInv => NoNodeForgotten
  <2> SUFFICES ASSUME EngineInv, NEW e \in Execs, status[e] = "completed", NEW n \in Members(e)
               PROVE  Done(e, n) \/ n \in waiting[e] \/ task[e][n] # "idle"
    BY DEF NoNodeForgotten
  <2> QED
    BY DEF EngineInv, ExecInv, AccountInv, Called
<1> QED
  BY <1>1, EngineHolds, PTL

\* A branch that was not chosen never runs, provided that branches name nodes below their
\* condition: register_graph does not check it.
THEOREM SkippedNeverRunsCorrect ==
  ASSUME BranchesBelow
  PROVE  Spec => []SkippedNeverRuns
<1>1. EngineInv => SkippedNeverRuns
  BY DEF EngineInv, ExecInv, SkippedInv, SkippedNeverRuns, Called
<1> QED
  BY <1>1, EngineHolds, PTL

\* A node left WAITING misses nothing, on the same condition.
THEOREM WaitingIsStarvedCorrect ==
  ASSUME BranchesBelow
  PROVE  Spec => []WaitingIsStarved
<1>1. EngineInv => WaitingIsStarved
  BY DEF EngineInv, ExecInv, StarvedInv, WaitingIsStarved
<1> QED
  BY <1>1, EngineHolds, PTL

----------------------------------------------------------------------------
(* The breaker. *)

BreakerInv ==
  /\ circuit \in {"closed", "open", "half_open"} /\ failures \in Nat
  /\ BreakerAgrees

BreakerSteps ==
  \/ UNCHANGED <<circuit, failures>>
  \/ RecordFailure
  \/ Reset
  \/ circuit = "open" /\ circuit' = "half_open" /\ failures' = failures

LEMMA BreakerStep ==
  ASSUME [Next]_vars
  PROVE  BreakerSteps
<1>1. ASSUME NEW e \in Execs, Start(e) \/ Reject(e) PROVE BreakerSteps
  BY <1>1 DEF Start, Reject, breaker, BreakerSteps
<1>2. ASSUME NEW e \in Execs, Loop(e) PROVE BreakerSteps
  BY <1>2
  DEF Loop, PassLevel, WaitAlone, Route, RouteRaises, RunAlone, RunGroup, Finish, Fail, breaker,
      BreakerSteps
<1>3. ASSUME NEW e \in Execs, Collect(e) PROVE BreakerSteps
  BY <1>3
  DEF Collect, CollectAlone, RaiseAlone, CollectAll, CollectRace, CollectAny, CollectNone, Leave,
      Fail, breaker, BreakerSteps
<1>4. ASSUME NEW e \in Execs, NEW n \in Nodes, Call(e, n) PROVE BreakerSteps
  BY <1>4
  DEF Call, BeginNode, HandlerReturns, Retry, BackoffEnds, Exhaust, breaker, BreakerSteps
<1>5. CASE TimeoutPasses \/ UNCHANGED vars
  BY <1>5 DEF TimeoutPasses, vars, BreakerSteps
<1> QED
  BY <1>1, <1>2, <1>3, <1>4, <1>5 DEF Next

\* The breaker is closed exactly while its counter is below the threshold, whichever
\* executions end late, and in which order they report.
THEOREM BreakerAgreesCorrect == Spec => []BreakerAgrees
<1>1. Init => BreakerInv
  BY ConstantsAssumption DEF Init, BreakerInv, BreakerAgrees
<1>2. BreakerInv /\ [Next]_vars => BreakerInv'
  <2> SUFFICES ASSUME BreakerInv, [Next]_vars PROVE BreakerInv'
    OBVIOUS
  <2>1. CASE UNCHANGED <<circuit, failures>>
    BY <2>1 DEF BreakerInv, BreakerAgrees
  <2>2. CASE RecordFailure
    BY <2>2, ConstantsAssumption DEF RecordFailure, BreakerInv, BreakerAgrees
  <2>3. CASE Reset
    BY <2>3, ConstantsAssumption DEF Reset, BreakerInv, BreakerAgrees
  <2>4. CASE circuit = "open" /\ circuit' = "half_open" /\ failures' = failures
    BY <2>4 DEF BreakerInv, BreakerAgrees
  <2> QED
    BY <2>1, <2>2, <2>3, <2>4, BreakerStep DEF BreakerSteps
<1>3. BreakerInv => BreakerAgrees
  BY DEF BreakerInv
<1> QED
  BY <1>1, <1>2, <1>3, PTL DEF Spec

============================================================================
