----------------------- MODULE WorkflowService_proofs -----------------------
(***************************************************************************)
(* Proofs about WorkflowService, for any set of executions and streams,    *)
(* any acyclic workflow, any compensation map, retry limit and threshold.  *)
(***************************************************************************)
EXTENDS WorkflowService, TLAPS

----------------------------------------------------------------------------
(* The type invariant.                                                     *)

BreakersTyped ==
  /\ breaker  \in [Nodes -> {"closed", "open", "half_open"}]
  /\ failures \in [Nodes -> Nat]
  /\ cooled   \subseteq Nodes

\* Reporting to the breakers keeps their type.
LEMMA AccountTyped ==
  ASSUME BreakersTyped, NEW e \in Execs, NEW n \in Nodes, NEW report, Account(e, n, report)
  PROVE  BreakersTyped'
<1>1. CASE UNCHANGED breakers
  BY <1>1 DEF BreakersTyped, breakers
<1>2. CASE RecordSuccess(n)
  BY <1>2 DEF BreakersTyped, RecordSuccess
<1>3. CASE RecordFailure(n)
  BY <1>3 DEF BreakersTyped, RecordFailure
<1> QED
  BY <1>1, <1>2, <1>3 DEF Account

\* The head of _execute_node_with_cb keeps the type of what it changes.
LEMMA DispatchTyped ==
  ASSUME TypeOK, NEW e \in Execs, NEW n \in Nodes, NEW level, Dispatch(e, n, level),
         entered' \in [Execs -> SUBSET Nodes]
  PROVE  TypeOK'
<1> USE DEF Dispatch, TypeOK, Statuses, Places, TaskStates
<1>1. CASE Admit(e, n)
  BY <1>1 DEF Admit, Admitted, Begin
<1>2. CASE Compensate(e, n)
  BY <1>2 DEF Compensate, Refused, Begin
<1>3. CASE Refuse(e, n, level) /\ level = {n}
  BY <1>3 DEF Refuse, Refused, Raise
<1>4. CASE Refuse(e, n, level) /\ level # {n}
  BY <1>4 DEF Refuse, Refused
<1> QED
  BY <1>1, <1>2, <1>3, <1>4

\* The steps of one node's call keep the type.
LEMMA StepTyped ==
  ASSUME TypeOK, NEW e \in Execs, NEW n \in Nodes, Step(e, n)
  PROVE  TypeOK'
<1> USE ConstantsAssumption
<1> USE DEF TypeOK, TaskStates, control, breakers
<1>1. CASE StartNode(e, n)
  BY <1>1, DispatchTyped DEF StartNode
<1>2. CASE HandlerReturns(e, n)
  <2>1. PICK report \in {"reportOk", "reportError"} : task' = [task EXCEPT ![e][n] = report]
    BY <1>2 DEF HandlerReturns
  <2>2. task' \in [Execs -> [Nodes -> TaskStates]]
    BY <2>1
  <2>3. results' \in [Execs -> [Nodes -> {"none", "completed", "failed"}]]
    BY <1>2 DEF HandlerReturns
  <2> QED
    BY <1>2, <2>2, <2>3 DEF HandlerReturns
<1>3. ASSUME Reattempt(e, n)
      PROVE  attempts' \in [Execs -> [Nodes -> 0 .. MaxRetries]] /\ results' = results
  <2>1. attempts[e][n] + 1 \in 0 .. MaxRetries
    BY <1>3 DEF Reattempt, RetriesLeft
  <2> QED
    BY <1>3, <2>1 DEF Reattempt, NoteAttempt
<1>4. CASE RetryAfterTimeout(e, n)
  BY <1>3, <1>4 DEF RetryAfterTimeout, Reattempt
<1>5. CASE RetryAfterError(e, n)
  BY <1>3, <1>5 DEF RetryAfterError, Reattempt
<1>6. CASE BackoffEnds(e, n)
  BY <1>6 DEF BackoffEnds
<1>7. ASSUME Return(e, n)
      PROVE  /\ task'     \in [Execs -> [Nodes -> TaskStates]]
             /\ comped'   \in [Execs -> [Nodes -> BOOLEAN]]
             /\ attempts' \in [Execs -> [Nodes -> 0 .. MaxRetries]]
  BY <1>7 DEF Return
<1>8. CASE Exhaust(e, n)
  <2>1. BreakersTyped'
    BY <1>8, AccountTyped DEF Exhaust, BreakersTyped
  <2>2. results' \in [Execs -> [Nodes -> {"none", "completed", "failed"}]]
    BY <1>8 DEF Exhaust
  <2> QED
    BY <1>7, <1>8, <2>1, <2>2 DEF Exhaust, BreakersTyped
<1>9. CASE NodeReturns(e, n)
  <2>1. BreakersTyped'
    BY <1>9, AccountTyped DEF NodeReturns, BreakersTyped
  <2> QED
    BY <1>7, <1>9, <2>1 DEF NodeReturns, BreakersTyped
<1> QED
  BY <1>1, <1>2, <1>4, <1>5, <1>6, <1>8, <1>9 DEF Step

\* The steps of the level loop keep the type.
LEMMA CoordinateTyped ==
  ASSUME TypeOK, NEW e \in Execs, Coordinate(e)
  PROVE  TypeOK'
<1> USE DEF TypeOK, Statuses, Places, work, breakers
<1>1. CASE Launch(e)
  BY <1>1 DEF Launch
<1>2. CASE Block(e)
  BY <1>2 DEF Block
<1>3. CASE EnterAlone(e)
  <2>1. PICK n \in Nodes : /\ entered' = [entered EXCEPT ![e] = @ \cup {n}]
                           /\ Dispatch(e, n, {n})
    BY <1>3 DEF EnterAlone
  <2>2. entered' \in [Execs -> SUBSET Nodes]
    BY <2>1
  <2> QED
    BY <2>1, <2>2, DispatchTyped
<1>4. CASE EnterLevel(e)
  BY <1>4 DEF EnterLevel, NextLevel, TaskStates
<1>5. CASE LevelEnds(e)
  BY <1>5 DEF LevelEnds
<1>6. CASE Break(e)
  BY <1>6 DEF Break
<1>7. CASE Finish(e) /\ status[e] = "cancelled"
  BY <1>7 DEF Finish, FinalStatus
<1>8. CASE Finish(e) /\ status[e] # "cancelled"
  BY <1>8 DEF Finish, FinalStatus
<1>9. CASE Close(e)
  BY <1>9 DEF Close
<1> QED
  BY <1>1, <1>2, <1>3, <1>4, <1>5, <1>6, <1>7, <1>8, <1>9 DEF Coordinate

\* The requests of clients keep the type.
LEMMA RequestTyped ==
  ASSUME TypeOK, NEW e \in Execs, Request(e)
  PROVE  TypeOK'
<1> USE DEF TypeOK, Statuses, Places, work, breakers
<1>1. CASE Submit(e)
  BY <1>1 DEF Submit
<1>2. CASE Pause(e)
  BY <1>2 DEF Pause
<1>3. CASE Resume(e)
  BY <1>3 DEF Resume, OpenGate
<1>4. CASE Cancel(e)
  BY <1>4 DEF Cancel, OpenGate
<1>5. CASE Disconnect(e)
  BY <1>5 DEF Disconnect, Killed, TaskStates
<1> QED
  BY <1>1, <1>2, <1>3, <1>4, <1>5 DEF Request

LEMMA TypeStep == TypeOK /\ [Next]_vars => TypeOK'
<1> SUFFICES ASSUME TypeOK, [Next]_vars PROVE TypeOK'
  OBVIOUS
<1>1. ASSUME NEW n \in Nodes, RecoveryTimePasses(n) PROVE TypeOK'
  BY <1>1 DEF TypeOK, RecoveryTimePasses, control, work
<1>2. CASE UNCHANGED vars
  BY <1>2 DEF TypeOK, vars
<1> QED
  BY <1>1, <1>2, CoordinateTyped, RequestTyped, StepTyped DEF Next

\* The state of the service keeps its type: no retry exceeds max_retries, no call runs
\* outside the workflow, and no breaker leaves its three states.
THEOREM TypeCorrect == Spec => []TypeOK
<1>1. Init => TypeOK
  BY ConstantsAssumption DEF Init, TypeOK, Statuses, Places, TaskStates
<1> QED
  BY <1>1, TypeStep, PTL DEF Spec

----------------------------------------------------------------------------
(* The coroutine, its status and its pause event.                          *)

LEMMA PlaceStep == TypeOK /\ PlaceInv /\ [Next]_vars => PlaceInv'
<1> SUFFICES ASSUME TypeOK, PlaceInv, [Next]_vars, NEW x \in Execs
             PROVE  /\ (pc[x] = "idle" <=> status[x] = "none")'
                    /\ (pc[x] \in {"closing", "done"} => status[x] \in Terminal)'
                    /\ (pc[x] \in Looping => /\ status[x] \in {"running", "paused", "cancelled"}
                                             /\ gate[x] # "absent"
                                             /\ gate[x] = "cleared" => status[x] = "paused")'
                    /\ (pc[x] = "blocked" => gate[x] = "cleared")'
  BY DEF PlaceInv
<1> USE DEF TypeOK, PlaceInv, Terminal, Looping
<1>1. CASE UNCHANGED control
  BY <1>1 DEF control
<1>2. ASSUME NEW e \in Execs, Launch(e) \/ Block(e) \/ LevelEnds(e) \/ EnterLevel(e)
      PROVE  UNCHANGED <<status, gate>> /\ pc[e] \in Looping /\ gate[e] # "absent"
  BY <1>2 DEF Launch, Block, LevelEnds, EnterLevel, PassesGate
<1>3. ASSUME NEW e \in Execs, Launch(e) PROVE PlaceInv'
  BY <1>2, <1>3 DEF Launch
<1>4. ASSUME NEW e \in Execs, Block(e) PROVE PlaceInv'
  BY <1>2, <1>4 DEF Block
<1>5. ASSUME NEW e \in Execs, LevelEnds(e) PROVE PlaceInv'
  BY <1>2, <1>5 DEF LevelEnds
<1>6. ASSUME NEW e \in Execs, EnterLevel(e) PROVE PlaceInv'
  BY <1>2, <1>6 DEF EnterLevel
<1>7. ASSUME NEW e \in Execs, NEW n \in Nodes, NEW level, Dispatch(e, n, level),
             pc[e] \in {"top", "woken", "level"}
      PROVE  PlaceInv'
  <2>1. CASE Admit(e, n) \/ Compensate(e, n)
    BY ZenonT(30), <1>7, <2>1 DEF Admit, Compensate, Dispatch
  <2>2. CASE Refuse(e, n, level) /\ level = {n}
    BY <1>7, <2>2 DEF Refuse, Raise, Dispatch
  <2>3. CASE Refuse(e, n, level) /\ level # {n}
    BY <1>7, <2>3 DEF Refuse, Dispatch
  <2> QED
    BY <1>7, <2>1, <2>2, <2>3 DEF Dispatch
<1>8. ASSUME NEW e \in Execs, EnterAlone(e) PROVE PlaceInv'
  BY <1>7, <1>8 DEF EnterAlone, PassesGate
<1>9. ASSUME NEW e \in Execs, NEW n \in Nodes, StartNode(e, n) PROVE PlaceInv'
  BY <1>7, <1>9 DEF StartNode
<1>10. ASSUME NEW e \in Execs, Break(e) PROVE PlaceInv'
  BY <1>10 DEF Break
<1>11. ASSUME NEW e \in Execs, Finish(e) PROVE PlaceInv'
  <2>1. CASE status[e] = "cancelled"
    BY <1>11, <2>1 DEF Finish, FinalStatus
  <2>2. CASE status[e] # "cancelled"
    BY <1>11, <2>2 DEF Finish, FinalStatus
  <2> QED
    BY <2>1, <2>2
<1>12. ASSUME NEW e \in Execs, Close(e) PROVE PlaceInv'
  BY <1>12 DEF Close
<1>13. ASSUME NEW e \in Execs, Submit(e) PROVE PlaceInv'
  BY <1>13 DEF Submit
<1>14. ASSUME NEW e \in Execs, Pause(e) PROVE PlaceInv'
  BY <1>14 DEF Pause
<1>15. ASSUME NEW e \in Execs, Resume(e) PROVE PlaceInv'
  BY <1>15 DEF Resume, OpenGate
<1>16. ASSUME NEW e \in Execs, Cancel(e) PROVE PlaceInv'
  BY <1>16 DEF Cancel, OpenGate
<1>17. ASSUME NEW e \in Execs, Disconnect(e) PROVE PlaceInv'
  BY <1>17 DEF Disconnect
<1>18. ASSUME NEW e \in Execs, NEW n \in Nodes, Step(e, n), ~StartNode(e, n)
       PROVE  UNCHANGED control
  BY <1>18 DEF Step, HandlerReturns, RetryAfterTimeout, RetryAfterError, Reattempt,
               BackoffEnds, Exhaust, NodeReturns
<1>19. ASSUME NEW n \in Nodes, RecoveryTimePasses(n) PROVE UNCHANGED control
  BY <1>19 DEF RecoveryTimePasses
<1>20. CASE UNCHANGED vars
  BY <1>1, <1>20 DEF vars, control
<1> QED
  BY <1>1, <1>3, <1>4, <1>5, <1>6, <1>8, <1>9, <1>10, <1>11, <1>12, <1>13, <1>14, <1>15,
     <1>16, <1>17, <1>18, <1>19, <1>20 DEF Next, Coordinate, Request

----------------------------------------------------------------------------
(* Levels and the calls of their nodes.                                    *)

\* LevelInv for one execution.
LevelOf(e) ==
  /\ outputs[e] \subseteq entered[e]
  /\ pc[e] \in {"idle", "starting", "top", "blocked", "woken"} => outputs[e] = entered[e]
  /\ \A n \in Nodes :
       /\ task[e][n] # "idle" <=> n \in entered[e]
       /\ n \in entered[e] => Deps[n] \subseteq outputs[e]
       /\ n \in outputs[e] => task[e][n] \in {"returned", "raised"}
       /\ task[e][n] \in Active => pc[e] = "level"
       /\ task[e][n] = "ready" => e \in Streams \/ Level(e) # {n}

\* A step that leaves the other executions' coordinates alone needs a look at its own.
LEMMA LevelByExec ==
  ASSUME TypeOK, LevelInv, NEW e \in Execs, LevelOf(e)',
         \A x \in Execs \ {e} : /\ pc'[x] = pc[x] /\ entered'[x] = entered[x]
                               /\ outputs'[x] = outputs[x] /\ task'[x] = task[x]
  PROVE  LevelInv'
<1> SUFFICES ASSUME NEW x \in Execs PROVE LevelOf(x)'
  BY DEF LevelInv, LevelOf
<1>1. CASE x # e
  BY <1>1 DEF LevelInv, LevelOf, Level
<1> QED
  BY <1>1

\* One call of an active node moves on, within its level.
LEMMA LevelByCall ==
  ASSUME TypeOK, LevelInv, NEW e \in Execs, NEW n \in Nodes, NEW state \in TaskStates \ {"idle", "ready"},
         task[e][n] \in Active, task' = [task EXCEPT ![e][n] = state],
         UNCHANGED <<pc, entered, outputs>>
  PROVE  LevelInv'
<1>1. pc[e] = "level" /\ n \notin outputs[e] /\ task[e][n] # "idle"
  BY DEF LevelInv, Active
<1>2. LevelOf(e)'
  BY <1>1 DEF LevelInv, LevelOf, Level, TypeOK, Active
<1> QED
  BY <1>2, LevelByExec DEF TypeOK

LEMMA LevelStep == TypeOK /\ LevelInv /\ [Next]_vars => LevelInv'
<1> SUFFICES ASSUME TypeOK, LevelInv, [Next]_vars PROVE LevelInv'
  OBVIOUS
<1> USE ConstantsAssumption DEF TypeOK
<1>1. CASE UNCHANGED <<pc, entered, outputs, task>>
  BY <1>1 DEF LevelInv, Level
<1>2. ASSUME NEW e \in Execs, NEW place \in Places \ {"idle"}, pc[e] \notin {"level", "idle"},
             pc' = [pc EXCEPT ![e] = place], UNCHANGED <<entered, outputs, task>>,
             place \in {"starting", "top", "blocked", "woken"} =>
                pc[e] \in {"starting", "top", "blocked", "woken"}
      PROVE  LevelInv'
  <2>1. LevelOf(e)'
    BY <1>2 DEF LevelInv, LevelOf, Level, Active
  <2> QED
    BY <1>2, <2>1, LevelByExec
<1>3. ASSUME NEW e \in Execs, Submit(e) PROVE LevelInv'
  <2>1. LevelOf(e)'
    BY <1>3 DEF Submit, LevelInv, LevelOf, Level, Active, work
  <2> QED
    BY <1>3, <2>1, LevelByExec DEF Submit, work
<1>4. ASSUME NEW e \in Execs, Launch(e) \/ Block(e) \/ Break(e) \/ Close(e) PROVE LevelInv'
  BY <1>2, <1>4 DEF Launch, Block, Break, Close, PassesGate, Places, work
<1>5. ASSUME NEW e \in Execs, Finish(e) PROVE LevelInv'
  BY <1>2, <1>5 DEF Finish, Places, work
<1>6. ASSUME NEW e \in Execs, Pause(e) \/ Resume(e) \/ Cancel(e) PROVE LevelInv'
  <2>1. CASE UNCHANGED pc
    BY <1>1, <1>6, <2>1 DEF Pause, Resume, Cancel, work
  <2>2. CASE pc[e] = "blocked" /\ pc' = [pc EXCEPT ![e] = "woken"]
    BY <1>2, <1>6, <2>2 DEF Pause, Resume, Cancel, work, Places
  <2> QED
    BY <1>6, <2>1, <2>2 DEF Pause, Resume, Cancel, OpenGate
<1>7. ASSUME NEW e \in Execs, EnterLevel(e) PROVE LevelInv'
  <2>1. outputs[e] = entered[e] /\ NextLevel(e) \cap entered[e] = {}
    BY <1>7 DEF EnterLevel, PassesGate, LevelInv, NextLevel
  <2>2. Level(e)' = NextLevel(e)
    BY <1>7, <2>1 DEF EnterLevel, NextLevel, Level
  <2>3. \A n \in Nodes : /\ (task[e][n] # "idle" <=> n \in entered[e])'
                         /\ (n \in entered[e] => Deps[n] \subseteq outputs[e])'
                         /\ (n \in outputs[e] => task[e][n] \in {"returned", "raised"})'
    BY <1>7, <2>1 DEF EnterLevel, NextLevel, LevelInv
  <2>4. \A n \in Nodes : task'[e][n] = "ready" => e \in Streams \/ Level(e)' # {n}
    BY <1>7, <2>2 DEF EnterLevel
  <2>5. LevelOf(e)'
    BY <1>7, <2>1, <2>3, <2>4 DEF EnterLevel, LevelOf
  <2> QED
    BY <1>7, <2>5, LevelByExec DEF EnterLevel
<1>8. ASSUME NEW e \in Execs, EnterAlone(e) PROVE LevelInv'
  <2>1. PICK n \in Nodes : /\ NextLevel(e) = {n}
                           /\ entered' = [entered EXCEPT ![e] = @ \cup {n}]
                           /\ Dispatch(e, n, {n})
    BY <1>8 DEF EnterAlone
  <2>2. outputs[e] = entered[e] /\ n \notin entered[e] /\ Deps[n] \subseteq entered[e]
    BY <1>8, <2>1 DEF EnterAlone, PassesGate, LevelInv, NextLevel
  <2>3. CASE Admit(e, n) \/ Compensate(e, n)
    <3>1. task' = [task EXCEPT ![e][n] = "running"] /\ pc' = [pc EXCEPT ![e] = "level"]
          /\ outputs' = outputs
      BY <2>1, <2>3 DEF Dispatch, Admit, Compensate, Begin
    <3>2. LevelOf(e)'
      BY <2>1, <2>2, <3>1 DEF LevelInv, LevelOf, Active, Level
    <3> QED
      BY <2>1, <3>1, <3>2, LevelByExec
  <2>4. CASE Refuse(e, n, {n})
    <3>1. task' = [task EXCEPT ![e][n] = "raised"] /\ pc' = [pc EXCEPT ![e] = "closing"]
          /\ outputs' = outputs
      BY <2>1, <2>4 DEF Dispatch, Refuse, Raise
    <3>2. \A m \in Nodes : task[e][m] \notin Active
      BY <1>8 DEF EnterAlone, PassesGate, LevelInv
    <3>3. LevelOf(e)'
      BY <2>1, <2>2, <3>1, <3>2 DEF LevelInv, LevelOf, Active, Level
    <3> QED
      BY <2>1, <3>1, <3>3, LevelByExec
  <2> QED
    BY <2>1, <2>3, <2>4 DEF Dispatch
<1>9. ASSUME NEW e \in Execs, LevelEnds(e) PROVE LevelInv'
  <2>1. LevelOf(e)'
    BY <1>9 DEF LevelEnds, LevelSettled, Level, LevelInv, LevelOf, Active, work
  <2> QED
    BY <1>9, <2>1, LevelByExec DEF LevelEnds, work
<1>10. ASSUME NEW e \in Execs, Disconnect(e) PROVE LevelInv'
  <2>1. LevelOf(e)'
    BY <1>10 DEF Disconnect, Killed, LevelInv, LevelOf, Active
  <2> QED
    BY <1>10, <2>1, LevelByExec DEF Disconnect, Killed
<1>11. ASSUME NEW e \in Execs, NEW n \in Nodes, StartNode(e, n) PROVE LevelInv'
  <2>1. CASE Admit(e, n) \/ Compensate(e, n)
    <3>1. task' = [task EXCEPT ![e][n] = "running"] /\ UNCHANGED <<pc, entered, outputs>>
      BY <1>11, <2>1 DEF StartNode, Dispatch, Admit, Compensate, Begin
    <3> QED
      BY <1>11, <3>1, LevelByCall DEF StartNode, TaskStates, Active
  <2>2. CASE Refuse(e, n, Level(e)) /\ Level(e) # {n}
    <3>1. /\ task' = [task EXCEPT ![e][n] = "raised"] /\ pc' = [pc EXCEPT ![e] = "level"]
          /\ UNCHANGED <<entered, outputs>>
      BY <1>11, <2>2, Zenon DEF StartNode, Dispatch, Refuse
    <3>2. pc' = pc
      BY <1>11, <3>1 DEF StartNode
    <3> QED
      BY <1>11, <3>1, <3>2, LevelByCall DEF StartNode, TaskStates, Active
  <2>3. CASE Refuse(e, n, Level(e)) /\ Level(e) = {n}
    <3>1. /\ task' = [task EXCEPT ![e][n] = "raised"] /\ pc' = [pc EXCEPT ![e] = "closing"]
          /\ UNCHANGED <<entered, outputs>>
      BY <1>11, <2>3 DEF StartNode, Dispatch, Refuse, Raise
    <3>2. \A m \in Nodes \ {n} : task[e][m] \notin Active
      BY <2>3 DEF LevelInv, Level, Active
    <3>3. n \in entered[e] /\ n \notin outputs[e]
      BY <2>3 DEF Level
    <3>4. LevelOf(e)'
      BY <3>1, <3>2, <3>3 DEF LevelInv, LevelOf, Active, Level
    <3> QED
      BY <3>1, <3>4, LevelByExec
  <2> QED
    BY <1>11, <2>1, <2>2, <2>3 DEF StartNode, Dispatch
<1>12. ASSUME NEW e \in Execs, NEW n \in Nodes, HandlerReturns(e, n) PROVE LevelInv'
  <2>1. PICK report \in {"reportOk", "reportError"} : task' = [task EXCEPT ![e][n] = report]
    BY <1>12 DEF HandlerReturns
  <2> QED
    BY <1>12, <2>1, LevelByCall DEF HandlerReturns, control, Active, TaskStates
<1>13. ASSUME NEW e \in Execs, NEW n \in Nodes, RetryAfterTimeout(e, n) PROVE LevelInv'
  BY <1>1, <1>13 DEF RetryAfterTimeout, Reattempt, control
<1>14. ASSUME NEW e \in Execs, NEW n \in Nodes, RetryAfterError(e, n) PROVE LevelInv'
  BY <1>14, LevelByCall DEF RetryAfterError, Reattempt, control, Active, TaskStates
<1>15. ASSUME NEW e \in Execs, NEW n \in Nodes, BackoffEnds(e, n) PROVE LevelInv'
  BY <1>15, LevelByCall DEF BackoffEnds, control, Active, TaskStates
<1>16. ASSUME NEW e \in Execs, NEW n \in Nodes, Exhaust(e, n) PROVE LevelInv'
  BY <1>16, LevelByCall DEF Exhaust, Return, control, Active, TaskStates
<1>17. ASSUME NEW e \in Execs, NEW n \in Nodes, NodeReturns(e, n) PROVE LevelInv'
  BY <1>17, LevelByCall DEF NodeReturns, Return, control, Active, TaskStates
<1>18. ASSUME NEW n \in Nodes, RecoveryTimePasses(n) PROVE LevelInv'
  BY <1>1, <1>18 DEF RecoveryTimePasses, control, work
<1>19. CASE UNCHANGED vars
  BY <1>1, <1>19 DEF vars
<1> QED
  BY <1>3, <1>4, <1>5, <1>6, <1>7, <1>8, <1>9, <1>10, <1>11, <1>12, <1>13, <1>14, <1>15,
     <1>16, <1>17, <1>18, <1>19 DEF Next, Coordinate, Request, Step

----------------------------------------------------------------------------
(* Results of nodes.                                                       *)

\* A call that is over, or compensates, keeps its result: only the steps of calls write
\* task, comped and results, and a level starts calls that have none.
LEMMA ResultStep == TypeOK /\ LevelInv /\ ResultInv /\ [Next]_vars => ResultInv'
<1> SUFFICES ASSUME TypeOK, LevelInv, ResultInv, [Next]_vars PROVE ResultInv'
  OBVIOUS
<1> USE DEF TypeOK, ResultInv
<1>1. CASE UNCHANGED <<task, comped, results>>
  BY <1>1
<1>2. ASSUME NEW e \in Execs, NEW n \in Nodes, NEW level, Dispatch(e, n, level)
      PROVE  ResultInv'
  <2>1. CASE Admit(e, n)
    BY <1>2, <2>1 DEF Admit, Begin
  <2>2. CASE Compensate(e, n)
    BY <1>2, <2>2 DEF Compensate, Begin, Refused
  <2>3. CASE Refuse(e, n, level)
    BY <1>2, <2>3 DEF Refuse, Refused
  <2> QED
    BY <1>2, <2>1, <2>2, <2>3 DEF Dispatch
<1>3. ASSUME NEW e \in Execs, Coordinate(e), ~EnterAlone(e), ~EnterLevel(e)
      PROVE  UNCHANGED <<task, comped, results>>
  BY <1>3 DEF Coordinate, Launch, Block, LevelEnds, Break, Finish, Close, work
<1>4. ASSUME NEW e \in Execs, EnterAlone(e) PROVE ResultInv'
  BY <1>2, <1>4 DEF EnterAlone
<1>5. ASSUME NEW e \in Execs, EnterLevel(e) PROVE ResultInv'
  <2>1. \A n \in NextLevel(e) : task[e][n] = "idle"
    BY DEF NextLevel, LevelInv
  <2> QED
    BY <1>5, <2>1 DEF EnterLevel, NextLevel
<1>6. ASSUME NEW e \in Execs, Request(e), ~Disconnect(e)
      PROVE  UNCHANGED <<task, comped, results>>
  BY <1>6 DEF Request, Submit, Pause, Resume, Cancel, work
<1>7. ASSUME NEW e \in Execs, Disconnect(e) PROVE ResultInv'
  BY <1>7 DEF Disconnect, Killed
<1>8. ASSUME NEW e \in Execs, NEW n \in Nodes, StartNode(e, n) PROVE ResultInv'
  BY <1>2, <1>8 DEF StartNode
<1>9. ASSUME NEW e \in Execs, NEW n \in Nodes, HandlerReturns(e, n) PROVE ResultInv'
  <2>1. PICK report \in {"reportOk", "reportError"} : task' = [task EXCEPT ![e][n] = report]
    BY <1>9 DEF HandlerReturns
  <2>2. results'[e][n] # "none"
    BY <1>9 DEF HandlerReturns, Target
  <2> QED
    BY <1>9, <2>1, <2>2 DEF HandlerReturns
<1>10. ASSUME NEW e \in Execs, NEW n \in Nodes, RetryAfterTimeout(e, n) PROVE ResultInv'
  BY <1>10 DEF RetryAfterTimeout, Reattempt, NoteAttempt
<1>11. ASSUME NEW e \in Execs, NEW n \in Nodes, RetryAfterError(e, n) PROVE ResultInv'
  BY <1>11 DEF RetryAfterError, Reattempt, NoteAttempt
<1>12. ASSUME NEW e \in Execs, NEW n \in Nodes, BackoffEnds(e, n) PROVE ResultInv'
  BY <1>12 DEF BackoffEnds
<1>13. ASSUME NEW e \in Execs, NEW n \in Nodes, Exhaust(e, n) PROVE ResultInv'
  <2>1. results'[e][n] # "none"
    BY <1>13 DEF Exhaust, Target
  <2> QED
    BY <1>13, <2>1 DEF Exhaust, Return
<1>14. ASSUME NEW e \in Execs, NEW n \in Nodes, NodeReturns(e, n) PROVE ResultInv'
  BY <1>14 DEF NodeReturns, Return
<1>15. ASSUME NEW n \in Nodes, RecoveryTimePasses(n) PROVE ResultInv'
  BY <1>1, <1>15 DEF RecoveryTimePasses, work
<1>16. CASE UNCHANGED vars
  BY <1>1, <1>16 DEF vars
<1> QED
  BY <1>1, <1>3, <1>4, <1>5, <1>6, <1>7, <1>8, <1>9, <1>10, <1>11, <1>12, <1>13, <1>14,
     <1>15, <1>16 DEF Next, Step

Fresh(e, n) == task[e][n] \in {"idle", "ready", "running", "backoff"} /\ ~comped[e][n]

\* The head of a call: the result of a node that compensates for no other changes only
\* when the node was fresh, and a node stays or becomes fresh only with its result untouched.
LEMMA FreshByDispatch ==
  ASSUME TypeOK, NEW x \in Execs, NEW m \in Nodes, NEW level, Dispatch(x, m, level),
         task[x][m] \in {"idle", "ready"}, ~comped[x][m],
         NEW e \in Execs, NEW n \in Nodes, \A k \in Nodes : Comp[k] # n
  PROVE  /\ results'[e][n] # results[e][n] => Fresh(e, n)
         /\ Fresh(e, n)' => Fresh(e, n) /\ results'[e][n] = results[e][n]
<1> USE DEF TypeOK, Fresh
<1>1. CASE Admit(x, m)
  BY <1>1 DEF Admit, Begin
<1>2. CASE Compensate(x, m)
  BY <1>2 DEF Compensate, Begin, Refused
<1>3. CASE Refuse(x, m, level)
  BY <1>3 DEF Refuse, Refused
<1> QED
  BY <1>1, <1>2, <1>3 DEF Dispatch

\* The rest of a call does the same.
LEMMA FreshByCall ==
  ASSUME TypeOK, NEW x \in Execs, NEW m \in Nodes, Step(x, m), ~StartNode(x, m),
         NEW e \in Execs, NEW n \in Nodes, \A k \in Nodes : Comp[k] # n
  PROVE  /\ results'[e][n] # results[e][n] => Fresh(e, n)
         /\ Fresh(e, n)' => Fresh(e, n) /\ results'[e][n] = results[e][n]
<1> USE DEF TypeOK, Fresh
<1>1. Target(x, m) = n => m = n /\ ~comped[x][m]
  BY DEF Target
<1>2. CASE HandlerReturns(x, m)
  <2>1. PICK report \in {"reportOk", "reportError"} : task' = [task EXCEPT ![x][m] = report]
    BY <1>2 DEF HandlerReturns
  <2>2. task[x][m] = "running" /\ comped' = comped
    BY <1>2 DEF HandlerReturns
  <2>3. results' = [results EXCEPT ![x][Target(x, m)] = "completed"]
    BY <1>2 DEF HandlerReturns
  <2> QED
    BY <1>1, <2>1, <2>2, <2>3
<1>3. CASE RetryAfterTimeout(x, m)
  BY <1>3 DEF RetryAfterTimeout, Reattempt, NoteAttempt
<1>4. CASE RetryAfterError(x, m)
  BY <1>4 DEF RetryAfterError, Reattempt, NoteAttempt
<1>5. CASE BackoffEnds(x, m)
  BY <1>5 DEF BackoffEnds
<1>6. CASE Exhaust(x, m)
  <2>1. task[x][m] = "running" /\ Return(x, m)
    BY <1>6 DEF Exhaust
  <2>2. results' = [results EXCEPT ![x][Target(x, m)] = "failed"]
    BY <1>6 DEF Exhaust
  <2> QED
    BY <1>1, <2>1, <2>2 DEF Return
<1>7. CASE NodeReturns(x, m)
  BY <1>7 DEF NodeReturns, Return
<1> QED
  BY <1>2, <1>3, <1>4, <1>5, <1>6, <1>7 DEF Step

\* The same for any step.
LEMMA FreshByStep ==
  ASSUME TypeOK, LevelInv, ResultInv, [Next]_vars,
         NEW e \in Execs, NEW n \in Nodes, \A k \in Nodes : Comp[k] # n
  PROVE  /\ results'[e][n] # results[e][n] => Fresh(e, n)
         /\ Fresh(e, n)' => Fresh(e, n) /\ results'[e][n] = results[e][n]
<1> USE DEF TypeOK
<1>1. CASE UNCHANGED <<task, comped, results>>
  BY <1>1 DEF Fresh
<1>2. ASSUME NEW x \in Execs, Coordinate(x), ~EnterAlone(x), ~EnterLevel(x)
      PROVE  UNCHANGED <<task, comped, results>>
  BY <1>2 DEF Coordinate, Launch, Block, LevelEnds, Break, Finish, Close, work
<1>3. ASSUME NEW x \in Execs, Request(x), ~Disconnect(x)
      PROVE  UNCHANGED <<task, comped, results>>
  BY <1>3 DEF Request, Submit, Pause, Resume, Cancel, work
<1>4. ASSUME NEW x \in Execs, Disconnect(x)
      PROVE  results' = results /\ (Fresh(e, n)' => Fresh(e, n))
  BY <1>4 DEF Disconnect, Killed, Fresh
<1>5. ASSUME NEW x \in Execs, EnterLevel(x)
      PROVE  results' = results /\ (Fresh(e, n)' => Fresh(e, n))
  BY <1>5 DEF EnterLevel, NextLevel, LevelInv, Fresh
<1>6. ASSUME NEW x \in Execs, EnterAlone(x)
      PROVE  /\ results'[e][n] # results[e][n] => Fresh(e, n)
             /\ Fresh(e, n)' => Fresh(e, n) /\ results'[e][n] = results[e][n]
  <2>1. PICK m \in Nodes : NextLevel(x) = {m} /\ Dispatch(x, m, {m})
    BY <1>6 DEF EnterAlone
  <2>2. task[x][m] = "idle"
    BY <2>1 DEF NextLevel, LevelInv
  <2>3. ~comped[x][m]
    BY <2>2 DEF ResultInv
  <2> QED
    BY <2>1, <2>2, <2>3, FreshByDispatch
<1>7. ASSUME NEW x \in Execs, NEW m \in Nodes, StartNode(x, m)
      PROVE  /\ results'[e][n] # results[e][n] => Fresh(e, n)
             /\ Fresh(e, n)' => Fresh(e, n) /\ results'[e][n] = results[e][n]
  <2>1. Dispatch(x, m, Level(x)) /\ task[x][m] = "ready" /\ ~comped[x][m]
    BY <1>7 DEF StartNode, ResultInv
  <2> QED
    BY <2>1, FreshByDispatch
<1>8. ASSUME NEW m \in Nodes, RecoveryTimePasses(m) PROVE UNCHANGED <<task, comped, results>>
  BY <1>8 DEF RecoveryTimePasses, work
<1>9. CASE UNCHANGED vars
  BY <1>1, <1>9 DEF vars
<1>10. ASSUME NEW x \in Execs, Coordinate(x) \/ Request(x)
       PROVE  /\ results'[e][n] # results[e][n] => Fresh(e, n)
              /\ Fresh(e, n)' => Fresh(e, n) /\ results'[e][n] = results[e][n]
  <2>1. CASE EnterAlone(x)
    BY <1>6, <2>1
  <2>2. CASE EnterLevel(x) \/ Disconnect(x)
    BY <1>4, <1>5, <2>2
  <2>3. CASE ~EnterAlone(x) /\ ~EnterLevel(x) /\ ~Disconnect(x)
    BY <1>1, <1>2, <1>3, <1>10, <2>3
  <2> QED
    BY <2>1, <2>2, <2>3
<1>11. ASSUME NEW x \in Execs, NEW m \in Nodes, Step(x, m)
       PROVE  /\ results'[e][n] # results[e][n] => Fresh(e, n)
              /\ Fresh(e, n)' => Fresh(e, n) /\ results'[e][n] = results[e][n]
  BY <1>7, <1>11, FreshByCall
<1> QED
  BY <1>1, <1>8, <1>9, <1>10, <1>11 DEF Next

LEMMA FreshStep == TypeOK /\ LevelInv /\ ResultInv /\ FreshInv /\ [Next]_vars => FreshInv'
  BY FreshByStep DEF FreshInv, Fresh

----------------------------------------------------------------------------
(* Completed executions, and breakers.                                     *)

\* The loop ends with every node entered, because the workflow has no cycle, and then
\* every node has a result.
LEMMA FinishSettled ==
  ASSUME LevelInv, ResultInv, NEW e \in Execs, Finish(e), NEW n \in Nodes
  PROVE  results[e][n] # "none"
<1>1. pc[e] = "top" /\ NextLevel(e) = {}
  BY DEF Finish
<1>2. Nodes \ entered[e] = {}
  <2>1. SUFFICES ASSUME Nodes \ entered[e] # {} PROVE FALSE
    OBVIOUS
  <2>2. PICK m \in Nodes \ entered[e] : Deps[m] \cap (Nodes \ entered[e]) = {}
    BY <2>1, AcyclicAssumption
  <2>3. Deps[m] \subseteq Nodes
    BY ConstantsAssumption
  <2> QED
    BY <1>1, <2>2, <2>3 DEF NextLevel
<1>3. n \in outputs[e]
  BY <1>1, <1>2 DEF LevelInv
<1> QED
  BY <1>3 DEF LevelInv, ResultInv

LEMMA CompletedStep ==
  TypeOK /\ PlaceInv /\ LevelInv /\ ResultInv /\ CompletedMeansSettled /\ [Next]_vars
    => CompletedMeansSettled'
<1> SUFFICES ASSUME TypeOK, PlaceInv, LevelInv, ResultInv, CompletedMeansSettled, [Next]_vars
             PROVE  CompletedMeansSettled'
  OBVIOUS
<1> USE DEF TypeOK
\* A result never disappears.
<1>1. ASSUME NEW e \in Execs, NEW n \in Nodes, results[e][n] # "none"
      PROVE  results'[e][n] # "none"
  <2>1. ASSUME NEW x \in Execs, NEW m \in Nodes, NEW level, Dispatch(x, m, level)
        PROVE  results'[e][n] # "none"
    <3>1. CASE Admit(x, m)
      BY <1>1, <3>1 DEF Admit
    <3>2. CASE Compensate(x, m)
      BY <1>1, <3>2 DEF Compensate, Refused
    <3>3. CASE Refuse(x, m, level)
      BY <1>1, <3>3 DEF Refuse, Refused
    <3> QED
      BY <2>1, <3>1, <3>2, <3>3 DEF Dispatch
  <2>2. ASSUME NEW x \in Execs, NEW m \in Nodes, Step(x, m) PROVE results'[e][n] # "none"
    <3>1. CASE StartNode(x, m)
      BY <2>1, <3>1 DEF StartNode
    <3>2. CASE HandlerReturns(x, m)
      BY <1>1, <3>2 DEF HandlerReturns
    <3>3. CASE Exhaust(x, m)
      BY <1>1, <3>3 DEF Exhaust
    <3> QED
      BY <1>1, <2>2, <3>1, <3>2, <3>3 DEF Step, RetryAfterTimeout, RetryAfterError, Reattempt,
         NoteAttempt, BackoffEnds, NodeReturns
  <2>3. ASSUME NEW x \in Execs, Coordinate(x) PROVE results'[e][n] # "none"
    BY <1>1, <2>1, <2>3 DEF Coordinate, Launch, Block, EnterAlone, EnterLevel, LevelEnds, Break,
       Finish, Close, work
  <2>4. ASSUME NEW x \in Execs, Request(x) PROVE results' = results
    BY <2>4 DEF Request, Submit, Pause, Resume, Cancel, Disconnect, work
  <2> QED
    BY <1>1, <2>2, <2>3, <2>4 DEF Next, RecoveryTimePasses, work, vars
<1>2. ASSUME NEW e \in Execs, Finish(e), NEW n \in Nodes
      PROVE  results[e][n] # "none"
  BY <1>2, FinishSettled
<1>3. ASSUME NEW e \in Execs, Coordinate(e) \/ Request(e), ~Finish(e), NEW x \in Execs
      PROVE  status'[x] = "completed" => status[x] = "completed"
  <2>1. CASE Coordinate(e)
    BY ZenonT(30), <1>3, <2>1 DEF Coordinate, Launch, Block, EnterAlone, EnterLevel, LevelEnds, Break, Close,
       Dispatch, Admit, Compensate, Refuse, Raise
  <2>2. CASE Request(e)
    BY <2>2 DEF Request, Submit, Pause, Resume, Cancel, Disconnect
  <2> QED
    BY <1>3, <2>1, <2>2
<1>4. ASSUME NEW e \in Execs, NEW n \in Nodes, Step(e, n), NEW x \in Execs
      PROVE  status'[x] = "completed" => status[x] = "completed"
  BY <1>4 DEF Step, StartNode, Dispatch, Admit, Compensate, Refuse, Raise, HandlerReturns,
     RetryAfterTimeout, RetryAfterError, Reattempt, BackoffEnds, Exhaust, NodeReturns, control
<1>5. ASSUME NEW e \in Execs, Finish(e), NEW x \in Execs, x # e
      PROVE  status'[x] = status[x]
  BY <1>5 DEF Finish, FinalStatus
<1>6. ASSUME NEW n \in Nodes, RecoveryTimePasses(n) PROVE status' = status
  BY <1>6 DEF RecoveryTimePasses, control
<1>7. CASE UNCHANGED vars
  BY <1>7 DEF vars, CompletedMeansSettled
<1> QED
  BY <1>1, <1>2, <1>3, <1>4, <1>5, <1>6, <1>7 DEF Next, CompletedMeansSettled

LEMMA BreakerStep == TypeOK /\ BreakerAgreesWithCount /\ [Next]_vars => BreakerAgreesWithCount'
<1> SUFFICES ASSUME TypeOK, BreakerAgreesWithCount, [Next]_vars PROVE BreakerAgreesWithCount'
  OBVIOUS
<1> USE ConstantsAssumption DEF TypeOK, BreakerAgreesWithCount
<1>1. CASE UNCHANGED <<breaker, failures>>
  BY <1>1
<1>2. ASSUME NEW e \in Execs, NEW n \in Nodes, NEW level, Dispatch(e, n, level)
      PROVE  BreakerAgreesWithCount'
  <2>1. CASE Admit(e, n)
    BY <1>2, <2>1 DEF Admit, Admitted, Dispatch
  <2> QED
    BY <1>1, <1>2, <2>1 DEF Dispatch, Compensate, Refuse
<1>3. ASSUME NEW e \in Execs, NEW n \in Nodes, NEW report, Account(e, n, report)
      PROVE  BreakerAgreesWithCount'
  <2>1. CASE RecordSuccess(n)
    BY <2>1 DEF RecordSuccess
  <2>2. CASE RecordFailure(n)
    BY <2>2 DEF RecordFailure
  <2> QED
    BY <1>1, <1>3, <2>1, <2>2 DEF Account, breakers
<1>4. ASSUME NEW e \in Execs, Coordinate(e) PROVE BreakerAgreesWithCount'
  BY <1>1, <1>2, <1>4 DEF Coordinate, Launch, Block, EnterAlone, EnterLevel, LevelEnds, Break,
     Finish, Close, breakers
<1>5. ASSUME NEW e \in Execs, Request(e) PROVE UNCHANGED <<breaker, failures>>
  BY <1>5 DEF Request, Submit, Pause, Resume, Cancel, Disconnect, breakers
<1>6. ASSUME NEW e \in Execs, NEW n \in Nodes, Step(e, n) PROVE BreakerAgreesWithCount'
  BY <1>1, <1>2, <1>3, <1>6 DEF Step, StartNode, HandlerReturns, RetryAfterTimeout,
     RetryAfterError, Reattempt, BackoffEnds, Exhaust, NodeReturns, breakers
<1> QED
  BY <1>1, <1>4, <1>5, <1>6 DEF Next, RecoveryTimePasses, vars

----------------------------------------------------------------------------
(* The inductive invariant and what follows from it.                       *)

LEMMA InvInit == Init => IInv
<1> SUFFICES ASSUME Init PROVE IInv
  OBVIOUS
<1> USE ConstantsAssumption DEF Init
<1>1. TypeOK
  BY DEF TypeOK, Statuses, Places, TaskStates
<1>2. PlaceInv
  BY DEF PlaceInv, Looping
<1>3. LevelInv
  BY DEF LevelInv, Active
<1>4. ResultInv /\ FreshInv
  BY DEF ResultInv, FreshInv
<1>5. CompletedMeansSettled
  BY DEF CompletedMeansSettled
<1>6. BreakerAgreesWithCount
  BY DEF BreakerAgreesWithCount
<1> QED
  BY <1>1, <1>2, <1>3, <1>4, <1>5, <1>6 DEF IInv

\* The parts of IInv hold together in every reachable state.
THEOREM InductiveInvariant == Spec => []IInv
<1>1. IInv /\ [Next]_vars => IInv'
  BY TypeStep, PlaceStep, LevelStep, ResultStep, FreshStep, CompletedStep, BreakerStep DEF IInv
<1> QED
  BY <1>1, InvInit, PTL DEF Spec

\* No node of any execution is admitted, retried or compensated before the calls of all
\* its dependencies are over and their outputs merged.
THEOREM DependenciesSettledCorrect == Spec => []DependenciesSettled
<1>1. IInv => DependenciesSettled
  BY ConstantsAssumption DEF IInv, TypeOK, LevelInv, DependenciesSettled
<1> QED
  BY <1>1, InductiveInvariant, PTL

\* An execution waits at its pause event only while it is paused.
THEOREM BlockedOnlyWhilePausedCorrect == Spec => []BlockedOnlyWhilePaused
<1>1. IInv => BlockedOnlyWhilePaused
  BY DEF IInv, PlaceInv, BlockedOnlyWhilePaused, Looping
<1> QED
  BY <1>1, InductiveInvariant, PTL

\* Every node of a completed execution has a result.
THEOREM CompletedMeansSettledCorrect == Spec => []CompletedMeansSettled
<1>1. IInv => CompletedMeansSettled
  BY DEF IInv
<1> QED
  BY <1>1, InductiveInvariant, PTL

\* A coroutine returns only with a final status.
THEOREM EndedIsTerminalCorrect == Spec => []EndedIsTerminal
<1>1. IInv => EndedIsTerminal
  BY DEF IInv, PlaceInv, EndedIsTerminal
<1> QED
  BY <1>1, InductiveInvariant, PTL

\* The state of each breaker agrees with its failure count.
THEOREM BreakerAgreesWithCountCorrect == Spec => []BreakerAgreesWithCount
<1>1. IInv => BreakerAgreesWithCount
  BY DEF IInv
<1> QED
  BY <1>1, InductiveInvariant, PTL

\* The result of a node that compensates for no other never changes.
THEOREM ResultsWrittenOnceCorrect == Spec => ResultsWrittenOnce
<1>1. ASSUME IInv, [Next]_vars, NEW e \in Execs, NEW n \in Nodes,
             results[e][n] # "none", \A m \in Nodes : Comp[m] # n
      PROVE  results'[e][n] = results[e][n]
  <2>1. ~Fresh(e, n)
    BY <1>1 DEF IInv, FreshInv, Fresh
  <2> QED
    BY <1>1, <2>1, FreshByStep DEF IInv
<1>2. IInv /\ [Next]_vars
        => [\A e \in Execs, n \in Nodes :
              results[e][n] # "none" /\ (\A m \in Nodes : Comp[m] # n)
                => results'[e][n] = results[e][n]]_vars
  BY <1>1
<1> QED
  BY <1>2, InductiveInvariant, PTL DEF Spec, ResultsWrittenOnce

----------------------------------------------------------------------------
(* The service implements the life cycle.                                  *)

\* The values of the abstract variables.
EndedMap   == [e \in Execs |-> Ended(e)]
SettledMap == [e \in Execs |-> {n \in Nodes : results[e][n] # "none"}]

\* A new result settles its node, and only that.
LEMMA SettledOne ==
  ASSUME TypeOK, NEW e \in Execs, NEW n \in Nodes, NEW value \in {"completed", "failed"},
         results' = [results EXCEPT ![e][n] = value]
  PROVE  SettledMap' = [SettledMap EXCEPT ![e] = @ \cup {n}]
<1>1. \A x \in Execs : {m \in Nodes : results'[x][m] # "none"}
        = IF x = e THEN {m \in Nodes : results[x][m] # "none"} \cup {n}
          ELSE {m \in Nodes : results[x][m] # "none"}
  BY DEF TypeOK
<1> QED
  BY <1>1 DEF SettledMap

\* Moving within the life of a coroutine does not end its execution, ...
LEMMA EndedSame ==
  ASSUME TypeOK, NEW e \in Execs, NEW place \in Places \ {"done", "dropped"},
         pc' = [pc EXCEPT ![e] = place], pc[e] \notin {"done", "dropped"}
  PROVE  EndedMap' = EndedMap
<1>1. \A x \in Execs : Ended(x)' = Ended(x)
  BY DEF TypeOK, Ended
<1> QED
  BY <1>1 DEF EndedMap

\* ... and leaving it does.
LEMMA EndedOne ==
  ASSUME TypeOK, NEW e \in Execs, NEW place \in {"done", "dropped"},
         pc' = [pc EXCEPT ![e] = place]
  PROVE  EndedMap' = [EndedMap EXCEPT ![e] = TRUE]
<1>1. \A x \in Execs : Ended(x)' = IF x = e THEN TRUE ELSE Ended(x)
  BY DEF TypeOK, Ended
<1> QED
  BY <1>1 DEF EndedMap

\* The head of a call is a stutter, Work or Fail of its execution.
LEMMA DispatchRefines ==
  ASSUME TypeOK, NEW e \in Execs, NEW n \in Nodes, NEW level, Dispatch(e, n, level),
         pc[e] \in {"top", "woken", "level"}, status[e] \in {"running", "paused", "cancelled"},
         level = {n} => status[e] # "cancelled" \/ e \in Streams,
         Abstract!MayBegin(e), n \in entered'[e]
  PROVE  Abstract!Work(e) \/ Abstract!Fail(e) \/ UNCHANGED Abstract!vars
<1> USE DEF TypeOK
<1>1. ~EndedMap[e]
  BY DEF EndedMap, Ended
<1>2. ASSUME Refused(e, n) PROVE Abstract!Settle(e, n)
  <2>1. SettledMap' = [SettledMap EXCEPT ![e] = @ \cup {n}]
    BY <1>2, SettledOne DEF Refused
  <2> QED
    BY <1>1, <2>1 DEF EndedMap, SettledMap, Abstract!Settle
<1>3. ASSUME pc' = [pc EXCEPT ![e] = "level"] PROVE EndedMap' = EndedMap
  BY <1>3, EndedSame DEF Places
<1>4. CASE Admit(e, n)
  <2>1. SettledMap' = SettledMap
    BY <1>4 DEF Admit, SettledMap
  <2> QED
    BY <1>3, <1>4, <2>1 DEF Admit, EndedMap, SettledMap, Abstract!Work
<1>5. CASE Compensate(e, n)
  BY <1>2, <1>3, <1>5 DEF Compensate, EndedMap, Abstract!Work
<1>6. CASE Refuse(e, n, level) /\ level # {n}
  <2>1. pc' = [pc EXCEPT ![e] = "level"] /\ UNCHANGED status /\ Refused(e, n)
    BY <1>6, Zenon DEF Refuse
  <2> QED
    BY <1>2, <1>3, <2>1 DEF EndedMap, Abstract!Work
<1>7. CASE Refuse(e, n, level) /\ level = {n}
  <2>1. Raise(e) /\ Refused(e, n)
    BY <1>7, Zenon DEF Refuse
  <2>2. EndedMap' = EndedMap
    BY <2>1, EndedSame DEF Raise, Places
  <2>3. Abstract!Settle(e, n)
    BY <1>2, <2>1
  <2> QED
    BY <1>7, <2>1, <2>2, <2>3 DEF Raise, EndedMap, Abstract!Fail, Abstract!Become
<1> QED
  BY <1>4, <1>5, <1>6, <1>7 DEF Dispatch

\* The steps of the level loop.
LEMMA CoordinateRefines ==
  ASSUME IInv, NEW e \in Execs, Coordinate(e)
  PROVE  \/ Abstract!Work(e) \/ Abstract!Fail(e) \/ Abstract!Complete(e) \/ Abstract!End(e)
         \/ UNCHANGED Abstract!vars
<1> USE DEF IInv, TypeOK
<1>1. ASSUME results' = results PROVE SettledMap' = SettledMap
  BY <1>1 DEF SettledMap
<1>2. ASSUME Launch(e) \/ Block(e) \/ LevelEnds(e)
      PROVE  UNCHANGED Abstract!vars
  <2>1. PICK place \in {"top", "blocked"} : pc' = [pc EXCEPT ![e] = place]
    BY <1>2 DEF Launch, Block, LevelEnds
  <2>2. pc[e] \notin {"done", "dropped"}
    BY <1>2 DEF Launch, Block, LevelEnds
  <2>3. EndedMap' = EndedMap
    BY <2>1, <2>2, EndedSame DEF Places
  <2> QED
    BY <1>1, <1>2, <2>3 DEF Launch, Block, LevelEnds, work, EndedMap, SettledMap, Abstract!vars
<1>9. CASE EnterLevel(e)
  <2>1. pc' = [pc EXCEPT ![e] = "level"] /\ pc[e] \in {"top", "woken"}
    BY <1>9 DEF EnterLevel, PassesGate
  <2>2. EndedMap' = EndedMap
    BY <2>1, EndedSame DEF Places
  <2>3. Abstract!MayBegin(e)
    BY <1>9, <2>1 DEF EnterLevel, Proceeds, PlaceInv, Looping, NextLevel, Abstract!MayBegin
  <2> QED
    BY <1>1, <1>9, <2>2, <2>3 DEF EnterLevel, EndedMap, SettledMap, Abstract!Work
<1>3. CASE EnterAlone(e)
  <2>1. PICK n \in Nodes : Dispatch(e, n, {n}) /\ entered' = [entered EXCEPT ![e] = @ \cup {n}]
    BY <1>3 DEF EnterAlone
  <2>2. pc[e] \in {"top", "woken"} /\ status[e] \in {"running", "paused"}
    BY <1>3 DEF EnterAlone, PassesGate, Proceeds, PlaceInv, Looping
  <2>3. Abstract!MayBegin(e) /\ n \in entered'[e]
    BY <2>1, <2>2 DEF Abstract!MayBegin
  <2> QED
    BY <2>1, <2>2, <2>3, DispatchRefines
<1>4. ASSUME pc' = [pc EXCEPT ![e] = "done"], pc[e] \notin {"done", "dropped"},
             status[e] \in Terminal, UNCHANGED <<status, entered, results>>
      PROVE  Abstract!End(e)
  BY <1>1, <1>4, EndedOne DEF EndedMap, Ended, SettledMap, Abstract!End, Abstract!Terminal, Terminal
<1>5. CASE Break(e)
  BY <1>4, <1>5 DEF Break, PassesGate, Terminal, work
<1>6. CASE Close(e)
  BY <1>4, <1>6 DEF Close, PlaceInv, work
<1>7. CASE Finish(e) /\ status[e] = "cancelled"
  <2>1. status' = status
    BY <1>7 DEF Finish, FinalStatus
  <2> QED
    BY <1>4, <1>7, <2>1 DEF Finish, Terminal, work
<1>8. CASE Finish(e) /\ status[e] # "cancelled"
  <2>1. status' = [status EXCEPT ![e] = "completed"] /\ status[e] \in {"running", "paused"}
    BY <1>8 DEF Finish, FinalStatus, PlaceInv, Looping
  <2>2. EndedMap' = EndedMap /\ ~EndedMap[e]
    BY <1>8, EndedSame DEF Finish, Places, EndedMap, Ended
  <2>3. SettledMap[e] = Nodes
    BY <1>8, FinishSettled DEF SettledMap
  <2> QED
    BY <1>1, <1>8, <2>1, <2>2, <2>3
    DEF Finish, work, EndedMap, SettledMap, Abstract!Complete, Abstract!Become
<1> QED
  BY <1>2, <1>3, <1>5, <1>6, <1>7, <1>8, <1>9 DEF Coordinate

\* The requests of clients.
LEMMA RequestRefines ==
  ASSUME IInv, NEW e \in Execs, Request(e)
  PROVE  \/ Abstract!Submit(e) \/ Abstract!Pause(e) \/ Abstract!Resume(e) \/ Abstract!Cancel(e)
         \/ Abstract!Abandon(e)
<1> USE DEF IInv, TypeOK, work
<1>1. ASSUME results' = results PROVE SettledMap' = SettledMap
  BY <1>1 DEF SettledMap
<1>2. ASSUME OpenGate(e) PROVE EndedMap' = EndedMap
  <2>1. \A x \in Execs : Ended(x)' = Ended(x)
    BY <1>2 DEF OpenGate, Ended
  <2> QED
    BY <2>1 DEF EndedMap
<1>3. CASE Submit(e)
  <2>1. EndedMap' = EndedMap
    BY <1>3, EndedSame DEF Submit, Places
  <2>2. status[e] = "none"
    BY <1>3 DEF Submit, PlaceInv
  <2> QED
    BY <1>1, <1>3, <2>1, <2>2
    DEF Submit, EndedMap, SettledMap, Abstract!Submit, Abstract!Become
<1>4. CASE Pause(e)
  <2>1. EndedMap' = EndedMap
    BY <1>4 DEF Pause, EndedMap, Ended
  <2> QED
    BY <1>1, <1>4, <2>1 DEF Pause, EndedMap, SettledMap, Abstract!Pause, Abstract!Become
<1>5. CASE Resume(e)
  BY <1>1, <1>2, <1>5 DEF Resume, EndedMap, SettledMap, Abstract!Resume, Abstract!Become
<1>6. CASE Cancel(e)
  BY <1>1, <1>2, <1>6
  DEF Cancel, Statuses, EndedMap, SettledMap, Abstract!Cancel, Abstract!Become, Abstract!Terminal
<1>7. CASE Disconnect(e)
  <2>1. EndedMap' = [EndedMap EXCEPT ![e] = TRUE]
    BY <1>7, EndedOne DEF Disconnect
  <2>2. status[e] # "none" /\ ~EndedMap[e]
    BY <1>7 DEF Disconnect, PlaceInv, EndedMap, Ended
  <2> QED
    BY <1>1, <1>7, <2>1, <2>2 DEF Disconnect, EndedMap, SettledMap, Abstract!Abandon
<1> QED
  BY <1>3, <1>4, <1>5, <1>6, <1>7 DEF Request

\* The steps of one node's call.
LEMMA StepRefines ==
  ASSUME IInv, NEW e \in Execs, NEW n \in Nodes, Step(e, n)
  PROVE  Abstract!Work(e) \/ Abstract!Fail(e) \/ UNCHANGED Abstract!vars
<1> USE DEF IInv, TypeOK
<1>1. ASSUME UNCHANGED <<status, pc, entered, results>> PROVE UNCHANGED Abstract!vars
  BY <1>1 DEF Ended, Abstract!vars
<1>2. ASSUME task[e][n] = "running", UNCHANGED control, NEW value \in {"completed", "failed"},
             results' = [results EXCEPT ![e][Target(e, n)] = value]
      PROVE  Abstract!Work(e)
  <2>1. PICK m \in Nodes : m = Target(e, n)
    BY ConstantsAssumption DEF Target, ResultInv
  <2>2. ~EndedMap[e]
    BY <1>2 DEF LevelInv, Active, EndedMap, Ended
  <2>3. EndedMap' = EndedMap
    BY <1>2 DEF control, EndedMap, Ended
  <2>4. SettledMap' = [SettledMap EXCEPT ![e] = @ \cup {m}]
    BY <1>2, <2>1, SettledOne
  <2>5. status' = status /\ entered' = entered
    BY <1>2 DEF control
  <2>6. n \in entered[e] /\ (m = n \/ Comp[n] = m)
    BY <1>2, <2>1 DEF LevelInv, Target
  <2>7. Abstract!Settle(e, m)
    BY <2>2, <2>4, <2>5, <2>6 DEF EndedMap, SettledMap, Abstract!Settle
  <2>8. Abstract!MayBegin(e)
    BY <2>5 DEF Abstract!MayBegin
  <2> QED
    BY <2>3, <2>5, <2>7, <2>8 DEF EndedMap, Abstract!Work
<1>3. CASE StartNode(e, n)
  <2>1. Level(e) = {n} => e \in Streams
    BY <1>3 DEF StartNode, LevelInv
  <2>2. status[e] \in {"running", "paused", "cancelled"}
    BY <1>3 DEF StartNode, PlaceInv, Looping
  <2>3. Abstract!MayBegin(e) /\ n \in entered'[e]
    BY <1>3 DEF StartNode, LevelInv, Abstract!MayBegin
  <2> QED
    BY <1>3, <2>1, <2>2, <2>3, DispatchRefines DEF StartNode
<1>4. CASE HandlerReturns(e, n)
  BY <1>2, <1>4 DEF HandlerReturns
<1>5. CASE Exhaust(e, n)
  BY <1>2, <1>5 DEF Exhaust
<1>6. CASE RetryAfterTimeout(e, n) \/ RetryAfterError(e, n) \/ BackoffEnds(e, n) \/ NodeReturns(e, n)
  BY <1>1, <1>6 DEF RetryAfterTimeout, RetryAfterError, Reattempt, NoteAttempt, BackoffEnds,
     NodeReturns, control
<1> QED
  BY <1>3, <1>4, <1>5, <1>6 DEF Step

\* Every behaviour of the service, seen through the status, the end and the node results
\* of its executions, is a behaviour of the life cycle.
THEOREM ImplementsLifecycle == Spec => Lifecycle
<1>1. Init => Abstract!Init
  <2> SUFFICES ASSUME Init PROVE Abstract!Init
    OBVIOUS
  <2>1. \A e \in Execs : pc[e] = "idle"
    BY DEF Init
  <2>2. ASSUME NEW e \in Execs PROVE Ended(e) = FALSE
    <3>1. ~Ended(e) /\ Ended(e) \in BOOLEAN
      BY <2>1 DEF Ended
    <3> QED
      BY <3>1, Zenon
  <2>3. EndedMap = [e \in Execs |-> FALSE]
    BY <2>2, Zenon DEF EndedMap
  <2>4. \A e \in Execs : {n \in Nodes : results[e][n] # "none"} = {}
    BY DEF Init
  <2>5. SettledMap = [e \in Execs |-> {}]
    BY <2>4 DEF SettledMap
  <2>6. status = [e \in Execs |-> "none"] /\ entered = [e \in Execs |-> {}]
    BY DEF Init
  <2> QED
    BY <2>3, <2>5, <2>6 DEF EndedMap, SettledMap, Abstract!Init
<1>2. ASSUME IInv, [Next]_vars PROVE [Abstract!Next]_(Abstract!vars)
  <2>1. ASSUME NEW e \in Execs, Coordinate(e) \/ Request(e) PROVE [Abstract!Next]_(Abstract!vars)
    BY <1>2, <2>1, CoordinateRefines, RequestRefines DEF Abstract!Next
  <2>2. ASSUME NEW e \in Execs, NEW n \in Nodes, Step(e, n) PROVE [Abstract!Next]_(Abstract!vars)
    BY <1>2, <2>2, StepRefines DEF Abstract!Next
  <2>3. ASSUME UNCHANGED <<status, pc, entered, results>> PROVE UNCHANGED Abstract!vars
    BY <2>3 DEF Ended, Abstract!vars
  <2> QED
    BY <1>2, <2>1, <2>2, <2>3 DEF Next, RecoveryTimePasses, control, work, vars
<1> QED
  BY <1>1, <1>2, InductiveInvariant, PTL DEF Spec, Lifecycle, Abstract!Spec
=============================================================================
