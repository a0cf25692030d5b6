------------------------ MODULE AgentRuntime_proofs ------------------------
(***************************************************************************)
(* Proofs about AgentRuntime, for any executions, agents, chains, numbers  *)
(* of iterations, and any even capacity and window.                        *)
(***************************************************************************)
EXTENDS AgentRuntime, SequenceTheorems, TLAPS

----------------------------------------------------------------------------
(* What the operators on memories return.                                  *)

\* add_working returns a list that ends with the entry; the rest is the old list, without
\* its first entry if that made room.
LEMMA PushProperties ==
  ASSUME NEW s \in Seq(Entries), NEW x \in Entries
  PROVE  /\ Push(s, x) \in Seq(Entries)
         /\ Push(s, x)[Len(Push(s, x))] = x
         /\ Len(s) < Capacity =>
              /\ Len(Push(s, x)) = Len(s) + 1
              /\ \A i \in 1..Len(s) : Push(s, x)[i] = s[i]
         /\ Len(s) >= Capacity =>
              /\ Len(Push(s, x)) = Len(s)
              /\ \A i \in 1..(Len(s) - 1) : Push(s, x)[i] = s[i + 1]
<1> DEFINE p == Push(s, x)
<1>1. Len(s) \in Nat
  BY LenProperties
<1>2. CASE Len(s) < Capacity
  <2>1. p = Append(s, x)
    BY <1>1, <1>2, WholeTurnsAssumption DEF Push
  <2>2. /\ p \in Seq(Entries) /\ Len(p) = Len(s) + 1
        /\ \A i \in 1..Len(s) : p[i] = s[i]
        /\ p[Len(s) + 1] = x
    BY <2>1, AppendProperties
  <2> HIDE DEF p
  <2>3. p[Len(p)] = x
    BY <2>2
  <2> QED
    BY <1>1, <1>2, <2>2, <2>3, WholeTurnsAssumption DEF p
<1>3. CASE Len(s) >= Capacity
  <2> DEFINE q == Tail(s)
  <2>1. p = Append(q, x)
    BY <1>3 DEF Push
  <2>2. s # <<>>
    BY <1>3, EmptySeq, WholeTurnsAssumption
  <2>3. /\ q \in Seq(Entries) /\ Len(q) = Len(s) - 1
        /\ \A i \in 1..Len(q) : q[i] = s[i + 1]
    BY <2>2, HeadTailProperties
  <2> HIDE DEF q
  <2>4. /\ p \in Seq(Entries) /\ Len(p) = Len(q) + 1
        /\ \A i \in 1..Len(q) : p[i] = q[i]
        /\ p[Len(q) + 1] = x
    BY <2>1, <2>3, AppendProperties
  <2> HIDE DEF p
  <2>5. Len(p) = Len(s) /\ p[Len(p)] = x
    BY <1>1, <2>3, <2>4
  <2>6. \A i \in 1..(Len(s) - 1) : p[i] = s[i + 1]
    BY <2>3, <2>4
  <2> QED
    BY <1>1, <1>3, <2>4, <2>5, <2>6, WholeTurnsAssumption DEF p
<1> QED
  BY <1>1, <1>2, <1>3, WholeTurnsAssumption

\* Every entry of the new list is the new one or an old one.
LEMMA PushEntries ==
  ASSUME NEW s \in Seq(Entries), NEW x \in Entries
  PROVE  \A i \in 1..Len(Push(s, x)) :
           Push(s, x)[i] = x \/ \E j \in 1..Len(s) : Push(s, x)[i] = s[j]
<1> DEFINE p == Push(s, x)
<1>1. /\ p \in Seq(Entries)
      /\ Len(s) < Capacity =>
           Len(p) = Len(s) + 1 /\ \A i \in 1..Len(s) : p[i] = s[i]
      /\ Len(s) >= Capacity =>
           Len(p) = Len(s) /\ \A i \in 1..(Len(s) - 1) : p[i] = s[i + 1]
      /\ p[Len(p)] = x
  BY PushProperties
<1>2. Len(s) \in Nat /\ Len(p) \in Nat
  BY <1>1, LenProperties
<1> HIDE DEF p
<1>3. ASSUME NEW i \in 1..Len(p), i # Len(p)
      PROVE  \E j \in 1..Len(s) : p[i] = s[j]
  <2>1. CASE Len(s) < Capacity
    <3>1. i \in 1..Len(s) /\ p[i] = s[i]
      BY <1>1, <1>2, <1>3, <2>1
    <3> QED
      BY <3>1
  <2>2. CASE Len(s) >= Capacity
    <3>1. i + 1 \in 1..Len(s) /\ p[i] = s[i + 1]
      BY <1>1, <1>2, <1>3, <2>2
    <3> QED
      BY <3>1
  <2> QED
    BY <1>2, <2>1, <2>2, WholeTurnsAssumption
<1>4. \A i \in 1..Len(p) : p[i] = x \/ \E j \in 1..Len(s) : p[i] = s[j]
  BY <1>1, <1>3
<1> QED
  BY <1>4 DEF p

\* The turn of an execution after the list of a session.
PushTurn(s, e) == Push(Push(s, Turn(e)[1]), Turn(e)[2])

LEMMA TurnTyped ==
  ASSUME NEW e \in Execs
  PROVE  /\ Turn(e)[1] = [of |-> e, role |-> "user"]
         /\ Turn(e)[2] = [of |-> e, role |-> "assistant"]
         /\ Turn(e)[1] \in Entries /\ Turn(e)[2] \in Entries
BY DEF Turn, Entries

\* After a turn is saved, every entry of the list is an old one or of that turn.
LEMMA PushTurnEntries ==
  ASSUME NEW s \in Seq(Entries), NEW e \in Execs
  PROVE  /\ PushTurn(s, e) \in Seq(Entries)
         /\ \A i \in 1..Len(PushTurn(s, e)) :
              \/ PushTurn(s, e)[i].of = e
              \/ \E j \in 1..Len(s) : PushTurn(s, e)[i] = s[j]
<1> DEFINE u == Turn(e)[1]
           v == Turn(e)[2]
           t == Push(s, u)
           r == Push(t, v)
<1>1. u \in Entries /\ v \in Entries /\ u.of = e /\ v.of = e
  BY TurnTyped DEF Turn
<1> HIDE DEF u, v
<1>2. /\ t \in Seq(Entries)
      /\ \A i \in 1..Len(t) : t[i] = u \/ \E j \in 1..Len(s) : t[i] = s[j]
  BY <1>1, PushProperties, PushEntries
<1> HIDE DEF t
<1>3. /\ r \in Seq(Entries)
      /\ \A i \in 1..Len(r) : r[i] = v \/ \E j \in 1..Len(t) : r[i] = t[j]
  BY <1>1, <1>2, PushProperties, PushEntries
<1> HIDE DEF r
<1>4. PushTurn(s, e) = r
  BY DEF PushTurn, r, t, u, v
<1> QED
  BY SMTT(30), <1>1, <1>2, <1>3, <1>4

\* A turn that is saved leaves whole turns: an even capacity makes room for both entries or
\* for none.
LEMMA PushTurnWhole ==
  ASSUME NEW s \in Seq(Entries), NEW e \in Execs, IsTurns(s)
  PROVE  IsTurns(PushTurn(s, e))
<1> DEFINE u == Turn(e)[1]
           v == Turn(e)[2]
           t == Push(s, u)
           r == Push(t, v)
<1>1. PushTurn(s, e) = r
  BY DEF PushTurn
<1>2. /\ u \in Entries /\ v \in Entries
      /\ u.role = "user" /\ v = [of |-> u.of, role |-> "assistant"]
  BY TurnTyped DEF Turn
<1> HIDE DEF u, v
<1>3. /\ t \in Seq(Entries)
      /\ t[Len(t)] = u
      /\ Len(s) < Capacity =>
           Len(t) = Len(s) + 1 /\ \A i \in 1..Len(s) : t[i] = s[i]
      /\ Len(s) >= Capacity =>
           Len(t) = Len(s) /\ \A i \in 1..(Len(s) - 1) : t[i] = s[i + 1]
  BY <1>2, PushProperties
<1> HIDE DEF t
<1>4. /\ r \in Seq(Entries)
      /\ r[Len(r)] = v
      /\ Len(t) < Capacity =>
           Len(r) = Len(t) + 1 /\ \A i \in 1..Len(t) : r[i] = t[i]
      /\ Len(t) >= Capacity =>
           Len(r) = Len(t) /\ \A i \in 1..(Len(t) - 1) : r[i] = t[i + 1]
  BY <1>2, <1>3, PushProperties
<1> HIDE DEF r
<1>5. Len(s) \in Nat /\ Len(t) \in Nat /\ Len(r) \in Nat
  BY <1>3, <1>4, LenProperties
<1>6. Len(s) % 2 = 0
  BY DEF IsTurns
<1> USE WholeTurnsAssumption
<1>7. CASE Len(s) < Capacity
  <2>1. Len(s) + 1 < Capacity
    BY <1>5, <1>6, <1>7, SMTT(30)
  <2>2. Len(t) = Len(s) + 1 /\ Len(r) = Len(s) + 2 /\ Len(r) % 2 = 0
    <3>1. Len(t) = Len(s) + 1
      BY <1>3, <1>7
    <3>2. Len(r) = Len(s) + 2
      BY <1>4, <1>5, <2>1, <3>1
    <3>3. (Len(s) + 2) % 2 = 0
      BY <1>5, <1>6
    <3> QED
      BY <3>1, <3>2, <3>3
  <2>3. \A i \in 1..Len(s) : r[i] = s[i]
    BY <1>3, <1>4, <1>5, <1>7, <2>1, <2>2
  <2>4. r[Len(s) + 1] = u /\ r[Len(s) + 2] = v
    BY <1>3, <1>4, <1>5, <2>1, <2>2
  <2>5. ASSUME NEW i \in 1..Len(r), i % 2 = 1
        PROVE  r[i].role = "user" /\ r[i + 1] = [of |-> r[i].of, role |-> "assistant"]
    <3>1. CASE i <= Len(s)
      <4>1. i \in 1..Len(s) /\ i + 1 \in 1..Len(s)
        BY <1>5, <1>6, <2>5, <3>1, SMTT(30)
      <4> QED
        BY <2>3, <2>5, <4>1 DEF IsTurns
    <3>2. CASE i > Len(s)
      <4>1. i = Len(s) + 1
        BY <1>5, <1>6, <2>2, <2>5, <3>2, SMTT(30)
      <4>2. r[i] = u /\ r[i + 1] = v
        BY <1>5, <2>4, <4>1
      <4> QED
        BY <1>2, <4>2
    <3> QED
      BY <1>5, <3>1, <3>2
  <2> QED
    BY <1>1, <2>2, <2>5 DEF IsTurns
<1>8. CASE Len(s) >= Capacity
  <2>1. Len(t) = Len(s) /\ Len(r) = Len(s) /\ Len(s) >= 2
    BY <1>3, <1>4, <1>5, <1>6, <1>8
  <2>2. ASSUME NEW i \in 1..Len(s), i + 2 <= Len(s)
        PROVE  r[i] = s[i + 2]
    <3>1. i \in 1..(Len(t) - 1) /\ i + 1 \in 1..(Len(s) - 1) /\ Len(t) >= Capacity
      BY <1>5, <1>8, <2>1, <2>2
    <3>2. r[i] = t[i + 1] /\ t[i + 1] = s[(i + 1) + 1]
      BY <1>3, <1>4, <1>8, <3>1
    <3> QED
      BY <3>2
  <2>3. r[Len(s) - 1] = u /\ r[Len(s)] = v
    <3>1. Len(s) - 1 \in 1..(Len(t) - 1) /\ Len(t) >= Capacity
      BY <1>5, <1>8, <2>1
    <3>2. r[Len(s) - 1] = t[(Len(s) - 1) + 1]
      BY <1>4, <3>1
    <3>3. (Len(s) - 1) + 1 = Len(t)
      BY <1>5, <2>1
    <3> QED
      BY <1>3, <1>4, <2>1, <3>2, <3>3
  <2>4. ASSUME NEW i \in 1..Len(r), i % 2 = 1
        PROVE  r[i].role = "user" /\ r[i + 1] = [of |-> r[i].of, role |-> "assistant"]
    <3>1. CASE i + 2 <= Len(s)
      <4>1. /\ i \in 1..Len(s) /\ i + 1 \in 1..Len(s) /\ (i + 1) + 2 <= Len(s)
            /\ i + 2 \in 1..Len(s) /\ (i + 2) % 2 = 1
        BY <1>5, <1>6, <2>1, <2>4, <3>1, SMTT(30)
      <4>2. r[i] = s[i + 2] /\ r[i + 1] = s[(i + 1) + 2]
        BY <2>2, <3>1, <4>1
      <4>3. s[i + 2].role = "user" /\ s[(i + 2) + 1] = [of |-> s[i + 2].of, role |-> "assistant"]
        BY <4>1 DEF IsTurns
      <4>4. (i + 2) + 1 = (i + 1) + 2
        BY <2>4
      <4> QED
        BY <4>2, <4>3, <4>4
    <3>2. CASE i + 2 > Len(s)
      <4>1. i = Len(s) - 1 /\ i + 1 = Len(s)
        BY <1>5, <1>6, <2>1, <2>4, <3>2, SMTT(30)
      <4> QED
        BY <1>2, <2>3, <4>1
    <3> QED
      BY <1>5, <3>1, <3>2
  <2> QED
    BY <1>1, <1>6, <2>1, <2>4 DEF IsTurns
<1> QED
  BY <1>5, <1>7, <1>8

\* The prompt gets entries of the session, and whole turns of whole turns.
LEMMA RecallProperties ==
  ASSUME NEW s \in Seq(Entries)
  PROVE  /\ Recall(s) \in Seq(Entries)
         /\ \A i \in 1..Len(Recall(s)) : \E j \in 1..Len(s) : Recall(s)[i] = s[j]
         /\ IsTurns(s) => IsTurns(Recall(s))
<1> USE WholeTurnsAssumption
<1>1. CASE Len(s) <= Window
  BY <1>1 DEF Recall
<1>2. CASE Len(s) > Window
  <2> DEFINE n == Len(s)
             r == SubSeq(s, n - Window + 1, n)
  <2>1. Recall(s) = r
    BY <1>2 DEF Recall
  <2>2. n \in Nat /\ \A i \in 1..n : s[i] \in Entries
    BY LenProperties, ElementOfSeq
  <2>3. /\ r \in Seq(Entries) /\ Len(r) = Window
        /\ \A i \in 1..Window : r[i] = s[n - Window + i]
    BY <1>2, <2>2, SubSeqProperties
  <2> HIDE DEF r
  <2>4. ASSUME NEW i \in 1..Len(r)
        PROVE  \E j \in 1..n : r[i] = s[j]
    <3>1. n - Window + i \in 1..n
      BY <1>2, <2>2, <2>3, <2>4
    <3> QED
      BY <2>3, <2>4, <3>1
  <2>5. ASSUME IsTurns(s), NEW i \in 1..Len(r), i % 2 = 1
        PROVE  r[i].role = "user" /\ r[i + 1] = [of |-> r[i].of, role |-> "assistant"]
    <3> DEFINE j == n - Window + i
    <3>0. n % 2 = 0 /\ i \in Nat /\ i <= Window
      BY <2>3, <2>5 DEF IsTurns
    <3>1. j \in 1..n /\ i + 1 \in 1..Window
      <4>1. i # Window
        BY <2>5
      <4> QED
        BY <1>2, <2>2, <2>5, <3>0, <4>1, SMTT(30)
    <3>2. j % 2 = 1
      BY <2>2, <2>5, <3>0, SMTT(30)
    <3>3. r[i] = s[j] /\ r[i + 1] = s[j + 1]
      <4>1. n - Window + (i + 1) = j + 1
        BY <2>2, <2>5
      <4> QED
        BY <2>3, <2>5, <3>1, <4>1
    <3> QED
      BY <2>5, <3>1, <3>2, <3>3 DEF IsTurns
  <2> QED
    BY <2>1, <2>3, <2>4, <2>5 DEF IsTurns
<1> QED
  BY <1>1, <1>2, LenProperties

----------------------------------------------------------------------------
(* The steps of a tool loop, by what they do to the state that is shared.  *)

InLoop(e) == pc[e] \in {"model", "tool"}

Finishes(e) == InLoop(e) /\ Complete(e) /\ UNCHANGED <<backend, heard, table>>
Aborts(e) == InLoop(e) /\ Fail(e) /\ UNCHANGED <<backend, heard, table>>
Moves(e) ==
  /\ InLoop(e)
  /\ \E p \in {"model", "tool"} : pc' = [pc EXCEPT ![e] = p]
  /\ UNCHANGED <<backend, status, heard, memory>>

Runs(e) == ModelAnswers(e) \/ ModelRaises(e) \/ ModelAsks(e) \/ ToolReturns(e) \/ CallMalformed(e)

\* Every step of the loop completes the execution, fails it, or concerns the loop only.
LEMMA RunsAs ==
  ASSUME TypeOK, NEW e \in Execs, Runs(e)
  PROVE  Finishes(e) \/ Aborts(e) \/ Moves(e)
<1> USE DEF InLoop, Finishes, Aborts, Moves, memory
<1>1. ASSUME LinkOver(e), InLoop(e), UNCHANGED <<backend, heard, table>>
      PROVE  Finishes(e) \/ Moves(e)
  BY <1>1 DEF LinkOver, NextLink
<1>2. ASSUME Raise(e), InLoop(e), UNCHANGED <<backend, heard, table>>
      PROVE  Finishes(e) \/ Aborts(e) \/ Moves(e)
  BY <1>1, <1>2 DEF Raise
<1>3. CASE ModelAnswers(e)
  BY <1>1, <1>3 DEF ModelAnswers
<1>4. CASE ModelRaises(e)
  BY <1>2, <1>4 DEF ModelRaises
<1>5. CASE ModelAsks(e)
  BY <1>5 DEF ModelAsks
<1>6. CASE ToolReturns(e)
  <2>1. CASE NextCall(e)
    <3>1. pc' = [pc EXCEPT ![e] = "tool"]
      BY <1>6, <2>1 DEF ToolReturns, NextCall, TypeOK
    <3> QED
      BY <1>6, <2>1, <3>1 DEF ToolReturns, NextCall
  <2>2. CASE NextIteration(e)
    BY <1>6, <2>2 DEF ToolReturns, NextIteration
  <2>3. CASE IterationsEnd(e)
    BY <1>1, <1>6, <2>3 DEF ToolReturns, IterationsEnd
  <2> QED
    BY <1>6, <2>1, <2>2, <2>3 DEF ToolReturns
<1>7. CASE CallMalformed(e)
  BY <1>2, <1>7 DEF CallMalformed
<1> QED
  BY <1>3, <1>4, <1>5, <1>6, <1>7 DEF Runs

\* The session of an execution in its loop exists and belongs to its agent; saving appends
\* a turn there.
LEMMA SavedProperties ==
  ASSUME TypeOK, SessionInv, NEW e \in Execs, InLoop(e)
  PROVE  /\ e \notin Remembering => Saved(e) = working
         /\ e \in Remembering =>
              /\ Session(e) \in Execs /\ KeyOf[Session(e)] = KeyOf[e]
              /\ Saved(e) = [working EXCEPT ![Session(e)] = PushTurn(@, e)]
<1> USE ConstantsAssumption
<1>1. CASE e \notin Remembering
  BY <1>1 DEF Saved
<1>2. CASE e \in Remembering
  <2>1. KeyOf[e] \in Keys /\ table[KeyOf[e]] \in Execs \cup {None} /\ table[KeyOf[e]] # None
    BY <1>2 DEF TypeOK, SessionInv, InLoop
  <2>2. Session(e) \in Execs /\ KeyOf[Session(e)] = KeyOf[e]
    BY <2>1 DEF Session, SessionKey, SessionInv
  <2>3. Saved(e) = [working EXCEPT ![Session(e)] = PushTurn(@, e)]
    BY <1>2 DEF Saved, PushTurn
  <2> QED
    BY <1>2, <2>2, <2>3
<1> QED
  BY <1>1, <1>2

----------------------------------------------------------------------------
(* The type invariant.                                                     *)

\* The counters of the loop keep their bounds.
LoopTyped ==
  /\ link \in [Execs -> Nat] /\ \A e \in Execs : link[e] <= Links[e]
  /\ iteration \in [Execs -> Nat] /\ \A e \in Execs : iteration[e] <= MaxIterations[e]
  /\ pending \in [Execs -> 0..MaxCalls]

LEMMA RunsLoopTyped ==
  ASSUME TypeOK, NEW e \in Execs, Runs(e)
  PROVE  LoopTyped'
<1> USE ConstantsAssumption DEF TypeOK, LoopTyped
<1>1. ASSUME Complete(e)
      PROVE  LoopTyped'
  BY <1>1 DEF Complete
<1>2. ASSUME Fail(e)
      PROVE  LoopTyped'
  BY <1>2 DEF Fail
<1>3. ASSUME NextLink(e)
      PROVE  LoopTyped'
  BY <1>3 DEF NextLink
<1>4. ASSUME LinkOver(e)
      PROVE  LoopTyped'
  BY <1>1, <1>3, <1>4 DEF LinkOver
<1>5. ASSUME Raise(e)
      PROVE  LoopTyped'
  BY <1>2, <1>4, <1>5 DEF Raise
<1>6. CASE ModelAnswers(e)
  BY <1>1, <1>4, <1>6 DEF ModelAnswers
<1>7. CASE ModelRaises(e)
  BY <1>2, <1>5, <1>7 DEF ModelRaises
<1>8. CASE ModelAsks(e)
  BY <1>8 DEF ModelAsks
<1>9. CASE ToolReturns(e)
  <2>1. CASE NextCall(e)
    BY <2>1 DEF NextCall
  <2>2. CASE NextIteration(e)
    BY <2>2 DEF NextIteration, MayIterate
  <2>3. CASE IterationsEnd(e)
    BY <1>4, <2>3 DEF IterationsEnd
  <2> QED
    BY <1>9, <2>1, <2>2, <2>3 DEF ToolReturns
<1>10. CASE CallMalformed(e)
  BY <1>5, <1>10 DEF CallMalformed
<1> QED
  BY <1>6, <1>7, <1>8, <1>9, <1>10 DEF Runs

\* Building a prompt from entries keeps the type.
LEMMA PromptTyped ==
  ASSUME TypeOK, NEW e \in Execs, NEW entries \in Seq(Entries), Prompt(e, entries),
         table' = table \/ table' = [table EXCEPT ![SessionKey(e)] = e]
  PROVE  TypeOK'
<1>1. heard' \in [Execs -> Seq(Entries)]
  <2>1. <<>> \in Seq(Entries)
    BY EmptySeq
  <2> QED
    BY <2>1 DEF TypeOK, Prompt
<1>2. link' \in [Execs -> Nat] /\ \A d \in Execs : link'[d] <= Links[d]
  <2>1. CASE e \notin Streams /\ Links[e] > 0
    <3>1. link' = [link EXCEPT ![e] = 1]
      BY <2>1 DEF Prompt
    <3>2. Links[e] \in Nat
      BY ConstantsAssumption
    <3> QED
      BY <2>1, <3>1, <3>2 DEF TypeOK
  <2>2. CASE ~(e \notin Streams /\ Links[e] > 0)
    <3>1. link' = [link EXCEPT ![e] = 0]
      BY <2>2 DEF Prompt
    <3>2. Links[e] \in Nat
      BY ConstantsAssumption
    <3> QED
      BY <3>1, <3>2 DEF TypeOK
  <2> QED
    BY <2>1, <2>2
<1>3. iteration' \in [Execs -> Nat] /\ \A d \in Execs : iteration'[d] <= MaxIterations[d]
  <2>1. iteration' = [iteration EXCEPT ![e] = 1]
    BY DEF Prompt
  <2>2. MaxIterations[e] \in Nat \ {0}
    BY ConstantsAssumption
  <2> QED
    BY <2>1, <2>2 DEF TypeOK
<1>4. pc' \in [Execs -> Places]
  BY DEF TypeOK, Prompt, Places
<1>5. table' \in [Keys -> Execs \cup {None}]
  BY DEF TypeOK
<1> QED
  BY <1>1, <1>2, <1>3, <1>4, <1>5 DEF TypeOK, Prompt

LEMMA BuildPromptTyped ==
  ASSUME TypeOK, NEW e \in Execs, BuildPrompt(e)
  PROVE  TypeOK'
<1> USE ConstantsAssumption
<1>1. <<>> \in Seq(Entries)
  BY EmptySeq
<1>2. CASE PromptWithoutMemory(e)
  BY <1>1, <1>2, PromptTyped DEF PromptWithoutMemory
<1>3. CASE PromptFromSession(e)
  <2>1. Session(e) \in Execs
    BY <1>3 DEF PromptFromSession, HasSession, Session, SessionKey, TypeOK
  <2>2. Recall(working[Session(e)]) \in Seq(Entries)
    BY <2>1, RecallProperties DEF TypeOK
  <2> QED
    BY <1>3, <2>2, PromptTyped DEF PromptFromSession
<1>4. CASE CreateAtOnce(e)
  BY <1>1, <1>4, PromptTyped DEF CreateAtOnce
<1>5. CASE CreateInRedis(e)
  BY <1>5 DEF CreateInRedis, TypeOK, Places, loop, memory
<1>6. CASE SessionCreated(e)
  <2>1. Recall(working[e]) \in Seq(Entries)
    BY RecallProperties DEF TypeOK
  <2> QED
    BY <1>6, <2>1, PromptTyped DEF SessionCreated
<1> QED
  BY <1>2, <1>3, <1>4, <1>5, <1>6 DEF BuildPrompt

LEMMA TypeStep == TypeOK /\ SessionInv /\ [Next]_vars => TypeOK'
<1> SUFFICES ASSUME TypeOK, SessionInv, [Next]_vars
             PROVE  TypeOK'
  OBVIOUS
<1>1. ASSUME NEW e \in Execs, Submit(e)
      PROVE  TypeOK'
  BY <1>1 DEF Submit, TypeOK, Places, loop, memory
<1>2. ASSUME NEW e \in Execs, BuildPrompt(e)
      PROVE  TypeOK'
  BY <1>2, BuildPromptTyped
<1>3. ASSUME NEW e \in Execs, Runs(e)
      PROVE  TypeOK'
  <2>1. LoopTyped'
    BY <1>3, RunsLoopTyped
  <2>2. CASE Finishes(e)
    <3>1. working' \in [Execs -> Seq(Entries)]
      <4>1. CASE e \notin Remembering
        BY <2>2, <4>1, SavedProperties DEF Finishes, Complete, TypeOK
      <4>2. CASE e \in Remembering
        <5>1. Session(e) \in Execs /\ working' = [working EXCEPT ![Session(e)] = PushTurn(@, e)]
          BY <2>2, <4>2, SavedProperties DEF Finishes, Complete
        <5>2. PushTurn(working[Session(e)], e) \in Seq(Entries)
          BY <5>1, PushTurnEntries DEF TypeOK
        <5> QED
          BY <5>1, <5>2 DEF TypeOK
      <4> QED
        BY <4>1, <4>2
    <3> QED
      BY <2>1, <2>2, <3>1 DEF Finishes, Complete, Closing, LoopTyped, TypeOK, Places
  <2>3. CASE Aborts(e)
    BY <2>1, <2>3 DEF Aborts, Fail, Closing, LoopTyped, TypeOK, Places
  <2>4. CASE Moves(e)
    BY <2>1, <2>4 DEF Moves, LoopTyped, TypeOK, Places, memory
  <2> QED
    BY <1>3, <2>2, <2>3, <2>4, RunsAs
<1>4. ASSUME NEW e \in Execs, EventRead(e) \/ Disconnect(e)
      PROVE  TypeOK'
  BY <1>4 DEF EventRead, Disconnect, TypeOK, Places, loop, memory
<1>5. ASSUME NEW e \in Execs, DeleteSession(e)
      PROVE  TypeOK'
  <2>1. <<>> \in Seq(Entries)
    BY EmptySeq
  <2> QED
    BY <1>5, <2>1 DEF DeleteSession, TypeOK, loop
<1>6. CASE UNCHANGED vars
  BY <1>6 DEF vars, TypeOK
<1> QED
  BY <1>1, <1>2, <1>3, <1>4, <1>5, <1>6 DEF Next, Step, Runs

----------------------------------------------------------------------------
(* What a step may do to each variable that executions share.              *)

\* The cases of a step, the steps of a loop by their effect.
LEMMA NextCases ==
  ASSUME TypeOK, [Next]_vars
  PROVE  \/ \E e \in Execs : \/ Submit(e) \/ BuildPrompt(e)
                             \/ Finishes(e) \/ Aborts(e) \/ Moves(e)
                             \/ EventRead(e) \/ Disconnect(e) \/ DeleteSession(e)
         \/ UNCHANGED vars
BY RunsAs DEF Next, Step, Runs

LEMMA BackendKept == TypeOK /\ [Next]_vars => backend' = backend
<1> SUFFICES ASSUME TypeOK, [Next]_vars
             PROVE  backend' = backend
  OBVIOUS
<1>1. ASSUME NEW e \in Execs, BuildPrompt(e)
      PROVE  backend' = backend
  BY <1>1 DEF BuildPrompt, PromptWithoutMemory, PromptFromSession, CreateAtOnce, CreateInRedis,
              SessionCreated, Prompt
<1> QED
  BY <1>1, NextCases DEF Submit, Finishes, Aborts, Moves, EventRead, Disconnect, DeleteSession, vars

\* A step leaves a session alone, empties it, or saves the turn of an execution in the
\* session its agent has in the table.
LEMMA WorkingChanges ==
  ASSUME TypeOK, SessionInv, [Next]_vars, NEW s \in Execs
  PROVE  \/ working'[s] = working[s]
         \/ working'[s] = <<>>
         \/ \E e \in Remembering :
              /\ Finishes(e)
              /\ KeyOf[e] = KeyOf[s] /\ table[KeyOf[s]] = s
              /\ working'[s] = PushTurn(working[s], e)
<1>1. ASSUME NEW e \in Execs, BuildPrompt(e)
      PROVE  working' = working
  BY <1>1 DEF BuildPrompt, PromptWithoutMemory, PromptFromSession, CreateAtOnce, CreateInRedis,
              SessionCreated, Prompt, memory
<1>2. ASSUME NEW e \in Execs, Finishes(e), e \notin Remembering
      PROVE  working' = working
  BY <1>2, SavedProperties DEF Finishes, Complete
<1>3. ASSUME NEW e \in Execs, Finishes(e), e \in Remembering, working'[s] # working[s]
      PROVE  /\ KeyOf[e] = KeyOf[s] /\ table[KeyOf[s]] = s
             /\ working'[s] = PushTurn(working[s], e)
  <2>1. /\ Session(e) \in Execs /\ KeyOf[Session(e)] = KeyOf[e]
        /\ working' = [working EXCEPT ![Session(e)] = PushTurn(@, e)]
    BY <1>3, SavedProperties DEF Finishes, Complete
  <2>2. s = Session(e)
    BY <1>3, <2>1 DEF TypeOK
  <2> QED
    BY <2>1, <2>2 DEF TypeOK, Session, SessionKey
<1>4. ASSUME NEW e \in Execs, DeleteSession(e)
      PROVE  working'[s] = working[s] \/ working'[s] = <<>>
  BY <1>4 DEF DeleteSession, TypeOK
<1>5. ASSUME NEW e \in Execs, Submit(e) \/ Aborts(e) \/ Moves(e) \/ EventRead(e) \/ Disconnect(e)
      PROVE  working' = working
  BY <1>5 DEF Submit, Aborts, Fail, Moves, EventRead, Disconnect, memory
<1> QED
  BY <1>1, <1>2, <1>3, <1>4, <1>5, NextCases DEF vars

\* The prompt of an execution is built from nothing or from a session of its agent.
LEMMA HeardChanges ==
  ASSUME TypeOK, SessionInv, [Next]_vars, NEW e \in Execs
  PROVE  \/ heard'[e] = heard[e]
         \/ heard'[e] = <<>>
         \/ \E s \in Execs : KeyOf[s] = KeyOf[e] /\ heard'[e] = Recall(working[s])
<1>1. ASSUME NEW d \in Execs, NEW entries, Prompt(d, entries)
      PROVE  \/ heard'[e] = heard[e] \/ heard'[e] = <<>>
             \/ e = d /\ heard'[e] = entries
  BY <1>1 DEF Prompt, TypeOK
<1>2. ASSUME NEW d \in Execs, PromptWithoutMemory(d) \/ CreateAtOnce(d)
      PROVE  heard'[e] = heard[e] \/ heard'[e] = <<>>
  BY <1>1, <1>2 DEF PromptWithoutMemory, CreateAtOnce
<1>3. ASSUME NEW d \in Execs, PromptFromSession(d)
      PROVE  \/ heard'[e] = heard[e] \/ heard'[e] = <<>>
             \/ e = d /\ Session(d) \in Execs /\ KeyOf[Session(d)] = KeyOf[e]
                /\ heard'[e] = Recall(working[Session(d)])
  <2>1. KeyOf[d] \in Keys
    BY ConstantsAssumption
  <2>2. Session(d) \in Execs /\ KeyOf[Session(d)] = KeyOf[d]
    BY <1>3, <2>1 DEF PromptFromSession, HasSession, Session, SessionKey, SessionInv, TypeOK
  <2> QED
    BY <1>1, <1>3, <2>2 DEF PromptFromSession
<1>4. ASSUME NEW d \in Execs, SessionCreated(d)
      PROVE  \/ heard'[e] = heard[e] \/ heard'[e] = <<>>
             \/ e = d /\ heard'[e] = Recall(working[e])
  BY <1>1, <1>4 DEF SessionCreated
<1>5. ASSUME NEW d \in Execs, BuildPrompt(d), heard'[e] # heard[e], heard'[e] # <<>>
      PROVE  \E s \in Execs : KeyOf[s] = KeyOf[e] /\ heard'[e] = Recall(working[s])
  BY <1>2, <1>3, <1>4, <1>5 DEF BuildPrompt, CreateInRedis
<1>6. ASSUME NEW d \in Execs, \/ Submit(d) \/ Finishes(d) \/ Aborts(d) \/ Moves(d)
                              \/ EventRead(d) \/ Disconnect(d) \/ DeleteSession(d)
      PROVE  heard' = heard
  BY <1>6 DEF Submit, Finishes, Aborts, Moves, EventRead, Disconnect, DeleteSession
<1> QED
  BY <1>5, <1>6, NextCases DEF vars

\* An entry of the table is written by an execution of its key that stops building its
\* prompt; without Redis there was none.
LEMMA TableChanges ==
  ASSUME TypeOK, PlaceInv, [Next]_vars, NEW k \in Keys, table'[k] # table[k]
  PROVE  \E e \in Execs : /\ KeyOf[e] = k /\ table'[k] = e
                          /\ backend = "memory" => table[k] = None
<1>1. ASSUME NEW e \in Execs, CreateAtOnce(e)
      PROVE  KeyOf[e] = k /\ table'[k] = e /\ table[k] = None
  BY <1>1 DEF CreateAtOnce, HasSession, Session, SessionKey, TypeOK
<1>2. ASSUME NEW e \in Execs, SessionCreated(e)
      PROVE  KeyOf[e] = k /\ table'[k] = e /\ backend = "redis"
  BY <1>2 DEF SessionCreated, SessionKey, PlaceInv, TypeOK
<1>3. ASSUME NEW e \in Execs, PromptWithoutMemory(e) \/ PromptFromSession(e) \/ CreateInRedis(e)
      PROVE  table' = table
  BY <1>3 DEF PromptWithoutMemory, PromptFromSession, CreateInRedis, memory
<1>4. ASSUME NEW e \in Execs, \/ Submit(e) \/ Finishes(e) \/ Aborts(e) \/ Moves(e)
                              \/ EventRead(e) \/ Disconnect(e) \/ DeleteSession(e)
      PROVE  table' = table
  BY <1>4 DEF Submit, Finishes, Aborts, Moves, EventRead, Disconnect, DeleteSession, memory
<1> QED
  BY <1>1, <1>2, <1>3, <1>4, NextCases DEF BuildPrompt, vars

\* A final status is kept, and an execution that saves its turn is completed.
LEMMA StatusChanges ==
  ASSUME TypeOK, PlaceInv, [Next]_vars, NEW d \in Execs
  PROVE  /\ status[d] \in {"completed", "failed"} => status'[d] = status[d]
         /\ Finishes(d) => status'[d] = "completed"
<1> USE DEF TypeOK, PlaceInv
<1>1. ASSUME NEW e \in Execs, Submit(e), status[d] \in {"completed", "failed"}
      PROVE  status'[d] = status[d]
  BY <1>1 DEF Submit
<1>2. ASSUME NEW e \in Execs, Finishes(e)
      PROVE  /\ status[d] \in {"completed", "failed"} => status'[d] = status[d]
             /\ status'[e] = "completed"
  BY <1>2 DEF Finishes, InLoop, Complete
<1>3. ASSUME NEW e \in Execs, Aborts(e), status[d] \in {"completed", "failed"}
      PROVE  status'[d] = status[d]
  BY <1>3 DEF Aborts, InLoop, Fail
<1>4. ASSUME NEW e \in Execs, BuildPrompt(e)
      PROVE  status' = status
  BY <1>4 DEF BuildPrompt, PromptWithoutMemory, PromptFromSession, CreateAtOnce, CreateInRedis,
              SessionCreated, Prompt
<1>5. ASSUME NEW e \in Execs, Moves(e) \/ EventRead(e) \/ Disconnect(e) \/ DeleteSession(e)
      PROVE  status' = status
  BY <1>5 DEF Moves, EventRead, Disconnect, DeleteSession
<1> QED
  BY <1>1, <1>2, <1>3, <1>4, <1>5, NextCases DEF vars

----------------------------------------------------------------------------
(* The inductive invariant.                                                *)

LEMMA PlaceStep == TypeOK /\ PlaceInv /\ [Next]_vars => PlaceInv'
<1> SUFFICES ASSUME TypeOK, PlaceInv, [Next]_vars
             PROVE  PlaceInv'
  OBVIOUS
<1>1. backend' = backend
  BY BackendKept
<1> USE DEF TypeOK, PlaceInv
<1>2. ASSUME NEW e \in Execs, Submit(e)
      PROVE  PlaceInv'
  BY <1>1, <1>2 DEF Submit
<1>3. ASSUME NEW e \in Execs, BuildPrompt(e)
      PROVE  PlaceInv'
  BY <1>1, <1>3 DEF BuildPrompt, PromptWithoutMemory, PromptFromSession, CreateAtOnce,
                    CreateInRedis, SessionCreated, Prompt
<1>4. ASSUME NEW e \in Execs, Finishes(e) \/ Aborts(e)
      PROVE  PlaceInv'
  BY <1>1, <1>4 DEF Finishes, Aborts, Complete, Fail, Closing
<1>5. ASSUME NEW e \in Execs, Moves(e)
      PROVE  PlaceInv'
  BY <1>1, <1>5 DEF Moves, InLoop
<1>6. ASSUME NEW e \in Execs, EventRead(e) \/ Disconnect(e) \/ DeleteSession(e)
      PROVE  PlaceInv'
  BY <1>1, <1>6 DEF EventRead, Disconnect, DeleteSession
<1>7. CASE UNCHANGED vars
  BY <1>7 DEF vars
<1> QED
  BY <1>2, <1>3, <1>4, <1>5, <1>6, <1>7, NextCases

LEMMA SessionStep == TypeOK /\ PlaceInv /\ SessionInv /\ [Next]_vars => SessionInv'
<1> SUFFICES ASSUME TypeOK, PlaceInv, SessionInv, [Next]_vars
             PROVE  SessionInv'
  OBVIOUS
<1>1. ASSUME NEW k \in Keys, table'[k] # None
      PROVE  KeyOf[table'[k]] = k
  BY <1>1, TableChanges DEF SessionInv
<1>2. ASSUME NEW k \in Keys, table[k] # None
      PROVE  table'[k] # None
  BY <1>2, TableChanges, ConstantsAssumption
<1>3. ASSUME NEW e \in Remembering, InLoop(e)'
      PROVE  table'[KeyOf[e]] # None
  <2>1. e \in Execs /\ KeyOf[e] \in Keys
    BY ConstantsAssumption
  <2>2. CASE InLoop(e)
    BY <1>2, <2>1, <2>2 DEF SessionInv, InLoop
  <2>3. CASE ~InLoop(e)
    <3>1. BuildPrompt(e)
      <4>1. ASSUME NEW d \in Execs, d # e, BuildPrompt(d)
            PROVE  pc'[e] = pc[e]
        BY <2>1, <4>1 DEF BuildPrompt, PromptWithoutMemory, PromptFromSession, CreateAtOnce,
                          CreateInRedis, SessionCreated, Prompt, TypeOK
      <4>2. ASSUME NEW d \in Execs, Submit(d) \/ EventRead(d) \/ Disconnect(d) \/ DeleteSession(d)
            PROVE  pc'[e] = pc[e] \/ ~InLoop(e)'
        BY <2>1, <4>2 DEF Submit, EventRead, Disconnect, DeleteSession, InLoop, TypeOK
      <4>3. ASSUME NEW d \in Execs, Finishes(d) \/ Aborts(d) \/ Moves(d)
            PROVE  pc'[e] = pc[e] \/ ~InLoop(e)'
        BY <2>1, <2>3, <4>3 DEF Finishes, Aborts, Moves, Complete, Fail, Closing, InLoop, TypeOK
      <4> QED
        BY <1>3, <2>1, <2>3, <4>1, <4>2, <4>3, NextCases DEF InLoop, vars
    <3>2. CASE PromptFromSession(e)
      BY <1>2, <2>1, <3>2 DEF PromptFromSession, HasSession, Session, SessionKey
    <3>3. CASE CreateAtOnce(e) \/ SessionCreated(e)
      BY <2>1, <3>3, ConstantsAssumption DEF CreateAtOnce, SessionCreated, SessionKey, TypeOK
    <3>4. CASE PromptWithoutMemory(e) \/ CreateInRedis(e)
      BY <1>3, <2>1, <3>4 DEF PromptWithoutMemory, CreateInRedis, InLoop, TypeOK
    <3> QED
      BY <3>1, <3>2, <3>3, <3>4 DEF BuildPrompt
  <2> QED
    BY <2>2, <2>3
<1> QED
  BY <1>1, <1>3 DEF SessionInv, InLoop

\* An entry of a session after a step was there before, or belongs to the turn of an
\* execution that completes and whose agent has this session.
LEMMA EntryOrigin ==
  ASSUME TypeOK, SessionInv, [Next]_vars, NEW s \in Execs, NEW i \in 1..Len(working'[s])
  PROVE  \/ \E j \in 1..Len(working[s]) : working'[s][i] = working[s][j]
         \/ \E e \in Remembering : /\ Finishes(e) /\ KeyOf[e] = KeyOf[s]
                                   /\ working'[s][i].of = e
<1>1. working[s] \in Seq(Entries)
  BY DEF TypeOK
<1>2. CASE working'[s] = <<>>
  BY <1>2, EmptySeq
<1>3. ASSUME NEW e \in Remembering, working'[s] = PushTurn(working[s], e)
      PROVE  \/ \E j \in 1..Len(working[s]) : working'[s][i] = working[s][j]
             \/ working'[s][i].of = e
  <2>1. e \in Execs
    BY ConstantsAssumption
  <2>2. \A n \in 1..Len(PushTurn(working[s], e)) :
          \/ PushTurn(working[s], e)[n].of = e
          \/ \E j \in 1..Len(working[s]) : PushTurn(working[s], e)[n] = working[s][j]
    BY <1>1, <2>1, PushTurnEntries
  <2> QED
    BY <1>3, <2>2
<1> QED
  BY <1>2, <1>3, WorkingChanges

LEMMA SessionsApartStep ==
  TypeOK /\ SessionInv /\ SessionsApart /\ [Next]_vars => SessionsApart'
BY EntryOrigin DEF SessionsApart

LEMMA AgentsApartStep ==
  TypeOK /\ SessionInv /\ SessionsApart /\ AgentsApart /\ [Next]_vars => AgentsApart'
<1> SUFFICES ASSUME TypeOK, SessionInv, SessionsApart, AgentsApart, [Next]_vars,
                    NEW e \in Execs, NEW i \in 1..Len(heard'[e])
             PROVE  KeyOf[heard'[e][i].of] = KeyOf[e]
  BY DEF AgentsApart
<1>1. CASE heard'[e] = heard[e]
  BY <1>1 DEF AgentsApart
<1>2. CASE heard'[e] = <<>>
  BY <1>2, EmptySeq
<1>3. ASSUME NEW s \in Execs, KeyOf[s] = KeyOf[e], heard'[e] = Recall(working[s])
      PROVE  KeyOf[heard'[e][i].of] = KeyOf[e]
  <2>1. PICK j \in 1..Len(working[s]) : heard'[e][i] = working[s][j]
    BY <1>3, RecallProperties DEF TypeOK
  <2> QED
    BY <1>3, <2>1 DEF SessionsApart
<1> QED
  BY <1>1, <1>2, <1>3, HeardChanges

LEMMA RememberedStep ==
  TypeOK /\ PlaceInv /\ SessionInv /\ RememberedIsCompleted /\ [Next]_vars => RememberedIsCompleted'
<1> SUFFICES ASSUME TypeOK, PlaceInv, SessionInv, RememberedIsCompleted, [Next]_vars,
                    NEW e \in Execs, NEW s \in Execs, NEW i \in 1..Len(working'[s]),
                    working'[s][i].of = e
             PROVE  status'[e] = "completed" /\ e \in Remembering
  BY DEF RememberedIsCompleted
<1>1. ASSUME NEW j \in 1..Len(working[s]), working'[s][i] = working[s][j]
      PROVE  status'[e] = "completed" /\ e \in Remembering
  BY <1>1, StatusChanges DEF RememberedIsCompleted
<1>2. ASSUME Finishes(e), e \in Remembering
      PROVE  status'[e] = "completed" /\ e \in Remembering
  BY <1>2, StatusChanges
<1> QED
  BY <1>1, <1>2, EntryOrigin

LEMMA TurnsAreFoundStep ==
  TypeOK /\ PlaceInv /\ SessionInv /\ TurnsAreFoundInMemory /\ [Next]_vars => TurnsAreFoundInMemory'
<1> SUFFICES ASSUME TypeOK, PlaceInv, SessionInv, TurnsAreFoundInMemory, [Next]_vars,
                    backend' = "memory", NEW s \in Execs, working'[s] # <<>>
             PROVE  table'[KeyOf[s]] = s
  BY DEF TurnsAreFoundInMemory, TurnsAreFound
<1>1. backend = "memory"
  BY BackendKept
<1>2. table[KeyOf[s]] = s
  BY <1>1, WorkingChanges DEF TurnsAreFoundInMemory, TurnsAreFound
<1>3. KeyOf[s] \in Keys /\ s # None
  BY ConstantsAssumption
<1> QED
  BY <1>1, <1>2, <1>3, TableChanges

LEMMA WholeTurnsStep == TypeOK /\ SessionInv /\ WholeTurns /\ [Next]_vars => WholeTurns'
<1> SUFFICES ASSUME TypeOK, SessionInv, WholeTurns, [Next]_vars
             PROVE  WholeTurns'
  OBVIOUS
<1>1. IsTurns(<<>>)
  BY EmptySeq DEF IsTurns
<1>2. ASSUME NEW s \in Execs
      PROVE  IsTurns(working'[s])
  <2>1. ASSUME NEW e \in Remembering
        PROVE  IsTurns(PushTurn(working[s], e))
    BY <2>1, PushTurnWhole, ConstantsAssumption DEF TypeOK, WholeTurns
  <2> QED
    BY <1>1, <2>1, WorkingChanges DEF WholeTurns
<1>3. ASSUME NEW e \in Execs
      PROVE  IsTurns(heard'[e])
  <2>1. ASSUME NEW s \in Execs
        PROVE  IsTurns(Recall(working[s]))
    BY <2>1, RecallProperties DEF TypeOK, WholeTurns
  <2> QED
    BY <1>1, <2>1, HeardChanges DEF WholeTurns
<1>4. /\ \A s \in Execs : IsTurns(working[s])'
      /\ \A e \in Execs : IsTurns(heard[e])'
  BY <1>2, <1>3 DEF IsTurns
<1> QED
  BY <1>4 DEF WholeTurns

LEMMA InvInit == Init => IInv
<1> SUFFICES ASSUME Init
             PROVE  IInv
  OBVIOUS
<1>1. <<>> \in Seq(Entries) /\ Len(<<>>) = 0
  BY EmptySeq
<1>2. TypeOK
  BY <1>1, ConstantsAssumption DEF Init, TypeOK, Places
<1>3. PlaceInv
  BY DEF Init, PlaceInv
<1>4. SessionInv
  BY ConstantsAssumption DEF Init, SessionInv
<1>5. \A s \in Execs : working[s] = <<>> /\ heard[s] = <<>>
  BY DEF Init
<1>6. SessionsApart /\ AgentsApart /\ RememberedIsCompleted
  BY <1>1, <1>5 DEF SessionsApart, AgentsApart, RememberedIsCompleted
<1>7. TurnsAreFoundInMemory
  BY <1>5 DEF TurnsAreFoundInMemory, TurnsAreFound
<1>8. WholeTurns
  <2>1. IsTurns(<<>>)
    BY <1>1 DEF IsTurns
  <2> QED
    BY <1>5, <2>1 DEF WholeTurns
<1> QED
  BY <1>2, <1>3, <1>4, <1>6, <1>7, <1>8 DEF IInv

\* The inductive invariant holds in every reachable state of every instance.
THEOREM InductiveInvariant == Spec => []IInv
<1>1. IInv /\ [Next]_vars => IInv'
  BY TypeStep, PlaceStep, SessionStep, SessionsApartStep, AgentsApartStep, RememberedStep,
     TurnsAreFoundStep, WholeTurnsStep DEF IInv
<1> QED
  BY InvInit, <1>1, PTL DEF Spec

----------------------------------------------------------------------------
(* The theorems.                                                           *)

\* The state has its type; the iterations of every agent stay within max_iterations.
THEOREM TypeCorrect == Spec => []TypeOK
<1>1. IInv => TypeOK
  BY DEF IInv
<1> QED
  BY <1>1, InductiveInvariant, PTL

\* However executions that end together interleave, memory and prompts hold whole turns.
THEOREM WholeTurnsCorrect == Spec => []WholeTurns
<1>1. IInv => WholeTurns
  BY DEF IInv
<1> QED
  BY <1>1, InductiveInvariant, PTL

\* Only completed executions of agents with memory are remembered.
THEOREM RememberedIsCompletedCorrect == Spec => []RememberedIsCompleted
<1>1. IInv => RememberedIsCompleted
  BY DEF IInv
<1> QED
  BY <1>1, InductiveInvariant, PTL

\* No agent of a tenant is prompted with the turns of another.
THEOREM AgentsApartCorrect == Spec => []AgentsApart
<1>1. IInv => AgentsApart
  BY DEF IInv
<1> QED
  BY <1>1, InductiveInvariant, PTL

\* Without Redis every remembered turn is in the session its agent reads.
THEOREM TurnsAreFoundInMemoryCorrect == Spec => []TurnsAreFoundInMemory
<1>1. IInv => TurnsAreFoundInMemory
  BY DEF IInv
<1> QED
  BY <1>1, InductiveInvariant, PTL

\* A final status never changes.
THEOREM OutcomeKeptCorrect == Spec => OutcomeKept
<1>1. IInv /\ [Next]_vars =>
        [\A e \in Execs : status[e] \in {"completed", "failed"} => status'[e] = status[e]]_vars
  BY StatusChanges DEF IInv
<1> QED
  BY <1>1, InductiveInvariant, PTL DEF Spec, OutcomeKept
=============================================================================
