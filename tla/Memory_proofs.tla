----------------------------- MODULE Memory_proofs -----------------------------
(***************************************************************************)
(* Proofs about the sessions, the lists and the semantic memory of Memory, *)
(* for any sessions, any number of suspended calls and any capacities.     *)
(***************************************************************************)
EXTENDS Memory, SequenceTheorems, WellFoundedInduction, TLAPS

\* Only a session that was created is deleted, and an id is given once.
SessionInv ==
  /\ DOMAIN sessions = SessionIds /\ DOMAIN copies = SessionIds
  /\ DOMAIN calls = Calls
  /\ deleted \subseteq born /\ born \subseteq SessionIds

\* What the steps that leave the sessions alone do.
SessionsRest == UNCHANGED <<sessions, copies, born, deleted>>

\* No table, copy or call is about the session.
Forgotten(s) ==
  /\ sessions[s] = None /\ copies[s] = None
  /\ \A c \in Calls : calls[c].session # s

----------------------------------------------------------------------------
LEMMA InitHolds == Init => SessionInv
BY DEF Init, SessionInv

LEMMA SuspendKeepsDomain ==
  ASSUME NEW c, NEW call, DOMAIN calls = Calls, Suspend(c, call) \/ Send(c, call)
  PROVE  DOMAIN calls' = Calls
BY DEF Suspend, Send

\* The steps of the lists, of the semantic memory and of the clock.
LEMMA OtherSteps ==
  ASSUME SessionInv,
         \/ \E s \in SessionIds : EntryStep(s)
         \/ \E c \in Calls : EmbeddingStep(c)
         \/ SemanticStep \/ Tick \/ UNCHANGED vars
  PROVE  SessionsRest /\ DOMAIN calls' = Calls
<1>1. CASE \E s \in SessionIds : EntryStep(s)
  BY <1>1 DEF EntryStep, AddToWorking, AddToWorkingBatch, ClearWorking, AddToEpisodic,
              SessionsRest, SessionInv
<1>2. CASE \E c \in Calls : EmbeddingStep(c)
  <2>1. PICK c \in Calls : EmbeddingStep(c)
    BY <1>2
  <2>2. CASE Embedded(c)
    BY <2>2 DEF Embedded, SessionsRest, SessionInv
  <2>3. CASE AddToSemantic(c)
    BY <2>3, SuspendKeepsDomain DEF AddToSemantic, Embed, SessionsRest, SessionInv
  <2>4. ASSUME NEW s \in SessionIds, AutoConsolidate(c, s)
        PROVE  SessionsRest /\ DOMAIN calls' = Calls
    BY <2>4, SuspendKeepsDomain DEF AutoConsolidate, Embed, SessionsRest, SessionInv
  <2>5. ASSUME NEW s \in SessionIds, NEW turn, ConsolidateEpisodic(c, s, turn)
        PROVE  SessionsRest /\ DOMAIN calls' = Calls
    BY <2>5, SuspendKeepsDomain DEF ConsolidateEpisodic, Embed, SessionsRest, SessionInv
  <2> QED
    BY <2>1, <2>2, <2>3, <2>4, <2>5 DEF EmbeddingStep
<1>3. CASE SemanticStep
  BY <1>3 DEF SemanticStep, AddToSemanticPlain, GetSemanticEntry, DeleteSemanticEntry,
              SearchSemantic, SessionsRest, SessionInv
<1>4. CASE Tick \/ UNCHANGED vars
  BY <1>4 DEF Tick, vars, SessionsRest, SessionInv
<1> QED
  BY <1>1, <1>2, <1>3, <1>4

\* The steps of sessions and of Redis: the invariant is kept, and a session that was
\* deleted and forgotten stays so.
LEMMA SessionSteps ==
  ASSUME SessionInv, NEW c \in Calls, NEW s \in SessionIds, SessionStep(c, s)
  PROVE  /\ SessionInv'
         /\ \A d \in deleted : Forgotten(d) => sessions'[d] = None /\ copies'[d] = None
<1>1. CASE CreateSession(c, s)
  <2>1. DOMAIN calls' = Calls
    BY <1>1, SuspendKeepsDomain DEF CreateSession, SessionInv
  <2> QED
    BY <1>1, <2>1 DEF CreateSession, SessionInv, Forgotten
<1>2. ASSUME NEW status \in Statuses, UpdateSession(c, s, status)
      PROVE  /\ SessionInv'
             /\ \A d \in deleted : Forgotten(d) => sessions'[d] = None /\ copies'[d] = None
  <2>1. DOMAIN calls' = Calls
    BY <1>2, SuspendKeepsDomain DEF UpdateSession, SessionInv
  <2> QED
    BY <1>2, <2>1 DEF UpdateSession, SessionInv, Forgotten
<1>3. CASE DeleteSession(c, s)
  <2>1. DOMAIN calls' = Calls
    BY <1>3, SuspendKeepsDomain DEF DeleteSession, SessionInv
  <2> QED
    BY <1>3, <2>1 DEF DeleteSession, SessionInv, Forgotten
<1>4. CASE GetSession(c, s)
  <2>1. DOMAIN calls' = Calls
    BY <1>4, SuspendKeepsDomain DEF GetSession, SessionInv
  <2> QED
    BY <1>4, <2>1 DEF GetSession, SessionInv, Forgotten
<1> QED
  BY <1>1, <1>2, <1>3, <1>4 DEF SessionStep

LEMMA RedisSteps ==
  ASSUME SessionInv,
         \/ \E c \in Calls : RedisStep(c)
         \/ \E s \in SessionIds : RedisExpires(s)
         \/ Restart
  PROVE  /\ SessionInv'
         /\ \A d \in deleted : Forgotten(d) => sessions'[d] = None /\ copies'[d] = None
<1>1. ASSUME NEW c \in Calls, SessionRead(c)
      PROVE  /\ SessionInv'
             /\ \A d \in deleted : Forgotten(d) => sessions'[d] = None /\ copies'[d] = None
  BY <1>1 DEF SessionRead, SessionInv, Forgotten
<1>2. ASSUME NEW c \in Calls, RedisApplies(c)
      PROVE  /\ SessionInv'
             /\ \A d \in deleted : Forgotten(d) => sessions'[d] = None /\ copies'[d] = None
  BY <1>2 DEF RedisApplies, SessionInv, Forgotten
<1>3. ASSUME NEW c \in Calls, RedisFails(c)
      PROVE  /\ SessionInv'
             /\ \A d \in deleted : Forgotten(d) => sessions'[d] = None /\ copies'[d] = None
  BY <1>3 DEF RedisFails, SessionInv, Forgotten
<1>4. ASSUME NEW s \in SessionIds, RedisExpires(s)
      PROVE  /\ SessionInv'
             /\ \A d \in deleted : Forgotten(d) => sessions'[d] = None /\ copies'[d] = None
  BY <1>4 DEF RedisExpires, SessionInv, Forgotten
<1>5. CASE Restart
  BY <1>5 DEF Restart, SessionInv, Forgotten
<1> QED
  BY <1>1, <1>2, <1>3, <1>4, <1>5 DEF RedisStep

LEMMA StepKeeps ==
  ASSUME SessionInv, [Next]_vars
  PROVE  /\ SessionInv'
         /\ \A d \in deleted : Forgotten(d) => sessions'[d] = None /\ copies'[d] = None
<1>1. CASE SessionsRest /\ DOMAIN calls' = Calls
  BY <1>1 DEF SessionsRest, SessionInv, Forgotten
<1>2. CASE \E c \in Calls, s \in SessionIds : SessionStep(c, s)
  BY <1>2, SessionSteps
<1>3. CASE \/ \E c \in Calls : RedisStep(c)
           \/ \E s \in SessionIds : RedisExpires(s)
           \/ Restart
  BY <1>3, RedisSteps
<1>4. CASE \/ \E s \in SessionIds : EntryStep(s)
           \/ \E c \in Calls : EmbeddingStep(c)
           \/ SemanticStep \/ Tick \/ UNCHANGED vars
  BY <1>1, <1>4, OtherSteps
<1> QED
  BY <1>2, <1>3, <1>4 DEF Next

\* A deleted session that neither memory nor Redis holds and no suspended call is about
\* stays away, however late the commands of other calls are applied.
THEOREM GoneStaysGoneCorrect == Spec => GoneStaysGone
<1>1. Init => SessionInv
  BY InitHolds
<1>2. SessionInv /\ [Next]_vars => SessionInv'
  BY StepKeeps
<1>3. SessionInv /\ [Next]_vars =>
        [ \A s \in deleted :
            (/\ sessions[s] = None /\ copies[s] = None
             /\ \A c \in Calls : calls[c].session # s)
            => sessions'[s] = None /\ copies'[s] = None ]_vars
  BY StepKeeps DEF Forgotten
<1> QED
  BY <1>1, <1>2, <1>3, PTL DEF Spec, GoneStaysGone

-----------------------------------------------------------------------------
(* Lists that rise, and are cut in front. *)

\* A list of turns up to t, in order and within its capacity.
Ordered(list, t, capacity) ==
  /\ list \in Seq(Nat) /\ Len(list) <= capacity
  /\ \A i, j \in 1..Len(list) : i < j => list[i] < list[j]
  /\ \A i \in 1..Len(list) : list[i] <= t

\* What the one list holds is in the other, or older than all of a full one.
Echoed(recent, history) ==
  \A i \in 1..Len(recent) :
    \/ \E j \in 1..Len(history) : history[j] = recent[i]
    \/ Len(history) = EpisodicCapacity /\ recent[i] < history[1]

Whole(recent, history, t) ==
  /\ Ordered(recent, t, WorkingCapacity) /\ Ordered(history, t, EpisodicCapacity)
  /\ Echoed(recent, history)

MemOK(w, e, t) == \A s \in SessionIds : Whole(ListOf(w, s), ListOf(e, s), t)

\* The inductive invariant of the lists.
HistInv == turns \in Nat /\ MemOK(working, episodic, turns)

LEMMA PutList ==
  ASSUME NEW f, NEW s, NEW v, NEW x
  PROVE  ListOf(Put(f, s, v), x) = IF x = s THEN v ELSE ListOf(f, x)
BY DEF ListOf, Put

LEMMA DropList ==
  ASSUME NEW f, NEW s, NEW x
  PROVE  ListOf(Drop(f, s), x) = IF x = s THEN <<>> ELSE ListOf(f, x)
BY DEF ListOf, Drop

\* A list that takes one more turn loses its first entry when it was full: d of them.
Shifted(list, r, turn, capacity, d) ==
  /\ r \in Seq(Nat) /\ Len(r) = Len(list) + 1 - d /\ r[Len(r)] = turn
  /\ d = 1 <=> Len(list) = capacity
  /\ \A i \in 1..Len(r) - 1 : r[i] = list[i + d]

LEMMA PushedShape ==
  ASSUME NEW turn \in Nat, NEW capacity \in Nat \ {0}, NEW list \in Seq(Nat),
         Len(list) <= capacity, NEW r, r = Pushed(list, turn, capacity)
  PROVE  \E d \in {0, 1} : Shifted(list, r, turn, capacity, d)
<1>1. Len(list) \in Nat
  OBVIOUS
<1>2. CASE Len(list) < capacity
  <2>1. r = Append(list, turn)
    BY <1>1, <1>2 DEF Pushed
  <2>2. /\ r \in Seq(Nat) /\ Len(r) = Len(list) + 1
        /\ \A i \in 1..Len(list) : r[i] = list[i]
        /\ r[Len(list) + 1] = turn
    <3>1. list \in Seq(Nat) /\ turn \in Nat
      OBVIOUS
    <3> QED
      BY <2>1, <3>1, AppendProperties
  <2>3. \A i \in 1..Len(r) - 1 : i \in 1..Len(list) /\ i + 0 = i
    BY <1>1, <2>2
  <2>4. Shifted(list, r, turn, capacity, 0)
    BY <1>1, <1>2, <2>2, <2>3 DEF Shifted
  <2> QED
    BY <2>4
<1>3. CASE Len(list) = capacity
  <2>1. r = Append(Tail(list), turn) /\ list # <<>>
    BY <1>1, <1>3 DEF Pushed
  <2>2. /\ Tail(list) \in Seq(Nat) /\ Len(Tail(list)) = Len(list) - 1
        /\ \A i \in 1..Len(Tail(list)) : Tail(list)[i] = list[i + 1]
    BY <2>1, HeadTailProperties, Zenon
  <2>3. /\ r \in Seq(Nat) /\ Len(r) = Len(Tail(list)) + 1
        /\ \A i \in 1..Len(Tail(list)) : r[i] = Tail(list)[i]
        /\ r[Len(Tail(list)) + 1] = turn
    <3>1. turn \in Nat
      OBVIOUS
    <3> QED
      BY <2>1, <2>2, <3>1, AppendProperties
  <2>4. Len(r) = Len(list) /\ Len(r) - 1 = Len(Tail(list))
    BY <1>1, <2>2, <2>3
  <2>5. \A i \in 1..Len(r) - 1 : r[i] = list[i + 1]
    BY <2>2, <2>3, <2>4
  <2>6. r[Len(r)] = turn
    BY <2>3
  <2>7. Shifted(list, r, turn, capacity, 1)
    BY <1>1, <1>3, <2>3, <2>4, <2>5, <2>6 DEF Shifted
  <2> QED
    BY <2>7
<1> QED
  BY <1>1, <1>2, <1>3

\* A turn more, which is the newest: nothing else comes, of the others only the
\* first may go, and then the list is full.
TookTurn(list, r, t, capacity) ==
  /\ Ordered(r, t + 1, capacity) /\ Len(r) \in Nat \ {0} /\ r[Len(r)] = t + 1
  /\ \A i \in 1..Len(r) : r[i] = t + 1 \/ \E k \in 1..Len(list) : r[i] = list[k]
  /\ \A i \in 1..Len(list) :
       \/ \E j \in 1..Len(r) : r[j] = list[i]
       \/ Len(r) = capacity /\ list[i] < r[1]
  /\ Len(list) = capacity => Len(r) = capacity /\ list[1] < r[1]

LEMMA PushedOrdered ==
  ASSUME NEW t \in Nat, NEW capacity \in Nat \ {0}, NEW list, Ordered(list, t, capacity),
         NEW r, r = Pushed(list, t + 1, capacity)
  PROVE  TookTurn(list, r, t, capacity)
<1>1. list \in Seq(Nat) /\ Len(list) <= capacity
  BY DEF Ordered
<1>2. PICK d \in {0, 1} : Shifted(list, r, t + 1, capacity, d)
  BY <1>1, PushedShape
<1>3. PICK n \in Nat : n = Len(list)
  BY <1>1
<1>4. PICK m \in Nat : m = Len(r)
  BY <1>2 DEF Shifted
<1>5. /\ \A i \in 1..n : list[i] \in Nat /\ list[i] < t + 1
      /\ \A i, j \in 1..n : i < j => list[i] < list[j]
  BY <1>1, <1>3 DEF Ordered
<1>6. /\ r \in Seq(Nat) /\ m = n + 1 - d /\ r[m] = t + 1
      /\ d = 1 <=> n = capacity
      /\ \A i \in 1..m - 1 : r[i] = list[i + d]
  BY <1>2, <1>3, <1>4 DEF Shifted
<1>7. m \in Nat \ {0} /\ n <= capacity /\ m <= capacity
  BY <1>1, <1>3, <1>6
<1>8. \A i \in 1..m : i = m \/ (i \in 1..m - 1 /\ i + d \in 1..n)
  BY <1>6
<1>9. \A i \in 1..m - 1 : i + d \in 1..n
  BY <1>6
<1>10. ASSUME NEW i \in 1..m, NEW j \in 1..m, i < j PROVE r[i] < r[j]
  <2>1. i \in 1..m - 1 /\ r[i] = list[i + d]
    BY <1>6, <1>8, <1>10
  <2>2. PICK a \in 1..n : a = i + d
    BY <1>9, <2>1
  <2>3. CASE j = m
    BY <1>5, <1>6, <2>1, <2>2, <2>3
  <2>4. CASE j # m
    <3>1. j \in 1..m - 1 /\ r[j] = list[j + d]
      BY <1>6, <1>8, <2>4
    <3>2. PICK b \in 1..n : b = j + d
      BY <1>9, <3>1
    <3>3. a < b
      BY <1>10, <2>2, <3>2
    <3> QED
      BY <1>5, <2>1, <2>2, <3>1, <3>2, <3>3
  <2> QED
    BY <2>3, <2>4
<1>11. \A i \in 1..m : r[i] = t + 1 \/ \E k \in 1..n : r[i] = list[k]
  BY <1>6, <1>8
<1>12. \A i \in 1..m : r[i] <= t + 1
  BY <1>5, <1>11
<1>13. Ordered(r, t + 1, capacity)
  BY <1>4, <1>6, <1>7, <1>10, <1>12 DEF Ordered
<1>14. d = 1 => m = capacity /\ list[1] < r[1]
  <2> SUFFICES ASSUME d = 1 PROVE m = capacity /\ list[1] < r[1]
    OBVIOUS
  <2>1. m = n /\ n = capacity /\ 1 \in 1..n
    BY <1>6, <1>7
  <2>2. r[1] = t + 1 \/ (r[1] = list[2] /\ 2 \in 1..n)
    <3>1. CASE m = 1
      BY <1>6, <3>1
    <3>2. CASE m # 1
      <4>1. 1 \in 1..m - 1 /\ 1 + d = 2 /\ 2 \in 1..n
        BY <1>7, <2>1, <3>2
      <4> QED
        BY <1>6, <4>1
    <3> QED
      BY <3>1, <3>2
  <2> QED
    BY <1>5, <2>1, <2>2
<1>15. ASSUME NEW i \in 1..n PROVE (\E j \in 1..m : r[j] = list[i]) \/ (d = 1 /\ i = 1)
  <2>1. CASE i = d
    BY <2>1
  <2>2. CASE i # d
    <3>1. PICK j \in 1..m - 1 : i = j + d
      <4>1. i - d \in 1..m - 1 /\ i = (i - d) + d
        BY <1>6, <2>2
      <4> QED
        BY <4>1
    <3>2. j \in 1..m /\ r[j] = list[i]
      BY <1>6, <3>1
    <3> QED
      BY <3>2
  <2> QED
    BY <2>1, <2>2
<1>16. \A i \in 1..n : (\E j \in 1..m : r[j] = list[i]) \/ (m = capacity /\ list[i] < r[1])
  BY <1>14, <1>15
<1> QED
  BY <1>3, <1>4, <1>6, <1>7, <1>11, <1>13, <1>14, <1>16 DEF TookTurn

\* Both lists take the turn, or the history alone.
LEMMA AddWhole ==
  ASSUME NEW t \in Nat, NEW recent, NEW history, Whole(recent, history, t),
         NEW r, r = Pushed(recent, t + 1, WorkingCapacity),
         NEW h, h = Pushed(history, t + 1, EpisodicCapacity)
  PROVE  Whole(r, h, t + 1) /\ Whole(recent, h, t + 1) /\ Whole(recent, history, t + 1)
<1>1. WorkingCapacity \in Nat \ {0} /\ EpisodicCapacity \in Nat \ {0}
  BY MemoryAssumption
<1>2. /\ Ordered(recent, t, WorkingCapacity) /\ Ordered(history, t, EpisodicCapacity)
      /\ Echoed(recent, history)
  BY DEF Whole
<1>3. TookTurn(recent, r, t, WorkingCapacity)
  BY <1>1, <1>2, PushedOrdered
<1>4. TookTurn(history, h, t, EpisodicCapacity)
  BY <1>1, <1>2, PushedOrdered
<1>5. Ordered(recent, t + 1, WorkingCapacity) /\ Ordered(history, t + 1, EpisodicCapacity)
  <2>1. /\ \A i \in 1..Len(recent) : recent[i] <= t + 1
        /\ \A i \in 1..Len(history) : history[i] <= t + 1
    BY <1>2 DEF Ordered
  <2> QED
    BY <1>2, <2>1 DEF Ordered
<1>6. /\ \A i \in 1..Len(recent) : recent[i] \in Nat
      /\ \A i \in 1..Len(history) : history[i] \in Nat
      /\ Len(recent) \in Nat /\ Len(history) \in Nat
      /\ h[1] \in Nat
  <2>1. 1 \in 1..Len(h) /\ h \in Seq(Nat)
    BY <1>4 DEF Ordered, TookTurn
  <2> QED
    BY <1>2, <2>1 DEF Ordered
<1>7. Echoed(recent, h)
  <2> SUFFICES ASSUME NEW i \in 1..Len(recent)
               PROVE  \/ \E j \in 1..Len(h) : h[j] = recent[i]
                      \/ Len(h) = EpisodicCapacity /\ recent[i] < h[1]
    BY DEF Echoed
  <2>1. CASE \E j \in 1..Len(history) : history[j] = recent[i]
    BY <1>4, <2>1 DEF TookTurn
  <2>2. CASE Len(history) = EpisodicCapacity /\ recent[i] < history[1]
    <3>1. 1 \in 1..Len(history)
      BY <1>1, <2>2
    <3>2. history[1] \in Nat /\ recent[i] \in Nat
      BY <1>6, <3>1
    <3>3. Len(h) = EpisodicCapacity /\ history[1] < h[1]
      BY <1>4, <2>2 DEF TookTurn
    <3> QED
      BY <1>6, <2>2, <3>2, <3>3
  <2> QED
    BY <1>2, <2>1, <2>2 DEF Echoed
<1>8. Echoed(r, h)
  <2> SUFFICES ASSUME NEW i \in 1..Len(r)
               PROVE  \/ \E j \in 1..Len(h) : h[j] = r[i]
                      \/ Len(h) = EpisodicCapacity /\ r[i] < h[1]
    BY DEF Echoed
  <2>1. r[i] = t + 1 \/ \E k \in 1..Len(recent) : r[i] = recent[k]
    BY <1>3 DEF TookTurn
  <2>2. CASE r[i] = t + 1
    <3>1. Len(h) \in 1..Len(h) /\ h[Len(h)] = t + 1
      BY <1>4 DEF TookTurn
    <3> QED
      BY <2>2, <3>1
  <2>3. CASE \E k \in 1..Len(recent) : r[i] = recent[k]
    BY <1>7, <2>3 DEF Echoed
  <2> QED
    BY <2>1, <2>2, <2>3
<1> QED
  BY <1>3, <1>4, <1>5, <1>7, <1>8 DEF Whole, TookTurn


LEMMA EngineAdds ==
  ASSUME NEW t \in Nat, NEW w, NEW e, MemOK(w, e, t), NEW s \in SessionIds
  PROVE  /\ MemOK(StoreAddWorking(w, s, t + 1), StoreAddEpisodic(e, s, t + 1), t + 1)
         /\ MemOK(w, StoreAddEpisodic(e, s, t + 1), t + 1)
<1> DEFINE w2 == StoreAddWorking(w, s, t + 1)
           e2 == StoreAddEpisodic(e, s, t + 1)
<1>1. ASSUME NEW x \in SessionIds
      PROVE  /\ Whole(ListOf(w2, x), ListOf(e2, x), t + 1)
             /\ Whole(ListOf(w, x), ListOf(e2, x), t + 1)
  <2>1. PICK recent : recent = ListOf(w, x)
    OBVIOUS
  <2>2. PICK history : history = ListOf(e, x)
    OBVIOUS
  <2>3. PICK r : r = Pushed(recent, t + 1, WorkingCapacity)
    OBVIOUS
  <2>4. PICK h : h = Pushed(history, t + 1, EpisodicCapacity)
    OBVIOUS
  <2>5. Whole(recent, history, t)
    BY <2>1, <2>2 DEF MemOK
  <2>6. Whole(r, h, t + 1) /\ Whole(recent, h, t + 1) /\ Whole(recent, history, t + 1)
    BY <2>3, <2>4, <2>5, AddWhole
  <2>7. /\ ListOf(w2, x) = IF x = s THEN r ELSE recent
        /\ ListOf(e2, x) = IF x = s THEN h ELSE history
    BY <2>1, <2>2, <2>3, <2>4, PutList DEF StoreAddWorking, StoreAddEpisodic
  <2> HIDE DEF w2, e2
  <2> QED
    BY <2>1, <2>2, <2>6, <2>7
<1> HIDE DEF w2, e2
<1>2. MemOK(w2, e2, t + 1) /\ MemOK(w, e2, t + 1)
  BY <1>1 DEF MemOK
<1> QED
  BY <1>2 DEF w2, e2

LEMMA LeastMember ==
  ASSUME NEW S \in SUBSET Nat, S # {}
  PROVE  \E n \in S : \A m \in S : n <= m
<1>1. PICK n \in S : \A m \in S : ~ (<<m, n>> \in OpToRel(<, Nat))
  BY NatLessThanWellFounded, WFMin
<1>2. \A m \in S : ~ (m < n)
  BY <1>1 DEF OpToRel
<1> QED
  BY <1>2

\* A batch adds its turns one after the other.
Adding(f, k, mem, s, t) ==
  /\ DOMAIN f = 0..k /\ f[0] = mem
  /\ \A i \in 1..k : f[i] = EngineAddToWorking(f[i - 1], s, t + i)

LEMMA AddingExists ==
  ASSUME NEW mem, NEW s, NEW t, NEW k \in Nat
  PROVE  \E f : Adding(f, k, mem, s, t)
<1> DEFINE C(f, n) == Adding(f, n, mem, s, t)
           bad == {n \in Nat : ~ \E f : C(f, n)}
<1>1. CASE bad = {}
  BY <1>1
<1>2. CASE bad # {}
  <2>1. PICK n \in bad : \A m \in bad : n <= m
    <3>1. bad \in SUBSET Nat
      OBVIOUS
    <3> HIDE DEF bad
    <3> QED
      BY <1>2, <3>1, LeastMember
  <2>2. CASE n = 0
    <3>1. C([m \in 0..0 |-> mem], 0)
      BY DEF Adding
    <3> QED
      BY <2>1, <2>2, <3>1
  <2>3. CASE n # 0
    <3>1. n \in Nat /\ n - 1 \in Nat /\ ~ (n <= n - 1)
      BY <2>1, <2>3
    <3>2. n - 1 \notin bad
      <4> HIDE DEF bad
      <4> QED
        BY <2>1, <3>1
    <3>3. PICK f : C(f, n - 1)
      BY <3>1, <3>2
    <3> DEFINE next == EngineAddToWorking(f[n - 1], s, t + n)
    <3> HIDE DEF next
    <3> DEFINE g == [m \in 0..n |-> IF m = n THEN next ELSE f[m]]
    <3>4. g[0] = f[0] /\ g[n] = next
      BY <2>3, <3>1
    <3>5. ASSUME NEW m \in 1..n PROVE g[m] = EngineAddToWorking(g[m - 1], s, t + m)
      <4>1. m \in 0..n /\ m - 1 \in 0..n /\ m - 1 # n
        BY <3>1
      <4>2. g[m - 1] = f[m - 1]
        BY <4>1
      <4>3. CASE m = n
        BY <3>4, <4>2, <4>3 DEF next
      <4>4. CASE m # n
        <5>1. m \in 1..(n - 1) /\ g[m] = f[m]
          BY <3>1, <4>1, <4>4
        <5>2. f[m] = EngineAddToWorking(f[m - 1], s, t + m)
          BY <3>3, <5>1 DEF Adding
        <5> QED
          BY <4>2, <5>1, <5>2
      <4> QED
        BY <4>3, <4>4
    <3>6. DOMAIN g = 0..n /\ f[0] = mem
      BY <3>3 DEF Adding
    <3> HIDE DEF g
    <3>7. C(g, n)
      BY <3>4, <3>5, <3>6 DEF Adding
    <3> QED
      BY <2>1, <3>7
  <2> QED
    BY <2>2, <2>3
<1> QED
  BY <1>1, <1>2

LEMMA AddingWhole ==
  ASSUME NEW mem, NEW s \in SessionIds, NEW t \in Nat, MemOK(mem.working, mem.episodic, t),
         NEW k \in Nat, NEW f, Adding(f, k, mem, s, t)
  PROVE  MemOK(f[k].working, f[k].episodic, t + k)
<1> DEFINE Good(n) == MemOK(f[n].working, f[n].episodic, t + n)
           bad == {n \in 0..k : ~ Good(n)}
<1>1. CASE bad = {}
  <2>1. k \in 0..k
    OBVIOUS
  <2> QED
    BY <1>1, <2>1
<1>2. CASE bad # {}
  <2>1. PICK n \in bad : \A m \in bad : n <= m
    <3>1. bad \in SUBSET Nat
      OBVIOUS
    <3> HIDE DEF bad
    <3> QED
      BY <1>2, <3>1, LeastMember
  <2>2. Good(0)
    BY DEF Adding
  <2>3. n # 0
    BY <2>1, <2>2
  <2>4. n \in 1..k /\ n - 1 \in 0..k /\ ~ (n <= n - 1)
    BY <2>1, <2>3
  <2>5. n - 1 \notin bad
    <3> HIDE DEF bad
    <3> QED
      BY <2>1, <2>4
  <2>6. Good(n - 1)
    BY <2>4, <2>5
  <2>7. PICK w : w = f[n - 1].working
    OBVIOUS
  <2>8. PICK e : e = f[n - 1].episodic
    OBVIOUS
  <2>9. PICK u \in Nat : u = t + (n - 1)
    BY <2>4
  <2>10. MemOK(w, e, u) /\ t + n = u + 1
    BY <2>4, <2>6, <2>7, <2>8, <2>9
  <2>11. MemOK(StoreAddWorking(w, s, u + 1), StoreAddEpisodic(e, s, u + 1), u + 1)
    BY <2>10, EngineAdds
  <2>12. f[n] = EngineAddToWorking(f[n - 1], s, u + 1)
    BY <2>4, <2>10 DEF Adding
  <2>13. /\ f[n].working = StoreAddWorking(w, s, u + 1)
         /\ f[n].episodic = StoreAddEpisodic(e, s, u + 1)
    BY <2>7, <2>8, <2>12 DEF EngineAddToWorking
  <2>14. Good(n)
    BY <2>10, <2>11, <2>13
  <2> QED
    BY <2>1, <2>14
<1> QED
  BY <1>1, <1>2

LEMMA BatchWhole ==
  ASSUME HistInv, NEW s \in SessionIds, NEW n \in Nat, AddToWorkingBatch(s, n)
  PROVE  HistInv'
<1> DEFINE mem == [working |-> working, episodic |-> episodic]
           added == CHOOSE f : f = [i \in 0..n |->
                      IF i = 0 THEN mem ELSE EngineAddToWorking(f[i - 1], s, turns + i)]
<1>1. /\ turns' = turns + n
      /\ working' = added[n].working /\ episodic' = added[n].episodic
  BY DEF AddToWorkingBatch
<1>2. mem.working = working /\ mem.episodic = episodic
  OBVIOUS
<1> HIDE DEF mem
<1>3. PICK f : Adding(f, n, mem, s, turns)
  BY AddingExists
<1>4. \E g : g = [i \in 0..n |->
                    IF i = 0 THEN mem ELSE EngineAddToWorking(g[i - 1], s, turns + i)]
  <2> DEFINE g == [i \in 0..n |-> f[i]]
  <2>1. \A i \in 0..n : i # 0 => i \in 1..n /\ i - 1 \in 0..n
    OBVIOUS
  <2>2. \A i \in 0..n : g[i] = f[i]
    OBVIOUS
  <2>3. f[0] = mem /\ \A i \in 1..n : f[i] = EngineAddToWorking(f[i - 1], s, turns + i)
    BY <1>3 DEF Adding
  <2>4. g = [i \in 0..n |-> g[i]]
    OBVIOUS
  <2> HIDE DEF g
  <2>5. \A i \in 0..n :
          g[i] = IF i = 0 THEN mem ELSE EngineAddToWorking(g[i - 1], s, turns + i)
    BY <2>1, <2>2, <2>3
  <2>6. g = [i \in 0..n |->
               IF i = 0 THEN mem ELSE EngineAddToWorking(g[i - 1], s, turns + i)]
    BY <2>4, <2>5, Zenon
  <2> QED
    BY <2>6
<1>5. added = [i \in 0..n |->
                 IF i = 0 THEN mem ELSE EngineAddToWorking(added[i - 1], s, turns + i)]
  BY <1>4
<1> HIDE DEF added
<1>6. Adding(added, n, mem, s, turns)
  <2>1. DOMAIN added = 0..n
    BY <1>5, Zenon
  <2>2. \A i \in 0..n :
          added[i] = IF i = 0 THEN mem ELSE EngineAddToWorking(added[i - 1], s, turns + i)
    BY <1>5, Zenon
  <2>3. 0 \in 0..n /\ \A i \in 1..n : i \in 0..n /\ i # 0
    OBVIOUS
  <2>4. added[0] = mem
        /\ \A i \in 1..n : added[i] = EngineAddToWorking(added[i - 1], s, turns + i)
    BY <2>2, <2>3, Zenon
  <2> QED
    BY <2>1, <2>4 DEF Adding
<1>7. turns \in Nat /\ MemOK(mem.working, mem.episodic, turns)
  BY <1>2 DEF HistInv
<1>8. MemOK(added[n].working, added[n].episodic, turns + n)
  BY <1>6, <1>7, AddingWhole
<1>9. turns' \in Nat
  BY <1>1, <1>7
<1> QED
  BY <1>1, <1>8, <1>9 DEF HistInv, MemOK

LEMMA EmptyWhole ==
  ASSUME NEW t \in Nat
  PROVE  Whole(<<>>, <<>>, t)
<1>1. WorkingCapacity \in Nat \ {0} /\ EpisodicCapacity \in Nat \ {0}
  BY MemoryAssumption
<1>2. <<>> \in Seq(Nat) /\ Len(<<>>) = 0 /\ 1..0 = {}
  OBVIOUS
<1> QED
  BY <1>1, <1>2 DEF Whole, Ordered, Echoed

\* No list at all.
LEMMA NoLists ==
  ASSUME NEW t \in Nat
  PROVE  MemOK(<<>>, <<>>, t)
<1>1. \A s \in SessionIds : ListOf(<<>>, s) = <<>>
  BY DEF ListOf
<1> QED
  BY <1>1, EmptyWhole DEF MemOK

\* A session without a working list, whatever its history.
LEMMA NoWorkingWhole ==
  ASSUME NEW t \in Nat, NEW recent, NEW history, Whole(recent, history, t)
  PROVE  Whole(<<>>, history, t)
<1>1. WorkingCapacity \in Nat \ {0}
  BY MemoryAssumption
<1>2. <<>> \in Seq(Nat) /\ Len(<<>>) = 0 /\ 1..0 = {}
  OBVIOUS
<1> QED
  BY <1>1, <1>2 DEF Whole, Ordered, Echoed

LEMMA ListSteps ==
  ASSUME HistInv,
         \/ \E c \in Calls, s \in SessionIds : CreateSession(c, s) \/ DeleteSession(c, s)
         \/ \E s \in SessionIds : AddToWorking(s) \/ ClearWorking(s) \/ AddToEpisodic(s)
         \/ Restart
  PROVE  HistInv'
<1>1. turns \in Nat /\ MemOK(working, episodic, turns)
  BY DEF HistInv
<1>2. ASSUME NEW c \in Calls, NEW s \in SessionIds, CreateSession(c, s) PROVE HistInv'
  <2>1. /\ working' = Put(working, s, <<>>) /\ episodic' = Put(episodic, s, <<>>)
        /\ turns' = turns
    BY <1>2 DEF CreateSession
  <2>2. ASSUME NEW x \in SessionIds
        PROVE  Whole(ListOf(working', x), ListOf(episodic', x), turns)
    BY <1>1, <2>1, PutList, EmptyWhole DEF MemOK
  <2> QED
    BY <1>1, <2>1, <2>2 DEF HistInv, MemOK
<1>3. ASSUME NEW c \in Calls, NEW s \in SessionIds, DeleteSession(c, s) PROVE HistInv'
  <2>1. /\ working' = Drop(working, s) /\ episodic' = Drop(episodic, s)
        /\ turns' = turns
    BY <1>3 DEF DeleteSession
  <2>2. ASSUME NEW x \in SessionIds
        PROVE  Whole(ListOf(working', x), ListOf(episodic', x), turns)
    BY <1>1, <2>1, DropList, EmptyWhole DEF MemOK
  <2> QED
    BY <1>1, <2>1, <2>2 DEF HistInv, MemOK
<1>4. ASSUME NEW s \in SessionIds, AddToWorking(s) PROVE HistInv'
  <2>1. /\ working' = StoreAddWorking(working, s, turns + 1)
        /\ episodic' = StoreAddEpisodic(episodic, s, turns + 1)
        /\ turns' = turns + 1
    BY <1>4 DEF AddToWorking, EngineAddToWorking
  <2>2. MemOK(StoreAddWorking(working, s, turns + 1), StoreAddEpisodic(episodic, s, turns + 1),
              turns + 1)
    BY <1>1, EngineAdds
  <2> QED
    BY <1>1, <2>1, <2>2 DEF HistInv, MemOK
<1>5. ASSUME NEW s \in SessionIds, AddToEpisodic(s) PROVE HistInv'
  <2>1. /\ working' = working
        /\ episodic' = StoreAddEpisodic(episodic, s, turns + 1)
        /\ turns' = turns + 1
    BY <1>5 DEF AddToEpisodic
  <2>2. MemOK(working, StoreAddEpisodic(episodic, s, turns + 1), turns + 1)
    BY <1>1, EngineAdds
  <2> QED
    BY <1>1, <2>1, <2>2 DEF HistInv, MemOK
<1>6. ASSUME NEW s \in SessionIds, ClearWorking(s) PROVE HistInv'
  <2>1. /\ working' = IF s \in DOMAIN working THEN Put(working, s, <<>>) ELSE working
        /\ episodic' = episodic /\ turns' = turns
    BY <1>6 DEF ClearWorking
  <2>2. ASSUME NEW x \in SessionIds
        PROVE  Whole(ListOf(working', x), ListOf(episodic, x), turns)
    <3>1. Whole(ListOf(working, x), ListOf(episodic, x), turns)
      BY <1>1 DEF MemOK
    <3>2. Whole(<<>>, ListOf(episodic, x), turns)
      BY <1>1, <3>1, NoWorkingWhole
    <3>3. ListOf(working', x) = <<>> \/ ListOf(working', x) = ListOf(working, x)
      BY <2>1, PutList
    <3> QED
      BY <3>1, <3>2, <3>3
  <2> QED
    BY <1>1, <2>1, <2>2 DEF HistInv, MemOK
<1>7. CASE Restart
  <2>1. working' = <<>> /\ episodic' = <<>> /\ turns' = turns
    BY <1>7 DEF Restart
  <2> QED
    BY <1>1, <2>1, NoLists DEF HistInv, MemOK
<1> QED
  BY <1>2, <1>3, <1>4, <1>5, <1>6, <1>7

\* The other steps leave the lists alone; an embedding may number a new turn.
LEMMA ListsRest ==
  ASSUME HistInv, working' = working, episodic' = episodic, turns' \in Nat, turns' >= turns
  PROVE  HistInv'
<1>1. ASSUME NEW s \in SessionIds
      PROVE  Whole(ListOf(working, s), ListOf(episodic, s), turns')
  <2>1. PICK recent : recent = ListOf(working, s)
    OBVIOUS
  <2>2. PICK history : history = ListOf(episodic, s)
    OBVIOUS
  <2>3. PICK t \in Nat : t = turns
    BY DEF HistInv
  <2>4. PICK u \in Nat : u = turns'
    OBVIOUS
  <2>5. Whole(recent, history, t) /\ t <= u
    BY <2>1, <2>2, <2>3, <2>4 DEF HistInv, MemOK
  <2>6. /\ \A i \in 1..Len(recent) : recent[i] \in Nat /\ recent[i] <= u
        /\ \A i \in 1..Len(history) : history[i] \in Nat /\ history[i] <= u
    BY <2>5 DEF Whole, Ordered
  <2>7. Whole(recent, history, u)
    BY <2>5, <2>6 DEF Whole, Ordered
  <2> QED
    BY <2>1, <2>2, <2>4, <2>7
<1> QED
  BY <1>1 DEF HistInv, MemOK

\* What a call holds: the texts still to embed, one or more, when it waits for the
\* embedder.
WellFormed(call) ==
  /\ DOMAIN call = {"op", "session", "value"}
  /\ call.op = "embed" => call.value \in Seq(Nat) /\ call.value # <<>>

CallInv == DOMAIN calls = Calls /\ \A c \in Calls : WellFormed(calls[c])

LEMMA CallWell ==
  /\ WellFormed(Idle)
  /\ \A s, v : /\ WellFormed(Call("set", s, v)) /\ WellFormed(Call("delete", s, v))
               /\ WellFormed(Call("get", s, v)) /\ WellFormed(Call("answer", s, v))
  /\ \A s, v : v \in Seq(Nat) /\ v # <<>> => WellFormed(Call("embed", s, v))
BY DEF WellFormed, Idle, Call

LEMMA SuspendWell ==
  ASSUME CallInv, NEW c \in Calls, NEW call, WellFormed(call), Suspend(c, call) \/ Send(c, call)
  PROVE  CallInv'
<1>1. calls' = calls \/ calls' = [calls EXCEPT ![c] = call]
  BY DEF Suspend, Send
<1> QED
  BY <1>1 DEF CallInv, WellFormed

\* The entries of a list from the one after b to a.
LEMMA PieceShape ==
  ASSUME NEW S, NEW list \in Seq(S), NEW a \in Nat, a <= Len(list), NEW b \in Nat, b <= a,
         NEW p, p = SubSeq(list, b + 1, a)
  PROVE  /\ p \in Seq(S) /\ Len(p) = a - b
         /\ \A k \in 1..a - b : p[k] = list[b + k]
<1>1. PICK m \in Int : m = b + 1
  OBVIOUS
<1>2. a \in Int /\ \A k \in m..a : list[k] \in S
  BY <1>1
<1>3. /\ SubSeq(list, m, a) \in Seq(S)
      /\ Len(SubSeq(list, m, a)) = IF m <= a THEN a - m + 1 ELSE 0
      /\ \A k \in 1..a - m + 1 : SubSeq(list, m, a)[k] = list[m + k - 1]
  BY <1>2, SubSeqProperties
<1>4. p = SubSeq(list, m, a)
  BY <1>1, Zenon
<1>5. a - m + 1 = a - b /\ (m <= a \/ (b = a /\ a - b = 0))
  BY <1>1
<1>6. /\ p \in Seq(S)
      /\ Len(p) = IF m <= a THEN a - m + 1 ELSE 0
      /\ \A k \in 1..a - m + 1 : p[k] = list[m + k - 1]
  BY <1>3, <1>4, Zenon
<1>7. ASSUME NEW k \in 1..a - b PROVE p[k] = list[b + k]
  <2>1. k \in 1..a - m + 1 /\ m + k - 1 = b + k
    BY <1>1, <1>5
  <2> QED
    BY <1>6, <2>1
<1> QED
  BY <1>5, <1>6, <1>7

PageIs(page, list, a, b) ==
  /\ page \in Seq(Nat) /\ Len(page) = a - b
  /\ \A i \in 1..a - b : page[i] = list[b + i]

LEMMA LastShape ==
  ASSUME NEW list \in Seq(Nat), NEW a \in Nat, a <= Len(list), NEW b \in Nat, b <= a,
         NEW page, page = SubSeq(list, b + 1, a)
  PROVE  PageIs(page, list, a, b)
BY PieceShape DEF PageIs

LEMMA LastOfTurns ==
  ASSUME NEW list \in Seq(Nat), NEW n \in Nat
  PROVE  LastOf(list, n) \in Seq(Nat)
<1>1. PICK L \in Nat : L = Len(list)
  OBVIOUS
<1>2. CASE n = 0 \/ n >= L
  BY <1>1, <1>2 DEF LastOf
<1>3. CASE ~ (n = 0 \/ n >= L)
  <2>1. PICK b \in Nat : b = L - n
    BY <1>3
  <2>2. ~ (n = 0 \/ n >= Len(list))
    BY <1>1, <1>3
  <2>3. LastOf(list, n) = SubSeq(list, Len(list) - n + 1, Len(list))
    BY <2>2, Zenon DEF LastOf
  <2>4. Len(list) - n + 1 = b + 1 /\ b <= L /\ L <= Len(list)
    BY <1>1, <2>1
  <2>5. LastOf(list, n) = SubSeq(list, b + 1, L)
    BY <1>1, <2>3, <2>4, Zenon
  <2> QED
    BY <2>4, <2>5, LastShape DEF PageIs
<1> QED
  BY <1>2, <1>3

\* What an episodic list holds is a turn, and so is what is read of it.
LEMMA ReadTurns ==
  ASSUME HistInv, NEW s \in SessionIds
  PROVE  /\ GetEpisodic(s, 1000, 0) \in Seq(Nat)
         /\ \A turn \in ToSet(ListOf(episodic, s)) : turn \in Nat
<1>1. PICK list \in Seq(Nat) : list = ListOf(episodic, s)
  BY DEF HistInv, MemOK, Whole, Ordered
<1>2. LastOf(list, 1000) \in Seq(Nat)
  BY LastOfTurns
<1>3. GetEpisodic(s, 1000, 0) = LastOf(list, 1000)
  BY <1>1 DEF GetEpisodic
<1>4. \A turn \in ToSet(list) : turn \in Nat
  BY DEF ToSet
<1> QED
  BY <1>1, <1>2, <1>3, <1>4

LEMMA CallStep ==
  ASSUME HistInv, CallInv, [Next]_vars
  PROVE  CallInv'
<1>1. CASE calls' = calls
  BY <1>1 DEF CallInv, WellFormed
<1>2. ASSUME NEW c \in Calls, NEW s \in SessionIds, SessionStep(c, s) PROVE CallInv'
  <2>1. CASE CreateSession(c, s)
    BY <2>1, CallWell, SuspendWell DEF CreateSession
  <2>2. ASSUME NEW status \in Statuses, UpdateSession(c, s, status) PROVE CallInv'
    BY <2>2, CallWell, SuspendWell DEF UpdateSession
  <2>3. CASE DeleteSession(c, s)
    BY <2>3, CallWell, SuspendWell DEF DeleteSession
  <2>4. CASE GetSession(c, s)
    BY <2>4, CallWell, SuspendWell DEF GetSession
  <2> QED
    BY <1>2, <2>1, <2>2, <2>3, <2>4 DEF SessionStep
<1>3. ASSUME NEW c \in Calls, RedisStep(c) PROVE CallInv'
  <2>1. PICK call : /\ WellFormed(call)
                    /\ calls' = [calls EXCEPT ![c] = call]
    BY <1>3, CallWell DEF RedisStep, SessionRead, RedisApplies, RedisFails
  <2> QED
    BY <2>1 DEF CallInv, WellFormed
<1>4. ASSUME NEW c \in Calls, EmbeddingStep(c) PROVE CallInv'
  <2>1. CASE AddToSemantic(c)
    <3>1. <<0>> \in Seq(Nat) /\ <<0>> # <<>>
      OBVIOUS
    <3> QED
      BY <2>1, <3>1, CallWell, SuspendWell DEF AddToSemantic, Embed
  <2>2. CASE Embedded(c)
    <3>1. PICK call : call = calls[c]
      OBVIOUS
    <3>2. WellFormed(call) /\ call.op = "embed"
      BY <2>2, <3>1 DEF Embedded, CallInv
    <3>3. PICK rest : rest = Tail(call.value)
      OBVIOUS
    <3>4. rest \in Seq(Nat)
      BY <3>2, <3>3 DEF WellFormed
    <3>5. calls' = [calls EXCEPT ![c] = IF rest = <<>> THEN Idle ELSE [call EXCEPT !.value = rest]]
      BY <2>2, <3>1, <3>3 DEF Embedded
    <3>6. PICK next : next = IF rest = <<>> THEN Idle ELSE [call EXCEPT !.value = rest]
      OBVIOUS
    <3>7. WellFormed(next)
      <4>1. CASE rest = <<>>
        BY <3>6, <4>1, CallWell
      <4>2. CASE rest # <<>>
        <5>1. next = [call EXCEPT !.value = rest]
          BY <3>6, <4>2
        <5>2. DOMAIN next = {"op", "session", "value"} /\ next.value = rest
          BY <3>2, <5>1 DEF WellFormed
        <5> QED
          BY <3>4, <4>2, <5>2 DEF WellFormed
      <4> QED
        BY <4>1, <4>2
    <3>8. calls' = [calls EXCEPT ![c] = next]
      BY <3>5, <3>6
    <3> QED
      BY <3>7, <3>8 DEF CallInv, WellFormed
  <2>3. ASSUME NEW s \in SessionIds, AutoConsolidate(c, s) PROVE CallInv'
    <3>1. PICK due : /\ due = IF 0 >= ConsolidationThreshold THEN GetEpisodic(s, 1000, 0) ELSE <<>>
                     /\ due # <<>> /\ Embed(c, Call("embed", s, due))
      BY <2>3 DEF AutoConsolidate
    <3>2. due \in Seq(Nat)
      BY <3>1, ReadTurns
    <3> QED
      BY <3>1, <3>2, CallWell, SuspendWell DEF Embed
  <2>4. ASSUME NEW s \in SessionIds, NEW turn \in ToSet(ListOf(episodic, s)),
               ConsolidateEpisodic(c, s, turn)
        PROVE  CallInv'
    <3>1. <<turn>> \in Seq(Nat) /\ <<turn>> # <<>>
      BY ReadTurns
    <3> QED
      BY <2>4, <3>1, CallWell, SuspendWell DEF ConsolidateEpisodic, Embed
  <2> QED
    BY <1>4, <2>1, <2>2, <2>3, <2>4 DEF EmbeddingStep
<1>5. CASE \E s \in SessionIds : EntryStep(s) \/ RedisExpires(s)
  BY <1>1, <1>5 DEF EntryStep, RedisExpires, AddToWorking, AddToWorkingBatch, ClearWorking,
                    AddToEpisodic
<1>6. CASE SemanticStep \/ Tick \/ UNCHANGED vars
  BY <1>1, <1>6 DEF SemanticStep, AddToSemanticPlain, GetSemanticEntry, DeleteSemanticEntry,
                    SearchSemantic, Tick, vars
<1>7. CASE Restart
  BY <1>7, CallWell DEF Restart, CallInv, WellFormed
<1> QED
  BY <1>2, <1>3, <1>4, <1>5, <1>6, <1>7 DEF Next

LEMMA HistStep ==
  ASSUME CallInv, HistInv, [Next]_vars
  PROVE  HistInv'
<1>0. turns \in Nat
  BY DEF HistInv
<1>1. CASE working' = working /\ episodic' = episodic /\ turns' \in Nat /\ turns' >= turns
  BY <1>1, ListsRest
<1>2. ASSUME NEW c \in Calls, NEW s \in SessionIds, SessionStep(c, s) PROVE HistInv'
  <2>1. CASE CreateSession(c, s) \/ DeleteSession(c, s)
    BY <2>1, ListSteps
  <2>2. ASSUME NEW status \in Statuses, UpdateSession(c, s, status) PROVE HistInv'
    BY <1>0, <1>1, <2>2 DEF UpdateSession, tables
  <2>3. CASE GetSession(c, s)
    BY <1>0, <1>1, <2>3 DEF GetSession, tables
  <2> QED
    BY <1>2, <2>1, <2>2, <2>3 DEF SessionStep
<1>3. ASSUME NEW c \in Calls, RedisStep(c) PROVE HistInv'
  BY <1>0, <1>1, <1>3 DEF RedisStep, SessionRead, RedisApplies, RedisFails, tables
<1>4. ASSUME NEW c \in Calls, EmbeddingStep(c) PROVE HistInv'
  <2>1. CASE AddToSemantic(c)
    BY <1>0, <1>1, <2>1 DEF AddToSemantic, tables
  <2>2. CASE Embedded(c)
    <3> DEFINE turn == IF Head(calls[c].value) = 0 THEN turns + 1 ELSE Head(calls[c].value)
    <3>1. /\ turns' = IF turn > turns THEN turn ELSE turns
          /\ working' = working /\ episodic' = episodic
      BY <2>2 DEF Embedded
    <3>2. calls[c].value \in Seq(Nat) /\ calls[c].value # <<>>
      BY <2>2 DEF Embedded, CallInv, WellFormed
    <3>3. turn \in Nat
      BY <1>0, <3>2
    <3> HIDE DEF turn
    <3> QED
      BY <1>0, <1>1, <3>1, <3>3
  <2>3. ASSUME NEW s \in SessionIds, AutoConsolidate(c, s) PROVE HistInv'
    BY <1>0, <1>1, <2>3 DEF AutoConsolidate, tables
  <2>4. ASSUME NEW s \in SessionIds, NEW turn, ConsolidateEpisodic(c, s, turn) PROVE HistInv'
    BY <1>0, <1>1, <2>4 DEF ConsolidateEpisodic, tables
  <2> QED
    BY <1>4, <2>1, <2>2, <2>3, <2>4 DEF EmbeddingStep
<1>5. ASSUME NEW s \in SessionIds, EntryStep(s) PROVE HistInv'
  <2>1. CASE AddToWorking(s) \/ ClearWorking(s) \/ AddToEpisodic(s)
    BY <2>1, ListSteps
  <2>2. ASSUME NEW n \in 1..BatchLimit, AddToWorkingBatch(s, n) PROVE HistInv'
    <3>1. n \in Nat
      BY MemoryAssumption
    <3> QED
      BY <2>2, <3>1, BatchWhole
  <2> QED
    BY <1>5, <2>1, <2>2 DEF EntryStep
<1>6. ASSUME NEW s \in SessionIds, RedisExpires(s) PROVE HistInv'
  BY <1>0, <1>1, <1>6 DEF RedisExpires, tables
<1>7. CASE SemanticStep
  <2>1. CASE AddToSemanticPlain
    BY <1>0, <1>1, <2>1 DEF AddToSemanticPlain
  <2>2. CASE ~ AddToSemanticPlain
    <3>1. working' = working /\ episodic' = episodic /\ turns' = turns
      BY <1>7, <2>2, Zenon DEF SemanticStep, GetSemanticEntry, DeleteSemanticEntry, SearchSemantic
    <3> QED
      BY <1>0, <1>1, <3>1
  <2> QED
    BY <2>1, <2>2
<1>8. CASE Restart
  BY <1>8, ListSteps
<1>9. CASE Tick \/ UNCHANGED vars
  BY <1>0, <1>1, <1>9 DEF Tick, vars, tables
<1> QED
  BY <1>2, <1>3, <1>4, <1>5, <1>6, <1>7, <1>8, <1>9 DEF Next

\* The n entries before the newest o.
PageOf(list, n, o) ==
  LET upto == Len(list) - o
  IN  IF o = 0 THEN LastOf(list, n)
      ELSE SubSeq(list, IF upto - n >= 0 THEN upto - n + 1 ELSE 1, upto)

\* What is left of a list when the first a entries are taken away.
Rest(r, list, a) ==
  /\ r \in Seq(Nat) /\ Len(r) = Len(list) - a
  /\ \A i \in 1..Len(list) - a : r[i] = list[a + i]

\* The entries before the newest o.
Before(list, o) == IF Len(list) >= o THEN Len(list) - o ELSE 0

LEMMA PageShape ==
  ASSUME NEW list \in Seq(Nat), NEW n \in Nat \ {0}, NEW o \in Nat,
         NEW page, page = PageOf(list, n, o)
  PROVE  PageIs(page, list, Before(list, o), Before(list, o + n))
<1> SUFFICES ASSUME NEW a, a = Before(list, o), NEW b, b = Before(list, o + n)
             PROVE  /\ page \in Seq(Nat) /\ Len(page) = a - b
                    /\ \A i \in 1..a - b : page[i] = list[b + i]
  BY DEF PageIs
<1>1. PICK L \in Nat : L = Len(list)
  OBVIOUS
<1>2. a = (IF L >= o THEN L - o ELSE 0) /\ b = (IF L >= o + n THEN L - (o + n) ELSE 0)
  BY <1>1 DEF Before
<1>3. a \in Nat /\ a <= L /\ b \in Nat /\ b <= a /\ a <= Len(list)
  <2>1. CASE L >= o + n
    <3>1. L >= o /\ a = L - o /\ b = L - (o + n)
      BY <1>2, <2>1
    <3> QED
      BY <1>1, <2>1, <3>1
  <2>2. CASE ~ (L >= o + n) /\ L >= o
    <3>1. a = L - o /\ b = 0
      BY <1>2, <2>2
    <3> QED
      BY <1>1, <2>2, <3>1
  <2>3. CASE ~ (L >= o)
    <3>1. a = 0 /\ b = 0
      BY <1>2, <2>3
    <3> QED
      BY <1>1, <3>1
  <2> QED
    BY <2>1, <2>2, <2>3
<1>4. CASE o = 0 /\ n >= L
  <2>1. page = list /\ a = L /\ b = 0
    BY <1>1, <1>2, <1>4 DEF PageOf, LastOf
  <2>2. a - b = L /\ \A i \in 1..L : b + i = i
    BY <1>1, <2>1
  <2>3. page \in Seq(Nat) /\ Len(page) = L /\ \A i \in 1..L : page[i] = list[b + i]
    BY <1>1, <2>1, <2>2
  <2> QED
    BY <2>2, <2>3
<1>5. CASE o = 0 /\ ~ (n >= L)
  <2>1. a = L /\ b + 1 = L - n + 1
    BY <1>1, <1>2, <1>5
  <2>2. ~ (n = 0 \/ n >= Len(list))
    BY <1>1, <1>5
  <2>3. page = SubSeq(list, Len(list) - n + 1, Len(list))
    BY <1>5, <2>2, Zenon DEF PageOf, LastOf
  <2>4. page = SubSeq(list, b + 1, a)
    BY <1>1, <2>1, <2>3, Zenon
  <2>5. PICK u \in Nat : u = a
    BY <1>3
  <2>6. PICK v \in Nat : v = b
    BY <1>3
  <2>7. u <= Len(list) /\ v <= u /\ page = SubSeq(list, v + 1, u)
    BY <1>3, <2>4, <2>5, <2>6
  <2>8. PageIs(page, list, u, v)
    BY <2>7, LastShape
  <2> QED
    BY <2>5, <2>6, <2>8 DEF PageIs
<1>6. CASE o # 0 /\ L >= o
  <2>1. PICK upto : upto = Len(list) - o
    OBVIOUS
  <2>2. page = SubSeq(list, IF upto - n >= 0 THEN upto - n + 1 ELSE 1, upto)
    BY <1>6, <2>1, Zenon DEF PageOf
  <2>3. upto = a /\ (IF upto - n >= 0 THEN upto - n + 1 ELSE 1) = b + 1
    <3>1. upto = L - o /\ a = L - o
      BY <1>1, <1>2, <1>6, <2>1
    <3>2. CASE L >= o + n
      <4>1. b = L - (o + n)
        BY <1>2, <3>2
      <4> QED
        BY <3>1, <3>2, <4>1
    <3>3. CASE ~ (L >= o + n)
      <4>1. b = 0
        BY <1>2, <3>3
      <4> QED
        BY <3>1, <3>3, <4>1
    <3> QED
      BY <3>1, <3>2, <3>3
  <2>4. page = SubSeq(list, b + 1, a)
    BY <2>2, <2>3, Zenon
  <2>5. PICK u \in Nat : u = a
    BY <1>3
  <2>6. PICK v \in Nat : v = b
    BY <1>3
  <2>7. u <= Len(list) /\ v <= u /\ page = SubSeq(list, v + 1, u)
    BY <1>3, <2>4, <2>5, <2>6
  <2>8. PageIs(page, list, u, v)
    BY <2>7, LastShape
  <2> QED
    BY <2>5, <2>6, <2>8 DEF PageIs
<1>7. CASE o # 0 /\ ~ (L >= o)
  <2>1. PICK upto \in Int : upto = Len(list) - o
    <3>1. L - o \in Int
      OBVIOUS
    <3> QED
      BY <1>1, <3>1
  <2>2. page = SubSeq(list, IF upto - n >= 0 THEN upto - n + 1 ELSE 1, upto)
    BY <1>7, <2>1, Zenon DEF PageOf
  <2>3. a = 0 /\ b = 0 /\ (IF upto - n >= 0 THEN upto - n + 1 ELSE 1) = 1 /\ upto < 0
    BY <1>1, <1>2, <1>3, <1>7, <2>1
  <2>4. page = SubSeq(list, 1, upto)
    BY <2>2, <2>3, Zenon
  <2>5. 1 \in Int /\ upto \in Int /\ \A i \in 1..upto : list[i] \in Nat
    BY <2>3
  <2>6. /\ SubSeq(list, 1, upto) \in Seq(Nat)
        /\ Len(SubSeq(list, 1, upto)) = IF 1 <= upto THEN upto - 1 + 1 ELSE 0
    BY <2>5, SubSeqProperties
  <2>7. page \in Seq(Nat) /\ Len(page) = 0
    BY <2>3, <2>4, <2>6
  <2> QED
    BY <2>3, <2>7
<1> QED
  BY <1>4, <1>5, <1>6, <1>7

\* A page in front of the rest makes a longer rest.
LEMMA PageJoins ==
  ASSUME NEW list \in Seq(Nat), NEW a \in Nat, a <= Len(list), NEW b \in Nat, b <= a,
         NEW page \in Seq(Nat), Len(page) = a - b,
         \A i \in 1..a - b : page[i] = list[b + i],
         NEW r, Rest(r, list, a)
  PROVE  Rest(page \o r, list, b)
<1>1. PICK L \in Nat : L = Len(list)
  OBVIOUS
<1>2. PICK p \in Nat : p = a - b
  OBVIOUS
<1>3. PICK q \in Nat : q = L - a
  <2>1. a <= L
    BY <1>1
  <2>2. L - a \in Nat
    BY <2>1
  <2> QED
    BY <2>2
<1>4. r \in Seq(Nat) /\ Len(r) = q /\ Len(page) = p /\ \A i \in 1..q : r[i] = list[a + i]
  BY <1>1, <1>2, <1>3 DEF Rest
<1>5. /\ page \o r \in Seq(Nat)
      /\ Len(page \o r) = Len(page) + Len(r)
      /\ \A i \in 1..Len(page) + Len(r) :
           (page \o r)[i] = IF i <= Len(page) THEN page[i] ELSE r[i - Len(page)]
  BY <1>4, ConcatProperties, Zenon
<1>6. PICK all : all = page \o r
  OBVIOUS
<1>7. /\ all \in Seq(Nat) /\ Len(all) = p + q
      /\ \A i \in 1..p + q : all[i] = IF i <= p THEN page[i] ELSE r[i - p]
  BY <1>4, <1>5, <1>6
<1>8. p + q = L - b
  BY <1>1, <1>2, <1>3
<1>9. ASSUME NEW i \in 1..L - b PROVE all[i] = list[b + i]
  <2>1. i \in 1..p + q
    BY <1>8
  <2>2. CASE i <= p
    BY <1>2, <1>7, <2>1, <2>2
  <2>3. CASE ~ (i <= p)
    <3>1. PICK j \in 1..q : j = i - p
      BY <2>1, <2>3
    <3>2. all[i] = r[j] /\ r[j] = list[a + j]
      BY <1>4, <1>7, <2>1, <2>3, <3>1
    <3>3. a + j = b + i
      BY <1>2, <3>1
    <3> QED
      BY <3>2, <3>3
  <2> QED
    BY <2>2, <2>3
<1>10. Rest(all, list, b)
  BY <1>1, <1>7, <1>8, <1>9 DEF Rest
<1> QED
  BY <1>6, <1>10

\* The page before the rest and the rest make the rest of one page more.
LEMMA NextPage ==
  ASSUME NEW list \in Seq(Nat), NEW n \in Nat \ {0}, NEW o \in Nat,
         NEW r, Rest(r, list, Before(list, o))
  PROVE  Rest(PageOf(list, n, o) \o r, list, Before(list, o + n))
<1>1. PICK L \in Nat : L = Len(list)
  OBVIOUS
<1>2. PICK a : a = Before(list, o)
  OBVIOUS
<1>3. PICK b : b = Before(list, o + n)
  OBVIOUS
<1>4. a \in Nat /\ b \in Nat /\ a <= L /\ b <= a
  BY <1>1, <1>2, <1>3 DEF Before
<1>5. PICK page : page = PageOf(list, n, o)
  OBVIOUS
<1>6. PageIs(page, list, a, b)
  BY <1>2, <1>3, <1>5, PageShape
<1>7. /\ page \in Seq(Nat) /\ Len(page) = a - b
      /\ \A i \in 1..a - b : page[i] = list[b + i]
  BY <1>6 DEF PageIs
<1>8. Rest(r, list, a) /\ a <= Len(list)
  BY <1>1, <1>2, <1>4
<1>9. Rest(page \o r, list, b)
  BY <1>4, <1>7, <1>8, PageJoins
<1> QED
  BY <1>3, <1>5, <1>9

\* The pages are put together from the newest to the oldest.
Paging(f, k, s, n) ==
  /\ DOMAIN f = 0..k /\ f[0] = <<>>
  /\ \A i \in 1..k : f[i] = GetEpisodic(s, n, (i - 1) * n) \o f[i - 1]

LEMMA PagingExists ==
  ASSUME NEW s, NEW n, NEW k \in Nat
  PROVE  \E f : Paging(f, k, s, n)
<1> DEFINE C(f, i) == Paging(f, i, s, n)
           bad == {i \in Nat : ~ \E f : C(f, i)}
<1>1. CASE bad = {}
  BY <1>1
<1>2. CASE bad # {}
  <2>1. PICK i \in bad : \A m \in bad : i <= m
    <3>1. bad \in SUBSET Nat
      OBVIOUS
    <3> HIDE DEF bad
    <3> QED
      BY <1>2, <3>1, LeastMember
  <2>2. CASE i = 0
    <3>1. C([m \in 0..0 |-> <<>>], 0)
      BY DEF Paging
    <3> QED
      BY <2>1, <2>2, <3>1
  <2>3. CASE i # 0
    <3>1. i \in Nat /\ i - 1 \in Nat /\ ~ (i <= i - 1)
      BY <2>1, <2>3
    <3>2. i - 1 \notin bad
      <4> HIDE DEF bad
      <4> QED
        BY <2>1, <3>1
    <3>3. PICK f : C(f, i - 1)
      BY <3>1, <3>2
    <3> DEFINE next == GetEpisodic(s, n, (i - 1) * n) \o f[i - 1]
    <3> HIDE DEF next
    <3> DEFINE g == [m \in 0..i |-> IF m = i THEN next ELSE f[m]]
    <3>4. g[0] = f[0] /\ g[i] = next
      BY <2>3, <3>1
    <3>5. ASSUME NEW m \in 1..i
          PROVE  g[m] = GetEpisodic(s, n, (m - 1) * n) \o g[m - 1]
      <4>1. m \in 0..i /\ m - 1 \in 0..i /\ m - 1 # i
        BY <3>1
      <4>2. g[m - 1] = f[m - 1]
        BY <4>1
      <4>3. CASE m = i
        BY <3>4, <4>2, <4>3 DEF next
      <4>4. CASE m # i
        <5>1. m \in 1..(i - 1) /\ g[m] = f[m]
          BY <3>1, <4>1, <4>4
        <5>2. f[m] = GetEpisodic(s, n, (m - 1) * n) \o f[m - 1]
          BY <3>3, <5>1 DEF Paging
        <5> QED
          BY <4>2, <5>1, <5>2
      <4> QED
        BY <4>3, <4>4
    <3>6. DOMAIN g = 0..i /\ f[0] = <<>>
      BY <3>3 DEF Paging
    <3> HIDE DEF g
    <3>7. C(g, i)
      BY <3>4, <3>5, <3>6 DEF Paging
    <3> QED
      BY <2>1, <3>7
  <2> QED
    BY <2>2, <2>3
<1> QED
  BY <1>1, <1>2

LEMMA PagingWorks ==
  ASSUME NEW s, NEW n \in 1..2, NEW list \in Seq(Nat), list = ListOf(episodic, s),
         NEW k \in Nat, NEW f, Paging(f, k, s, n)
  PROVE  Rest(f[k], list, Before(list, k * n))
<1> DEFINE Good(i) == Rest(f[i], list, Before(list, i * n))
           bad == {i \in 0..k : ~ Good(i)}
<1>1. CASE bad = {}
  <2>1. k \in 0..k
    OBVIOUS
  <2> QED
    BY <1>1, <2>1
<1>2. CASE bad # {}
  <2>1. PICK i \in bad : \A m \in bad : i <= m
    <3>1. bad \in SUBSET Nat
      OBVIOUS
    <3> HIDE DEF bad
    <3> QED
      BY <1>2, <3>1, LeastMember
  <2>2. Good(0)
    <3>1. f[0] = <<>> /\ 0 * n = 0
      BY DEF Paging
    <3>2. Before(list, 0) = Len(list) /\ Len(list) \in Nat
      BY DEF Before
    <3>3. Rest(<<>>, list, Len(list))
      <4>1. Len(list) - Len(list) = 0
        BY <3>2
      <4>2. <<>> \in Seq(Nat) /\ Len(<<>>) = 0 /\ 1..0 = {}
        OBVIOUS
      <4> QED
        BY <4>1, <4>2 DEF Rest
    <3> QED
      BY <3>1, <3>2, <3>3
  <2>3. i # 0
    BY <2>1, <2>2
  <2>4. i \in 1..k /\ i - 1 \in 0..k /\ ~ (i <= i - 1)
    BY <2>1, <2>3
  <2>5. i - 1 \notin bad
    <3> HIDE DEF bad
    <3> QED
      BY <2>1, <2>4
  <2>6. Good(i - 1)
    BY <2>4, <2>5
  <2>7. PICK o \in Nat : o = (i - 1) * n
    <3>1. n = 1 \/ n = 2
      OBVIOUS
    <3> QED
      BY <2>4, <3>1
  <2>8. i * n = o + n /\ n \in Nat \ {0}
    <3>1. n = 1 \/ n = 2
      OBVIOUS
    <3> QED
      BY <2>4, <2>7, <3>1
  <2>9. PICK r : r = f[i - 1]
    OBVIOUS
  <2>10. Rest(r, list, Before(list, o))
    BY <2>6, <2>7, <2>9
  <2>11. Rest(PageOf(list, n, o) \o r, list, Before(list, o + n))
    BY <2>8, <2>10, NextPage
  <2>12. f[i] = GetEpisodic(s, n, o) \o r
    BY <2>4, <2>7, <2>9 DEF Paging
  <2>13. GetEpisodic(s, n, o) = PageOf(list, n, o)
    BY DEF GetEpisodic, PageOf
  <2>14. Good(i)
    BY <2>8, <2>11, <2>12, <2>13
  <2> QED
    BY <2>1, <2>14
<1> QED
  BY <1>1, <1>2

\* Enough pages make up the list.
LEMMA PagesWhole ==
  ASSUME HistInv, NEW s \in SessionIds, NEW n \in 1..2
  PROVE  Pages(s, n) = ListOf(episodic, s)
<1> DEFINE k == EpisodicCapacity
           upto == CHOOSE f : f = [i \in 0..k |->
                     IF i = 0 THEN <<>> ELSE GetEpisodic(s, n, (i - 1) * n) \o f[i - 1]]
<1>1. Pages(s, n) = upto[k]
  BY DEF Pages
<1>2. PICK list \in Seq(Nat) : list = ListOf(episodic, s) /\ Len(list) <= k
  BY DEF HistInv, MemOK, Whole, Ordered
<1>3. k \in Nat
  BY MemoryAssumption
<1> HIDE DEF k
<1>4. PICK f : Paging(f, k, s, n)
  BY <1>3, PagingExists
<1>5. \E g : g = [i \in 0..k |->
                    IF i = 0 THEN <<>> ELSE GetEpisodic(s, n, (i - 1) * n) \o g[i - 1]]
  <2> DEFINE g == [i \in 0..k |-> f[i]]
  <2>1. \A i \in 0..k : i # 0 => i \in 1..k /\ i - 1 \in 0..k
    BY <1>3
  <2>2. \A i \in 0..k : g[i] = f[i]
    OBVIOUS
  <2>3. f[0] = <<>> /\ \A i \in 1..k : f[i] = GetEpisodic(s, n, (i - 1) * n) \o f[i - 1]
    BY <1>4 DEF Paging
  <2>4. g = [i \in 0..k |-> g[i]]
    OBVIOUS
  <2> HIDE DEF g
  <2>5. \A i \in 0..k :
          g[i] = IF i = 0 THEN <<>> ELSE GetEpisodic(s, n, (i - 1) * n) \o g[i - 1]
    BY <2>1, <2>2, <2>3, Zenon
  <2>6. g = [i \in 0..k |->
               IF i = 0 THEN <<>> ELSE GetEpisodic(s, n, (i - 1) * n) \o g[i - 1]]
    BY <2>4, <2>5, Zenon
  <2> QED
    BY <2>6
<1>6. upto = [i \in 0..k |->
                IF i = 0 THEN <<>> ELSE GetEpisodic(s, n, (i - 1) * n) \o upto[i - 1]]
  BY <1>5
<1> HIDE DEF upto
<1>7. Paging(upto, k, s, n)
  <2>1. DOMAIN upto = 0..k
    BY <1>6, Zenon
  <2>2. \A i \in 0..k :
          upto[i] = IF i = 0 THEN <<>> ELSE GetEpisodic(s, n, (i - 1) * n) \o upto[i - 1]
    BY <1>6, Zenon
  <2>3. 0 \in 0..k /\ \A i \in 1..k : i \in 0..k /\ i # 0
    BY <1>3
  <2>4. /\ upto[0] = <<>>
        /\ \A i \in 1..k : upto[i] = GetEpisodic(s, n, (i - 1) * n) \o upto[i - 1]
    BY <2>2, <2>3, Zenon
  <2> QED
    BY <2>1, <2>4 DEF Paging
<1>8. PICK r : r = upto[k]
  OBVIOUS
<1>9. Rest(r, list, Before(list, k * n))
  BY <1>2, <1>3, <1>7, <1>8, PagingWorks
<1>10. Before(list, k * n) = 0
  <2>1. PICK L \in Nat : L = Len(list)
    OBVIOUS
  <2>2. (n = 1 \/ n = 2) /\ L <= k
    BY <1>2, <2>1
  <2>3. k * n \in Nat /\ L <= k * n
    BY <1>3, <2>1, <2>2
  <2> QED
    BY <2>1, <2>3 DEF Before
<1>11. r = list
  <2>1. PICK L \in Nat : L = Len(list)
    OBVIOUS
  <2>2. r \in Seq(Nat) /\ Len(r) = L /\ \A i \in 1..L : r[i] = list[i]
    BY <1>9, <1>10, <2>1 DEF Rest
  <2> QED
    BY <2>1, <2>2
<1> QED
  BY <1>1, <1>2, <1>8, <1>11

LEMMA HistInit ==
  ASSUME Init
  PROVE  HistInv /\ CallInv
<1>1. working = <<>> /\ episodic = <<>> /\ turns = 0
  BY DEF Init
<1>2. HistInv
  BY <1>1, NoLists DEF HistInv
<1>3. CallInv
  BY CallWell DEF Init, CallInv
<1> QED
  BY <1>2, <1>3

LEMMA HistSays == HistInv => HistoryIsWhole
<1> SUFFICES ASSUME HistInv, NEW s \in SessionIds
             PROVE  LET recent == ListOf(working, s)
                        history == ListOf(episodic, s)
                    IN  /\ Rising(recent) /\ Len(recent) <= WorkingCapacity
                        /\ Rising(history) /\ Len(history) <= EpisodicCapacity
                        /\ \A t \in ToSet(recent) :
                             \/ t \in ToSet(history)
                             \/ Len(history) = EpisodicCapacity /\ t < history[1]
                        /\ \A n \in 1..2 : Pages(s, n) = history
  BY DEF HistoryIsWhole
<1>1. PICK recent : recent = ListOf(working, s)
  OBVIOUS
<1>2. PICK history : history = ListOf(episodic, s)
  OBVIOUS
<1>3. Whole(recent, history, turns)
  BY <1>1, <1>2 DEF HistInv, MemOK
<1>4. /\ recent \in Seq(Nat) /\ DOMAIN recent = 1..Len(recent)
      /\ history \in Seq(Nat) /\ DOMAIN history = 1..Len(history)
  BY <1>3 DEF Whole, Ordered
<1>5. Rising(recent) /\ Rising(history)
  BY <1>3, <1>4 DEF Whole, Ordered, Rising
<1>6. Len(recent) <= WorkingCapacity /\ Len(history) <= EpisodicCapacity
  BY <1>3 DEF Whole, Ordered
<1>7. ASSUME NEW t \in ToSet(recent)
      PROVE  t \in ToSet(history) \/ (Len(history) = EpisodicCapacity /\ t < history[1])
  <2>1. PICK i \in 1..Len(recent) : t = recent[i]
    BY <1>4 DEF ToSet
  <2>2. \/ \E j \in 1..Len(history) : history[j] = t
        \/ Len(history) = EpisodicCapacity /\ t < history[1]
    BY <1>3, <2>1 DEF Whole, Echoed
  <2> QED
    BY <1>4, <2>2 DEF ToSet
<1>8. \A n \in 1..2 : Pages(s, n) = history
  BY <1>2, PagesWhole
<1> QED
  BY <1>1, <1>2, <1>5, <1>6, <1>7, <1>8

\* The working and the episodic list of every session agree, in order and within their
\* capacities, and the pages of the history make it up.
THEOREM HistoryIsWholeCorrect == Spec => []HistoryIsWhole
<1>1. Init => HistInv /\ CallInv
  BY HistInit
<1>2. HistInv /\ CallInv /\ [Next]_vars => HistInv' /\ CallInv'
  BY HistStep, CallStep
<1> QED
  BY <1>1, <1>2, HistSays, PTL DEF Spec

-----------------------------------------------------------------------------
(* The semantic memory. *)

Entry == [turn : Nat, at : Nat, read : BOOLEAN]

SemInv == semantic \in Seq(Entry) /\ clock \in Nat

\* The list without its entry at i.
Without(r, list, i) ==
  /\ r \in Seq(Entry) /\ Len(r) = Len(list) - 1
  /\ \A k \in 1..Len(list) - 1 : r[k] = IF k < i THEN list[k] ELSE list[k + 1]

LEMMA RemoveShape ==
  ASSUME NEW list \in Seq(Entry), NEW i \in 1..Len(list), NEW r, r = RemoveAt(list, i)
  PROVE  Without(r, list, i)
<1>1. PICK n \in Nat : n = Len(list)
  OBVIOUS
<1>2. PICK h \in Nat : h = i - 1
  BY <1>1
<1>3. i \in Nat /\ i <= n /\ h + 1 = i /\ 1 <= n
  BY <1>1, <1>2
<1>4. PICK p : p = SubSeq(list, 0 + 1, h)
  OBVIOUS
<1>5. PICK q : q = SubSeq(list, i + 1, n)
  OBVIOUS
<1>6. r = p \o q
  <2>1. 0 + 1 = 1
    OBVIOUS
  <2> QED
    BY <1>1, <1>2, <1>4, <1>5, <2>1, Zenon DEF RemoveAt
<1>7. /\ p \in Seq(Entry) /\ Len(p) = h /\ \A k \in 1..h : p[k] = list[k]
  <2>1. /\ p \in Seq(Entry) /\ Len(p) = h - 0 /\ \A k \in 1..h - 0 : p[k] = list[0 + k]
    BY <1>1, <1>3, <1>4, PieceShape
  <2> QED
    BY <2>1
<1>8. /\ q \in Seq(Entry) /\ Len(q) = n - i /\ \A k \in 1..n - i : q[k] = list[i + k]
  BY <1>1, <1>3, <1>5, PieceShape
<1>9. /\ p \o q \in Seq(Entry)
      /\ Len(p \o q) = Len(p) + Len(q)
      /\ \A k \in 1..Len(p) + Len(q) :
           (p \o q)[k] = IF k <= Len(p) THEN p[k] ELSE q[k - Len(p)]
  BY <1>7, <1>8, ConcatProperties, Zenon
<1>10. Len(p) + Len(q) = n - 1 /\ Len(p) = h
  BY <1>2, <1>3, <1>7, <1>8
<1>11. /\ r \in Seq(Entry) /\ Len(r) = n - 1
       /\ \A k \in 1..n - 1 : r[k] = IF k <= h THEN p[k] ELSE q[k - h]
  BY <1>6, <1>9, <1>10
<1>12. ASSUME NEW k \in 1..n - 1 PROVE r[k] = IF k < i THEN list[k] ELSE list[k + 1]
  <2>1. CASE k < i
    <3>1. k \in 1..h /\ k <= h
      BY <1>2, <1>3, <2>1
    <3> QED
      BY <1>7, <1>11, <2>1, <3>1
  <2>2. CASE ~ (k < i)
    <3>1. PICK l \in 1..n - i : l = k - h
      BY <1>2, <1>3, <2>2
    <3>2. ~ (k <= h) /\ i + l = k + 1
      BY <1>2, <1>3, <2>2, <3>1
    <3> QED
      BY <1>8, <1>11, <2>2, <3>1, <3>2
  <2> QED
    BY <2>1, <2>2
<1> QED
  BY <1>1, <1>11, <1>12 DEF Without

\* There is one entry that Oldest names: none was used earlier.
LEMMA OldestShape ==
  ASSUME NEW list \in Seq(Entry), Len(list) >= 1
  PROVE  /\ Oldest(list) \in 1..Len(list)
         /\ \A j \in 1..Len(list) : list[Oldest(list)].at <= list[j].at
<1>1. DOMAIN list = 1..Len(list) /\ Len(list) \in Nat /\ 1 \in 1..Len(list)
  OBVIOUS
<1>2. ASSUME NEW i \in 1..Len(list)
      PROVE  Recency(list[i]) \in Nat /\ list[i].at \in Nat
  <2>1. list[i] \in Entry
    OBVIOUS
  <2>2. PICK a \in Nat : a = list[i].at
    BY <2>1 DEF Entry
  <2>3. Recency(list[i]) = 2 * a \/ Recency(list[i]) = 2 * a + 1
    BY <2>2 DEF Recency
  <2> QED
    BY <2>2, <2>3
<1> DEFINE R == {Recency(list[i]) : i \in 1..Len(list)}
<1>3. PICK r \in R : \A x \in R : r <= x
  <2>1. R \in SUBSET Nat /\ R # {}
    BY <1>1, <1>2
  <2> HIDE DEF R
  <2> QED
    BY <2>1, LeastMember
<1> DEFINE S == {i \in 1..Len(list) : Recency(list[i]) = r}
<1>4. PICK i \in S : \A x \in S : i <= x
  <2>1. S \in SUBSET Nat /\ S # {}
    BY <1>1
  <2> HIDE DEF S
  <2> QED
    BY <2>1, LeastMember
<1>5. /\ i \in DOMAIN list
      /\ \A j \in DOMAIN list : \/ Recency(list[i]) < Recency(list[j])
                                \/ Recency(list[i]) = Recency(list[j]) /\ i <= j
  <2> SUFFICES ASSUME NEW j \in 1..Len(list)
               PROVE  \/ Recency(list[i]) < Recency(list[j])
                      \/ Recency(list[i]) = Recency(list[j]) /\ i <= j
    BY <1>1, <1>4
  <2>1. Recency(list[i]) = r /\ i \in 1..Len(list)
    BY <1>4
  <2>2. r <= Recency(list[j]) /\ r \in Nat /\ Recency(list[j]) \in Nat
    BY <1>2, <1>3, <2>1
  <2>3. CASE Recency(list[j]) = r
    BY <1>4, <2>1, <2>3
  <2>4. CASE Recency(list[j]) # r
    BY <2>1, <2>2, <2>4
  <2> QED
    BY <2>3, <2>4
<1>6. PICK o : o = Oldest(list)
  OBVIOUS
<1>7. /\ o \in DOMAIN list
      /\ \A j \in DOMAIN list : \/ Recency(list[o]) < Recency(list[j])
                                \/ Recency(list[o]) = Recency(list[j]) /\ o <= j
  BY <1>5, <1>6 DEF Oldest
<1>8. ASSUME NEW j \in 1..Len(list) PROVE list[o].at <= list[j].at
  <2>1. Recency(list[o]) <= Recency(list[j]) /\ o \in 1..Len(list)
    BY <1>1, <1>2, <1>7
  <2>2. PICK a \in Nat : a = list[o].at
    BY <1>2, <2>1
  <2>3. PICK b \in Nat : b = list[j].at
    BY <1>2
  <2>4. (Recency(list[o]) = 2 * a \/ Recency(list[o]) = 2 * a + 1)
        /\ (Recency(list[j]) = 2 * b \/ Recency(list[j]) = 2 * b + 1)
    BY <2>2, <2>3 DEF Recency
  <2>5. a <= b
    BY <2>1, <2>4
  <2> QED
    BY <2>2, <2>3, <2>5
<1> QED
  BY <1>1, <1>6, <1>7, <1>8

\* Taking one entry away or another makes no difference only where they are equal.
LEMMA SameWithout ==
  ASSUME NEW list \in Seq(Entry), NEW x \in 1..Len(list), NEW y \in 1..Len(list), x < y,
         NEW r, Without(r, list, x), Without(r, list, y)
  PROVE  list[x] = list[y]
<1>1. PICK n \in Nat : n = Len(list)
  OBVIOUS
<1> DEFINE bad == {k \in x..y : list[k] # list[x]}
<1>2. CASE bad = {}
  <2>1. y \in x..y
    OBVIOUS
  <2> QED
    BY <1>2, <2>1
<1>3. CASE bad # {}
  <2>1. PICK k \in bad : \A m \in bad : k <= m
    <3>1. bad \in SUBSET Nat
      OBVIOUS
    <3> HIDE DEF bad
    <3> QED
      BY <1>3, <3>1, LeastMember
  <2>2. k # x
    BY <2>1
  <2>3. PICK l \in x..y : l = k - 1
    BY <2>1, <2>2
  <2>4. l \notin bad
    <3>1. ~ (k <= l) /\ k \in Nat
      BY <2>1, <2>3
    <3> HIDE DEF bad
    <3> QED
      BY <2>1, <3>1
  <2>5. list[l] = list[x]
    BY <2>4
  <2>6. l \in 1..n - 1 /\ ~ (l < x) /\ l < y /\ l + 1 = k
    BY <1>1, <2>1, <2>3
  <2>7. r[l] = list[k] /\ r[l] = list[l]
    BY <1>1, <2>6 DEF Without
  <2> QED
    BY <2>1, <2>5, <2>7
<1> QED
  BY <1>2, <1>3

\* Entries that are read now cannot look like an entry that makes room.
LEMMA ReadsDoNotShift ==
  ASSUME NEW list \in Seq(Entry), NEW i \in 1..Len(list), NEW found \in SUBSET DOMAIN list,
         NEW u, u = Touched(list, found), NEW r, Without(r, list, i),
         \A k \in 1..Len(list) - 1 : u[k] = r[k], ~ u[Len(list)].read
  PROVE  u = list
<1>1. PICK n \in Nat : n = Len(list)
  OBVIOUS
<1>2. i \in 1..n /\ DOMAIN list = 1..n /\ \A k \in 1..n : list[k] \in Entry
  BY <1>1
<1>3. DOMAIN u = 1..n /\ \A k \in 1..n : (k \in found => u[k].read) /\ (k \notin found => u[k] = list[k])
  <2>1. DOMAIN u = 1..n
    BY <1>2 DEF Touched
  <2>2. ASSUME NEW k \in 1..n, k \in found PROVE u[k].read
    <3>1. u[k] = [list[k] EXCEPT !.at = clock, !.read = TRUE]
      BY <1>2, <2>2 DEF Touched
    <3>2. list[k] \in Entry
      BY <1>2
    <3> QED
      BY <3>1, <3>2 DEF Entry
  <2>3. ASSUME NEW k \in 1..n, k \notin found PROVE u[k] = list[k]
    BY <1>2, <2>3 DEF Touched
  <2> QED
    BY <2>1, <2>2, <2>3
<1>4. \A k \in 1..n - 1 : u[k] = IF k < i THEN list[k] ELSE list[k + 1]
  BY <1>1 DEF Without
<1>5. ~ u[n].read /\ n \in 1..n
  BY <1>1, <1>2
<1> DEFINE Good(k) == u[k] = list[k] /\ ~ list[k].read
           bad == {d \in 0..n - i : ~ Good(n - d)}
<1>6. CASE bad = {}
  <2>1. ASSUME NEW k \in 1..n PROVE u[k] = list[k]
    <3>1. CASE k < i
      <4>1. k \in 1..n - 1
        BY <1>2, <3>1
      <4> QED
        BY <1>4, <3>1, <4>1
    <3>2. CASE ~ (k < i)
      <4>1. n - k \in 0..n - i /\ n - (n - k) = k
        BY <1>2, <3>2
      <4> QED
        BY <1>6, <4>1
    <3> QED
      BY <3>1, <3>2
  <2>2. u = [k \in 1..n |-> u[k]] /\ list = [k \in 1..n |-> list[k]]
    <3>1. list \in [1..n -> Entry]
      BY <1>1
    <3>2. u = [k \in DOMAIN list |-> IF k \in found THEN [list[k] EXCEPT !.at = clock, !.read = TRUE]
                                    ELSE list[k]]
      BY DEF Touched
    <3> QED
      BY <1>2, <3>1, <3>2
  <2> QED
    BY <2>1, <2>2
<1>7. CASE bad # {}
  <2>1. PICK d \in bad : \A m \in bad : d <= m
    <3>1. bad \in SUBSET Nat
      OBVIOUS
    <3> HIDE DEF bad
    <3> QED
      BY <1>7, <3>1, LeastMember
  <2>2. PICK k \in 1..n : k = n - d
    BY <1>2, <2>1
  <2>3. CASE d = 0
    <3>1. k = n
      BY <2>2, <2>3
    <3>2. u[n] = list[n]
      BY <1>3, <1>5
    <3>3. Good(k)
      BY <1>5, <3>1, <3>2
    <3> QED
      BY <2>1, <2>2, <3>3
  <2>4. CASE d # 0
    <3>1. PICK e \in 0..n - i : e = d - 1
      BY <2>1, <2>4
    <3>2. e \notin bad
      <4>1. ~ (d <= e) /\ d \in Nat
        BY <2>1, <3>1
      <4> HIDE DEF bad
      <4> QED
        BY <2>1, <4>1
    <3>3. n - e = k + 1
      BY <2>1, <2>2, <3>1
    <3>4. ~ list[k + 1].read
      BY <3>2, <3>3
    <3>5. k \in 1..n - 1 /\ ~ (k < i)
      BY <1>2, <2>1, <2>2, <2>4
    <3>6. u[k] = list[k + 1]
      BY <1>4, <3>5
    <3>7. u[k] = list[k]
      BY <1>3, <3>4, <3>6
    <3>8. Good(k)
      BY <3>4, <3>6, <3>7
    <3> QED
      BY <2>1, <2>2, <3>8
  <2> QED
    BY <2>3, <2>4
<1> QED
  BY <1>6, <1>7

\* What a step does to the semantic memory.
Changed(list, next) ==
  \/ next = list
  \/ next = <<>>
  \/ \E x \in Entry :
       next = Append(IF Len(list) >= SemanticCapacity THEN RemoveAt(list, Oldest(list)) ELSE list, x)
  \/ \E i \in DOMAIN list : next = RemoveAt(list, i)
  \/ \E found \in SUBSET DOMAIN list : next = Touched(list, found)

\* The entry at i seems to have made room for another.
SeemsEvicted(list, next, i) ==
  /\ Len(list) = SemanticCapacity /\ next # list
  /\ next # <<>> /\ ~ Last(next).read
  /\ next = Append(RemoveAt(list, i), Last(next))

LEMMA EvictsOldest ==
  ASSUME NEW list \in Seq(Entry), NEW next, Changed(list, next),
         NEW i \in 1..Len(list), SeemsEvicted(list, next, i)
  PROVE  \A j \in 1..Len(list) : list[i].at <= list[j].at
<1>1. PICK n \in Nat : n = Len(list)
  OBVIOUS
<1>2. n \in Nat \ {0} /\ n = SemanticCapacity
  BY <1>1 DEF SeemsEvicted
<1>3. PICK r : r = RemoveAt(list, i)
  OBVIOUS
<1>4. Without(r, list, i)
  BY <1>3, RemoveShape
<1>5. r \in Seq(Entry) /\ Len(r) = n - 1
  BY <1>1, <1>4 DEF Without
<1>6. PICK z : z = Last(next)
  OBVIOUS
<1>7. next = Append(r, z) /\ ~ z.read /\ next # list
  BY <1>3, <1>6 DEF SeemsEvicted
<1>8. /\ Len(next) = n /\ next[n] = z
      /\ \A k \in 1..n - 1 : next[k] = r[k]
  BY <1>2, <1>5, <1>7
<1>9. CASE \E x \in Entry :
             next = Append(IF Len(list) >= SemanticCapacity THEN RemoveAt(list, Oldest(list))
                           ELSE list, x)
  <2>1. PICK x \in Entry :
             next = Append(IF Len(list) >= SemanticCapacity THEN RemoveAt(list, Oldest(list))
                           ELSE list, x)
    BY <1>9
  <2>2. PICK o : o = Oldest(list)
    OBVIOUS
  <2>3. o \in 1..Len(list) /\ \A j \in 1..Len(list) : list[o].at <= list[j].at
    <3>1. Len(list) >= 1
      BY <1>1, <1>2
    <3>2. /\ Oldest(list) \in 1..Len(list)
          /\ \A j \in 1..Len(list) : list[Oldest(list)].at <= list[j].at
      BY <3>1, OldestShape
    <3> QED
      BY <2>2, <3>2, Zenon
  <2>4. PICK q : q = RemoveAt(list, o)
    OBVIOUS
  <2>5. Without(q, list, o)
    BY <2>3, <2>4, RemoveShape
  <2>6. q \in Seq(Entry) /\ Len(q) = n - 1
    BY <1>1, <2>5 DEF Without
  <2>7. next = Append(q, x)
    <3>1. Len(list) >= SemanticCapacity
      BY <1>1, <1>2
    <3> QED
      BY <2>1, <2>2, <2>4, <3>1, Zenon
  <2>8. \A k \in 1..n - 1 : next[k] = q[k]
    BY <1>2, <2>6, <2>7
  <2>9. \A k \in 1..n - 1 : q[k] = r[k]
    BY <1>8, <2>8
  <2>10. Without(r, list, o)
    BY <1>1, <1>5, <2>5, <2>9 DEF Without
  <2>11. list[i] = list[o]
    <3>1. CASE i < o
      BY <1>4, <2>3, <2>10, <3>1, SameWithout
    <3>2. CASE o < i
      BY <1>4, <2>3, <2>10, <3>2, SameWithout
    <3>3. CASE ~ (i < o) /\ ~ (o < i)
      BY <2>3, <3>3
    <3> QED
      BY <3>1, <3>2, <3>3
  <2> QED
    BY <2>3, <2>11
<1>10. CASE \E found \in SUBSET DOMAIN list : next = Touched(list, found)
  <2>1. PICK found \in SUBSET DOMAIN list : next = Touched(list, found)
    BY <1>10
  <2>2. next = list
    BY <1>1, <1>4, <1>7, <1>8, <2>1, ReadsDoNotShift
  <2> QED
    BY <1>7, <2>2
<1>11. CASE \E k \in DOMAIN list : next = RemoveAt(list, k)
  <2>1. PICK k \in 1..Len(list) : next = RemoveAt(list, k)
    BY <1>11
  <2>2. Len(next) = n - 1
    BY <1>1, <2>1, RemoveShape DEF Without
  <2> QED
    BY <1>2, <1>8, <2>2
<1>12. CASE next = list \/ next = <<>>
  BY <1>12 DEF SeemsEvicted
<1> QED
  BY <1>9, <1>10, <1>11, <1>12 DEF Changed

LEMMA ChangedTyped ==
  ASSUME NEW list \in Seq(Entry), clock \in Nat, NEW next, Changed(list, next)
  PROVE  next \in Seq(Entry)
<1>1. PICK n \in Nat : n = Len(list)
  OBVIOUS
<1>2. SemanticCapacity \in Nat \ {0}
  BY MemoryAssumption
<1>3. ASSUME NEW i \in 1..Len(list) PROVE RemoveAt(list, i) \in Seq(Entry)
  BY RemoveShape DEF Without
<1>4. ASSUME NEW x \in Entry,
             next = Append(IF Len(list) >= SemanticCapacity THEN RemoveAt(list, Oldest(list))
                           ELSE list, x)
      PROVE  next \in Seq(Entry)
  <2>1. CASE Len(list) >= SemanticCapacity
    <3>1. Len(list) >= 1
      BY <1>1, <1>2, <2>1
    <3>2. PICK o \in 1..Len(list) : o = Oldest(list)
      BY <3>1, OldestShape
    <3>3. PICK r : r = RemoveAt(list, o)
      OBVIOUS
    <3>4. r \in Seq(Entry) /\ next = Append(r, x)
      BY <1>3, <1>4, <2>1, <3>2, <3>3
    <3> QED
      BY <3>4
  <2>2. CASE ~ (Len(list) >= SemanticCapacity)
    BY <1>4, <2>2
  <2> QED
    BY <2>1, <2>2
<1>5. ASSUME NEW found \in SUBSET DOMAIN list, next = Touched(list, found)
      PROVE  next \in Seq(Entry)
  <2>1. DOMAIN list = 1..n /\ \A k \in 1..n : list[k] \in Entry
    BY <1>1
  <2>2. ASSUME NEW k \in 1..n
        PROVE  (IF k \in found THEN [list[k] EXCEPT !.at = clock, !.read = TRUE] ELSE list[k])
                 \in Entry
    <3>1. list[k] \in Entry
      BY <2>1
    <3> QED
      BY <3>1 DEF Entry
  <2>3. next = [k \in 1..n |-> IF k \in found
                               THEN [list[k] EXCEPT !.at = clock, !.read = TRUE] ELSE list[k]]
    BY <1>5, <2>1 DEF Touched
  <2>4. next \in [1..n -> Entry]
    BY <2>2, <2>3
  <2> QED
    BY <2>4, SeqDef
<1>6. CASE next = list \/ next = <<>> \/ \E i \in DOMAIN list : next = RemoveAt(list, i)
  <2>1. DOMAIN list = 1..Len(list) /\ <<>> \in Seq(Entry)
    OBVIOUS
  <2> QED
    BY <1>3, <1>6, <2>1
<1> QED
  BY <1>4, <1>5, <1>6 DEF Changed

LEMMA StoreChanges ==
  ASSUME NEW list, NEW turn \in Nat, clock \in Nat
  PROVE  Changed(list, StoreAddSemantic(list, turn))
<1>1. [turn |-> turn, at |-> clock, read |-> FALSE] \in Entry
  BY DEF Entry
<1> QED
  BY <1>1, Zenon DEF Changed, StoreAddSemantic

LEMMA SemStep ==
  ASSUME SemInv, CallInv, HistInv, [Next]_vars
  PROVE  SemInv' /\ Changed(semantic, semantic')
<1>0. clock \in Nat /\ turns \in Nat /\ semantic \in Seq(Entry)
  BY DEF SemInv, HistInv
<1> DEFINE Goal == clock' \in Nat /\ Changed(semantic, semantic')
<1> SUFFICES Goal
  <2> SUFFICES ASSUME Goal PROVE semantic' \in Seq(Entry)
    BY DEF SemInv
  <2>1. PICK next : next = semantic'
    OBVIOUS
  <2>2. Changed(semantic, next)
    BY <2>1
  <2>3. next \in Seq(Entry)
    BY <1>0, <2>2, ChangedTyped
  <2> QED
    BY <2>1, <2>3
<1>1. ASSUME semantic' = semantic, clock' = clock PROVE Goal
  BY <1>0, <1>1 DEF Changed
<1>2. ASSUME NEW c \in Calls, NEW s \in SessionIds, SessionStep(c, s) PROVE Goal
  <2>1. semantic' = semantic /\ clock' = clock
    BY <1>2 DEF SessionStep, CreateSession, UpdateSession, DeleteSession, GetSession, tables
  <2> QED
    BY <1>1, <2>1
<1>3. ASSUME NEW c \in Calls, RedisStep(c) PROVE Goal
  <2>1. semantic' = semantic /\ clock' = clock
    BY <1>3 DEF RedisStep, SessionRead, RedisApplies, RedisFails, tables
  <2> QED
    BY <1>1, <2>1
<1>4. ASSUME NEW c \in Calls, EmbeddingStep(c) PROVE Goal
  <2>1. CASE AddToSemantic(c)
    <3>1. semantic' = semantic /\ clock' = clock
      BY <2>1 DEF AddToSemantic, tables
    <3> QED
      BY <1>1, <3>1
  <2>2. CASE Embedded(c)
    <3> DEFINE turn == IF Head(calls[c].value) = 0 THEN turns + 1 ELSE Head(calls[c].value)
    <3>1. semantic' = StoreAddSemantic(semantic, turn) /\ clock' = clock
      BY <2>2, Zenon DEF Embedded
    <3>2. calls[c].value \in Seq(Nat) /\ calls[c].value # <<>>
      BY <2>2 DEF Embedded, CallInv, WellFormed
    <3>3. turn \in Nat
      BY <1>0, <3>2
    <3> HIDE DEF turn
    <3> QED
      BY <1>0, <3>1, <3>3, StoreChanges
  <2>3. ASSUME NEW s \in SessionIds, AutoConsolidate(c, s) PROVE Goal
    <3>1. semantic' = semantic /\ clock' = clock
      BY <2>3 DEF AutoConsolidate, tables
    <3> QED
      BY <1>1, <3>1
  <2>4. ASSUME NEW s \in SessionIds, NEW turn, ConsolidateEpisodic(c, s, turn) PROVE Goal
    <3>1. semantic' = semantic /\ clock' = clock
      BY <2>4 DEF ConsolidateEpisodic, tables
    <3> QED
      BY <1>1, <3>1
  <2> QED
    BY <1>4, <2>1, <2>2, <2>3, <2>4 DEF EmbeddingStep
<1>5. ASSUME NEW s \in SessionIds, EntryStep(s) \/ RedisExpires(s) PROVE Goal
  <2>1. semantic' = semantic /\ clock' = clock
    BY <1>5 DEF EntryStep, AddToWorking, AddToWorkingBatch, ClearWorking, AddToEpisodic,
                RedisExpires, tables
  <2> QED
    BY <1>1, <2>1
<1>6. CASE SemanticStep
  <2>1. CASE AddToSemanticPlain
    <3>1. semantic' = StoreAddSemantic(semantic, turns + 1) /\ clock' = clock
      BY <2>1, Zenon DEF AddToSemanticPlain
    <3>2. turns + 1 \in Nat
      BY <1>0
    <3> QED
      BY <1>0, <3>1, <3>2, StoreChanges
  <2>2. ASSUME NEW i \in DOMAIN semantic, GetSemanticEntry(i) PROVE Goal
    <3>1. semantic' = Touched(semantic, {i}) /\ clock' = clock /\ {i} \in SUBSET DOMAIN semantic
      BY <2>2 DEF GetSemanticEntry
    <3> QED
      BY <1>0, <3>1, Zenon DEF Changed
  <2>3. ASSUME NEW i \in DOMAIN semantic, DeleteSemanticEntry(i) PROVE Goal
    BY <1>0, <2>3, Zenon DEF Changed, DeleteSemanticEntry
  <2>4. ASSUME NEW found \in SUBSET DOMAIN semantic, SearchSemantic(found) PROVE Goal
    BY <1>0, <2>4, Zenon DEF Changed, SearchSemantic
  <2> QED
    BY <1>6, <2>1, <2>2, <2>3, <2>4, Zenon DEF SemanticStep
<1>7. CASE Restart
  BY <1>0, <1>7, Zenon DEF Restart, Changed
<1>8. CASE Tick
  <2>1. clock' = clock + 1 /\ semantic' = semantic
    BY <1>8, Zenon DEF Tick
  <2> QED
    BY <1>0, <2>1 DEF Changed
<1>9. CASE UNCHANGED vars
  <2>1. semantic' = semantic /\ clock' = clock
    BY <1>9 DEF vars, tables
  <2> QED
    BY <1>1, <2>1
<1> QED
  BY <1>2, <1>3, <1>4, <1>5, <1>6, <1>7, <1>8, <1>9, Zenon DEF Next

\* The entry that makes room in a full semantic memory was used no later than any other.
THEOREM EvictsLeastRecentCorrect == Spec => EvictsLeastRecent
<1>1. Init => HistInv /\ CallInv /\ SemInv
  <2>1. Init => SemInv
    BY DEF Init, SemInv
  <2> QED
    BY <2>1, HistInit
<1>2. HistInv /\ CallInv /\ SemInv /\ [Next]_vars => HistInv' /\ CallInv' /\ SemInv'
  BY HistStep, CallStep, SemStep
<1>3. HistInv /\ CallInv /\ SemInv /\ [Next]_vars =>
        [ \A i \in DOMAIN semantic :
            (/\ Len(semantic) = SemanticCapacity /\ semantic' # semantic
             /\ semantic' # <<>> /\ ~Last(semantic').read
             /\ semantic' = Append(RemoveAt(semantic, i), Last(semantic')))
            => \A j \in DOMAIN semantic \ {i} :
                 \/ semantic[i].at <= semantic[j].at
                 \/ semantic[i] = semantic[j] ]_vars
  <2> SUFFICES ASSUME HistInv, CallInv, SemInv, [Next]_vars, NEW i \in DOMAIN semantic,
                      Len(semantic) = SemanticCapacity, semantic' # semantic,
                      semantic' # <<>>, ~Last(semantic').read,
                      semantic' = Append(RemoveAt(semantic, i), Last(semantic')),
                      NEW j \in DOMAIN semantic \ {i}
               PROVE  semantic[i].at <= semantic[j].at
    OBVIOUS
  <2>1. semantic \in Seq(Entry) /\ DOMAIN semantic = 1..Len(semantic)
    BY DEF SemInv
  <2>2. PICK next : next = semantic'
    OBVIOUS
  <2>3. Changed(semantic, next)
    BY <2>2, SemStep
  <2>4. SeemsEvicted(semantic, next, i)
    BY <2>2, Zenon DEF SeemsEvicted
  <2> QED
    BY <2>1, <2>3, <2>4, EvictsOldest
<1> QED
  BY <1>1, <1>2, <1>3, PTL DEF Spec, EvictsLeastRecent
===============================================================================
