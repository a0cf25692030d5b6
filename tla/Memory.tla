-------------------------------- MODULE Memory --------------------------------
(***************************************************************************)
(* The three-layer memory system: the store with its tables and its copies *)
(* of sessions in Redis, the engine over it, and the memory service.       *)
(*                                                                         *)
(* The tables change without suspension, so a request on them is one       *)
(* action.  Two kinds of call suspend: a Redis command, which may be       *)
(* applied late, in any order, or fail unnoticed, and the embedding of a   *)
(* text, between reading an entry and storing it.  Each is a "call" in     *)
(* flight.  An entry is the number of the turn that made it; the working   *)
(* entry and its episodic copy carry the same turn.  Titles, tags, roles,  *)
(* scores and the events published after a request are left out.           *)
(***************************************************************************)
EXTENDS Integers, FiniteSets, SequencesExt

CONSTANTS
  SessionIds,         \* ids that uuid4 will give, each once
  Statuses,           \* of a session: active, paused, completed
  Calls,              \* slots for the suspended calls
  None,
  UseRedis,           \* backend = "redis" and the client could be made
  WorkingCapacity, EpisodicCapacity, SemanticCapacity, MaxContextWindow,
  ConsolidationThreshold, TopK,
  BatchLimit, EmbeddingLimit,   \* bounds on messages of a batch, texts being embedded
  TurnLimit, ClockLimit   \* bounds on entries made and on seconds

ASSUME MemoryAssumption ==
  /\ {WorkingCapacity, EpisodicCapacity, SemanticCapacity, TopK} \subseteq Nat \ {0}
  /\ BatchLimit \in Nat
  /\ None \notin Statuses /\ "active" \in Statuses /\ UseRedis \in BOOLEAN

VARIABLES
  sessions,   \* _sessions: the status, or None
  copies,     \* mem:session:* in Redis: the status, or None
  working,    \* _working: session -> turns, for the sessions that have a list
  episodic,   \* _episodic
  semantic,   \* _semantic in insertion order: [turn, at, read]
  calls,      \* what each suspended call waits for
  turns,      \* entries made so far
  clock,      \* the second on the clock
  born, deleted   \* sessions ever created, and those a delete was served for

tables == <<working, episodic, semantic, turns, clock>>
vars == <<sessions, copies, calls, born, deleted, tables>>

Idle == [op |-> "idle", session |-> None, value |-> None]
Call(op, s, v) == [op |-> op, session |-> s, value |-> v]

\* A suspended call takes a free slot.
Suspend(c, call) == calls[c] = Idle /\ calls' = [calls EXCEPT ![c] = call]

\* A text is given to the embedder.
Embed(c, call) ==
  /\ Cardinality({d \in Calls : calls[d].op = "embed"}) < EmbeddingLimit
  /\ Suspend(c, call)

\* A command is sent when a Redis client is configured, else nothing is awaited.
Send(c, call) == IF UseRedis THEN Suspend(c, call) ELSE UNCHANGED calls

Init ==
  /\ sessions = [s \in SessionIds |-> None] /\ copies = [s \in SessionIds |-> None]
  /\ working = <<>> /\ episodic = <<>> /\ semantic = <<>>
  /\ calls = [c \in Calls |-> Idle]
  /\ turns = 0 /\ clock = 0 /\ born = {} /\ deleted = {}

Put(f, s, v) == [x \in DOMAIN f \cup {s} |-> IF x = s THEN v ELSE f[x]]
Drop(f, s)   == [x \in DOMAIN f \ {s} |-> f[x]]
ListOf(f, s) == IF s \in DOMAIN f THEN f[s] ELSE <<>>

-----------------------------------------------------------------------------
(* Sessions.  Memory changes first; the command that follows carries the     *)
(* value of that moment.                                                     *)

CreateSession(c, s) ==
  /\ s \notin born
  /\ born' = born \cup {s}
  /\ sessions' = [sessions EXCEPT ![s] = "active"]
  /\ working' = Put(working, s, <<>>)
  /\ episodic' = Put(episodic, s, <<>>)
  /\ Send(c, Call("set", s, "active"))
  /\ UNCHANGED <<copies, deleted, semantic, turns, clock>>

\* Mutant: makes the session it does not find.
UpdateSessionOrMake(c, s, status) ==
  /\ s \in born
  /\ sessions' = [sessions EXCEPT ![s] = status]
  /\ Send(c, Call("set", s, status))
  /\ UNCHANGED <<copies, born, deleted, tables>>

\* A session that is not in memory is not looked for in Redis.
UpdateSession(c, s, status) ==
  /\ sessions[s] # None
  /\ sessions' = [sessions EXCEPT ![s] = status]
  /\ Send(c, Call("set", s, status))
  /\ UNCHANGED <<copies, born, deleted, tables>>

DeleteSession(c, s) ==
  /\ s \in born
  /\ sessions' = [sessions EXCEPT ![s] = None]
  /\ working' = Drop(working, s)
  /\ episodic' = Drop(episodic, s)
  /\ deleted' = deleted \cup {s}
  /\ Send(c, Call("delete", s, None))
  /\ UNCHANGED <<copies, born, semantic, turns, clock>>

\* A hit in memory answers at once and changes nothing.
GetSession(c, s) ==
  /\ sessions[s] = None /\ s \in born /\ UseRedis
  /\ Suspend(c, Call("get", s, None))
  /\ UNCHANGED <<sessions, copies, born, deleted, tables>>

\* The answer is installed without looking at the table again.
SessionRead(c) ==
  /\ calls[c].op = "answer"
  /\ sessions' = IF calls[c].value = None THEN sessions
                 ELSE [sessions EXCEPT ![calls[c].session] = calls[c].value]
  /\ calls' = [calls EXCEPT ![c] = Idle]
  /\ UNCHANGED <<copies, born, deleted, tables>>

\* Redis applies a command, or it fails and the exception is swallowed.
RedisApplies(c) ==
  LET call == calls[c] IN
  /\ call.op \in {"set", "delete", "get"}
  /\ copies' = IF call.op = "get" THEN copies ELSE [copies EXCEPT ![call.session] = call.value]
  /\ calls' = [calls EXCEPT ![c] = IF call.op = "get"
                 THEN Call("answer", call.session, copies[call.session]) ELSE Idle]
  /\ UNCHANGED <<sessions, born, deleted, tables>>

RedisFails(c) ==
  /\ calls[c].op \in {"set", "delete", "get"}
  /\ calls' = [calls EXCEPT ![c] = Idle]
  /\ UNCHANGED <<sessions, copies, born, deleted, tables>>

RedisExpires(s) ==
  /\ copies[s] # None
  /\ copies' = [copies EXCEPT ![s] = None]
  /\ UNCHANGED <<sessions, calls, born, deleted, tables>>

\* The process stops: the tables and the suspended calls are gone.
Restart ==
  /\ sessions' = [s \in SessionIds |-> None]
  /\ working' = <<>> /\ episodic' = <<>> /\ semantic' = <<>>
  /\ calls' = [c \in Calls |-> Idle]
  /\ UNCHANGED <<copies, turns, clock, born, deleted>>

-----------------------------------------------------------------------------
(* Working and episodic memory *)

\* Mutant: entries.pop().
PushedOverNewest(list, turn, capacity) ==
  Append(IF Len(list) >= capacity THEN Front(list) ELSE list, turn)

\* entries.pop(0) when the list is full, then append.
Pushed(list, turn, capacity) ==
  Append(IF Len(list) >= capacity THEN Tail(list) ELSE list, turn)

StoreAddWorking(w, s, turn)  == Put(w, s, Pushed(ListOf(w, s), turn, WorkingCapacity))
StoreAddEpisodic(e, s, turn) == Put(e, s, Pushed(ListOf(e, s), turn, EpisodicCapacity))

EngineAddToWorking(mem, s, turn) ==
  [working |-> StoreAddWorking(mem.working, s, turn),
   episodic |-> StoreAddEpisodic(mem.episodic, s, turn)]

\* The session need not exist: its lists are made when they are missing.
AddToWorking(s) ==
  LET mem == EngineAddToWorking([working |-> working, episodic |-> episodic], s, turns + 1)
  IN  /\ turns < TurnLimit
      /\ turns' = turns + 1
      /\ working' = mem.working /\ episodic' = mem.episodic
      /\ UNCHANGED <<sessions, copies, calls, born, deleted, semantic, clock>>

AddToWorkingBatch(s, n) ==
  LET added[i \in 0..n] ==
        IF i = 0 THEN [working |-> working, episodic |-> episodic]
        ELSE EngineAddToWorking(added[i - 1], s, turns + i)
  IN  /\ turns + n <= TurnLimit
      /\ turns' = turns + n
      /\ working' = added[n].working /\ episodic' = added[n].episodic
      /\ UNCHANGED <<sessions, copies, calls, born, deleted, semantic, clock>>

ClearWorking(s) ==
  /\ working' = IF s \in DOMAIN working THEN Put(working, s, <<>>) ELSE working
  /\ UNCHANGED <<sessions, copies, calls, born, deleted, episodic, semantic, turns, clock>>

AddToEpisodic(s) ==
  /\ turns < TurnLimit
  /\ turns' = turns + 1
  /\ episodic' = StoreAddEpisodic(episodic, s, turns + 1)
  /\ UNCHANGED <<sessions, copies, calls, born, deleted, working, semantic, clock>>

\* entries[-n:], with n = 0 meaning all of them.
LastOf(list, n) == IF n = 0 \/ n >= Len(list) THEN list ELSE SubSeq(list, Len(list) - n + 1, Len(list))

GetWorking(s, limit) == LastOf(ListOf(working, s), IF limit = 0 THEN MaxContextWindow ELSE limit)

\* entries[-(offset + limit):-offset], or entries[-limit:] without an offset.
GetEpisodic(s, limit, offset) ==
  LET list == ListOf(episodic, s)
      upto == Len(list) - offset
  IN  IF offset = 0 THEN LastOf(list, limit)
      ELSE SubSeq(list, IF upto - limit >= 0 THEN upto - limit + 1 ELSE 1, upto)

-----------------------------------------------------------------------------
(* Semantic memory *)

\* The key compares the time of the last read, else of the creation, as text: a
\* read is stamped in whole seconds, which sorts after every creation in the
\* same second.
Recency(e) == 2 * e.at + (IF e.read THEN 1 ELSE 0)

\* Mutant: the first inserted.
OldestInserted(list) == 1

Oldest(list) ==
  CHOOSE i \in DOMAIN list :
    \A j \in DOMAIN list : \/ Recency(list[i]) < Recency(list[j])
                           \/ Recency(list[i]) = Recency(list[j]) /\ i <= j

StoreAddSemantic(list, turn) ==
  Append(IF Len(list) >= SemanticCapacity THEN RemoveAt(list, Oldest(list)) ELSE list,
         [turn |-> turn, at |-> clock, read |-> FALSE])

\* get_semantic, and search_semantic for each result, count and stamp the read.
Touched(list, found) ==
  [i \in DOMAIN list |-> IF i \in found THEN [list[i] EXCEPT !.at = clock, !.read = TRUE]
                         ELSE list[i]]

\* add_to_semantic embeds the text, unless told not to, and then makes the entry.
\* A call waits for the embedding of the first of its texts: 0 stands for a new
\* text, a turn for the episodic entry that made it.
AddToSemantic(c) ==
  /\ Embed(c, Call("embed", None, <<0>>))
  /\ UNCHANGED <<sessions, copies, born, deleted, tables>>

AddToSemanticPlain ==
  /\ turns < TurnLimit
  /\ turns' = turns + 1
  /\ semantic' = StoreAddSemantic(semantic, turns + 1)
  /\ UNCHANGED <<sessions, copies, calls, born, deleted, working, episodic, clock>>

GetSemanticEntry(i) ==
  /\ semantic' = Touched(semantic, {i})
  /\ UNCHANGED <<sessions, copies, calls, born, deleted, working, episodic, turns, clock>>

\* The search by embedding, also that of query and assemble_context, which read the
\* other two memories besides; the text search it falls back to stamps nothing.
SearchSemantic(found) ==
  /\ found # {} /\ Cardinality(found) <= TopK
  /\ semantic' = Touched(semantic, found)
  /\ UNCHANGED <<sessions, copies, calls, born, deleted, working, episodic, turns, clock>>

DeleteSemanticEntry(i) ==
  /\ semantic' = RemoveAt(semantic, i)
  /\ UNCHANGED <<sessions, copies, calls, born, deleted, working, episodic, turns, clock>>

\* The entry is read now, from the newest 1000, and stored after its embedding,
\* whatever happened to its session meanwhile; nothing marks it as consolidated.
ConsolidateEpisodic(c, s, turn) ==
  /\ Contains(GetEpisodic(s, 1000, 0), turn)
  /\ Embed(c, Call("embed", s, <<turn>>))
  /\ UNCHANGED <<sessions, copies, born, deleted, tables>>

\* Promotes, one after the other, the entries read often enough; reading an
\* episodic entry counts nothing, so each has been read 0 times.  All have the
\* importance add_episodic gives when it is not told another.
AutoConsolidate(c, s) ==
  LET due == IF 0 >= ConsolidationThreshold THEN GetEpisodic(s, 1000, 0) ELSE <<>> IN
  /\ due # <<>>
  /\ Embed(c, Call("embed", s, due))
  /\ UNCHANGED <<sessions, copies, born, deleted, tables>>

\* The embedding came, or failed, which changes nothing here.
Embedded(c) ==
  LET call == calls[c]
      turn == IF Head(call.value) = 0 THEN turns + 1 ELSE Head(call.value)
      rest == Tail(call.value)
  IN  /\ call.op = "embed" /\ turn <= TurnLimit
      /\ turns' = IF turn > turns THEN turn ELSE turns
      /\ semantic' = StoreAddSemantic(semantic, turn)
      /\ calls' = [calls EXCEPT ![c] = IF rest = <<>> THEN Idle ELSE [call EXCEPT !.value = rest]]
      /\ UNCHANGED <<sessions, copies, born, deleted, working, episodic, clock>>

Tick ==
  /\ clock < ClockLimit /\ clock' = clock + 1
  /\ UNCHANGED <<sessions, copies, calls, born, deleted, working, episodic, semantic, turns>>

-----------------------------------------------------------------------------
SessionStep(c, s) ==
  \/ CreateSession(c, s)
  \/ \E status \in Statuses : UpdateSession(c, s, status)
  \/ DeleteSession(c, s)
  \/ GetSession(c, s)

RedisStep(c) == SessionRead(c) \/ RedisApplies(c) \/ RedisFails(c)

EntryStep(s) ==
  \/ AddToWorking(s)
  \/ \E n \in 1..BatchLimit : AddToWorkingBatch(s, n)
  \/ ClearWorking(s)
  \/ AddToEpisodic(s)

SemanticStep ==
  \/ AddToSemanticPlain
  \/ \E i \in DOMAIN semantic : GetSemanticEntry(i) \/ DeleteSemanticEntry(i)
  \/ \E found \in SUBSET DOMAIN semantic : SearchSemantic(found)

EmbeddingStep(c) ==
  \/ AddToSemantic(c) \/ Embedded(c)
  \/ \E s \in SessionIds :
       \/ AutoConsolidate(c, s)
       \/ \E turn \in ToSet(ListOf(episodic, s)) : ConsolidateEpisodic(c, s, turn)

Next ==
  \/ \E c \in Calls, s \in SessionIds : SessionStep(c, s)
  \/ \E c \in Calls : RedisStep(c) \/ EmbeddingStep(c)
  \/ \E s \in SessionIds : EntryStep(s) \/ RedisExpires(s)
  \/ SemanticStep
  \/ Restart
  \/ Tick

Spec == Init /\ [][Next]_vars

-----------------------------------------------------------------------------
(* Properties *)

Rising(list) == \A i, j \in DOMAIN list : i < j => list[i] < list[j]

\* The pages of n entries, the oldest page first.
Pages(s, n) ==
  LET upto[k \in 0..EpisodicCapacity] ==
        IF k = 0 THEN <<>> ELSE GetEpisodic(s, n, (k - 1) * n) \o upto[k - 1]
  IN  upto[EpisodicCapacity]

\* The history of a session is whole: what its working memory holds is also in
\* its episodic memory, unless that is full of newer turns; both are in order and
\* within their capacities; and the pages a client asks for one after the other
\* make up the episodic list, with no turn twice or missing.  (add_to_working
\* writes two lists that are cut, cleared and dropped apart.)
HistoryIsWhole ==
  \A s \in SessionIds :
    LET recent == ListOf(working, s)
        history == ListOf(episodic, s)
    IN  /\ Rising(recent) /\ Len(recent) <= WorkingCapacity
        /\ Rising(history) /\ Len(history) <= EpisodicCapacity
        /\ \A t \in ToSet(recent) : \/ t \in ToSet(history)
                                    \/ Len(history) = EpisodicCapacity /\ t < history[1]
        /\ \A n \in 1..2 : Pages(s, n) = history

\* A full semantic memory forgets the entry used longest ago: an entry that makes
\* room for another was not used in a later second than any that stays, though
\* reads and creations are stamped in two formats and compared as text.
\* (add_semantic.)
EvictsLeastRecent ==
  [][ \A i \in DOMAIN semantic :
        (/\ Len(semantic) = SemanticCapacity /\ semantic' # semantic
         /\ semantic' # <<>> /\ ~Last(semantic').read
         /\ semantic' = Append(RemoveAt(semantic, i), Last(semantic')))
        => \A j \in DOMAIN semantic \ {i} :
             \/ semantic[i].at <= semantic[j].at
             \/ semantic[i] = semantic[j] ]_vars

\* A deleted session that neither memory nor Redis holds any more, and that no
\* call in flight is about, stays away: no later request brings it back, not even
\* an update that arrives late.  (While a call is in flight it may come back:
\* get_session installs what it read without looking again.)
GoneStaysGone ==
  [][ \A s \in deleted :
        (/\ sessions[s] = None /\ copies[s] = None
         /\ \A c \in Calls : calls[c].session # s)
        => sessions'[s] = None /\ copies'[s] = None ]_vars
===============================================================================
