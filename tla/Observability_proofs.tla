-------------------------- MODULE Observability_proofs --------------------------
(***************************************************************************)
(* Proofs about Observability, for any size of the trace table, any        *)
(* tenants, agents, models, prices and events, and any number of requests. *)
(*                                                                         *)
(* A request is a composition of operations on one platform record.  Each  *)
(* operation keeps the record sound (Sound) and leaves the traces it does  *)
(* not name as they were (Same); the requests follow by composition.       *)
(***************************************************************************)
EXTENDS Observability, FiniteSetTheorems, WellFoundedInduction, TLAPS

Kinds == {"agent", "tool", "llm", "prompt", "rag"}

Statuses == {"running", "ok", "error"}

Levels == {"none", "low", "medium", "high", "critical"}

Span == [trace : Nat, type : Kinds, model : Models \cup {None}, status : Statuses]

Trace ==
  [tenant : Tenants, agent : Agents \cup {None}, spans : Seq(Nat), status : Statuses,
   ended : BOOLEAN, errors : Nat, tokens : Int, cost : Int, risk : Nat, level : Levels]

Traces == UNION {[ids -> Trace] : ids \in SUBSET Nat}

Index == [Tenants \cup Agents -> Seq(Nat)]

Routed == {"prompt_build", "rag_search", "tool_call", "llm_call", "error", "cost"}

EventType ==
  Routed \cup {"agent_start", "output"} \cup {e.type : e \in Events}

EventRecord ==
  [type : EventType, trace : Nat, tenant : Tenants,
   model : Models \cup {None} \cup {e.model : e \in Events}, prompt : Int, completion : Int]

Record == [type : Routed, trace : Nat, tenant : Tenants, tokens : Int, cost : Int]

Alert ==
  [type : {"prompt_injection", "tool_misuse", "data_leakage"}, trace : Nat, score : Nat,
   level : Levels, block : BOOLEAN]

Platform ==
  [served : Nat, created : Nat, traces : Traces, index : Index, spans : Seq(Span),
   active : SUBSET Nat, events : Seq(EventRecord), records : Seq(Record),
   alerts : Seq(Alert)]

Newest(created) == {t \in 1..created : t > created - MaxTraces}

\* A trace owns the spans it lists.
OwnSpans(s, t) ==
  /\ \A n \in 1..Len(s.traces[t].spans) :
       /\ s.traces[t].spans[n] \in 1..Len(s.spans)
       /\ s.spans[s.traces[t].spans[n]].trace = t
  /\ \A m, n \in 1..Len(s.traces[t].spans) :
       s.traces[t].spans[m] = s.traces[t].spans[n] => m = n

Indexed(s, t) ==
  \A k \in {s.traces[t].tenant, s.traces[t].agent} \ {None} :
    \E i \in 1..Len(s.index[k]) : s.index[k][i] = t

Sound(s) ==
  /\ s \in Platform
  /\ Stored(s) = Newest(s.created)
  /\ s.active \subseteq 1..Len(s.spans)
  /\ \A k \in Tenants \cup Agents : \A i, j \in 1..Len(s.index[k]) :
       s.index[k][i] = s.index[k][j] => i = j
  /\ \A t \in Stored(s) : OwnSpans(s, t) /\ Indexed(s, t)

\* What the table of active spans says of the spans of a trace.
Agreeing(s, t) ==
  \A n \in 1..Len(s.traces[t].spans) :
    LET i == s.traces[t].spans[n] IN
    /\ s.spans[i].status = "running" => i \in s.active \/ s.traces[t].status = "running"
    /\ i \in s.active /\ ~ s.traces[t].ended => s.spans[i].status = "running"

\* A trace that an operation did not touch.
Same(s, r, t) ==
  /\ r.traces[t] = s.traces[t]
  /\ \A n \in 1..Len(s.traces[t].spans) :
       LET i == s.traces[t].spans[n]
       IN  r.spans[i] = s.spans[i] /\ (i \in r.active <=> i \in s.active)

\* An operation on one trace.
Works(s, r, t) ==
  /\ Sound(r) /\ r.created = s.created /\ Len(s.spans) <= Len(r.spans)
  /\ \A u \in Stored(s) \ {t} : Same(s, r, u)
  /\ \A i \in 1..Len(s.spans) : r.spans[i].trace = s.spans[i].trace

Steady(s, r, t) ==
  Works(s, r, t) /\ (t \in Stored(s) /\ Agreeing(s, t) => Agreeing(r, t))

\* What a row counts for in each of the totals.
CallTokens(t) == [r \in Record |-> IF r.type = "llm_call" /\ r.trace = t THEN r.tokens ELSE 0]
CallCosts(t) == [r \in Record |-> IF r.type = "llm_call" /\ r.trace = t THEN r.cost ELSE 0]
PaidFor(t) == [r \in Record |-> IF r.type = "cost" /\ r.trace = t THEN r.cost ELSE 0]
AllTokens == [r \in Record |-> IF r.type = "llm_call" THEN r.tokens ELSE 0]
AllPaid == [r \in Record |-> IF r.type = "cost" THEN r.cost ELSE 0]
RecordsOf(type) == [r \in Record |-> IF r.type = type THEN 1 ELSE 0]
EventsOf(type) == [e \in EventRecord |-> IF e.type = type THEN 1 ELSE 0]

\* What a table adds up to, when each row counts for val.
SumOf(val, rows) == SumList([i \in 1..Len(rows) |-> val[rows[i]]])

\* What one more row, which makes rows into more, adds to the totals.
RowAdds(rows, more, row) ==
  /\ SumOf(AllTokens, rows) \in Int /\ SumOf(AllPaid, rows) \in Int
  /\ SumOf(AllTokens, more)
       = SumOf(AllTokens, rows) + (IF row.type = "llm_call" THEN row.tokens ELSE 0)
  /\ SumOf(AllPaid, more)
       = SumOf(AllPaid, rows) + (IF row.type = "cost" THEN row.cost ELSE 0)
  /\ \A t :
       /\ SumOf(CallTokens(t), rows) \in Int /\ SumOf(CallCosts(t), rows) \in Int
       /\ SumOf(PaidFor(t), rows) \in Int
       /\ SumOf(CallTokens(t), more) = SumOf(CallTokens(t), rows)
            + (IF row.type = "llm_call" /\ row.trace = t THEN row.tokens ELSE 0)
       /\ SumOf(CallCosts(t), more) = SumOf(CallCosts(t), rows)
            + (IF row.type = "llm_call" /\ row.trace = t THEN row.cost ELSE 0)
       /\ SumOf(PaidFor(t), more) = SumOf(PaidFor(t), rows)
            + (IF row.type = "cost" /\ row.trace = t THEN row.cost ELSE 0)
  /\ \A type :
       /\ SumOf(RecordsOf(type), rows) \in Int
       /\ SumOf(RecordsOf(type), more)
            = SumOf(RecordsOf(type), rows) + (IF row.type = type THEN 1 ELSE 0)

\* What the dashboard of the traces adds up.
TokenList(s) == [u \in 1..s.created |-> IF u \in Stored(s) THEN s.traces[u].tokens ELSE 0]
CostList(s) == [u \in 1..s.created |-> IF u \in Stored(s) THEN s.traces[u].cost ELSE 0]

\* The risk shown is that of the latest alert of the trace.
RiskTold(s, t) ==
  \/ /\ \A n \in 1..Len(s.alerts) : s.alerts[n].trace # t
     /\ s.traces[t].risk = 0 /\ s.traces[t].level = "none"
  \/ \E n \in 1..Len(s.alerts) :
       /\ s.alerts[n].trace = t
       /\ \A m \in 1..Len(s.alerts) : s.alerts[m].trace = t => m <= n
       /\ s.traces[t].risk = s.alerts[n].score /\ s.traces[t].level = s.alerts[n].level

TracePaid(s, t) ==
  /\ s.traces[t].tokens = SumOf(CallTokens(t), s.records)
  /\ s.traces[t].cost = SumOf(CallCosts(t), s.records)
  /\ s.traces[t].cost <= SumOf(PaidFor(t), s.records)
  /\ s.traces[t].tokens >= 0 /\ s.traces[t].cost >= 0

\* Every total follows from the tables, and nothing is booked on a trace that
\* is yet to be made.
Tallied(s) ==
  /\ \A t \in Stored(s) : TracePaid(s, t) /\ RiskTold(s, t)
  /\ \A i \in 1..Len(s.records) : s.records[i].trace <= s.created
  /\ \A i \in 1..Len(s.alerts) : s.alerts[i].trace <= s.created
  /\ SumList(TokenList(s)) <= SumOf(AllTokens, s.records)
  /\ SumList(CostList(s)) <= SumOf(AllPaid, s.records)
  /\ \A type \in Routed : SumOf(EventsOf(type), s.events) = SumOf(RecordsOf(type), s.records)

Tallies(s, r) == NaturalCounts /\ Tallied(s) => Tallied(r)

\* The figures of a trace that its totals and its risk show.
SameFigures(s, r, u) ==
  /\ r.traces[u].tokens = s.traces[u].tokens /\ r.traces[u].cost = s.traces[u].cost
  /\ r.traces[u].risk = s.traces[u].risk /\ r.traces[u].level = s.traces[u].level

\* An operation that books nothing.
Calm(s, r) ==
  /\ r.created = s.created /\ Stored(r) = Stored(s)
  /\ r.events = s.events /\ r.records = s.records /\ r.alerts = s.alerts
  /\ \A u \in Stored(s) : SameFigures(s, r, u)

\* An operation that only shows other figures of trace t.
Retold(s, r, t, tokens, cost, risk, level) ==
  /\ r.created = s.created /\ Stored(r) = Stored(s)
  /\ r.events = s.events /\ r.records = s.records /\ r.alerts = s.alerts
  /\ r.traces[t].tokens = tokens /\ r.traces[t].cost = cost
  /\ r.traces[t].risk = risk /\ r.traces[t].level = level
  /\ \A u \in Stored(s) \ {t} : SameFigures(s, r, u)

\* One more record of a type on a trace.
Recorded(s, r, type, trace, tokens, cost) ==
  \E record \in Record :
    /\ r.records = Append(s.records, record)
    /\ record.type = type /\ record.trace = trace
    /\ record.tokens = tokens /\ record.cost = cost

\* Only trace t grows, by dt tokens and a cost of dc, if it is stored.
Grows(s, r, t, dt, dc) ==
  /\ r.created = s.created /\ Stored(r) = Stored(s)
  /\ \A u \in Stored(s) \ {t} : SameFigures(s, r, u)
  /\ t \in Stored(s) => /\ r.traces[t].tokens = s.traces[t].tokens + dt
                        /\ r.traces[t].cost = s.traces[t].cost + dc

\* What the handler of a call of a model books: the nested event, the call with
\* its cost, the cost, and both on the trace if it is stored.
CallBooked(s, r, e, call, cost, nested) ==
  /\ call.type = "llm_call" /\ call.trace = e.trace
  /\ call.tokens = e.prompt + e.completion
  /\ call.cost = ComputeCost(e.model, e.prompt, e.completion)
  /\ cost.type = "cost" /\ cost.trace = e.trace /\ cost.cost = call.cost
  /\ nested.type = "cost"
  /\ r.created = s.created /\ Stored(r) = Stored(s) /\ r.alerts = s.alerts
  /\ r.events = Append(s.events, nested)
  /\ r.records = Append(Append(s.records, call), cost)
  /\ e.trace \in Stored(s) =>
       /\ r.traces[e.trace].tokens = s.traces[e.trace].tokens + call.tokens
       /\ r.traces[e.trace].cost = s.traces[e.trace].cost + call.cost
       /\ r.traces[e.trace].risk = s.traces[e.trace].risk
       /\ r.traces[e.trace].level = s.traces[e.trace].level
  /\ \A u \in Stored(s) \ {e.trace} : SameFigures(s, r, u)

-----------------------------------------------------------------------------
(* Fields. *)

LEMMA Fields ==
  ASSUME NEW s \in Platform
  PROVE  /\ s.served \in Nat /\ s.created \in Nat /\ s.traces \in Traces /\ s.index \in Index
         /\ s.spans \in Seq(Span) /\ s.active \in SUBSET Nat
         /\ s.events \in Seq(EventRecord) /\ s.records \in Seq(Record) /\ s.alerts \in Seq(Alert)
         /\ Len(s.spans) \in Nat
BY DEF Platform

LEMMA TraceFields ==
  ASSUME NEW s \in Platform, NEW t \in Stored(s)
  PROVE  /\ t \in Nat /\ s.traces[t] \in Trace /\ s.traces[t].spans \in Seq(Nat)
         /\ Len(s.traces[t].spans) \in Nat
         /\ s.traces[t].tenant \in Tenants /\ s.traces[t].agent \in Agents \cup {None}
         /\ s.traces[t].tokens \in Int /\ s.traces[t].cost \in Int
<1>1. PICK ids \in SUBSET Nat : s.traces \in [ids -> Trace]
  BY Fields DEF Traces
<1>2. t \in ids /\ s.traces[t] \in Trace
  BY <1>1 DEF Stored
<1> QED
  BY <1>1, <1>2 DEF Trace

-----------------------------------------------------------------------------
(* Sums. *)

\* A set of natural numbers that is not empty has a least member.
LEMMA LeastMember ==
  ASSUME NEW S \in SUBSET Nat, S # {}
  PROVE  \E n \in S : \A m \in S : n <= m
<1>1. PICK n \in S : \A m \in S : ~ (<<m, n>> \in OpToRel(<, Nat))
  BY NatLessThanWellFounded, WFMin
<1>2. \A m \in S : ~ (m < n)
  BY <1>1 DEF OpToRel
<1> QED
  BY <1>2

\* f holds the partial sums of s.
Partial(f, s) ==
  /\ f \in [0..Len(s) -> Int]
  /\ f[0] = 0
  /\ \A n \in 1..Len(s) : f[n] = f[n - 1] + s[n]

LEMMA PartialExists ==
  ASSUME NEW s \in Seq(Int)
  PROVE  \E f : Partial(f, s)
<1> DEFINE Upto(k, f) == /\ f \in [0..k -> Int] /\ f[0] = 0
                         /\ \A n \in 1..k : f[n] = f[n - 1] + s[n]
           bad == {k \in 0..Len(s) : ~ \E f : Upto(k, f)}
<1>1. CASE bad = {}
  <2>1. Len(s) \in 0..Len(s)
    OBVIOUS
  <2>2. \E f : Upto(Len(s), f)
    BY <1>1, <2>1
  <2> QED
    BY <2>2 DEF Partial
<1>2. CASE bad # {}
  <2>1. PICK k \in bad : \A m \in bad : k <= m
    <3>1. bad \in SUBSET Nat
      OBVIOUS
    <3> HIDE DEF bad
    <3> QED
      BY <1>2, <3>1, LeastMember
  <2>2. CASE k = 0
    <3>1. Upto(0, [n \in 0..0 |-> 0])
      OBVIOUS
    <3> QED
      BY <2>2, <3>1
  <2>3. CASE k # 0
    <3>1. k \in 1..Len(s) /\ k - 1 \in 0..Len(s) /\ k - 1 \notin bad
      <4>1. k \in 0..Len(s)
        BY <2>1
      <4>2. k \in 1..Len(s) /\ k - 1 \in 0..Len(s) /\ ~ (k <= k - 1)
        BY <2>3, <4>1
      <4> HIDE DEF bad
      <4> QED
        BY <2>1, <4>2
    <3>2. PICK f : Upto(k - 1, f)
      BY <3>1
    <3> DEFINE g == [n \in 0..k |-> IF n = k THEN f[k - 1] + s[k] ELSE f[n]]
    <3>3. s[k] \in Int /\ f[k - 1] \in Int
      BY <3>1, <3>2
    <3>4. g \in [0..k -> Int] /\ g[0] = 0
      BY <3>1, <3>2, <3>3
    <3>5. ASSUME NEW n \in 1..k PROVE g[n] = g[n - 1] + s[n]
      <4>1. n \in 0..k /\ n - 1 \in 0..k /\ n - 1 # k
        BY <3>1
      <4>2. g[n - 1] = f[n - 1]
        BY <4>1
      <4>3. CASE n = k
        BY <4>1, <4>2, <4>3
      <4>4. CASE n # k
        <5>1. n \in 1..(k - 1) /\ g[n] = f[n]
          BY <3>1, <4>1, <4>4
        <5> QED
          BY <3>2, <4>2, <5>1
      <4> QED
        BY <4>3, <4>4
    <3>6. Upto(k, g)
      BY <3>4, <3>5
    <3> QED
      BY <2>1, <3>6
  <2> QED
    BY <2>2, <2>3
<1> QED
  BY <1>1, <1>2

LEMMA PartialUnique ==
  ASSUME NEW s \in Seq(Int), NEW f, NEW g, Partial(f, s), Partial(g, s)
  PROVE  f = g
<1> DEFINE bad == {n \in 0..Len(s) : f[n] # g[n]}
<1>1. CASE bad = {}
  BY SMTT(30), <1>1 DEF Partial
<1>2. CASE bad # {}
  <2>1. PICK n \in bad : \A m \in bad : n <= m
    <3>1. bad \in SUBSET Nat
      OBVIOUS
    <3> HIDE DEF bad
    <3> QED
      BY <1>2, <3>1, LeastMember
  <2>2. n # 0
    BY <2>1 DEF Partial
  <2>3. n - 1 \in 0..Len(s) /\ n - 1 \notin bad
    BY <2>1, <2>2
  <2> QED
    BY <2>1, <2>2, <2>3 DEF Partial
<1> QED
  BY <1>1, <1>2

\* Whatever holds the partial sums ends with the sum.
LEMMA SumIs ==
  ASSUME NEW s \in Seq(Int), NEW f, Partial(f, s)
  PROVE  SumList(s) = f[Len(s)]
<1> DEFINE upto == CHOOSE g : g = [n \in 0..Len(s) |-> IF n = 0 THEN 0 ELSE g[n - 1] + s[n]]
<1>1. f = [n \in 0..Len(s) |-> IF n = 0 THEN 0 ELSE f[n - 1] + s[n]]
  BY DEF Partial
<1>2. upto = [n \in 0..Len(s) |-> IF n = 0 THEN 0 ELSE upto[n - 1] + s[n]]
  BY <1>1
<1> HIDE DEF upto
<1>3. Partial(upto, s)
  <2>1. upto[0] = 0 /\ \A n \in 1..Len(s) : upto[n] = upto[n - 1] + s[n]
    <3>1. \A n \in 0..Len(s) : upto[n] = IF n = 0 THEN 0 ELSE upto[n - 1] + s[n]
      BY <1>2, Zenon
    <3>2. 0 \in 0..Len(s) /\ \A n \in 1..Len(s) : n \in 0..Len(s) /\ n # 0
      OBVIOUS
    <3> QED
      BY <3>1, <3>2, Zenon
  <2>2. \A n \in 0..Len(s) : upto[n] = f[n]
    <3> DEFINE bad == {n \in 0..Len(s) : upto[n] # f[n]}
    <3>1. bad \in SUBSET Nat
      OBVIOUS
    <3>2. CASE bad # {}
      <4>1. PICK n \in bad : \A m \in bad : n <= m
        <5> HIDE DEF bad
        <5> QED
          BY <3>1, <3>2, LeastMember
      <4>2. n # 0
        BY <2>1, <4>1 DEF Partial
      <4>3. n - 1 \in 0..Len(s) /\ n - 1 \notin bad
        BY <4>1, <4>2
      <4> QED
        BY <2>1, <4>1, <4>2, <4>3 DEF Partial
    <3> QED
      BY <3>2
  <2>3. upto \in [0..Len(s) -> Int]
    BY <1>2, <2>2 DEF Partial
  <2> QED
    BY <2>1, <2>3 DEF Partial
<1>4. upto = f
  BY <1>3, PartialUnique
<1>5. SumList(s) = upto[Len(s)]
  BY DEF SumList, upto
<1> QED
  BY <1>4, <1>5

LEMMA SumType ==
  ASSUME NEW s \in Seq(Int)
  PROVE  SumList(s) \in Int
<1>1. PICK f : Partial(f, s)
  BY PartialExists
<1>2. Len(s) \in 0..Len(s)
  OBVIOUS
<1>3. SumList(s) = f[Len(s)]
  BY <1>1, SumIs
<1> QED
  BY <1>1, <1>2, <1>3 DEF Partial

LEMMA SumEmpty == SumList(<<>>) = 0
<1>1. <<>> \in Seq(Int) /\ Len(<<>>) = 0
  OBVIOUS
<1>2. PICK f : Partial(f, <<>>)
  BY <1>1, PartialExists
<1>3. SumList(<<>>) = f[0]
  BY <1>1, <1>2, SumIs
<1> QED
  BY <1>2, <1>3 DEF Partial

LEMMA SumAppend ==
  ASSUME NEW s \in Seq(Int), NEW x \in Int
  PROVE  SumList(Append(s, x)) = SumList(s) + x
<1>1. PICK f : Partial(f, s)
  BY PartialExists
<1> DEFINE r == Append(s, x)
           g == [n \in 0..Len(r) |-> IF n = Len(r) THEN f[Len(s)] + x ELSE f[n]]
<1>2. /\ r \in Seq(Int) /\ Len(r) = Len(s) + 1 /\ Len(s) \in Nat /\ r[Len(r)] = x
      /\ \A n \in 1..Len(s) : r[n] = s[n]
  OBVIOUS
<1> HIDE DEF r
<1>3. f[Len(s)] \in Int
  BY <1>1, <1>2 DEF Partial
<1>4. Partial(g, r)
  <2>1. g \in [0..Len(r) -> Int] /\ g[0] = 0
    BY <1>1, <1>2, <1>3 DEF Partial
  <2>2. ASSUME NEW n \in 1..Len(r) PROVE g[n] = g[n - 1] + r[n]
    <3>1. n \in 0..Len(r) /\ n - 1 \in 0..Len(r) /\ n - 1 # Len(r)
      BY <1>2
    <3>2. g[n - 1] = f[n - 1]
      BY <3>1
    <3>3. CASE n = Len(r)
      BY <1>2, <3>1, <3>2, <3>3
    <3>4. CASE n # Len(r)
      <4>1. n \in 1..Len(s) /\ g[n] = f[n] /\ r[n] = s[n]
        BY <1>2, <3>1, <3>4
      <4> QED
        BY <1>1, <3>2, <4>1 DEF Partial
    <3> QED
      BY <3>3, <3>4
  <2> QED
    BY <2>1, <2>2 DEF Partial
<1>5. g[Len(r)] = f[Len(s)] + x
  BY <1>2
<1> QED
  BY <1>1, <1>2, <1>4, <1>5, SumIs DEF r

\* One element grows by d.
LEMMA SumChanged ==
  ASSUME NEW s \in Seq(Int), NEW r \in Seq(Int), Len(r) = Len(s), NEW i \in 1..Len(s),
         NEW d \in Int, r[i] = s[i] + d, \A n \in 1..Len(s) : n # i => r[n] = s[n]
  PROVE  SumList(r) = SumList(s) + d
<1>1. PICK f : Partial(f, s)
  BY PartialExists
<1> DEFINE g == [n \in 0..Len(r) |-> IF n < i THEN f[n] ELSE f[n] + d]
<1>2. Partial(g, r)
  <2>1. g \in [0..Len(r) -> Int] /\ g[0] = 0
    BY <1>1 DEF Partial
  <2>2. ASSUME NEW n \in 1..Len(r) PROVE g[n] = g[n - 1] + r[n]
    <3>1. n \in 1..Len(s) /\ n \in 0..Len(s) /\ n - 1 \in 0..Len(s)
      OBVIOUS
    <3>2. f[n - 1] \in Int /\ s[n] \in Int /\ f[n] = f[n - 1] + s[n]
      <4>1. s[n] \in Int
        BY <3>1
      <4>2. f \in [0..Len(s) -> Int] /\ \A m \in 1..Len(s) : f[m] = f[m - 1] + s[m]
        BY <1>1 DEF Partial
      <4> QED
        BY <3>1, <4>1, <4>2
    <3>6. /\ g[n] = IF n < i THEN f[n] ELSE f[n] + d
          /\ g[n - 1] = IF n - 1 < i THEN f[n - 1] ELSE f[n - 1] + d
      BY <3>1
    <3> HIDE DEF g
    <3>3. CASE n < i
      BY <3>1, <3>2, <3>3, <3>6
    <3>4. CASE n = i
      BY <3>1, <3>2, <3>4, <3>6
    <3>5. CASE n > i
      BY SMTT(30), <3>1, <3>2, <3>5, <3>6
    <3> QED
      BY <3>1, <3>3, <3>4, <3>5
  <2> QED
    BY <2>1, <2>2 DEF Partial
<1>3. g[Len(r)] = f[Len(s)] + d
  OBVIOUS
<1> QED
  BY <1>1, <1>2, <1>3, SumIs

LEMMA SumZero ==
  ASSUME NEW s \in Seq(Int), \A n \in 1..Len(s) : s[n] = 0
  PROVE  SumList(s) = 0
<1> DEFINE f == [n \in 0..Len(s) |-> 0]
<1>1. Partial(f, s)
  BY DEF Partial
<1>2. f[Len(s)] = 0
  OBVIOUS
<1> QED
  BY <1>1, <1>2, SumIs

\* What is nowhere greater adds up to no more.
LEMMA SumSmaller ==
  ASSUME NEW s \in Seq(Int), NEW r \in Seq(Int), Len(r) = Len(s),
         \A n \in 1..Len(s) : r[n] <= s[n]
  PROVE  SumList(r) <= SumList(s)
<1>1. PICK f : Partial(f, s)
  BY PartialExists
<1>2. PICK g : Partial(g, r)
  BY PartialExists
<1>3. /\ f \in [0..Len(s) -> Int] /\ g \in [0..Len(s) -> Int] /\ f[0] = 0 /\ g[0] = 0
      /\ \A n \in 1..Len(s) : f[n] = f[n - 1] + s[n] /\ g[n] = g[n - 1] + r[n]
      /\ \A n \in 1..Len(s) : s[n] \in Int /\ r[n] \in Int
  BY <1>1, <1>2 DEF Partial
<1> DEFINE bad == {n \in 0..Len(s) : ~ (g[n] <= f[n])}
<1>4. CASE bad = {}
  <2>1. Len(s) \in 0..Len(s)
    OBVIOUS
  <2>2. g[Len(s)] <= f[Len(s)]
    BY <1>4, <2>1
  <2> QED
    BY <1>1, <1>2, <2>2, SumIs
<1>5. CASE bad # {}
  <2>1. PICK n \in bad : \A m \in bad : n <= m
    <3>1. bad \in SUBSET Nat
      OBVIOUS
    <3> HIDE DEF bad
    <3> QED
      BY <1>5, <3>1, LeastMember
  <2>2. n \in 0..Len(s) /\ ~ (g[n] <= f[n]) /\ n # 0
    BY <1>3, <2>1
  <2>3. n \in 1..Len(s) /\ n - 1 \in 0..Len(s) /\ ~ (n <= n - 1)
    BY <2>2
  <2>4. n - 1 \notin bad
    <3> HIDE DEF bad
    <3> QED
      BY <2>1, <2>3
  <2>5. g[n - 1] <= f[n - 1]
    BY <2>3, <2>4
  <2>6. /\ g[n - 1] \in Int /\ f[n - 1] \in Int /\ r[n] \in Int /\ s[n] \in Int
        /\ r[n] <= s[n] /\ g[n] = g[n - 1] + r[n] /\ f[n] = f[n - 1] + s[n]
    BY <1>3, <2>3
  <2> QED
    BY <2>2, <2>5, <2>6
<1> QED
  BY <1>4, <1>5

\* One more row adds its value; rows that count for nothing add nothing.
LEMMA SumOfRows ==
  ASSUME NEW Row, NEW val \in [Row -> Int], NEW rows \in Seq(Row)
  PROVE  /\ SumOf(val, rows) \in Int
         /\ \A row \in Row : SumOf(val, Append(rows, row)) = SumOf(val, rows) + val[row]
         /\ (\A i \in 1..Len(rows) : val[rows[i]] = 0) => SumOf(val, rows) = 0
<1> DEFINE s == [i \in 1..Len(rows) |-> val[rows[i]]]
<1>1. Len(rows) \in Nat /\ s \in Seq(Int) /\ Len(s) = Len(rows)
      /\ \A i \in 1..Len(rows) : s[i] = val[rows[i]]
  OBVIOUS
<1>2. SumOf(val, rows) = SumList(s)
  BY DEF SumOf
<1>3. ASSUME NEW row \in Row PROVE SumOf(val, Append(rows, row)) = SumOf(val, rows) + val[row]
  <2> DEFINE more == Append(rows, row)
             r == [i \in 1..Len(more) |-> val[more[i]]]
  <2>1. /\ Len(more) = Len(rows) + 1 /\ more[Len(rows) + 1] = row
        /\ \A i \in 1..Len(rows) : more[i] = rows[i]
    OBVIOUS
  <2> HIDE DEF more
  <2>2. /\ DOMAIN r = 1..(Len(rows) + 1) /\ r[Len(rows) + 1] = val[row]
        /\ \A i \in 1..Len(rows) : r[i] = s[i]
    BY <1>1, <2>1
  <2>3. SumOf(val, more) = SumList(r) /\ val[row] \in Int
    BY DEF SumOf
  <2>4. r = [i \in 1..(Len(rows) + 1) |-> r[i]]
    BY <2>1
  <2>5. s \in [1..Len(rows) -> Int]
    BY <1>1
  <2> HIDE DEF s, r
  <2>6. r = Append(s, val[row])
    <3>1. Append(s, val[row]) = [i \in 1..(Len(rows) + 1) |->
                                   IF i = Len(rows) + 1 THEN val[row] ELSE s[i]]
      BY <1>1, <2>3, <2>5
    <3>2. \A i \in 1..(Len(rows) + 1) :
            r[i] = IF i = Len(rows) + 1 THEN val[row] ELSE s[i]
      <4>1. \A i \in 1..(Len(rows) + 1) : i = Len(rows) + 1 \/ i \in 1..Len(rows)
        BY <1>1
      <4>2. Len(rows) + 1 \notin 1..Len(rows)
        BY <1>1
      <4> QED
        BY <2>2, <4>1, <4>2
    <3> QED
      BY <2>4, <3>1, <3>2
  <2> QED
    BY <1>1, <1>2, <2>3, <2>6, SumAppend DEF more
<1>4. (\A i \in 1..Len(rows) : val[rows[i]] = 0) => \A i \in 1..Len(s) : s[i] = 0
  BY <1>1
<1> HIDE DEF s
<1> QED
  BY <1>1, <1>2, <1>3, <1>4, SumType, SumZero

-----------------------------------------------------------------------------
(* Totals. *)

\* One more record counts for its own trace and type.
LEMMA RecordSums ==
  ASSUME NEW rows \in Seq(Record), NEW row \in Record
  PROVE  RowAdds(rows, Append(rows, row), row)
<1> DEFINE more == Append(rows, row)
<1>0. \A r \in Record : r.tokens \in Int /\ r.cost \in Int
  BY DEF Record
<1>1. ASSUME NEW val \in [Record -> Int]
      PROVE  SumOf(val, rows) \in Int /\ SumOf(val, more) = SumOf(val, rows) + val[row]
  BY SumOfRows
<1>2. SumOf(AllTokens, rows) \in Int /\ SumOf(AllTokens, more)
        = SumOf(AllTokens, rows) + (IF row.type = "llm_call" THEN row.tokens ELSE 0)
  <2>1. AllTokens \in [Record -> Int]
        /\ AllTokens[row] = IF row.type = "llm_call" THEN row.tokens ELSE 0
    BY <1>0 DEF AllTokens
  <2> QED
    BY <1>1, <2>1
<1>3. SumOf(AllPaid, rows) \in Int /\ SumOf(AllPaid, more)
        = SumOf(AllPaid, rows) + (IF row.type = "cost" THEN row.cost ELSE 0)
  <2>1. AllPaid \in [Record -> Int]
        /\ AllPaid[row] = IF row.type = "cost" THEN row.cost ELSE 0
    BY <1>0 DEF AllPaid
  <2> QED
    BY <1>1, <2>1
<1>4. ASSUME NEW t
      PROVE  /\ SumOf(CallTokens(t), rows) \in Int
             /\ SumOf(CallTokens(t), more) = SumOf(CallTokens(t), rows)
                  + (IF row.type = "llm_call" /\ row.trace = t THEN row.tokens ELSE 0)
  <2>1. CallTokens(t) \in [Record -> Int] /\ CallTokens(t)[row]
          = IF row.type = "llm_call" /\ row.trace = t THEN row.tokens ELSE 0
    BY <1>0 DEF CallTokens
  <2> QED
    BY <1>1, <2>1
<1>5. ASSUME NEW t
      PROVE  /\ SumOf(CallCosts(t), rows) \in Int
             /\ SumOf(CallCosts(t), more) = SumOf(CallCosts(t), rows)
                  + (IF row.type = "llm_call" /\ row.trace = t THEN row.cost ELSE 0)
  <2>1. CallCosts(t) \in [Record -> Int] /\ CallCosts(t)[row]
          = IF row.type = "llm_call" /\ row.trace = t THEN row.cost ELSE 0
    BY <1>0 DEF CallCosts
  <2> QED
    BY <1>1, <2>1
<1>6. ASSUME NEW t
      PROVE  /\ SumOf(PaidFor(t), rows) \in Int
             /\ SumOf(PaidFor(t), more) = SumOf(PaidFor(t), rows)
                  + (IF row.type = "cost" /\ row.trace = t THEN row.cost ELSE 0)
  <2>1. PaidFor(t) \in [Record -> Int] /\ PaidFor(t)[row]
          = IF row.type = "cost" /\ row.trace = t THEN row.cost ELSE 0
    BY <1>0 DEF PaidFor
  <2> QED
    BY <1>1, <2>1
<1>7. ASSUME NEW type
      PROVE  /\ SumOf(RecordsOf(type), rows) \in Int
             /\ SumOf(RecordsOf(type), more)
                  = SumOf(RecordsOf(type), rows) + (IF row.type = type THEN 1 ELSE 0)
  <2>1. RecordsOf(type) \in [Record -> Int]
        /\ RecordsOf(type)[row] = IF row.type = type THEN 1 ELSE 0
    BY DEF RecordsOf
  <2> QED
    BY <1>1, <2>1
<1> HIDE DEF more
<1>8. RowAdds(rows, more, row)
  BY <1>2, <1>3, <1>4, <1>5, <1>6, <1>7 DEF RowAdds
<1> QED
  BY <1>8 DEF more

LEMMA EventSums ==
  ASSUME NEW rows \in Seq(EventRecord), NEW row \in EventRecord, NEW type
  PROVE  /\ SumOf(EventsOf(type), rows) \in Int
         /\ SumOf(EventsOf(type), Append(rows, row))
              = SumOf(EventsOf(type), rows) + (IF row.type = type THEN 1 ELSE 0)
<1>1. EventsOf(type) \in [EventRecord -> Int]
      /\ EventsOf(type)[row] = IF row.type = type THEN 1 ELSE 0
  BY DEF EventsOf
<1> QED
  BY <1>1, SumOfRows

\* Nothing is booked on a trace without records.
LEMMA NothingBooked ==
  ASSUME NEW rows \in Seq(Record), NEW t, \A i \in 1..Len(rows) : rows[i].trace # t
  PROVE  /\ SumOf(CallTokens(t), rows) = 0 /\ SumOf(CallCosts(t), rows) = 0
         /\ SumOf(PaidFor(t), rows) = 0
<1>0. /\ \A r \in Record : r.tokens \in Int /\ r.cost \in Int
      /\ \A i \in 1..Len(rows) : rows[i] \in Record
  <2>1. \A r \in Record : r.tokens \in Int /\ r.cost \in Int
    BY DEF Record
  <2> QED
    BY <2>1
<1>1. ASSUME NEW val \in [Record -> Int], \A i \in 1..Len(rows) : val[rows[i]] = 0
      PROVE  SumOf(val, rows) = 0
  BY <1>1, SumOfRows
<1>2. CallTokens(t) \in [Record -> Int] /\ \A i \in 1..Len(rows) : CallTokens(t)[rows[i]] = 0
  BY <1>0 DEF CallTokens
<1>3. CallCosts(t) \in [Record -> Int] /\ \A i \in 1..Len(rows) : CallCosts(t)[rows[i]] = 0
  BY <1>0 DEF CallCosts
<1>4. PaidFor(t) \in [Record -> Int] /\ \A i \in 1..Len(rows) : PaidFor(t)[rows[i]] = 0
  BY <1>0 DEF PaidFor
<1> QED
  BY <1>1, <1>2, <1>3, <1>4

LEMMA AllTypes ==
  ASSUME NEW rows \in Seq(Record)
  PROVE  SumOf(AllTokens, rows) \in Int /\ SumOf(AllPaid, rows) \in Int
<1>1. AllTokens \in [Record -> Int] /\ AllPaid \in [Record -> Int]
  BY DEF AllTokens, AllPaid, Record
<1> QED
  BY <1>1, SumOfRows

LEMMA ListTypes ==
  ASSUME NEW s \in Platform
  PROVE  /\ TokenList(s) \in Seq(Int) /\ Len(TokenList(s)) = s.created
         /\ CostList(s) \in Seq(Int) /\ Len(CostList(s)) = s.created
         /\ SumList(TokenList(s)) \in Int /\ SumList(CostList(s)) \in Int
<1>1. s.created \in Nat
  BY Fields
<1>2. TokenList(s) \in [1..s.created -> Int]
  BY TraceFields DEF TokenList
<1>3. CostList(s) \in [1..s.created -> Int]
  BY TraceFields DEF CostList
<1>4. /\ TokenList(s) \in Seq(Int) /\ Len(TokenList(s)) = s.created
      /\ CostList(s) \in Seq(Int) /\ Len(CostList(s)) = s.created
  BY <1>1, <1>2, <1>3
<1> QED
  BY <1>4, SumType

LEMMA CalmRefl ==
  ASSUME NEW s
  PROVE  Calm(s, s)
BY DEF Calm, SameFigures

LEMMA CalmTrans ==
  ASSUME NEW s, NEW q, NEW r, Calm(s, q), Calm(q, r)
  PROVE  Calm(s, r)
<1>1. ASSUME NEW u \in Stored(s) PROVE SameFigures(s, r, u)
  BY DEF Calm, SameFigures
<1> QED
  BY <1>1 DEF Calm

\* What books nothing leaves all totals right.
LEMMA CalmTallies ==
  ASSUME NEW s, NEW r, Calm(s, r)
  PROVE  Tallies(s, r)
<1> SUFFICES ASSUME Tallied(s) PROVE Tallied(r)
  BY DEF Tallies
<1>1. ASSUME NEW t \in Stored(s) PROVE TracePaid(r, t) /\ RiskTold(r, t)
  <2>1. SameFigures(s, r, t) /\ TracePaid(s, t) /\ RiskTold(s, t)
    BY DEF Calm, Tallied
  <2>2. r.records = s.records /\ r.alerts = s.alerts
    BY DEF Calm
  <2> QED
    BY <2>1, <2>2 DEF SameFigures, TracePaid, RiskTold
<1>2. TokenList(r) = TokenList(s) /\ CostList(r) = CostList(s)
  <2>1. Stored(r) = Stored(s) /\ r.created = s.created
        /\ \A u \in Stored(s) : r.traces[u].tokens = s.traces[u].tokens
                                /\ r.traces[u].cost = s.traces[u].cost
    BY DEF Calm, SameFigures
  <2> QED
    BY <2>1 DEF TokenList, CostList
<1>3. /\ Stored(r) = Stored(s) /\ r.created = s.created
      /\ r.events = s.events /\ r.records = s.records /\ r.alerts = s.alerts
  BY DEF Calm
<1> QED
  BY <1>1, <1>2, <1>3 DEF Tallied

-----------------------------------------------------------------------------
(* The store. *)

\* Saving a trace that is stored replaces it, and nothing else.
LEMMA SaveKept ==
  ASSUME NEW s \in Platform, NEW t \in Stored(s), Indexed(s, t), NEW record \in Trace,
         record.tenant = s.traces[t].tenant, record.agent = s.traces[t].agent,
         NEW r, r = SaveTrace(s, t, record)
  PROVE  /\ r \in Platform /\ Stored(r) = Stored(s) /\ r.traces[t] = record
         /\ \A u \in Stored(s) \ {t} : r.traces[u] = s.traces[u]
         /\ r.served = s.served /\ r.created = s.created /\ r.index = s.index
         /\ r.spans = s.spans /\ r.active = s.active /\ r.events = s.events
         /\ r.records = s.records /\ r.alerts = s.alerts
<1> DEFINE ids == {record.tenant, record.agent} \ {None}
           x == [u \in Stored(s) |-> IF u = t THEN record ELSE s.traces[u]]
           y == [k \in DOMAIN s.index |-> IF k \in ids /\ ~Contains(s.index[k], t)
                                          THEN Append(s.index[k], t) ELSE s.index[k]]
<1>1. Stored(s) \cup {t} = Stored(s)
  OBVIOUS
<1>2. SaveTrace(s, t, record) = [s EXCEPT !.traces = x, !.index = y]
  BY <1>1 DEF SaveTrace
<1>3. x \in Traces
  <2>1. \A u \in Stored(s) : u \in Nat /\ s.traces[u] \in Trace
    BY TraceFields
  <2>2. x \in [Stored(s) -> Trace] /\ Stored(s) \in SUBSET Nat
    BY <2>1
  <2> QED
    BY <2>2 DEF Traces
<1>4. y = s.index
  <2>1. s.index \in [Tenants \cup Agents -> Seq(Nat)]
    BY Fields DEF Index
  <2>2. \A k \in ids : Contains(s.index[k], t)
    BY DEF Indexed, Contains
  <2> QED
    BY <2>1, <2>2
<1>5. s.index \in Index
  BY Fields
<1>6. /\ DOMAIN x = Stored(s) /\ x[t] = record
      /\ \A u \in Stored(s) \ {t} : x[u] = s.traces[u]
  OBVIOUS
<1> HIDE DEF x, y
<1>7. y \in Index
  BY <1>4, <1>5
<1>8. /\ r \in Platform /\ r.traces = x /\ r.index = y
      /\ r.served = s.served /\ r.created = s.created /\ r.spans = s.spans
      /\ r.active = s.active /\ r.events = s.events /\ r.records = s.records
      /\ r.alerts = s.alerts
  <2>1. r = [s EXCEPT !.traces = x, !.index = y]
    BY <1>2
  <2> QED
    BY <1>3, <1>7, <2>1 DEF Platform
<1> QED
  BY <1>4, <1>6, <1>8 DEF Stored

\* The newest traces are an interval.
LEMMA NewestIs ==
  ASSUME NEW n \in Nat
  PROVE  /\ Newest(n) = (IF n < MaxTraces THEN 1 ELSE n - MaxTraces + 1)..n
         /\ Cardinality(Newest(n)) = IF n < MaxTraces THEN n ELSE MaxTraces
         /\ IsFiniteSet(Newest(n))
<1>0. MaxTraces \in Nat \ {0}
  BY ObservabilityAssumption
<1>1. CASE n < MaxTraces
  <2>1. Newest(n) = 1..n
    BY <1>0, <1>1 DEF Newest
  <2>2. IsFiniteSet(1..n) /\ Cardinality(1..n) = n
    BY FS_Interval
  <2> QED
    BY <1>1, <2>1, <2>2
<1>2. CASE n >= MaxTraces
  <2> DEFINE a == n - MaxTraces + 1
  <2>1. Newest(n) = a..n /\ a \in Nat /\ a <= n
    BY <1>0, <1>2 DEF Newest
  <2>2. IsFiniteSet(a..n) /\ Cardinality(a..n) = n - a + 1
    BY <1>0, <1>2, <2>1, FS_Interval
  <2>3. n - a + 1 = MaxTraces
    BY <1>0
  <2> QED
    BY <1>0, <1>2, <2>1, <2>2, <2>3
<1> QED
  BY <1>0, <1>1, <1>2

LEMMA FirstOf ==
  ASSUME NEW a \in Nat, NEW n \in Nat, a <= n
  PROVE  Min(a..n) = a
<1>1. Min(a..n) = CHOOSE x \in a..n : \A y \in a..n : x <= y
  BY DEF Min
<1>2. a \in a..n /\ \A y \in a..n : a <= y
  OBVIOUS
<1>3. \A x \in a..n : (\A y \in a..n : x <= y) => x = a
  BY <1>2
<1> QED
  BY <1>1, <1>2, <1>3

\* Saving the next trace evicts the oldest when the table is full, and lists the new one.
LEMMA SaveNext ==
  ASSUME NEW s \in Platform, s.created \in Nat \ {0}, Stored(s) = Newest(s.created - 1),
         NEW record \in Trace, NEW t, t = s.created, NEW r, r = SaveTrace(s, t, record)
  PROVE  /\ r \in Platform /\ Stored(r) = Newest(t) /\ r.traces[t] = record
         /\ \A u \in Stored(r) \ {t} : u \in Stored(s) /\ r.traces[u] = s.traces[u]
         /\ \A k \in Tenants \cup Agents :
              r.index[k] = IF k \in {record.tenant, record.agent} \ {None}
                                /\ ~ Contains(s.index[k], t)
                           THEN Append(s.index[k], t) ELSE s.index[k]
         /\ r.served = s.served /\ r.created = s.created
         /\ r.spans = s.spans /\ r.active = s.active /\ r.events = s.events
         /\ r.records = s.records /\ r.alerts = s.alerts
<1> DEFINE n == s.created - 1
           ids == {record.tenant, record.agent} \ {None}
           evict == Cardinality(Stored(s)) >= MaxTraces /\ t \notin Stored(s)
           kept == IF evict THEN Stored(s) \ {Min(Stored(s))} ELSE Stored(s)
           x == [u \in kept \cup {t} |-> IF u = t THEN record ELSE s.traces[u]]
           y == [k \in DOMAIN s.index |-> IF k \in ids /\ ~Contains(s.index[k], t)
                                          THEN Append(s.index[k], t) ELSE s.index[k]]
<1>0. MaxTraces \in Nat \ {0} /\ n \in Nat /\ t = n + 1
  BY ObservabilityAssumption
<1>1. SaveTrace(s, t, record) = [s EXCEPT !.traces = x, !.index = y]
  BY DEF SaveTrace
<1>2. kept \cup {t} = Newest(t) /\ kept \subseteq Stored(s) /\ t \notin kept
  <2>1. t \notin Stored(s)
    BY <1>0 DEF Newest
  <2>2. CASE n < MaxTraces
    <3>1. ~ evict
      BY <1>0, <2>2, NewestIs
    <3>2. kept = Newest(n)
      BY <3>1
    <3>3. Newest(n) = 1..n /\ Newest(t) = 1..t
      BY <1>0, <2>2, NewestIs
    <3> HIDE DEF n, kept
    <3>4. 1..n \cup {t} = 1..t
      BY <1>0
    <3>5. kept = Stored(s) /\ kept = 1..n
      BY <3>1, <3>2, <3>3 DEF kept
    <3> QED
      BY <2>1, <3>3, <3>4, <3>5
  <2>3. CASE n >= MaxTraces
    <3> DEFINE a == n - MaxTraces + 1
    <3>1. Stored(s) = a..n /\ a \in Nat /\ a <= n /\ Cardinality(Stored(s)) = MaxTraces
      BY <1>0, <2>3, NewestIs
    <3>2. evict /\ Min(Stored(s)) = a
      BY <1>0, <2>1, <3>1, FirstOf
    <3>3. kept = (a + 1)..n
      <4>1. kept = (a..n) \ {a}
        BY <3>1, <3>2
      <4> HIDE DEF a, n, kept
      <4>2. (a..n) \ {a} = (a + 1)..n
        BY <1>0, <3>1
      <4> QED
        BY <4>1, <4>2
    <3>4. Newest(t) = (a + 1)..t
      BY <1>0, <2>3, NewestIs
    <3> HIDE DEF a, n, kept
    <3>5. (a + 1)..n \cup {t} = (a + 1)..t /\ (a + 1)..n \subseteq a..n
      BY <1>0, <3>1
    <3> QED
      BY <2>1, <3>1, <3>3, <3>4, <3>5
  <2> QED
    BY <1>0, <2>2, <2>3
<1>3. x \in Traces
  <2>1. \A u \in kept : u \in Nat /\ s.traces[u] \in Trace
    BY <1>2, TraceFields
  <2> HIDE DEF kept
  <2>2. x \in [kept \cup {t} -> Trace] /\ kept \cup {t} \in SUBSET Nat
    BY <1>0, <2>1
  <2> QED
    BY <2>2 DEF Traces
<1>4. s.index \in [Tenants \cup Agents -> Seq(Nat)]
  BY Fields DEF Index
<1>5. y \in Index
  <2>1. \A k \in Tenants \cup Agents : y[k] \in Seq(Nat)
    BY <1>0, <1>4
  <2> QED
    BY <1>4, <2>1 DEF Index
<1>6. /\ DOMAIN x = Newest(t) /\ x[t] = record
      /\ \A u \in Newest(t) \ {t} : u \in Stored(s) /\ x[u] = s.traces[u]
  <2> HIDE DEF kept
  <2> QED
    BY <1>2
<1>7. \A k \in Tenants \cup Agents :
        y[k] = IF k \in ids /\ ~Contains(s.index[k], t)
               THEN Append(s.index[k], t) ELSE s.index[k]
  BY <1>4
<1> HIDE DEF x, y, kept
<1>8. /\ r \in Platform /\ r.traces = x /\ r.index = y
      /\ r.served = s.served /\ r.created = s.created /\ r.spans = s.spans
      /\ r.active = s.active /\ r.events = s.events /\ r.records = s.records
      /\ r.alerts = s.alerts
  <2>1. r = [s EXCEPT !.traces = x, !.index = y]
    BY <1>1
  <2> QED
    BY <1>3, <1>5, <2>1 DEF Platform
<1> QED
  BY <1>6, <1>7, <1>8 DEF Stored

-----------------------------------------------------------------------------
(* The collector. *)

LEMMA SteadyRefl ==
  ASSUME NEW s, Sound(s), NEW t
  PROVE  Steady(s, s, t)
<1>1. Len(s.spans) \in Nat
  BY Fields DEF Sound
<1> QED
  BY <1>1 DEF Steady, Works, Same

LEMMA WorksTrans ==
  ASSUME NEW s, Sound(s), NEW t, NEW q, Works(s, q, t), NEW r, Works(q, r, t)
  PROVE  Works(s, r, t)
<1>1. Len(s.spans) \in Nat /\ Len(q.spans) \in Nat /\ Len(r.spans) \in Nat
  BY Fields DEF Sound, Works
<1>2. Stored(q) = Stored(s)
  BY DEF Sound, Works
<1>3. ASSUME NEW u \in Stored(s) \ {t} PROVE Same(s, r, u)
  <2>1. Same(s, q, u) /\ Same(q, r, u)
    BY <1>2 DEF Works
  <2> QED
    BY <2>1 DEF Same
<1> QED
  BY <1>1, <1>3 DEF Works

LEMMA SteadyTrans ==
  ASSUME NEW s, Sound(s), NEW t, NEW q, Steady(s, q, t), NEW r, Steady(q, r, t)
  PROVE  Steady(s, r, t)
<1>1. Works(s, r, t)
  BY WorksTrans DEF Steady
<1>2. Stored(q) = Stored(s)
  BY DEF Steady, Sound, Works
<1> QED
  BY <1>1, <1>2 DEF Steady

\* What owns its spans goes on to, as long as spans only get another status.
LEMMA OwnKept ==
  ASSUME NEW s, NEW r, NEW t, OwnSpans(s, t), r.traces[t].spans = s.traces[t].spans,
         Len(s.spans) \in Nat, Len(r.spans) \in Nat, Len(s.spans) <= Len(r.spans),
         \A i \in 1..Len(s.spans) : r.spans[i].trace = s.spans[i].trace
  PROVE  OwnSpans(r, t)
<1> DEFINE own == s.traces[t].spans
<1>1. \A n \in 1..Len(own) : own[n] \in 1..Len(s.spans) /\ s.spans[own[n]].trace = t
  BY DEF OwnSpans
<1>2. \A m, n \in 1..Len(own) : own[m] = own[n] => m = n
  BY DEF OwnSpans
<1>3. r.traces[t].spans = own
  OBVIOUS
<1> HIDE DEF own
<1>4. \A n \in 1..Len(own) : own[n] \in 1..Len(r.spans) /\ r.spans[own[n]].trace = t
  BY <1>1
<1> QED
  BY <1>2, <1>3, <1>4 DEF OwnSpans

\* A span more, which is open.
LEMMA OpenSpan ==
  ASSUME NEW s, Sound(s), NEW t \in Nat, NEW type \in Kinds, NEW model \in Models \cup {None},
         NEW r, r = StartSpan(s, t, type, model)
  PROVE  /\ Steady(s, r, t) /\ Calm(s, r) /\ Len(r.spans) = Len(s.spans) + 1
         /\ r.spans[Len(r.spans)].trace = t
         /\ \A i \in 1..Len(s.spans) : r.spans[i] = s.spans[i]
<1> DEFINE id == Len(s.spans) + 1
           span == [trace |-> t, type |-> type, model |-> model, status |-> "running"]
           spans == Append(s.spans, span)
           active == s.active \cup {id}
<1>1. s \in Platform /\ s.spans \in Seq(Span) /\ s.active \in SUBSET (1..Len(s.spans))
      /\ Len(s.spans) \in Nat
  BY Fields DEF Sound
<1>2. span \in Span /\ span.trace = t /\ span.status = "running"
  BY DEF Span, Statuses
<1> HIDE DEF span
<1>3. /\ spans \in Seq(Span) /\ Len(spans) = id /\ spans[id] = span
      /\ \A i \in 1..Len(s.spans) : spans[i] = s.spans[i]
  BY <1>1, <1>2
<1>4. active \in SUBSET Nat /\ active \subseteq 1..Len(spans)
  BY <1>1, <1>3
<1> HIDE DEF spans, active
<1>5. PICK open : open = [s EXCEPT !.spans = spans, !.active = active]
  OBVIOUS
<1>6. /\ open \in Platform /\ open.spans = spans /\ open.active = active
      /\ open.served = s.served /\ open.created = s.created /\ open.traces = s.traces
      /\ open.index = s.index /\ open.events = s.events /\ open.records = s.records
      /\ open.alerts = s.alerts
  BY <1>1, <1>3, <1>4, <1>5 DEF Platform
<1>7. r = IF t \notin Stored(s) THEN open
          ELSE SaveTrace(open, t, [s.traces[t] EXCEPT !.spans = Append(@, id)])
  BY <1>5 DEF StartSpan, span, spans, active
<1>8. Sound(open)
  <2>1. Stored(open) = Stored(s)
    BY <1>6 DEF Stored
  <2>2. ASSUME NEW u \in Stored(s) PROVE OwnSpans(open, u) /\ Indexed(open, u)
    <3>1. OwnSpans(s, u) /\ Indexed(s, u)
      BY DEF Sound
    <3>2. OwnSpans(open, u)
      BY <1>1, <1>3, <1>6, <3>1, OwnKept
    <3> QED
      BY <1>6, <3>1, <3>2 DEF Indexed
  <2> QED
    BY <1>4, <1>6, <2>1, <2>2 DEF Sound
<1>9. \A u \in Stored(s) : Same(s, open, u)
  <2> SUFFICES ASSUME NEW u \in Stored(s), NEW n \in 1..Len(s.traces[u].spans)
               PROVE  LET i == s.traces[u].spans[n]
                      IN  open.spans[i] = s.spans[i] /\ (i \in open.active <=> i \in s.active)
    BY <1>6 DEF Same
  <2>1. PICK i \in 1..Len(s.spans) : i = s.traces[u].spans[n]
    BY DEF Sound, OwnSpans
  <2>2. open.spans[i] = s.spans[i]
    BY <1>3, <1>6
  <2>3. i # id
    BY <1>1
  <2>4. i \in open.active <=> i \in s.active
    BY <1>6, <2>3 DEF active
  <2> QED
    BY <2>1, <2>2, <2>4
<1>12. Calm(s, open)
  BY <1>6 DEF Calm, SameFigures, Stored
<1>10. CASE t \notin Stored(s)
  BY <1>1, <1>2, <1>3, <1>6, <1>7, <1>8, <1>9, <1>10, <1>12 DEF Steady, Works
<1>11. CASE t \in Stored(s)
  <2> DEFINE record == [s.traces[t] EXCEPT !.spans = Append(@, id)]
  <2>1. s.traces[t] \in Trace /\ s.traces[t].spans \in Seq(Nat)
    BY <1>1, <1>11, TraceFields
  <2>2. Append(s.traces[t].spans, id) \in Seq(Nat)
    BY <1>1, <2>1
  <2>3. /\ record \in Trace /\ record.tenant = s.traces[t].tenant
        /\ record.agent = s.traces[t].agent /\ record.status = s.traces[t].status
        /\ record.ended = s.traces[t].ended /\ record.spans = Append(s.traces[t].spans, id)
        /\ record.tokens = s.traces[t].tokens /\ record.cost = s.traces[t].cost
        /\ record.risk = s.traces[t].risk /\ record.level = s.traces[t].level
    BY <2>1, <2>2 DEF Trace
  <2> HIDE DEF record
  <2>4. t \in Stored(open) /\ Indexed(open, t) /\ open.traces[t] = s.traces[t]
    BY <1>6, <1>8, <1>11 DEF Sound, Stored
  <2>5. r = SaveTrace(open, t, record)
    BY <1>7, <1>11 DEF record
  <2>6. /\ r \in Platform /\ Stored(r) = Stored(open) /\ r.traces[t] = record
        /\ \A u \in Stored(open) \ {t} : r.traces[u] = open.traces[u]
        /\ r.served = open.served /\ r.created = open.created /\ r.index = open.index
        /\ r.spans = open.spans /\ r.active = open.active /\ r.events = open.events
        /\ r.records = open.records /\ r.alerts = open.alerts
    BY <1>6, <2>3, <2>4, <2>5, SaveKept
  <2>7. OwnSpans(r, t)
    <3>1. /\ Len(record.spans) = Len(s.traces[t].spans) + 1 /\ Len(s.traces[t].spans) \in Nat
          /\ record.spans[Len(record.spans)] = id
          /\ \A n \in 1..Len(s.traces[t].spans) : record.spans[n] = s.traces[t].spans[n]
      <4>1. PICK old \in Seq(Nat) : old = s.traces[t].spans
        BY <2>1
      <4>2. record.spans = Append(old, id)
        BY <2>3, <4>1
      <4> QED
        BY <1>1, <4>1, <4>2
    <3>2. OwnSpans(s, t)
      BY <1>11 DEF Sound
    <3>3. \A n \in 1..Len(record.spans) : n \in 1..Len(s.traces[t].spans) \/ n = Len(record.spans)
      BY <3>1
    <3>4. ASSUME NEW n \in 1..Len(record.spans)
          PROVE  record.spans[n] \in 1..id /\ spans[record.spans[n]].trace = t
      <4>1. CASE n \in 1..Len(s.traces[t].spans)
        <5>1. PICK i \in 1..Len(s.spans) : i = record.spans[n] /\ s.spans[i].trace = t
          BY <3>1, <3>2, <4>1 DEF OwnSpans
        <5>2. i \in 1..id /\ spans[i] = s.spans[i]
          BY <1>1, <1>3
        <5> QED
          BY <5>1, <5>2
      <4>2. CASE n = Len(record.spans)
        <5>1. record.spans[n] = id /\ id \in 1..id
          BY <1>1, <3>1, <4>2
        <5> QED
          BY <1>2, <1>3, <5>1
      <4> QED
        BY <3>3, <4>1, <4>2
    <3>5. ASSUME NEW m \in 1..Len(record.spans), NEW n \in 1..Len(record.spans),
                 record.spans[m] = record.spans[n]
          PROVE  m = n
      <4>1. \A l \in 1..Len(s.traces[t].spans) : record.spans[l] # id
        BY <1>1, <3>1, <3>2 DEF OwnSpans
      <4>2. CASE m \in 1..Len(s.traces[t].spans) /\ n \in 1..Len(s.traces[t].spans)
        BY <3>1, <3>2, <3>5, <4>2 DEF OwnSpans
      <4> QED
        BY <3>1, <3>3, <3>5, <4>1, <4>2
    <3> QED
      BY <1>3, <1>6, <2>6, <3>4, <3>5 DEF OwnSpans
  <2>8. Indexed(r, t)
    BY <2>3, <2>4, <2>6 DEF Indexed
  <2>9. ASSUME NEW u \in Stored(s) \ {t} PROVE Same(s, r, u) /\ OwnSpans(r, u) /\ Indexed(r, u)
    <3>1. u \in Stored(open) \ {t} /\ r.traces[u] = open.traces[u]
      BY <1>6, <2>6 DEF Stored
    <3>2. OwnSpans(open, u) /\ Indexed(open, u) /\ Same(s, open, u)
      BY <1>8, <1>9, <3>1 DEF Sound
    <3>3. OwnSpans(r, u)
      BY <2>6, <3>1, <3>2 DEF OwnSpans
    <3>4. Indexed(r, u)
      BY <2>6, <3>1, <3>2 DEF Indexed
    <3>5. Same(s, r, u)
      BY <2>6, <3>1, <3>2 DEF Same
    <3> QED
      BY <3>3, <3>4, <3>5
  <2>10. Stored(open) = Stored(s)
    BY <1>6 DEF Stored
  <2>11. Sound(r)
    BY <1>8, <2>6, <2>7, <2>8, <2>9, <2>10 DEF Sound
  <2>12. Agreeing(s, t) => Agreeing(r, t)
    <3> SUFFICES ASSUME Agreeing(s, t), NEW n \in 1..Len(record.spans)
                 PROVE  LET i == record.spans[n] IN
                        /\ spans[i].status = "running" => i \in active \/ record.status = "running"
                        /\ i \in active /\ ~ record.ended => spans[i].status = "running"
      BY <1>6, <2>6 DEF Agreeing
    <3>1. CASE n = Len(s.traces[t].spans) + 1
      <4>1. record.spans[n] = id
        BY <2>1, <2>3, <3>1
      <4> QED
        BY <1>2, <1>3, <4>1 DEF active
    <3>2. CASE n \in 1..Len(s.traces[t].spans)
      <4>1. record.spans[n] = s.traces[t].spans[n]
        BY <1>1, <2>1, <2>3, <3>2
      <4>2. record.spans[n] \in 1..Len(s.spans)
        BY <1>11, <3>2, <4>1 DEF Sound, OwnSpans
      <4>3. spans[record.spans[n]] = s.spans[record.spans[n]]
            /\ (record.spans[n] \in active <=> record.spans[n] \in s.active)
        BY SMTT(30), <1>1, <1>3, <4>2 DEF active
      <4> QED
        BY <2>3, <3>2, <4>1, <4>3 DEF Agreeing
    <3> QED
      BY <2>1, <2>3, <3>1, <3>2
  <2>13. Steady(s, r, t)
    BY <1>1, <1>3, <1>6, <2>6, <2>9, <2>11, <2>12 DEF Steady, Works
  <2>14. Calm(open, r)
    BY <2>3, <2>4, <2>6 DEF Calm, SameFigures
  <2>15. Calm(s, r)
    BY <1>12, <2>14, CalmTrans
  <2> QED
    BY <1>1, <1>2, <1>3, <1>6, <2>6, <2>13, <2>15
<1> QED
  BY <1>10, <1>11

\* What changes neither traces nor spans.
LEMMA Besides ==
  ASSUME NEW s, Sound(s), NEW t, NEW r \in Platform, r.created = s.created,
         r.traces = s.traces, r.index = s.index, r.spans = s.spans, r.active = s.active
  PROVE  Steady(s, r, t)
<1>1. Len(s.spans) \in Nat
  BY Fields DEF Sound
<1>2. Stored(r) = Stored(s)
  BY DEF Stored
<1>3. \A u \in Stored(s) : OwnSpans(r, u) /\ Indexed(r, u)
  BY DEF Sound, OwnSpans, Indexed
<1>4. Sound(r)
  BY <1>2, <1>3 DEF Sound
<1>5. \A u \in Stored(s) : Same(s, r, u)
  BY DEF Same
<1>6. Agreeing(s, t) => Agreeing(r, t)
  BY DEF Agreeing
<1> QED
  BY <1>1, <1>4, <1>5, <1>6 DEF Steady, Works

\* Saving a trace with the spans it had.
LEMMA SaveWorks ==
  ASSUME NEW s, Sound(s), NEW t \in Stored(s), NEW record \in Trace,
         record.tenant = s.traces[t].tenant, record.agent = s.traces[t].agent,
         record.spans = s.traces[t].spans, NEW r, r = SaveTrace(s, t, record)
  PROVE  /\ Works(s, r, t) /\ r.traces[t] = record
         /\ r.spans = s.spans /\ r.active = s.active /\ Stored(r) = Stored(s)
         /\ r.events = s.events /\ r.records = s.records /\ r.alerts = s.alerts
<1>1. s \in Platform /\ Indexed(s, t) /\ Len(s.spans) \in Nat
  BY Fields DEF Sound
<1>2. /\ r \in Platform /\ Stored(r) = Stored(s) /\ r.traces[t] = record
      /\ \A u \in Stored(s) \ {t} : r.traces[u] = s.traces[u]
      /\ r.created = s.created /\ r.index = s.index
      /\ r.spans = s.spans /\ r.active = s.active /\ r.events = s.events
      /\ r.records = s.records /\ r.alerts = s.alerts
  BY <1>1, SaveKept
<1>3. ASSUME NEW u \in Stored(s)
      PROVE  /\ r.traces[u].spans = s.traces[u].spans
             /\ r.traces[u].tenant = s.traces[u].tenant /\ r.traces[u].agent = s.traces[u].agent
  BY <1>2
<1>4. ASSUME NEW u \in Stored(s) PROVE OwnSpans(r, u) /\ Indexed(r, u)
  <2>1. OwnSpans(s, u) /\ Indexed(s, u)
    BY DEF Sound
  <2>2. OwnSpans(r, u)
    BY <1>1, <1>2, <1>3, <2>1, OwnKept
  <2> QED
    BY <1>2, <1>3, <2>1, <2>2 DEF Indexed
<1>5. Sound(r)
  BY <1>2, <1>4 DEF Sound
<1>6. \A u \in Stored(s) \ {t} : Same(s, r, u)
  BY <1>2 DEF Same
<1> QED
  BY <1>1, <1>2, <1>5, <1>6 DEF Works

\* Spans of a trace take another status, and may leave the table of active spans.
Relabels(s, r, t) ==
  /\ Len(r.spans) = Len(s.spans) /\ r.active \subseteq s.active
  /\ \A i \in 1..Len(s.spans) :
       /\ r.spans[i].trace = s.spans[i].trace
       /\ s.spans[i].trace # t =>
            r.spans[i] = s.spans[i] /\ (i \in s.active => i \in r.active)
  /\ r.created = s.created /\ r.traces = s.traces /\ r.index = s.index

LEMMA Restatus ==
  ASSUME NEW s, Sound(s), NEW t, NEW r \in Platform, Relabels(s, r, t)
  PROVE  Works(s, r, t) /\ Stored(r) = Stored(s)
<1> USE DEF Relabels
<1>1. s \in Platform /\ s.active \in SUBSET Nat /\ Len(s.spans) \in Nat
      /\ s.active \subseteq 1..Len(s.spans)
  BY Fields DEF Sound
<1>4. Stored(r) = Stored(s)
  BY DEF Stored
<1>5. ASSUME NEW u \in Stored(s) PROVE OwnSpans(r, u) /\ Indexed(r, u)
  <2>1. OwnSpans(s, u) /\ Indexed(s, u)
    BY DEF Sound
  <2>2. OwnSpans(r, u)
    <3>1. r.traces[u].spans = s.traces[u].spans
      OBVIOUS
    <3>2. \A i \in 1..Len(s.spans) : r.spans[i].trace = s.spans[i].trace
      OBVIOUS
    <3> QED
      BY <1>1, <2>1, <3>1, <3>2, OwnKept
  <2> QED
    BY <2>1, <2>2 DEF Indexed
<1>6. Sound(r)
  BY <1>1, <1>4, <1>5 DEF Sound
<1>7. ASSUME NEW u \in Stored(s) \ {t} PROVE Same(s, r, u)
  <2> SUFFICES ASSUME NEW n \in 1..Len(s.traces[u].spans)
               PROVE  LET i == s.traces[u].spans[n]
                      IN  r.spans[i] = s.spans[i] /\ (i \in r.active <=> i \in s.active)
    BY DEF Same
  <2>1. PICK i \in 1..Len(s.spans) : i = s.traces[u].spans[n] /\ s.spans[i].trace = u
    BY SMTT(30) DEF Sound, OwnSpans
  <2> QED
    BY <2>1
<1> QED
  BY <1>1, <1>4, <1>6, <1>7 DEF Works

LEMMA CloseSpan ==
  ASSUME NEW s, Sound(s), NEW id \in 1..Len(s.spans), NEW status \in Statuses,
         NEW r, r = EndSpan(s, id, status), NEW t, t = s.spans[id].trace
  PROVE  Works(s, r, t) /\ Calm(s, r) /\ (status # "running" => Steady(s, r, t))
<1>1. /\ s \in Platform /\ s.spans \in Seq(Span) /\ s.active \in SUBSET (1..Len(s.spans))
      /\ Len(s.spans) \in Nat
  BY Fields DEF Sound
<1>2. CASE id \notin s.active
  <2>1. r = s
    BY <1>2 DEF EndSpan
  <2> QED
    BY <2>1, SteadyRefl, CalmRefl DEF Steady
<1>3. CASE id \in s.active
  <2> DEFINE span == [s.spans[id] EXCEPT !.status = status]
             spans == [s.spans EXCEPT ![id] = span]
             active == s.active \ {id}
  <2>1. s.spans[id] \in Span
    BY <1>1
  <2>2. span \in Span /\ span.trace = t /\ span.status = status
    BY <2>1 DEF Span
  <2>3. PICK shut : shut = [s EXCEPT !.spans = spans, !.active = active]
    OBVIOUS
  <2>4. r = IF t \notin Stored(s) THEN shut ELSE SaveTrace(shut, t, s.traces[t])
    <3>1. [s EXCEPT !.spans[id].status = status, !.active = @ \ {id}] = shut
      BY <2>3
    <3> QED
      BY <1>3, <3>1 DEF EndSpan
  <2> HIDE DEF span
  <2>5. /\ spans \in Seq(Span) /\ Len(spans) = Len(s.spans) /\ spans[id] = span
        /\ \A i \in 1..Len(s.spans) : i # id => spans[i] = s.spans[i]
    BY <1>1, <2>2
  <2>6. active \in SUBSET s.active /\ \A i : i # id => (i \in active <=> i \in s.active)
    OBVIOUS
  <2> HIDE DEF spans, active
  <2>7. \A i \in 1..Len(s.spans) :
           /\ spans[i].trace = s.spans[i].trace
           /\ s.spans[i].trace # t => spans[i] = s.spans[i] /\ (i \in s.active => i \in active)
    BY <2>2, <2>5, <2>6
  <2>8. /\ Works(s, shut, t) /\ shut.spans = spans /\ shut.active = active
        /\ shut.traces = s.traces /\ Stored(shut) = Stored(s) /\ Calm(s, shut)
    <3>1. active \in SUBSET Nat
      BY <1>1, <2>6
    <3>2. /\ shut \in Platform /\ shut.spans = spans /\ shut.active = active
          /\ shut.created = s.created /\ shut.traces = s.traces /\ shut.index = s.index
          /\ shut.events = s.events /\ shut.records = s.records /\ shut.alerts = s.alerts
      BY <1>1, <2>3, <2>5, <3>1 DEF Platform
    <3> QED
      <4>1. /\ spans \in Seq(Span) /\ Len(spans) = Len(s.spans)
            /\ active \in SUBSET s.active
        BY <2>5, <2>6
      <4>2. Works(s, shut, t) /\ Stored(shut) = Stored(s)
        <5>1. Relabels(s, shut, t)
          BY <2>7, <3>2, <4>1 DEF Relabels
        <5> QED
          BY <3>2, <5>1, Restatus
      <4>3. Calm(s, shut)
        BY <3>2 DEF Calm, SameFigures, Stored
      <4> QED
        BY <3>2, <4>2, <4>3
  <2>9. Sound(shut)
    BY <2>8 DEF Works
  <2>10. Works(s, r, t) /\ Calm(s, r) /\ (t \in Stored(s) => /\ r.traces[t] = s.traces[t]
                                                            /\ r.spans = spans /\ r.active = active)
    <3>1. CASE t \notin Stored(s)
      BY <2>4, <2>8, <3>1
    <3>2. CASE t \in Stored(s)
      <4>1. t \in Stored(shut) /\ s.traces[t] \in Trace /\ shut.traces[t] = s.traces[t]
        BY <1>1, <2>8, <3>2, TraceFields
      <4>2. /\ Works(shut, r, t) /\ r.traces[t] = s.traces[t]
            /\ r.spans = shut.spans /\ r.active = shut.active /\ Stored(r) = Stored(shut)
            /\ r.events = shut.events /\ r.records = shut.records /\ r.alerts = shut.alerts
        BY <2>4, <2>9, <3>2, <4>1, SaveWorks
      <4>3. Calm(shut, r)
        BY <4>1, <4>2 DEF Calm, SameFigures, Works, Same
      <4>4. Calm(s, r)
        BY <2>8, <4>3, CalmTrans
      <4> QED
        BY <2>8, <4>2, <4>4, WorksTrans
    <3> QED
      BY <3>1, <3>2
  <2>11. ASSUME t \in Stored(s), Agreeing(s, t), status # "running" PROVE Agreeing(r, t)
    <3> SUFFICES ASSUME NEW n \in 1..Len(s.traces[t].spans)
                 PROVE  LET i == s.traces[t].spans[n] IN
                        /\ spans[i].status = "running" =>
                             i \in active \/ s.traces[t].status = "running"
                        /\ i \in active /\ ~ s.traces[t].ended => spans[i].status = "running"
      BY <2>10, <2>11 DEF Agreeing
    <3>1. PICK i \in 1..Len(s.spans) : i = s.traces[t].spans[n]
      BY <2>11 DEF Sound, OwnSpans
    <3>2. CASE i = id
      <4>1. spans[i].status # "running" /\ i \notin active
        BY <2>2, <2>5, <2>11, <3>2 DEF active
      <4> QED
        BY <3>1, <4>1
    <3>3. CASE i # id
      BY <2>5, <2>6, <2>11, <3>1, <3>3 DEF Agreeing
    <3> QED
      BY <3>2, <3>3
  <2> QED
    BY <2>10, <2>11 DEF Steady
<1> QED
  BY <1>2, <1>3

\* Closing a trace closes its spans that were running.
LEMMA CloseTrace ==
  ASSUME NEW s, Sound(s), NEW t, NEW status \in Statuses, NEW r, r = EndTrace(s, t, status)
  PROVE  Works(s, r, t) /\ Calm(s, r) /\ (t \in Stored(s) => Agreeing(r, t))
<1>1. /\ s \in Platform /\ s.spans \in Seq(Span) /\ s.active \in SUBSET (1..Len(s.spans))
      /\ Len(s.spans) \in Nat
  BY Fields DEF Sound
<1>2. CASE t \notin Stored(s)
  <2>1. r = s
    BY <1>2 DEF EndTrace
  <2> QED
    BY <1>2, <2>1, SteadyRefl, CalmRefl DEF Steady
<1>3. CASE t \in Stored(s)
  <2> DEFINE own == ToSet(s.traces[t].spans)
             errors == Cardinality({i \in own : s.spans[i].status = "error"})
             spans == [i \in DOMAIN s.spans |->
                         IF i \in own /\ s.spans[i].status = "running"
                         THEN [s.spans[i] EXCEPT !.status = status] ELSE s.spans[i]]
             record == [s.traces[t] EXCEPT !.ended = TRUE, !.status = status, !.errors = errors]
  <2>1. PICK closed : closed = [s EXCEPT !.spans = spans]
    OBVIOUS
  <2>2. r = SaveTrace(closed, t, record)
    BY <1>3, <2>1 DEF EndTrace
  <2>3. /\ s.traces[t] \in Trace /\ s.traces[t].spans \in Seq(Nat)
        /\ Len(s.traces[t].spans) \in Nat /\ OwnSpans(s, t)
    BY <1>1, <1>3, TraceFields DEF Sound
  <2>4. \A i : i \in own <=> \E n \in 1..Len(s.traces[t].spans) : s.traces[t].spans[n] = i
    BY <2>3 DEF ToSet
  <2> HIDE DEF own
  <2>5. own \subseteq 1..Len(s.spans) /\ \A i \in own : s.spans[i].trace = t
    <3> SUFFICES ASSUME NEW i \in own
                 PROVE  i \in 1..Len(s.spans) /\ s.spans[i].trace = t
      OBVIOUS
    <3>1. PICK n \in 1..Len(s.traces[t].spans) : s.traces[t].spans[n] = i
      BY <2>4
    <3> QED
      BY <2>3, <3>1 DEF OwnSpans
  <2>6. errors \in Nat
    <3>1. IsFiniteSet(1..Len(s.spans))
      <4>1. PICK m \in Nat : m = Len(s.spans)
        BY <1>1
      <4>2. IsFiniteSet(1..m) /\ Cardinality(1..m) = m
        BY FS_Interval
      <4> QED
        BY <4>1, <4>2
    <3>2. {i \in own : s.spans[i].status = "error"} \subseteq 1..Len(s.spans)
      BY <2>5
    <3> QED
      BY <3>1, <3>2, FS_Subset, FS_CardinalityType
  <2> HIDE DEF errors
  <2>7. /\ record \in Trace /\ record.tenant = s.traces[t].tenant
        /\ record.agent = s.traces[t].agent /\ record.spans = s.traces[t].spans
        /\ record.status = status /\ record.ended = TRUE
        /\ record.tokens = s.traces[t].tokens /\ record.cost = s.traces[t].cost
        /\ record.risk = s.traces[t].risk /\ record.level = s.traces[t].level
    BY <2>3, <2>6 DEF Trace
  <2> HIDE DEF record
  <2>8. spans \in [1..Len(s.spans) -> Span] /\ \A i \in 1..Len(s.spans) :
          /\ spans[i].trace = s.spans[i].trace
          /\ i \notin own => spans[i] = s.spans[i]
          /\ i \in own => spans[i].status = IF s.spans[i].status = "running" THEN status
                                            ELSE s.spans[i].status
    <3>1. DOMAIN s.spans = 1..Len(s.spans)
      BY <1>1
    <3>2. ASSUME NEW i \in 1..Len(s.spans)
          PROVE  /\ spans[i] \in Span /\ spans[i].trace = s.spans[i].trace
                 /\ i \notin own => spans[i] = s.spans[i]
                 /\ i \in own => spans[i].status = IF s.spans[i].status = "running" THEN status
                                                   ELSE s.spans[i].status
      <4>1. s.spans[i] \in Span
        BY <1>1
      <4>2. [s.spans[i] EXCEPT !.status = status] \in Span
            /\ [s.spans[i] EXCEPT !.status = status].trace = s.spans[i].trace
            /\ [s.spans[i] EXCEPT !.status = status].status = status
        BY <4>1 DEF Span
      <4>3. spans[i] = IF i \in own /\ s.spans[i].status = "running"
                       THEN [s.spans[i] EXCEPT !.status = status] ELSE s.spans[i]
        BY <3>1
      <4> HIDE DEF spans
      <4> QED
        BY <4>1, <4>2, <4>3
    <3> QED
      BY <3>1, <3>2
  <2> HIDE DEF spans
  <2>9. spans \in Seq(Span) /\ Len(spans) = Len(s.spans)
    BY <1>1, <2>8
  <2>10. /\ closed \in Platform /\ closed.spans = spans /\ closed.active = s.active
         /\ closed.created = s.created /\ closed.traces = s.traces /\ closed.index = s.index
         /\ closed.events = s.events /\ closed.records = s.records /\ closed.alerts = s.alerts
    BY <1>1, <2>1, <2>9 DEF Platform
  <2>11. Relabels(s, closed, t)
    <3>1. \A i \in 1..Len(s.spans) : s.spans[i].trace # t => spans[i] = s.spans[i]
      BY <2>5, <2>8
    <3> QED
      BY <2>8, <2>9, <2>10, <3>1 DEF Relabels
  <2>12. Works(s, closed, t) /\ Stored(closed) = Stored(s)
    BY <2>10, <2>11, Restatus
  <2>13. Sound(closed) /\ t \in Stored(closed) /\ closed.traces[t] = s.traces[t]
    BY <1>3, <2>10, <2>12 DEF Works
  <2>14. /\ Works(closed, r, t) /\ r.traces[t] = record
         /\ r.spans = closed.spans /\ r.active = closed.active /\ Stored(r) = Stored(closed)
         /\ r.events = closed.events /\ r.records = closed.records /\ r.alerts = closed.alerts
    BY <2>2, <2>7, <2>13, SaveWorks
  <2>15. Works(s, r, t)
    BY <2>12, <2>14, WorksTrans
  <2>16. Agreeing(r, t)
    <3> SUFFICES ASSUME NEW n \in 1..Len(s.traces[t].spans)
                 PROVE  spans[s.traces[t].spans[n]].status = "running" => status = "running"
      BY <2>7, <2>10, <2>14 DEF Agreeing
    <3>1. PICK i \in own : i = s.traces[t].spans[n]
      BY <2>4
    <3> QED
      BY <2>5, <2>8, <3>1
  <2>17. Calm(s, r)
    <3>1. Calm(s, closed)
      BY <2>10, <2>12 DEF Calm, SameFigures
    <3>2. Calm(closed, r)
      BY <2>7, <2>13, <2>14 DEF Calm, SameFigures, Works, Same
    <3> QED
      BY <3>1, <3>2, CalmTrans
  <2> QED
    BY <2>15, <2>16, <2>17
<1> QED
  BY <1>2, <1>3

\* Totals and risk of a trace.
LEMMA SaveSteady ==
  ASSUME NEW s, Sound(s), NEW t \in Stored(s), NEW record \in Trace,
         record.tenant = s.traces[t].tenant, record.agent = s.traces[t].agent,
         record.spans = s.traces[t].spans, record.status = s.traces[t].status,
         record.ended = s.traces[t].ended, NEW r, r = SaveTrace(s, t, record)
  PROVE  Steady(s, r, t)
<1>1. /\ Works(s, r, t) /\ r.traces[t] = record
      /\ r.spans = s.spans /\ r.active = s.active
  BY SaveWorks
<1>2. Agreeing(s, t) => Agreeing(r, t)
  BY <1>1 DEF Agreeing
<1> QED
  BY <1>1, <1>2 DEF Steady

LEMMA TotalsSteady ==
  ASSUME NEW s, Sound(s), NEW t, NEW tokens \in Int, NEW cost \in Int,
         NEW r, r = UpdateTotals(s, t, tokens, cost)
  PROVE  /\ Steady(s, r, t)
         /\ t \in Stored(s) =>
              Retold(s, r, t, tokens, cost, s.traces[t].risk, s.traces[t].level)
         /\ t \notin Stored(s) => r = s
<1>1. CASE t \notin Stored(s)
  BY <1>1, SteadyRefl DEF UpdateTotals
<1>2. CASE t \in Stored(s)
  <2> DEFINE record == [s.traces[t] EXCEPT !.tokens = tokens, !.cost = cost]
  <2>1. s.traces[t] \in Trace
    BY <1>2, TraceFields DEF Sound
  <2>2. /\ record \in Trace /\ record.tenant = s.traces[t].tenant
        /\ record.agent = s.traces[t].agent /\ record.spans = s.traces[t].spans
        /\ record.status = s.traces[t].status /\ record.ended = s.traces[t].ended
        /\ record.tokens = tokens /\ record.cost = cost
        /\ record.risk = s.traces[t].risk /\ record.level = s.traces[t].level
    BY <2>1 DEF Trace
  <2>3. r = SaveTrace(s, t, record)
    BY <1>2 DEF UpdateTotals
  <2> HIDE DEF record
  <2>4. Steady(s, r, t)
    BY <1>2, <2>2, <2>3, SaveSteady
  <2>5. /\ Works(s, r, t) /\ r.traces[t] = record /\ Stored(r) = Stored(s)
        /\ r.events = s.events /\ r.records = s.records /\ r.alerts = s.alerts
    BY <1>2, <2>2, <2>3, SaveWorks
  <2> QED
    BY <1>2, <2>2, <2>4, <2>5 DEF Retold, SameFigures, Works, Same
<1> QED
  BY <1>1, <1>2

LEMMA RiskSteady ==
  ASSUME NEW s, Sound(s), NEW t, NEW risk \in Nat, NEW level \in Levels,
         NEW r, r = UpdateRisk(s, t, risk, level)
  PROVE  /\ Steady(s, r, t)
         /\ t \in Stored(s) =>
              Retold(s, r, t, s.traces[t].tokens, s.traces[t].cost, risk, level)
         /\ t \notin Stored(s) => r = s
<1>1. CASE t \notin Stored(s)
  BY <1>1, SteadyRefl DEF UpdateRisk
<1>2. CASE t \in Stored(s)
  <2> DEFINE record == [s.traces[t] EXCEPT !.risk = risk, !.level = level]
  <2>1. s.traces[t] \in Trace
    BY <1>2, TraceFields DEF Sound
  <2>2. /\ record \in Trace /\ record.tenant = s.traces[t].tenant
        /\ record.agent = s.traces[t].agent /\ record.spans = s.traces[t].spans
        /\ record.status = s.traces[t].status /\ record.ended = s.traces[t].ended
        /\ record.tokens = s.traces[t].tokens /\ record.cost = s.traces[t].cost
        /\ record.risk = risk /\ record.level = level
    BY <2>1 DEF Trace
  <2>3. r = SaveTrace(s, t, record)
    BY <1>2 DEF UpdateRisk
  <2> HIDE DEF record
  <2>4. Steady(s, r, t)
    BY <1>2, <2>2, <2>3, SaveSteady
  <2>5. /\ Works(s, r, t) /\ r.traces[t] = record /\ Stored(r) = Stored(s)
        /\ r.events = s.events /\ r.records = s.records /\ r.alerts = s.alerts
    BY <1>2, <2>2, <2>3, SaveWorks
  <2> QED
    BY <1>2, <2>2, <2>4, <2>5 DEF Retold, SameFigures, Works, Same
<1> QED
  BY <1>1, <1>2

-----------------------------------------------------------------------------
(* The pipeline and the detector. *)

LEMMA KeepSteady ==
  ASSUME NEW s, Sound(s), NEW t, NEW type \in Routed, NEW e \in EventRecord,
         NEW tokens \in Int, NEW cost \in Int, NEW r, r = Keep(s, type, e, tokens, cost)
  PROVE  /\ Steady(s, r, t) /\ r.traces = s.traces /\ r.created = s.created
         /\ r.events = s.events /\ r.alerts = s.alerts
         /\ Recorded(s, r, type, e.trace, tokens, cost)
<1> DEFINE record == [type |-> type, trace |-> e.trace, tenant |-> e.tenant,
                      tokens |-> tokens, cost |-> cost]
           records == Append(s.records, record)
<1>1. s \in Platform /\ s.records \in Seq(Record)
  BY Fields DEF Sound
<1>2. /\ record \in Record /\ record.type = type /\ record.trace = e.trace
      /\ record.tokens = tokens /\ record.cost = cost
  BY DEF Record, EventRecord
<1>3. r = [s EXCEPT !.records = records]
  BY DEF Keep
<1> HIDE DEF record
<1>4. records \in Seq(Record)
  BY <1>1, <1>2
<1> HIDE DEF records
<1>5. /\ r \in Platform /\ r.created = s.created /\ r.traces = s.traces /\ r.index = s.index
      /\ r.spans = s.spans /\ r.active = s.active /\ r.events = s.events
      /\ r.alerts = s.alerts /\ r.records = records
  BY <1>1, <1>3, <1>4 DEF Platform
<1> QED
  BY <1>2, <1>5, Besides DEF records, Recorded

LEMMA LoggedSteady ==
  ASSUME NEW s, Sound(s), NEW t, NEW e \in EventRecord, NEW r, r = Logged(s, e)
  PROVE  /\ Steady(s, r, t) /\ r.traces = s.traces /\ r.created = s.created
         /\ r.events = Append(s.events, e) /\ r.records = s.records /\ r.alerts = s.alerts
<1> DEFINE events == Append(s.events, e)
<1>1. s \in Platform /\ s.events \in Seq(EventRecord)
  BY Fields DEF Sound
<1>2. r = [s EXCEPT !.events = events]
  BY DEF Logged
<1>3. events \in Seq(EventRecord)
  BY <1>1
<1> HIDE DEF events
<1>4. /\ r \in Platform /\ r.created = s.created /\ r.traces = s.traces /\ r.index = s.index
      /\ r.spans = s.spans /\ r.active = s.active /\ r.events = events
      /\ r.records = s.records /\ r.alerts = s.alerts
  BY <1>1, <1>2, <1>3 DEF Platform
<1> QED
  BY <1>4, Besides DEF events

-----------------------------------------------------------------------------
(* What is booked. *)

LEMMA ListsChanged ==
  ASSUME NEW s \in Platform, NEW r \in Platform, NEW t \in 1..s.created,
         NEW dt \in Int, NEW dc \in Int, Grows(s, r, t, dt, dc)
  PROVE  /\ t \in Stored(s) => /\ SumList(TokenList(r)) = SumList(TokenList(s)) + dt
                               /\ SumList(CostList(r)) = SumList(CostList(s)) + dc
         /\ t \notin Stored(s) => TokenList(r) = TokenList(s) /\ CostList(r) = CostList(s)
<1>0. /\ r.created = s.created /\ Stored(r) = Stored(s)
      /\ \A u \in Stored(s) \ {t} : SameFigures(s, r, u)
      /\ t \in Stored(s) => /\ r.traces[t].tokens = s.traces[t].tokens + dt
                            /\ r.traces[t].cost = s.traces[t].cost + dc
  BY DEF Grows
<1>1. PICK a \in Seq(Int) : a = TokenList(s) /\ Len(a) = s.created
  BY <1>0, ListTypes
<1>2. PICK b \in Seq(Int) : b = TokenList(r) /\ Len(b) = s.created
  BY <1>0, ListTypes
<1>3. PICK c \in Seq(Int) : c = CostList(s) /\ Len(c) = s.created
  BY <1>0, ListTypes
<1>4. PICK d \in Seq(Int) : d = CostList(r) /\ Len(d) = s.created
  BY <1>0, ListTypes
<1>5. \A u \in 1..s.created : u # t => b[u] = a[u] /\ d[u] = c[u]
  BY <1>0, <1>1, <1>2, <1>3, <1>4 DEF TokenList, CostList, SameFigures
<1>6. CASE t \in Stored(s)
  <2>1. b[t] = a[t] + dt /\ d[t] = c[t] + dc
    BY <1>0, <1>1, <1>2, <1>3, <1>4, <1>6 DEF TokenList, CostList
  <2>2. SumList(b) = SumList(a) + dt
    <3>1. /\ Len(b) = Len(a) /\ t \in 1..Len(a) /\ b[t] = a[t] + dt
          /\ \A n \in 1..Len(a) : n # t => b[n] = a[n]
      BY <1>1, <1>2, <1>5, <2>1
    <3> QED
      BY <3>1, SumChanged
  <2>3. SumList(d) = SumList(c) + dc
    <3>1. /\ Len(d) = Len(c) /\ t \in 1..Len(c) /\ d[t] = c[t] + dc
          /\ \A n \in 1..Len(c) : n # t => d[n] = c[n]
      BY <1>3, <1>4, <1>5, <2>1
    <3> QED
      BY <3>1, SumChanged
  <2> QED
    BY <1>1, <1>2, <1>3, <1>4, <1>6, <2>2, <2>3
<1>7. CASE t \notin Stored(s)
  <2>1. \A u \in Stored(s) : r.traces[u].tokens = s.traces[u].tokens
                              /\ r.traces[u].cost = s.traces[u].cost
    BY <1>0, <1>7 DEF SameFigures
  <2> QED
    BY <1>0, <1>7, <2>1 DEF TokenList, CostList
<1> QED
  BY <1>6, <1>7

\* Alerts as they were, and a trace that shows the same risk.
LEMMA RiskKept ==
  ASSUME NEW s, NEW r, NEW t, RiskTold(s, t), r.alerts = s.alerts,
         r.traces[t].risk = s.traces[t].risk, r.traces[t].level = s.traces[t].level
  PROVE  RiskTold(r, t)
BY DEF RiskTold

\* An event that no table takes.
LEMMA UnroutedTallies ==
  ASSUME NEW s, Sound(s), NEW r, NEW e \in EventRecord, e.type \notin Routed,
         r.traces = s.traces, r.created = s.created, r.events = Append(s.events, e),
         r.records = s.records, r.alerts = s.alerts
  PROVE  Tallies(s, r)
<1> SUFFICES ASSUME Tallied(s) PROVE Tallied(r)
  BY DEF Tallies
<1>1. Stored(r) = Stored(s) /\ TokenList(r) = TokenList(s) /\ CostList(r) = CostList(s)
  BY DEF Stored, TokenList, CostList
<1>2. ASSUME NEW t \in Stored(s) PROVE TracePaid(r, t) /\ RiskTold(r, t)
  <2>1. TracePaid(s, t) /\ RiskTold(s, t)
    BY DEF Tallied
  <2> QED
    BY <2>1 DEF TracePaid, RiskTold
<1>3. ASSUME NEW type \in Routed
      PROVE  SumOf(EventsOf(type), r.events) = SumOf(RecordsOf(type), r.records)
  <2>1. s.events \in Seq(EventRecord)
    BY Fields DEF Sound
  <2>2. /\ SumOf(EventsOf(type), s.events) \in Int
        /\ SumOf(EventsOf(type), Append(s.events, e))
             = SumOf(EventsOf(type), s.events) + (IF e.type = type THEN 1 ELSE 0)
    BY <2>1, EventSums
  <2>3. SumOf(EventsOf(type), s.events) = SumOf(RecordsOf(type), s.records)
    BY DEF Tallied
  <2> QED
    BY <2>2, <2>3
<1> QED
  BY <1>1, <1>2, <1>3 DEF Tallied

\* An event that is not a call of a model, and its record.
LEMMA RoutedTallies ==
  ASSUME NEW s, Sound(s), NEW r, NEW e \in EventRecord, NEW row \in Record,
         row.type = e.type, row.type # "llm_call", row.trace <= s.created, row.cost >= 0,
         r.traces = s.traces, r.created = s.created, r.events = Append(s.events, e),
         r.records = Append(s.records, row), r.alerts = s.alerts
  PROVE  Tallies(s, r)
<1> SUFFICES ASSUME Tallied(s) PROVE Tallied(r)
  BY DEF Tallies
<1>0. s \in Platform /\ s.records \in Seq(Record) /\ s.events \in Seq(EventRecord)
      /\ row.cost \in Int /\ s.created \in Nat
  BY Fields DEF Sound, Record
<1>7. RowAdds(s.records, r.records, row)
  BY <1>0, RecordSums
<1>1. Stored(r) = Stored(s) /\ TokenList(r) = TokenList(s) /\ CostList(r) = CostList(s)
  BY DEF Stored, TokenList, CostList
<1>2. /\ SumOf(AllTokens, s.records) \in Int /\ SumOf(AllPaid, s.records) \in Int
      /\ SumOf(AllTokens, r.records) = SumOf(AllTokens, s.records)
      /\ SumOf(AllPaid, r.records)
           = SumOf(AllPaid, s.records) + (IF row.type = "cost" THEN row.cost ELSE 0)
  BY <1>7 DEF RowAdds
<1>3. ASSUME NEW t \in Stored(s) PROVE TracePaid(r, t) /\ RiskTold(r, t)
  <2>1. TracePaid(s, t) /\ RiskTold(s, t) /\ s.traces[t].cost \in Int
    BY <1>0, TraceFields DEF Tallied
  <2>2. /\ SumOf(CallTokens(t), s.records) \in Int /\ SumOf(CallCosts(t), s.records) \in Int
        /\ SumOf(PaidFor(t), s.records) \in Int
        /\ SumOf(CallTokens(t), r.records) = SumOf(CallTokens(t), s.records) + 0
        /\ SumOf(CallCosts(t), r.records) = SumOf(CallCosts(t), s.records) + 0
        /\ SumOf(PaidFor(t), r.records) = SumOf(PaidFor(t), s.records)
             + (IF row.type = "cost" /\ row.trace = t THEN row.cost ELSE 0)
    BY <1>7 DEF RowAdds
  <2>3. TracePaid(r, t)
    BY <1>0, <2>1, <2>2 DEF TracePaid
  <2> QED
    BY <2>1, <2>3, RiskKept
<1>4. ASSUME NEW type \in Routed
      PROVE  SumOf(EventsOf(type), r.events) = SumOf(RecordsOf(type), r.records)
  <2>1. SumOf(EventsOf(type), r.events)
          = SumOf(EventsOf(type), s.events) + (IF e.type = type THEN 1 ELSE 0)
    BY <1>0, EventSums
  <2>3. SumOf(RecordsOf(type), r.records)
          = SumOf(RecordsOf(type), s.records) + (IF row.type = type THEN 1 ELSE 0)
    BY <1>7 DEF RowAdds
  <2>2. SumOf(EventsOf(type), s.events) = SumOf(RecordsOf(type), s.records)
    BY DEF Tallied
  <2> QED
    BY <2>1, <2>2, <2>3
<1>5. \A i \in 1..Len(r.records) : r.records[i].trace <= r.created
  <2>1. \A i \in 1..Len(r.records) : i \in 1..Len(s.records) \/ i = Len(s.records) + 1
    BY <1>0
  <2>2. /\ \A i \in 1..Len(s.records) : r.records[i] = s.records[i]
        /\ r.records[Len(s.records) + 1] = row
    BY <1>0
  <2> QED
    BY <2>1, <2>2 DEF Tallied
<1>6. /\ SumList(TokenList(r)) <= SumOf(AllTokens, r.records)
      /\ SumList(CostList(r)) <= SumOf(AllPaid, r.records)
  BY <1>0, <1>1, <1>2, ListTypes DEF Tallied
<1> QED
  BY <1>1, <1>3, <1>4, <1>5, <1>6 DEF Tallied

\* Costs are whole numbers, as prices and token counts are.
LEMMA CostType ==
  ASSUME NEW model, NEW prompt \in Int, NEW completion \in Int
  PROVE  ComputeCost(model, prompt, completion) \in Int
<1> DEFINE rates == Pricing[IF model \in DOMAIN Pricing THEN model ELSE "default"]
<1>1. rates.prompt \in Int /\ rates.completion \in Int
  BY ObservabilityAssumption
<1>2. ComputeCost(model, prompt, completion)
        = prompt * rates.prompt + completion * rates.completion
  BY DEF ComputeCost
<1> HIDE DEF rates
<1>3. PICK a \in Int, b \in Int : a = rates.prompt /\ b = rates.completion
  BY <1>1
<1>4. prompt * a \in Int /\ completion * b \in Int
  OBVIOUS
<1> QED
  BY <1>2, <1>3, <1>4

LEMMA LLMCallSteady ==
  ASSUME NEW s, Sound(s), NEW e \in EventRecord, NEW r, r = HandleLLMCall(s, e)
  PROVE  /\ Steady(s, r, e.trace)
         /\ \E call, cost \in Record, nested \in EventRecord :
              CallBooked(s, r, e, call, cost, nested)
<1> DEFINE nested == [e EXCEPT !.type = "cost"]
<1>1. e.prompt \in Int /\ e.completion \in Int
  BY DEF EventRecord
<1>2. PICK tokens \in Int : tokens = e.prompt + e.completion
  BY <1>1
<1>3. PICK cost \in Int : cost = ComputeCost(e.model, e.prompt, e.completion)
  BY <1>1, CostType
<1>4. /\ nested \in EventRecord /\ nested.prompt + nested.completion = tokens
      /\ nested.type = "cost" /\ nested.trace = e.trace
  BY <1>2 DEF EventRecord, EventType, Routed
<1> HIDE DEF nested
<1>5. PICK called : called = Keep(s, "llm_call", e, tokens, cost)
  OBVIOUS
<1>6. PICK logged : logged = Logged(called, nested)
  OBVIOUS
<1>7. PICK paid : paid = HandleCost(logged, nested, cost)
  OBVIOUS
<1>8. r = IF e.trace \notin Stored(paid) THEN paid
          ELSE UpdateTotals(paid, e.trace, paid.traces[e.trace].tokens + tokens,
                                           paid.traces[e.trace].cost + cost)
  BY <1>2, <1>3, <1>5, <1>6, <1>7 DEF HandleLLMCall, nested
<1>9. /\ Steady(s, called, e.trace) /\ called.traces = s.traces
      /\ called.created = s.created /\ called.events = s.events /\ called.alerts = s.alerts
      /\ Recorded(s, called, "llm_call", e.trace, tokens, cost)
  <2>1. "llm_call" \in Routed
    BY DEF Routed
  <2> QED
    BY <1>5, <2>1, KeepSteady
<1>10. /\ Steady(called, logged, e.trace) /\ logged.traces = called.traces
       /\ logged.created = called.created /\ logged.events = Append(called.events, nested)
       /\ logged.records = called.records /\ logged.alerts = called.alerts
  <2>1. Sound(called)
    BY <1>9 DEF Steady, Works
  <2> QED
    BY <1>4, <1>6, <2>1, LoggedSteady
<1>11. /\ Steady(logged, paid, e.trace) /\ paid.traces = logged.traces
       /\ paid.created = logged.created /\ paid.events = logged.events
       /\ paid.alerts = logged.alerts
       /\ Recorded(logged, paid, "cost", nested.trace, tokens, cost)
  <2>1. "cost" \in Routed /\ paid = Keep(logged, "cost", nested, tokens, cost)
    BY <1>4, <1>7 DEF Routed, HandleCost
  <2>2. Sound(logged)
    BY <1>10 DEF Steady, Works
  <2> QED
    BY <1>4, <2>1, <2>2, KeepSteady
<1>12. Sound(called) /\ Sound(logged) /\ Sound(paid)
  BY <1>9, <1>10, <1>11 DEF Steady, Works
<1>13. PICK call \in Record : /\ called.records = Append(s.records, call)
                              /\ call.type = "llm_call" /\ call.trace = e.trace
                              /\ call.tokens = tokens /\ call.cost = cost
  BY <1>9 DEF Recorded
<1>14. PICK bill \in Record : /\ paid.records = Append(logged.records, bill)
                              /\ bill.type = "cost" /\ bill.trace = e.trace
                              /\ bill.cost = cost
  BY <1>4, <1>11 DEF Recorded
<1>15. /\ paid.created = s.created /\ paid.traces = s.traces /\ paid.alerts = s.alerts
       /\ paid.events = Append(s.events, nested) /\ Stored(paid) = Stored(s)
       /\ paid.records = Append(Append(s.records, call), bill)
  BY <1>9, <1>10, <1>11, <1>13, <1>14 DEF Stored
<1>16. Steady(paid, r, e.trace) /\ CallBooked(s, r, e, call, bill, nested)
  <2>1. CASE e.trace \notin Stored(paid)
    <3>1. r = paid
      BY <1>8, <2>1
    <3>2. \A u \in Stored(s) : SameFigures(s, r, u)
      BY <1>15, <3>1 DEF SameFigures
    <3>3. CallBooked(s, r, e, call, bill, nested)
      BY <1>2, <1>3, <1>4, <1>13, <1>14, <1>15, <2>1, <3>1, <3>2 DEF CallBooked
    <3> QED
      BY <1>12, <3>1, <3>3, SteadyRefl
  <2>2. CASE e.trace \in Stored(paid)
    <3>1. PICK own \in Int, spent \in Int :
            /\ own = paid.traces[e.trace].tokens + tokens
            /\ spent = paid.traces[e.trace].cost + cost
      <4>1. paid.traces[e.trace].tokens \in Int /\ paid.traces[e.trace].cost \in Int
        BY <1>12, <2>2, TraceFields DEF Sound
      <4> QED
        BY <4>1
    <3>2. r = UpdateTotals(paid, e.trace, own, spent)
      BY <1>8, <2>2, <3>1
    <3>3. /\ Steady(paid, r, e.trace)
          /\ Retold(paid, r, e.trace, own, spent,
                    paid.traces[e.trace].risk, paid.traces[e.trace].level)
      BY <1>12, <2>2, <3>2, TotalsSteady
    <3>4. \A u \in Stored(s) \ {e.trace} : SameFigures(s, r, u)
      BY <1>15, <3>3 DEF Retold, SameFigures
    <3>5. /\ r.created = s.created /\ Stored(r) = Stored(s) /\ r.alerts = s.alerts
          /\ r.events = Append(s.events, nested)
          /\ r.records = Append(Append(s.records, call), bill)
          /\ r.traces[e.trace].tokens = s.traces[e.trace].tokens + call.tokens
          /\ r.traces[e.trace].cost = s.traces[e.trace].cost + call.cost
          /\ r.traces[e.trace].risk = s.traces[e.trace].risk
          /\ r.traces[e.trace].level = s.traces[e.trace].level
      BY <1>13, <1>15, <3>1, <3>3 DEF Retold
    <3>6. CallBooked(s, r, e, call, bill, nested)
      BY <1>2, <1>3, <1>4, <1>13, <1>14, <3>4, <3>5 DEF CallBooked
    <3> QED
      BY <3>3, <3>6
  <2> QED
    BY <2>1, <2>2
<1>17. Steady(s, logged, e.trace)
  BY <1>9, <1>10, SteadyTrans
<1>18. Steady(s, paid, e.trace)
  BY <1>11, <1>17, SteadyTrans
<1> QED
  BY <1>4, <1>16, <1>18, SteadyTrans

\* Nobody is charged less than nothing.
LEMMA CostNatural ==
  ASSUME NaturalCounts, NEW model, NEW prompt \in Nat, NEW completion \in Nat
  PROVE  ComputeCost(model, prompt, completion) >= 0
<1> DEFINE rates == Pricing[IF model \in DOMAIN Pricing THEN model ELSE "default"]
<1>1. rates.prompt \in Nat /\ rates.completion \in Nat
  <2>1. (IF model \in DOMAIN Pricing THEN model ELSE "default") \in DOMAIN Pricing
    BY ObservabilityAssumption
  <2>2. \A m \in DOMAIN Pricing : /\ Pricing[m].prompt \in Int /\ Pricing[m].prompt >= 0
                                  /\ Pricing[m].completion \in Int /\ Pricing[m].completion >= 0
    BY ObservabilityAssumption DEF NaturalCounts
  <2> QED
    BY <2>1, <2>2
<1>2. ComputeCost(model, prompt, completion)
        = prompt * rates.prompt + completion * rates.completion
  BY DEF ComputeCost
<1> HIDE DEF rates
<1>3. PICK a \in Nat, b \in Nat : a = rates.prompt /\ b = rates.completion
  BY <1>1
<1>4. prompt * a \in Nat /\ completion * b \in Nat
  OBVIOUS
<1> QED
  BY <1>2, <1>3, <1>4

\* A call of a model, with its cost, on a trace that was made.
LEMMA CallTallies ==
  ASSUME NEW s, Sound(s), NEW e \in EventRecord, e.type = "llm_call", e.trace \in 1..s.created,
         NaturalCounts => e.prompt \in Nat /\ e.completion \in Nat,
         NEW l, l.traces = s.traces, l.created = s.created, l.events = Append(s.events, e),
         l.records = s.records, l.alerts = s.alerts,
         NEW r, r \in Platform, NEW call \in Record, NEW cost \in Record,
         NEW nested \in EventRecord, CallBooked(l, r, e, call, cost, nested)
  PROVE  Tallies(s, r)
<1> SUFFICES ASSUME NaturalCounts, Tallied(s) PROVE Tallied(r)
  BY DEF Tallies
<1> DEFINE t == e.trace
<1>1. /\ s \in Platform /\ s.records \in Seq(Record) /\ s.events \in Seq(EventRecord)
      /\ s.created \in Nat
  BY Fields DEF Sound
<1>2. PICK d \in Nat, c \in Nat : d = call.tokens /\ c = call.cost
  <2>1. call.tokens \in Nat
    BY DEF CallBooked
  <2>2. call.cost \in Int /\ call.cost >= 0
    BY CostNatural DEF CallBooked, Record
  <2> QED
    BY <2>1, <2>2
<1>3. /\ call.type = "llm_call" /\ call.trace = t /\ cost.type = "cost" /\ cost.trace = t
      /\ cost.cost = c /\ nested.type = "cost"
  BY <1>2 DEF CallBooked
<1>4. /\ r.created = s.created /\ Stored(r) = Stored(s) /\ r.alerts = s.alerts
      /\ r.events = Append(Append(s.events, e), nested)
      /\ r.records = Append(Append(s.records, call), cost)
  BY DEF CallBooked, Stored
<1>5. /\ t \in Stored(s) =>
           /\ r.traces[t].tokens = s.traces[t].tokens + d
           /\ r.traces[t].cost = s.traces[t].cost + c
           /\ r.traces[t].risk = s.traces[t].risk /\ r.traces[t].level = s.traces[t].level
      /\ \A u \in Stored(s) \ {t} : SameFigures(s, r, u)
  BY <1>2 DEF CallBooked, SameFigures, Stored
<1>6. t \in 1..s.created /\ t <= s.created
  OBVIOUS
<1> HIDE DEF t
<1> DEFINE rows == Append(s.records, call)
           logged == Append(s.events, e)
<1>7. rows \in Seq(Record) /\ logged \in Seq(EventRecord)
  BY <1>1
<1>8. RowAdds(s.records, rows, call)
  BY <1>1, RecordSums
<1>9. /\ Len(rows) = Len(s.records) + 1 /\ Len(s.records) \in Nat
       /\ rows[Len(s.records) + 1] = call
       /\ \A j \in 1..Len(s.records) : rows[j] = s.records[j]
  BY <1>1
<1>10. r.events = Append(logged, nested) /\ r.records = Append(rows, cost)
  BY <1>4
<1> HIDE DEF rows
<1>11. RowAdds(rows, r.records, cost)
  BY <1>7, <1>10, RecordSums
<1>12. /\ SumOf(AllTokens, s.records) \in Int /\ SumOf(AllPaid, s.records) \in Int
       /\ SumOf(AllTokens, r.records) = SumOf(AllTokens, s.records) + d
       /\ SumOf(AllPaid, r.records) = SumOf(AllPaid, s.records) + c
  BY <1>2, <1>3, <1>8, <1>11 DEF RowAdds
<1>13. ASSUME NEW u
      PROVE  /\ SumOf(CallTokens(u), s.records) \in Int /\ SumOf(CallCosts(u), s.records) \in Int
             /\ SumOf(PaidFor(u), s.records) \in Int
             /\ SumOf(CallTokens(u), r.records)
                  = SumOf(CallTokens(u), s.records) + (IF u = t THEN d ELSE 0)
             /\ SumOf(CallCosts(u), r.records)
                  = SumOf(CallCosts(u), s.records) + (IF u = t THEN c ELSE 0)
             /\ SumOf(PaidFor(u), r.records)
                  = SumOf(PaidFor(u), s.records) + (IF u = t THEN c ELSE 0)
  <2>1. /\ SumOf(CallTokens(u), s.records) \in Int /\ SumOf(CallCosts(u), s.records) \in Int
        /\ SumOf(PaidFor(u), s.records) \in Int
        /\ SumOf(CallTokens(u), rows)
             = SumOf(CallTokens(u), s.records) + (IF u = t THEN d ELSE 0)
        /\ SumOf(CallCosts(u), rows)
             = SumOf(CallCosts(u), s.records) + (IF u = t THEN c ELSE 0)
        /\ SumOf(PaidFor(u), rows) = SumOf(PaidFor(u), s.records) + 0
    BY <1>2, <1>3, <1>8 DEF RowAdds
  <2>2. /\ SumOf(CallTokens(u), rows) \in Int /\ SumOf(CallCosts(u), rows) \in Int
        /\ SumOf(PaidFor(u), rows) \in Int
        /\ SumOf(CallTokens(u), r.records) = SumOf(CallTokens(u), rows) + 0
        /\ SumOf(CallCosts(u), r.records) = SumOf(CallCosts(u), rows) + 0
        /\ SumOf(PaidFor(u), r.records)
             = SumOf(PaidFor(u), rows) + (IF u = t THEN c ELSE 0)
    BY <1>2, <1>3, <1>11 DEF RowAdds
  <2> QED
    BY <1>2, <2>1, <2>2
<1>14. ASSUME NEW u \in Stored(s) PROVE TracePaid(r, u) /\ RiskTold(r, u)
  <2>1. TracePaid(s, u) /\ RiskTold(s, u) /\ s.traces[u].tokens \in Int /\ s.traces[u].cost \in Int
    BY <1>1, TraceFields DEF Tallied
  <2>2. /\ r.traces[u].tokens = s.traces[u].tokens + (IF u = t THEN d ELSE 0)
        /\ r.traces[u].cost = s.traces[u].cost + (IF u = t THEN c ELSE 0)
        /\ r.traces[u].risk = s.traces[u].risk /\ r.traces[u].level = s.traces[u].level
    <3>1. CASE u = t
      BY <1>5, <3>1
    <3>2. CASE u # t
      BY <1>5, <2>1, <3>2 DEF SameFigures
    <3> QED
      BY <3>1, <3>2
  <2>3. TracePaid(r, u)
    <3>1. PICK x \in Nat, y \in Nat : /\ x = IF u = t THEN d ELSE 0
                                     /\ y = IF u = t THEN c ELSE 0
      OBVIOUS
    <3>2. /\ r.traces[u].tokens = s.traces[u].tokens + x
          /\ r.traces[u].cost = s.traces[u].cost + y
          /\ SumOf(CallTokens(u), r.records) = SumOf(CallTokens(u), s.records) + x
          /\ SumOf(CallCosts(u), r.records) = SumOf(CallCosts(u), s.records) + y
          /\ SumOf(PaidFor(u), r.records) = SumOf(PaidFor(u), s.records) + y
          /\ SumOf(PaidFor(u), s.records) \in Int
      BY <1>13, <2>2, <3>1
    <3>3. /\ s.traces[u].tokens = SumOf(CallTokens(u), s.records)
          /\ s.traces[u].cost = SumOf(CallCosts(u), s.records)
          /\ s.traces[u].cost <= SumOf(PaidFor(u), s.records)
          /\ s.traces[u].tokens >= 0 /\ s.traces[u].cost >= 0
      BY <2>1 DEF TracePaid
    <3>4. /\ r.traces[u].tokens = SumOf(CallTokens(u), r.records)
          /\ r.traces[u].cost = SumOf(CallCosts(u), r.records)
      BY <3>2, <3>3
    <3>5. /\ r.traces[u].cost <= SumOf(PaidFor(u), r.records)
          /\ r.traces[u].tokens >= 0 /\ r.traces[u].cost >= 0
      BY <2>1, <3>2, <3>3
    <3> QED
      BY <3>4, <3>5 DEF TracePaid
  <2> QED
    BY <1>4, <2>1, <2>2, <2>3, RiskKept
<1>15. ASSUME NEW type \in Routed
      PROVE  SumOf(EventsOf(type), r.events) = SumOf(RecordsOf(type), r.records)
  <2>2. /\ SumOf(EventsOf(type), s.events) \in Int
        /\ SumOf(EventsOf(type), logged)
             = SumOf(EventsOf(type), s.events) + (IF e.type = type THEN 1 ELSE 0)
    BY <1>1, EventSums
  <2> HIDE DEF logged
  <2>3. SumOf(EventsOf(type), r.events)
          = SumOf(EventsOf(type), logged) + (IF nested.type = type THEN 1 ELSE 0)
    BY <1>7, <1>10, EventSums
  <2>4. /\ SumOf(RecordsOf(type), rows)
             = SumOf(RecordsOf(type), s.records) + (IF call.type = type THEN 1 ELSE 0)
        /\ SumOf(RecordsOf(type), r.records)
             = SumOf(RecordsOf(type), rows) + (IF cost.type = type THEN 1 ELSE 0)
    BY <1>8, <1>11 DEF RowAdds
  <2>5. SumOf(EventsOf(type), s.events) = SumOf(RecordsOf(type), s.records)
    BY DEF Tallied
  <2> QED
    BY <1>3, <2>2, <2>3, <2>4, <2>5
<1>16. ASSUME NEW i \in 1..Len(r.records) PROVE r.records[i].trace <= r.created
  <2>1. /\ Len(r.records) = Len(rows) + 1 /\ r.records[Len(rows) + 1] = cost
        /\ \A j \in 1..Len(rows) : r.records[j] = rows[j]
    BY <1>7, <1>10
  <2>2. \/ i \in 1..Len(s.records) /\ r.records[i] = s.records[i]
        \/ r.records[i] = call \/ r.records[i] = cost
    <3>1. i \in 1..Len(rows) \/ i = Len(rows) + 1
      BY <1>9, <2>1
    <3>2. ASSUME i \in 1..Len(rows)
          PROVE  i \in 1..Len(s.records) \/ i = Len(s.records) + 1
      BY <1>9, <3>2
    <3> QED
      BY <1>9, <2>1, <3>1, <3>2
  <2> QED
    BY <1>3, <1>4, <1>6, <2>2 DEF Tallied
<1>17. /\ SumList(TokenList(r)) <= SumOf(AllTokens, r.records)
       /\ SumList(CostList(r)) <= SumOf(AllPaid, r.records)
  <2>1. /\ SumList(TokenList(s)) \in Int /\ SumList(CostList(s)) \in Int
        /\ SumList(TokenList(s)) <= SumOf(AllTokens, s.records)
        /\ SumList(CostList(s)) <= SumOf(AllPaid, s.records)
    BY <1>1, ListTypes DEF Tallied
  <2>2. /\ t \in Stored(s) => /\ SumList(TokenList(r)) = SumList(TokenList(s)) + d
                              /\ SumList(CostList(r)) = SumList(CostList(s)) + c
        /\ t \notin Stored(s) => TokenList(r) = TokenList(s) /\ CostList(r) = CostList(s)
    <3>1. Grows(s, r, t, d, c)
      BY <1>4, <1>5 DEF Grows
    <3>2. d \in Int /\ c \in Int
      OBVIOUS
    <3> QED
      BY <1>1, <1>6, <3>1, <3>2, ListsChanged
  <2>3. PICK a \in Int, b \in Int, x \in Int, y \in Int :
          /\ a = SumList(TokenList(s)) /\ b = SumList(CostList(s))
          /\ x = SumOf(AllTokens, s.records) /\ y = SumOf(AllPaid, s.records)
    BY <1>12, <2>1
  <2>4. a <= x /\ b <= y
    BY <2>1, <2>3
  <2>5. SumOf(AllTokens, r.records) = x + d /\ SumOf(AllPaid, r.records) = y + c
    BY <1>12, <2>3
  <2>6. CASE t \in Stored(s)
    <3>1. SumList(TokenList(r)) = a + d /\ SumList(CostList(r)) = b + c
      BY <2>2, <2>3, <2>6
    <3> QED
      BY <2>4, <2>5, <3>1
  <2>7. CASE t \notin Stored(s)
    <3>1. SumList(TokenList(r)) = a /\ SumList(CostList(r)) = b
      BY <2>2, <2>3, <2>7
    <3> QED
      BY <2>4, <2>5, <3>1
  <2> QED
    BY <2>6, <2>7
<1>18. \A i \in 1..Len(r.alerts) : r.alerts[i].trace <= r.created
  BY <1>4 DEF Tallied
<1> QED
  BY <1>4, <1>14, <1>15, <1>16, <1>17, <1>18 DEF Tallied

\* A steady operation that leaves the totals right.
Proper(s, r, t) == Steady(s, r, t) /\ Tallies(s, r)

LEMMA ProperRefl ==
  ASSUME NEW s, Sound(s), NEW t
  PROVE  Proper(s, s, t)
BY SteadyRefl DEF Proper, Tallies

LEMMA ProperTrans ==
  ASSUME NEW s, Sound(s), NEW t, NEW q, Proper(s, q, t), NEW r, Proper(q, r, t)
  PROVE  Proper(s, r, t)
BY SteadyTrans DEF Proper, Tallies

LEMMA CalmProper ==
  ASSUME NEW s, NEW r, NEW t, Steady(s, r, t), Calm(s, r)
  PROVE  Proper(s, r, t)
BY CalmTallies DEF Proper

LEMMA EmitProper ==
  ASSUME NEW s, Sound(s), NEW e \in EventRecord, e.trace \in 1..s.created,
         NaturalCounts => e.prompt \in Nat /\ e.completion \in Nat,
         NEW r, r = Emit(s, e)
  PROVE  Proper(s, r, e.trace)
<1>1. PICK l : l = Logged(s, e)
  OBVIOUS
<1>2. /\ Steady(s, l, e.trace) /\ Sound(l) /\ l.traces = s.traces /\ l.created = s.created
      /\ l.events = Append(s.events, e) /\ l.records = s.records /\ l.alerts = s.alerts
  <2>1. /\ Steady(s, l, e.trace) /\ l.traces = s.traces /\ l.created = s.created
        /\ l.events = Append(s.events, e) /\ l.records = s.records /\ l.alerts = s.alerts
    BY <1>1, LoggedSteady
  <2> QED
    BY <2>1 DEF Steady, Works
<1>3. /\ e.prompt + e.completion \in Int /\ e.prompt \in Int /\ e.completion \in Int
      /\ e.trace <= s.created
  BY DEF EventRecord
<1>4. ASSUME NEW type \in Routed, type = e.type, type # "llm_call",
             NEW tokens \in Int, NEW cost \in Int, NaturalCounts => cost >= 0,
             r = Keep(l, type, e, tokens, cost)
      PROVE  Proper(s, r, e.trace)
  <2>1. /\ Steady(l, r, e.trace) /\ r.traces = l.traces /\ r.created = l.created
        /\ r.events = l.events /\ r.alerts = l.alerts
        /\ Recorded(l, r, type, e.trace, tokens, cost)
    BY <1>2, <1>4, KeepSteady
  <2>2. PICK row \in Record : /\ r.records = Append(l.records, row)
                              /\ row.type = e.type /\ row.trace = e.trace /\ row.cost = cost
    BY <1>4, <2>1 DEF Recorded
  <2>3. Tallies(s, r)
    <3>1. CASE ~ NaturalCounts
      BY <3>1 DEF Tallies
    <3>2. CASE NaturalCounts
      <4>1. row.type # "llm_call" /\ row.trace <= s.created /\ row.cost >= 0
        BY <1>3, <1>4, <2>2, <3>2
      <4>2. /\ r.traces = s.traces /\ r.created = s.created /\ r.events = Append(s.events, e)
            /\ r.records = Append(s.records, row) /\ r.alerts = s.alerts
        BY <1>2, <2>1, <2>2
      <4> QED
        BY <2>2, <4>1, <4>2, RoutedTallies
    <3> QED
      BY <3>1, <3>2
  <2> QED
    BY <1>2, <2>1, <2>3, SteadyTrans DEF Proper
<1>5. CASE e.type \in {"prompt_build", "rag_search", "tool_call", "error"}
  <2>1. r = Keep(l, e.type, e, 0, 0) /\ e.type \in Routed /\ e.type # "llm_call"
    BY <1>1, <1>5
       DEF Emit, HandlePromptBuild, HandleRagSearch, HandleToolCall, HandleError, Routed
  <2> QED
    BY <1>4, <2>1
<1>6. CASE e.type = "cost"
  <2>1. r = Keep(l, e.type, e, e.prompt + e.completion, e.prompt + e.completion)
        /\ e.type \in Routed /\ e.type # "llm_call"
    BY <1>1, <1>6 DEF Emit, HandleCost, Routed
  <2>2. NaturalCounts => e.prompt + e.completion >= 0
    BY <1>3
  <2> QED
    BY <1>3, <1>4, <2>1, <2>2
<1>7. CASE e.type = "llm_call"
  <2>1. r = HandleLLMCall(l, e)
    BY <1>1, <1>7 DEF Emit
  <2>2. Steady(l, r, e.trace) /\ \E call, cost \in Record, nested \in EventRecord :
                                   CallBooked(l, r, e, call, cost, nested)
    BY <1>2, <2>1, LLMCallSteady
  <2>3. r \in Platform
    BY <2>2 DEF Steady, Works, Sound
  <2>4. PICK call \in Record, cost \in Record, nested \in EventRecord :
               CallBooked(l, r, e, call, cost, nested)
    BY <2>2
  <2>5. Tallies(s, r)
    BY <1>2, <1>7, <2>3, <2>4, CallTallies
  <2> QED
    BY <1>2, <2>2, <2>5, SteadyTrans DEF Proper
<1>8. CASE e.type \notin Routed
  <2>1. r = l
    BY <1>1, <1>8 DEF Emit, Routed
  <2> QED
    BY <1>2, <1>8, <2>1, UnroutedTallies DEF Proper
<1> QED
  BY <1>5, <1>6, <1>7, <1>8 DEF Routed

\* One more alert, which is the latest of its trace.
LEMMA AlertTallies ==
  ASSUME NEW s, Sound(s), NEW t \in 1..s.created, NEW alert \in Alert, alert.trace = t,
         NEW r, r \in Platform, r.created = s.created, Stored(r) = Stored(s),
         r.events = s.events, r.records = s.records, r.alerts = Append(s.alerts, alert),
         \A u \in Stored(s) \ {t} : SameFigures(s, r, u),
         t \in Stored(s) =>
           /\ r.traces[t].tokens = s.traces[t].tokens /\ r.traces[t].cost = s.traces[t].cost
           /\ r.traces[t].risk = alert.score /\ r.traces[t].level = alert.level
  PROVE  Tallies(s, r)
<1> SUFFICES ASSUME Tallied(s) PROVE Tallied(r)
  BY DEF Tallies
<1>1. s \in Platform /\ s.alerts \in Seq(Alert) /\ s.created \in Nat
  BY Fields DEF Sound
<1>2. PICK n \in Nat : n = Len(s.alerts)
  BY <1>1
<1>3. /\ Len(r.alerts) = n + 1 /\ r.alerts[n + 1] = alert
      /\ \A i \in 1..n : r.alerts[i] = s.alerts[i]
      /\ \A i \in 1..(n + 1) : i \in 1..n \/ i = n + 1
      /\ n + 1 \in 1..(n + 1)
  BY <1>1, <1>2
<1>4. \A u \in Stored(s) : r.traces[u].tokens = s.traces[u].tokens
                           /\ r.traces[u].cost = s.traces[u].cost
  BY DEF SameFigures
<1>5. ASSUME NEW u \in Stored(s) PROVE TracePaid(r, u)
  <2>1. TracePaid(s, u)
    BY DEF Tallied
  <2> QED
    BY <1>4, <2>1 DEF TracePaid
<1>6. ASSUME NEW u \in Stored(s) PROVE RiskTold(r, u)
  <2>1. CASE u = t
    <3>1. /\ r.alerts[n + 1].trace = u /\ r.traces[u].risk = r.alerts[n + 1].score
          /\ r.traces[u].level = r.alerts[n + 1].level
      BY <1>3, <2>1
    <3>2. \A m \in 1..(n + 1) : m <= n + 1
      OBVIOUS
    <3> QED
      BY <1>3, <3>1, <3>2 DEF RiskTold
  <2>2. CASE u # t
    <3>1. RiskTold(s, u) /\ SameFigures(s, r, u)
      BY <2>2 DEF Tallied
    <3>2. CASE /\ \A m \in 1..n : s.alerts[m].trace # u
               /\ s.traces[u].risk = 0 /\ s.traces[u].level = "none"
      <4>1. \A m \in 1..(n + 1) : r.alerts[m].trace # u
        BY <1>3, <2>2, <3>2
      <4> QED
        BY <1>3, <3>1, <3>2, <4>1 DEF RiskTold, SameFigures
    <3>3. CASE \E i \in 1..n :
                 /\ s.alerts[i].trace = u
                 /\ \A m \in 1..n : s.alerts[m].trace = u => m <= i
                 /\ s.traces[u].risk = s.alerts[i].score
                 /\ s.traces[u].level = s.alerts[i].level
      <4>1. PICK i \in 1..n : /\ s.alerts[i].trace = u
                              /\ \A m \in 1..n : s.alerts[m].trace = u => m <= i
                              /\ s.traces[u].risk = s.alerts[i].score
                              /\ s.traces[u].level = s.alerts[i].level
        BY <3>3
      <4>2. i \in 1..(n + 1) /\ r.alerts[i] = s.alerts[i]
        BY <1>3
      <4>3. \A m \in 1..(n + 1) : r.alerts[m].trace = u => m <= i
        BY <1>3, <2>2, <4>1
      <4>4. r.traces[u].risk = r.alerts[i].score /\ r.traces[u].level = r.alerts[i].level
        BY <3>1, <4>1, <4>2 DEF SameFigures
      <4> QED
        BY <1>3, <4>1, <4>2, <4>3, <4>4 DEF RiskTold
    <3> QED
      BY <1>2, <3>1, <3>2, <3>3 DEF RiskTold
  <2> QED
    BY <2>1, <2>2
<1>7. TokenList(r) = TokenList(s) /\ CostList(r) = CostList(s)
  BY <1>4 DEF TokenList, CostList
<1>8. \A i \in 1..Len(r.alerts) : r.alerts[i].trace <= r.created
  <2>1. t <= s.created
    OBVIOUS
  <2>2. \A i \in 1..n : s.alerts[i].trace <= s.created
    BY <1>2 DEF Tallied
  <2> QED
    BY <1>3, <2>1, <2>2
<1> QED
  BY <1>5, <1>6, <1>7, <1>8 DEF Tallied

LEMMA AlertProper ==
  ASSUME NEW s, Sound(s), NEW t \in 1..s.created,
         NEW type \in {"prompt_injection", "tool_misuse", "data_leakage"}, NEW points \in Nat,
         NEW r, r = RaiseAlert(s, t, type, points)
  PROVE  Proper(s, r, t)
<1>1. PICK score : score = Min({points, 100})
  OBVIOUS
<1>2. score \in Nat
  <2>1. \E x \in {points, 100} : \A y \in {points, 100} : x <= y
    <3>1. points <= 100 \/ 100 <= points
      OBVIOUS
    <3> QED
      BY <3>1
  <2>2. score \in {points, 100}
    BY <1>1, <2>1 DEF Min
  <2> QED
    BY <2>2
<1>3. PICK level \in Levels : level = ScoreToLevel(score)
  BY DEF ScoreToLevel, Levels
<1> DEFINE alert == [type |-> type, trace |-> t, score |-> score, level |-> level,
                     block |-> score >= 70]
           alerts == Append(s.alerts, alert)
<1>4. s \in Platform /\ s.alerts \in Seq(Alert) /\ t \in Nat
  BY Fields DEF Sound
<1>5. alert \in Alert /\ alert.trace = t /\ alert.score = score /\ alert.level = level
  <2>1. (score >= 70) \in BOOLEAN
    BY <1>2
  <2> QED
    BY <1>2, <1>4, <2>1 DEF Alert
<1>6. PICK raised : raised = [s EXCEPT !.alerts = alerts]
  OBVIOUS
<1>7. r = IF points = 0 \/ t = None THEN s ELSE UpdateRisk(raised, t, score, level)
  BY <1>1, <1>3, <1>6 DEF RaiseAlert
<1> HIDE DEF alert
<1>8. alerts \in Seq(Alert)
  BY <1>4, <1>5
<1> HIDE DEF alerts
<1>9. /\ raised \in Platform /\ raised.created = s.created /\ raised.traces = s.traces
      /\ raised.index = s.index /\ raised.spans = s.spans /\ raised.active = s.active
      /\ raised.events = s.events /\ raised.records = s.records /\ raised.alerts = alerts
  BY <1>4, <1>6, <1>8 DEF Platform
<1>10. Steady(s, raised, t)
  BY <1>9, Besides
<1>11. CASE points = 0 \/ t = None
  BY <1>7, <1>11, ProperRefl
<1>12. CASE ~ (points = 0 \/ t = None)
  <2>1. Sound(raised) /\ Stored(raised) = Stored(s)
    BY <1>9, <1>10 DEF Steady, Works, Stored
  <2>2. r = UpdateRisk(raised, t, score, level)
    BY <1>7, <1>12
  <2>3. /\ Steady(raised, r, t)
        /\ t \in Stored(raised) =>
             Retold(raised, r, t, raised.traces[t].tokens, raised.traces[t].cost, score, level)
        /\ t \notin Stored(raised) => r = raised
    BY <1>2, <2>1, <2>2, RiskSteady
  <2>4. Steady(s, r, t)
    BY <1>10, <2>3, SteadyTrans
  <2>5. /\ r.created = s.created /\ Stored(r) = Stored(s) /\ r.events = s.events
        /\ r.records = s.records /\ r.alerts = Append(s.alerts, alert)
        /\ \A u \in Stored(s) \ {t} : SameFigures(s, r, u)
        /\ t \in Stored(s) =>
             /\ r.traces[t].tokens = s.traces[t].tokens /\ r.traces[t].cost = s.traces[t].cost
             /\ r.traces[t].risk = alert.score /\ r.traces[t].level = alert.level
    <3>1. CASE t \notin Stored(s)
      BY <1>9, <2>1, <2>3, <3>1 DEF SameFigures, alerts
    <3>2. CASE t \in Stored(s)
      <4>1. Retold(raised, r, t, s.traces[t].tokens, s.traces[t].cost, score, level)
        BY <1>9, <2>1, <2>3, <3>2
      <4> QED
        BY <1>5, <1>9, <2>1, <4>1 DEF Retold, SameFigures, alerts
    <3> QED
      BY <3>1, <3>2
  <2>6. r \in Platform
    BY <2>4 DEF Steady, Works, Sound
  <2>7. Tallies(s, r)
    BY <1>5, <2>5, <2>6, AlertTallies
  <2> QED
    BY <2>4, <2>7 DEF Proper
<1> QED
  BY <1>11, <1>12

-----------------------------------------------------------------------------
(* Traces begin. *)

\* An operation that makes traces, and changes none that was there.
Begins(s, r) ==
  /\ Sound(r) /\ r.created > s.created /\ Len(s.spans) <= Len(r.spans)
  /\ \A u \in Stored(s) \cap Stored(r) : Same(s, r, u)
  /\ \A u \in Stored(r) \ Stored(s) : Agreeing(r, u)
  /\ Tallies(s, r)

\* A trace more, without figures, perhaps instead of the oldest.
LEMMA NewTraceTallies ==
  ASSUME NEW s, Sound(s), NEW r, r \in Platform, r.created = s.created + 1,
         r.created \in Stored(r),
         \A u \in Stored(r) \ {r.created} : u \in Stored(s) /\ r.traces[u] = s.traces[u],
         r.events = s.events, r.records = s.records, r.alerts = s.alerts,
         r.traces[r.created].tokens = 0, r.traces[r.created].cost = 0,
         r.traces[r.created].risk = 0, r.traces[r.created].level = "none"
  PROVE  Tallies(s, r)
<1> SUFFICES ASSUME Tallied(s) PROVE Tallied(r)
  BY DEF Tallies
<1>1. /\ s \in Platform /\ s.created \in Nat /\ s.records \in Seq(Record)
      /\ s.alerts \in Seq(Alert)
  BY Fields DEF Sound
<1>2. PICK t \in Nat : t = r.created /\ t = s.created + 1
  BY <1>1
<1>3. ASSUME NEW i \in 1..Len(s.records)
       PROVE  s.records[i].trace \in Nat /\ s.records[i].trace <= s.created
  <2>1. s.records[i] \in Record
    BY <1>1
  <2>2. s.records[i].trace <= s.created
    BY DEF Tallied
  <2> QED
    BY <2>1, <2>2 DEF Record
<1>4. ASSUME NEW i \in 1..Len(s.alerts)
       PROVE  s.alerts[i].trace \in Nat /\ s.alerts[i].trace <= s.created
  <2>1. s.alerts[i] \in Alert
    BY <1>1
  <2>2. s.alerts[i].trace <= s.created
    BY DEF Tallied
  <2> QED
    BY <2>1, <2>2 DEF Alert
<1>5. ASSUME NEW u \in Stored(r) PROVE TracePaid(r, u) /\ RiskTold(r, u)
  <2>1. CASE u = t
    <3>1. \A i \in 1..Len(s.records) : s.records[i].trace # t
      BY <1>1, <1>2, <1>3
    <3>2. \A i \in 1..Len(s.alerts) : s.alerts[i].trace # t
      BY <1>1, <1>2, <1>4
    <3>3. /\ SumOf(CallTokens(t), s.records) = 0 /\ SumOf(CallCosts(t), s.records) = 0
          /\ SumOf(PaidFor(t), s.records) = 0
      BY <1>1, <3>1, NothingBooked
    <3>4. TracePaid(r, u)
      BY <1>2, <2>1, <3>3 DEF TracePaid
    <3>5. RiskTold(r, u)
      BY <1>2, <2>1, <3>2 DEF RiskTold
    <3> QED
      BY <3>4, <3>5
  <2>2. CASE u # t
    <3>1. u \in Stored(s) /\ r.traces[u] = s.traces[u]
      BY <1>2, <2>2
    <3>2. TracePaid(s, u) /\ RiskTold(s, u)
      BY <3>1 DEF Tallied
    <3> QED
      BY <3>1, <3>2 DEF TracePaid, RiskTold
  <2> QED
    BY <2>1, <2>2
<1>6. ASSUME NEW n \in Nat, NEW a \in Seq(Int), Len(a) = n, NEW b \in Seq(Int), Len(b) = n + 1,
             b[n + 1] = 0, \A u \in 1..n : b[u] <= a[u]
      PROVE  SumList(b) <= SumList(a)
  <2> DEFINE c == [u \in 1..n |-> b[u]]
             d == Append(c, 0)
  <2>1. \A u \in 1..n : b[u] \in Int
    BY <1>6
  <2>2. c \in Seq(Int) /\ Len(c) = n /\ \A u \in 1..n : c[u] = b[u]
    BY <2>1
  <2> HIDE DEF c
  <2>3. d \in Seq(Int) /\ Len(d) = n + 1 /\ d[n + 1] = 0 /\ \A u \in 1..n : d[u] = c[u]
    BY <2>2
  <2>4. SumList(d) = SumList(c) + 0 /\ SumList(c) \in Int /\ SumList(a) \in Int
    BY <1>6, <2>2, SumAppend, SumType
  <2> HIDE DEF d
  <2>5. SumList(c) <= SumList(a)
    BY <1>6, <2>2, SumSmaller
  <2>6. SumList(b) = SumList(d) + 0
    <3>1. \A u \in 1..(n + 1) : b[u] = d[u]
      <4>1. \A u \in 1..(n + 1) : u \in 1..n \/ u = n + 1
        OBVIOUS
      <4> QED
        BY <1>6, <2>2, <2>3, <4>1
    <3>2. PICK i \in 1..Len(d) : b[i] = d[i] + 0
      BY <1>6, <2>3
    <3>3. d \in Seq(Int) /\ Len(b) = Len(d) /\ \A u \in 1..Len(d) : u # i => b[u] = d[u]
      BY <1>6, <2>3, <3>1
    <3> QED
      BY <3>2, <3>3, SumChanged
  <2> QED
    BY <2>4, <2>5, <2>6
<1>7. /\ TokenList(s) \in Seq(Int) /\ Len(TokenList(s)) = s.created
      /\ CostList(s) \in Seq(Int) /\ Len(CostList(s)) = s.created
      /\ TokenList(r) \in Seq(Int) /\ Len(TokenList(r)) = s.created + 1
      /\ CostList(r) \in Seq(Int) /\ Len(CostList(r)) = s.created + 1
  BY ListTypes, <1>1
<1>8. TokenList(r)[s.created + 1] = 0 /\ CostList(r)[s.created + 1] = 0
  BY <1>1, <1>2 DEF TokenList, CostList
<1>9. ASSUME NEW u \in 1..s.created
      PROVE  TokenList(r)[u] <= TokenList(s)[u] /\ CostList(r)[u] <= CostList(s)[u]
  <2>1. u \in 1..r.created /\ u # r.created
    BY <1>1
  <2>2. CASE u \in Stored(r)
    <3>1. u \in Stored(s) /\ r.traces[u] = s.traces[u]
      BY <2>1, <2>2
    <3>2. s.traces[u].tokens \in Int /\ s.traces[u].cost \in Int
      BY <1>1, <3>1, TraceFields
    <3> QED
      BY <2>1, <2>2, <3>1, <3>2 DEF TokenList, CostList
  <2>3. CASE u \notin Stored(r)
    <3>1. TokenList(r)[u] = 0 /\ CostList(r)[u] = 0
      BY <2>1, <2>3 DEF TokenList, CostList
    <3>2. CASE u \in Stored(s)
      <4>1. /\ s.traces[u].tokens >= 0 /\ s.traces[u].cost >= 0
            /\ s.traces[u].tokens \in Int /\ s.traces[u].cost \in Int
        BY <1>1, <3>2, TraceFields DEF Tallied, TracePaid
      <4>2. TokenList(s)[u] = s.traces[u].tokens /\ CostList(s)[u] = s.traces[u].cost
        BY <3>2 DEF TokenList, CostList
      <4> QED
        BY <3>1, <4>1, <4>2
    <3>3. CASE u \notin Stored(s)
      <4>1. TokenList(s)[u] = 0 /\ CostList(s)[u] = 0
        BY <3>3 DEF TokenList, CostList
      <4> QED
        BY <3>1, <4>1
    <3> QED
      BY <3>2, <3>3
  <2> QED
    BY <2>2, <2>3
<1>10. /\ SumList(TokenList(r)) <= SumList(TokenList(s))
      /\ SumList(CostList(r)) <= SumList(CostList(s))
  BY <1>1, <1>6, <1>7, <1>8, <1>9
<1>11. /\ SumList(TokenList(r)) <= SumOf(AllTokens, r.records)
      /\ SumList(CostList(r)) <= SumOf(AllPaid, r.records)
  <2>1. /\ SumOf(AllTokens, s.records) \in Int /\ SumOf(AllPaid, s.records) \in Int
        /\ SumList(TokenList(s)) <= SumOf(AllTokens, s.records)
        /\ SumList(CostList(s)) <= SumOf(AllPaid, s.records)
    BY <1>1, AllTypes DEF Tallied
  <2>2. /\ SumList(TokenList(s)) \in Int /\ SumList(CostList(s)) \in Int
        /\ SumList(TokenList(r)) \in Int /\ SumList(CostList(r)) \in Int
    BY <1>1, ListTypes
  <2> QED
    BY <1>10, <2>1, <2>2
<1>12. /\ \A i \in 1..Len(r.records) : r.records[i].trace <= r.created
       /\ \A i \in 1..Len(r.alerts) : r.alerts[i].trace <= r.created
  <2>1. ASSUME NEW x \in Nat, x <= s.created PROVE x <= r.created
    BY <1>1, <2>1
  <2> QED
    BY <1>3, <1>4, <2>1
<1>13. \A type \in Routed : SumOf(EventsOf(type), r.events) = SumOf(RecordsOf(type), r.records)
  BY DEF Tallied
<1> QED
  BY <1>5, <1>11, <1>12, <1>13 DEF Tallied

LEMMA BeginsNext ==
  ASSUME NEW s, Sound(s), NEW tenant \in Tenants, NEW agent \in Agents \cup {None},
         NEW r, r = StartTrace(s, tenant, agent)
  PROVE  /\ Begins(s, r) /\ r.created = s.created + 1
         /\ \A i \in 1..Len(s.spans) : r.spans[i] = s.spans[i]
<1> DEFINE t == s.created + 1
           id == Len(s.spans) + 1
           span == [trace |-> t, type |-> "agent", model |-> None, status |-> "running"]
           spans == Append(s.spans, span)
           active == s.active \cup {id}
           record == [tenant |-> tenant, agent |-> agent, spans |-> <<id>>,
                      status |-> "running", ended |-> FALSE, errors |-> 0,
                      tokens |-> 0, cost |-> 0, risk |-> 0, level |-> "none"]
<1>1. /\ s \in Platform /\ s.spans \in Seq(Span) /\ s.active \in SUBSET (1..Len(s.spans))
      /\ Len(s.spans) \in Nat /\ s.created \in Nat /\ t \in Nat /\ MaxTraces \in Nat \ {0}
  BY Fields, ObservabilityAssumption DEF Sound
<1>2. span \in Span /\ span.trace = t /\ span.status = "running"
  BY <1>1 DEF Span, Statuses, Kinds
<1> HIDE DEF span
<1>3. /\ spans \in Seq(Span) /\ Len(spans) = id /\ spans[id] = span
      /\ \A i \in 1..Len(s.spans) : spans[i] = s.spans[i]
  BY <1>1, <1>2
<1>4. active \in SUBSET Nat /\ active \subseteq 1..id
  BY <1>1
<1>5. Stored(s) = Newest(s.created) /\ t \notin Stored(s)
  BY <1>1 DEF Sound, Newest
<1>6. PICK root : root = [s EXCEPT !.created = t, !.spans = spans, !.active = active]
  OBVIOUS
<1> HIDE DEF spans, active, t
<1>7. /\ root \in Platform /\ root.spans = spans /\ root.active = active
      /\ root.created = t /\ root.traces = s.traces /\ root.index = s.index
      /\ root.events = s.events /\ root.records = s.records /\ root.alerts = s.alerts
  BY <1>1, <1>3, <1>4, <1>6 DEF Platform
<1>8. r = SaveTrace(root, t, record)
  <2>1. PICK numbered : numbered = [s EXCEPT !.created = t]
    OBVIOUS
  <2>2. /\ numbered.spans = s.spans /\ numbered.active = s.active
        /\ numbered.traces = s.traces /\ numbered.created = t
    BY <1>1, <2>1 DEF Platform
  <2>3. root = [numbered EXCEPT !.spans = spans, !.active = active]
    BY <1>6, <2>1
  <2>4. StartSpan(numbered, t, "agent", None) = root
    BY <1>5, <2>2, <2>3 DEF StartSpan, Stored, span, spans, active
  <2>5. Len(root.spans) = id
    BY <1>3, <1>7
  <2> QED
    BY <2>1, <2>4, <2>5 DEF StartTrace, t
<1>9. /\ record \in Trace /\ record.tenant = tenant /\ record.agent = agent
      /\ record.spans = <<id>> /\ record.ended = FALSE /\ record.status = "running"
      /\ record.tokens = 0 /\ record.cost = 0 /\ record.risk = 0 /\ record.level = "none"
  <2>1. <<id>> \in Seq(Nat)
    BY <1>1
  <2> QED
    BY <2>1 DEF Trace, Statuses, Levels
<1> HIDE DEF record
<1>10. /\ r \in Platform /\ Stored(r) = Newest(t) /\ r.traces[t] = record
       /\ \A u \in Stored(r) \ {t} : u \in Stored(s) /\ r.traces[u] = s.traces[u]
       /\ \A k \in Tenants \cup Agents :
            r.index[k] = IF k \in {tenant, agent} \ {None} /\ ~ Contains(s.index[k], t)
                         THEN Append(s.index[k], t) ELSE s.index[k]
       /\ r.created = t /\ r.spans = spans /\ r.active = active
       /\ r.events = s.events /\ r.records = s.records /\ r.alerts = s.alerts
  <2>1. t \in Nat \ {0} /\ t - 1 = s.created
    BY <1>1 DEF t
  <2>2. Stored(root) = Stored(s)
    BY <1>7 DEF Stored
  <2>3. Stored(root) = Newest(root.created - 1) /\ root.created \in Nat \ {0}
    BY <1>5, <1>7, <2>1, <2>2
  <2>4. /\ r \in Platform /\ Stored(r) = Newest(t) /\ r.traces[t] = record
        /\ \A u \in Stored(r) \ {t} : u \in Stored(root) /\ r.traces[u] = root.traces[u]
        /\ \A k \in Tenants \cup Agents :
             r.index[k] = IF k \in {record.tenant, record.agent} \ {None}
                               /\ ~ Contains(root.index[k], t)
                          THEN Append(root.index[k], t) ELSE root.index[k]
        /\ r.created = root.created /\ r.spans = root.spans /\ r.active = root.active
        /\ r.events = root.events /\ r.records = root.records /\ r.alerts = root.alerts
    BY <1>7, <1>8, <1>9, <2>3, SaveNext
  <2> QED
    BY <1>7, <1>9, <2>2, <2>4
<1>11. s.index \in [Tenants \cup Agents -> Seq(Nat)]
  BY <1>1, Fields DEF Index
<1>12. ASSUME NEW k \in Tenants \cup Agents
       PROVE  /\ \A i, j \in 1..Len(r.index[k]) : r.index[k][i] = r.index[k][j] => i = j
              /\ \A i \in 1..Len(s.index[k]) :
                   i \in 1..Len(r.index[k]) /\ r.index[k][i] = s.index[k][i]
              /\ k \in {tenant, agent} \ {None} => \E i \in 1..Len(r.index[k]) : r.index[k][i] = t
  <2>1. PICK old \in Seq(Nat) : old = s.index[k]
    BY <1>11
  <2>2. \A i, j \in 1..Len(old) : old[i] = old[j] => i = j
    BY <2>1 DEF Sound
  <2>3. CASE k \in {tenant, agent} \ {None} /\ ~ Contains(old, t)
    <3>1. r.index[k] = Append(old, t)
      BY <1>10, <2>1, <2>3
    <3>2. \A i \in 1..Len(old) : old[i] # t
      BY <2>3 DEF Contains
    <3>3. Len(r.index[k]) = Len(old) + 1 /\ r.index[k][Len(old) + 1] = t
          /\ \A i \in 1..Len(old) : r.index[k][i] = old[i]
      BY <1>1, <2>1, <3>1
    <3>4. Len(old) \in Nat
      OBVIOUS
    <3>5. \A i \in 1..Len(r.index[k]) : i \in 1..Len(old) \/ i = Len(old) + 1
      BY <3>3, <3>4
    <3>6. \A i, j \in 1..Len(r.index[k]) : r.index[k][i] = r.index[k][j] => i = j
      BY <2>2, <3>2, <3>3, <3>5
    <3>7. Len(old) + 1 \in 1..Len(r.index[k])
          /\ \A i \in 1..Len(old) : i \in 1..Len(r.index[k])
      BY <3>3, <3>4
    <3> QED
      BY <2>1, <3>3, <3>6, <3>7
  <2>4. CASE ~ (k \in {tenant, agent} \ {None} /\ ~ Contains(old, t))
    <3>1. r.index[k] = old
      BY <1>10, <2>1, <2>4
    <3> QED
      BY <2>1, <2>2, <2>4, <3>1 DEF Contains
  <2> QED
    BY <2>3, <2>4
<1>13. OwnSpans(r, t) /\ Indexed(r, t)
  <2>1. Len(<<id>>) = 1 /\ <<id>>[1] = id /\ id \in 1..id
    BY <1>1
  <2>2. OwnSpans(r, t)
    BY <1>2, <1>3, <1>9, <1>10, <2>1 DEF OwnSpans
  <2> QED
    BY <1>9, <1>10, <1>12, <2>2 DEF Indexed
<1>14. ASSUME NEW u \in Stored(r) \ {t} PROVE OwnSpans(r, u) /\ Indexed(r, u) /\ Same(s, r, u)
  <2>1. u \in Stored(s) /\ r.traces[u] = s.traces[u] /\ OwnSpans(s, u) /\ Indexed(s, u)
    BY <1>10 DEF Sound
  <2>2. OwnSpans(r, u)
    <3>1. r.traces[u].spans = s.traces[u].spans /\ Len(r.spans) \in Nat
          /\ Len(s.spans) <= Len(r.spans)
          /\ \A i \in 1..Len(s.spans) : r.spans[i].trace = s.spans[i].trace
      BY <1>1, <1>3, <1>10, <2>1
    <3> QED
      BY <1>1, <2>1, <3>1, OwnKept
  <2>3. Indexed(r, u)
    <3> SUFFICES ASSUME NEW k \in {s.traces[u].tenant, s.traces[u].agent} \ {None}
                 PROVE  \E i \in 1..Len(r.index[k]) : r.index[k][i] = u
      BY <2>1 DEF Indexed
    <3>1. k \in Tenants \cup Agents
      BY <1>1, <2>1, TraceFields
    <3>2. PICK i \in 1..Len(s.index[k]) : s.index[k][i] = u
      BY <2>1 DEF Indexed
    <3> QED
      BY <1>12, <3>1, <3>2
  <2>4. Same(s, r, u)
    <3> SUFFICES ASSUME NEW n \in 1..Len(s.traces[u].spans)
                 PROVE  LET i == s.traces[u].spans[n]
                        IN  r.spans[i] = s.spans[i] /\ (i \in r.active <=> i \in s.active)
      BY <2>1 DEF Same
    <3>1. PICK i \in 1..Len(s.spans) : i = s.traces[u].spans[n]
      BY <2>1 DEF OwnSpans
    <3>2. r.spans[i] = s.spans[i] /\ i # id
      BY SMTT(30), <1>1, <1>3, <1>10
    <3>3. i \in r.active <=> i \in s.active
      BY <1>10, <3>2 DEF active
    <3> QED
      BY <3>1, <3>2, <3>3
  <2> QED
    BY <2>2, <2>3, <2>4
<1>15. Sound(r)
  BY <1>3, <1>4, <1>10, <1>12, <1>13, <1>14 DEF Sound
<1>16. Agreeing(r, t)
  <2>1. Len(<<id>>) = 1 /\ <<id>>[1] = id /\ id \in active
    BY DEF active
  <2> QED
    BY <1>2, <1>3, <1>9, <1>10, <2>1 DEF Agreeing
<1>17. /\ r.created = s.created + 1 /\ r.created > s.created
       /\ Len(s.spans) <= Len(r.spans)
       /\ \A i \in 1..Len(s.spans) : r.spans[i] = s.spans[i]
  BY <1>1, <1>3, <1>10 DEF t
<1>18. \A u \in Stored(r) \ Stored(s) : u = t
  BY <1>10
<1>19. Tallies(s, r)
  <2>1. t \in Newest(t)
    BY <1>1 DEF Newest, t
  <2>2. /\ r.created \in Stored(r)
        /\ r.traces[r.created].tokens = 0 /\ r.traces[r.created].cost = 0
        /\ r.traces[r.created].risk = 0 /\ r.traces[r.created].level = "none"
    BY <1>9, <1>10, <2>1
  <2> QED
    BY <1>10, <1>17, <2>2, NewTraceTallies
<1> QED
  BY <1>5, <1>14, <1>15, <1>16, <1>17, <1>18, <1>19 DEF Begins

LEMMA SameTrans ==
  ASSUME NEW s, NEW q, NEW r, NEW t, Same(s, q, t), Same(q, r, t)
  PROVE  Same(s, r, t)
BY DEF Same

LEMMA SameAgrees ==
  ASSUME NEW s, NEW r, NEW t, Same(s, r, t), Agreeing(s, t)
  PROVE  Agreeing(r, t)
BY DEF Same, Agreeing

\* What follows on the trace made last still only makes traces.
LEMMA BeginsProper ==
  ASSUME NEW s, Sound(s), NEW q, Begins(s, q), NEW r, Proper(q, r, q.created)
  PROVE  Begins(s, r) /\ r.created = q.created
<1>0. Steady(q, r, q.created) /\ Tallies(s, r)
  BY DEF Begins, Proper, Tallies
<1>1. /\ Len(s.spans) \in Nat /\ Len(q.spans) \in Nat /\ Len(r.spans) \in Nat
      /\ s.created \in Nat /\ q.created \in Nat
  BY <1>0, Fields DEF Sound, Works, Steady, Begins
<1>2. Stored(r) = Stored(q) /\ r.created = q.created /\ q.created \notin Stored(s)
  BY <1>0, <1>1 DEF Sound, Works, Steady, Begins, Newest
<1>3. ASSUME NEW u \in Stored(s) \cap Stored(r) PROVE Same(s, r, u)
  <2>1. Same(s, q, u) /\ Same(q, r, u)
    BY <1>0, <1>2 DEF Begins, Steady, Works
  <2> QED
    BY <2>1, SameTrans
<1>4. ASSUME NEW u \in Stored(r) \ Stored(s) PROVE Agreeing(r, u)
  <2>1. Agreeing(q, u)
    BY <1>2 DEF Begins
  <2>2. CASE u = q.created
    BY <1>0, <1>2, <2>1, <2>2 DEF Steady
  <2>3. CASE u # q.created
    <3>1. Same(q, r, u)
      BY <1>0, <1>2, <2>3 DEF Steady, Works
    <3> QED
      BY <2>1, <3>1, SameAgrees
  <2> QED
    BY <2>2, <2>3
<1> QED
  BY <1>0, <1>1, <1>2, <1>3, <1>4 DEF Begins, Steady, Works

LEMMA BeginsTwice ==
  ASSUME NEW s, Sound(s), NEW q, Begins(s, q), NEW r, Begins(q, r)
  PROVE  Begins(s, r)
<1>1. /\ Len(s.spans) \in Nat /\ Len(q.spans) \in Nat /\ Len(r.spans) \in Nat
      /\ s.created \in Nat /\ q.created \in Nat /\ r.created \in Nat /\ MaxTraces \in Nat \ {0}
  BY Fields, ObservabilityAssumption DEF Sound, Begins
<1>2. /\ Stored(s) = Newest(s.created) /\ Stored(q) = Newest(q.created)
      /\ Stored(r) = Newest(r.created) /\ r.created > q.created /\ q.created > s.created
  BY DEF Sound, Begins
<1>3. Stored(s) \cap Stored(r) \subseteq Stored(q)
  BY <1>1, <1>2 DEF Newest
<1>4. ASSUME NEW u \in Stored(s) \cap Stored(r) PROVE Same(s, r, u)
  BY <1>3, SameTrans DEF Begins
<1>5. ASSUME NEW u \in Stored(r) \ Stored(s) PROVE Agreeing(r, u)
  <2>1. CASE u \in Stored(q)
    BY <2>1, SameAgrees DEF Begins
  <2>2. CASE u \notin Stored(q)
    BY <2>2 DEF Begins
  <2> QED
    BY <2>1, <2>2
<1>6. Tallies(s, r)
  BY DEF Begins, Tallies
<1> QED
  BY <1>1, <1>2, <1>4, <1>5, <1>6 DEF Begins

-----------------------------------------------------------------------------
(* Replays. *)

\* One span of the original, opened and closed again in trace t.
Copy(s, t, newModel, acc, id) ==
  LET span  == s.spans[id]
      model == IF newModel # None /\ span.type = "llm" THEN newModel ELSE span.model
      open  == StartSpan(acc, t, span.type, model)
  IN  EndSpan(open, Len(open.spans), span.status)

LEMMA CopyWorks ==
  ASSUME NEW s, Sound(s), NEW id \in 1..Len(s.spans), NEW t \in Nat,
         NEW newModel \in Models \cup {None}, NEW acc, Sound(acc),
         NEW r, r = Copy(s, t, newModel, acc, id)
  PROVE  Works(acc, r, t) /\ Calm(acc, r)
<1>1. s.spans \in Seq(Span)
  BY Fields DEF Sound
<1>2. PICK span \in Span : span = s.spans[id]
  BY <1>1
<1>3. PICK model \in Models \cup {None} :
        model = IF newModel # None /\ span.type = "llm" THEN newModel ELSE span.model
  BY DEF Span
<1>4. span.type \in Kinds /\ span.status \in Statuses
  BY DEF Span
<1>5. PICK open : open = StartSpan(acc, t, span.type, model)
  OBVIOUS
<1>6. Works(acc, open, t) /\ Calm(acc, open) /\ Len(open.spans) = Len(acc.spans) + 1
      /\ open.spans[Len(open.spans)].trace = t
  BY <1>4, <1>5, OpenSpan DEF Steady
<1>7. Sound(open) /\ Len(acc.spans) \in Nat /\ Len(open.spans) \in Nat
  BY <1>6, Fields DEF Works, Sound
<1>8. PICK last \in 1..Len(open.spans) : last = Len(open.spans)
  BY <1>6, <1>7
<1>9. r = EndSpan(open, last, span.status)
  BY <1>2, <1>3, <1>5, <1>8 DEF Copy
<1>10. Works(open, r, t) /\ Calm(open, r)
  BY <1>4, <1>6, <1>7, <1>8, <1>9, CloseSpan
<1> QED
  BY <1>6, <1>10, WorksTrans, CalmTrans

\* f holds the platforms between the copies.
Copying(f, k, s, t, newModel, ids) ==
  /\ DOMAIN f = 0..k /\ f[0] = s
  /\ \A n \in 1..k : f[n] = Copy(s, t, newModel, f[n - 1], ids[n])

LEMMA CopyingExists ==
  ASSUME NEW s, NEW t, NEW newModel, NEW ids, NEW k \in Nat
  PROVE  \E f : Copying(f, k, s, t, newModel, ids)
<1> DEFINE C(f, n) == Copying(f, n, s, t, newModel, ids)
           bad == {n \in Nat : ~ \E f : C(f, n)}
<1>1. CASE bad = {}
  BY <1>1
<1>2. CASE bad # {}
  <2>1. PICK n \in bad : \A m \in bad : n <= m
    <3>1. bad \in SUBSET Nat
      OBVIOUS
    <3> HIDE DEF bad
    <3> QED
      BY <1>2, <3>1, LeastMember
  <2>2. CASE n = 0
    <3>1. C([m \in 0..0 |-> s], 0)
      BY DEF Copying
    <3> QED
      BY <2>1, <2>2, <3>1
  <2>3. CASE n # 0
    <3>1. n \in Nat /\ n - 1 \in Nat /\ ~ (n <= n - 1)
      BY <2>1, <2>3
    <3>2. n - 1 \notin bad
      <4> HIDE DEF bad
      <4> QED
        BY <2>1, <3>1
    <3>3. PICK f : C(f, n - 1)
      BY <3>1, <3>2
    <3> DEFINE next == Copy(s, t, newModel, f[n - 1], ids[n])
    <3> HIDE DEF next
    <3> DEFINE g == [m \in 0..n |-> IF m = n THEN next ELSE f[m]]
    <3>4. g[0] = f[0] /\ g[n] = next
      BY <2>3, <3>1
    <3>5. ASSUME NEW m \in 1..n PROVE g[m] = Copy(s, t, newModel, g[m - 1], ids[m])
      <4>1. m \in 0..n /\ m - 1 \in 0..n /\ m - 1 # n
        BY <3>1
      <4>2. g[m - 1] = f[m - 1]
        BY <4>1
      <4>3. CASE m = n
        BY <3>4, <4>2, <4>3 DEF next
      <4>4. CASE m # n
        <5>1. m \in 1..(n - 1) /\ g[m] = f[m]
          BY <3>1, <4>1, <4>4
        <5>2. f[m] = Copy(s, t, newModel, f[m - 1], ids[m])
          BY <3>3, <5>1 DEF Copying
        <5> QED
          BY <4>2, <5>1, <5>2
      <4> QED
        BY <4>3, <4>4
    <3>6. DOMAIN g = 0..n /\ f[0] = s
      BY <3>3 DEF Copying
    <3> HIDE DEF g
    <3>7. C(g, n)
      BY <3>4, <3>5, <3>6 DEF Copying
    <3> QED
      BY <2>1, <3>7
  <2> QED
    BY <2>2, <2>3
<1> QED
  BY <1>1, <1>2

LEMMA CopyingWorks ==
  ASSUME NEW s, Sound(s), NEW t \in Nat, NEW newModel \in Models \cup {None},
         NEW k \in Nat, NEW ids \in [1..k -> 1..Len(s.spans)],
         NEW f, Copying(f, k, s, t, newModel, ids)
  PROVE  Works(s, f[k], t) /\ Calm(s, f[k])
<1> DEFINE bad == {n \in 0..k : ~ (Works(s, f[n], t) /\ Calm(s, f[n]))}
<1>1. CASE bad = {}
  <2>1. k \in 0..k
    OBVIOUS
  <2> QED
    BY <1>1, <2>1
<1>2. CASE bad # {}
  <2>1. PICK n \in bad : \A m \in bad : n <= m
    <3>1. bad \in SUBSET Nat
      OBVIOUS
    <3> HIDE DEF bad
    <3> QED
      BY <1>2, <3>1, LeastMember
  <2>2. Works(s, f[0], t) /\ Calm(s, f[0])
    BY SteadyRefl, CalmRefl DEF Copying, Steady
  <2>3. n # 0
    BY <2>1, <2>2
  <2>4. n \in 1..k /\ n - 1 \in 0..k /\ ~ (n <= n - 1)
    BY <2>1, <2>3
  <2>5. n - 1 \notin bad
    <3> HIDE DEF bad
    <3> QED
      BY <2>1, <2>4
  <2>6. Works(s, f[n - 1], t) /\ Calm(s, f[n - 1])
    BY <2>4, <2>5
  <2>7. PICK acc : acc = f[n - 1]
    OBVIOUS
  <2>8. PICK id \in 1..Len(s.spans) : id = ids[n]
    BY <2>4
  <2>9. f[n] = Copy(s, t, newModel, acc, id)
    BY <2>4, <2>7, <2>8 DEF Copying
  <2>10. Works(acc, f[n], t) /\ Calm(acc, f[n])
    <3>1. Sound(acc)
      BY <2>6, <2>7 DEF Works
    <3>2. PICK r : r = f[n]
      OBVIOUS
    <3>3. r = Copy(s, t, newModel, acc, id)
      BY <2>9, <3>2
    <3>4. Works(acc, r, t) /\ Calm(acc, r)
      BY <3>1, <3>3, CopyWorks
    <3> QED
      BY <3>2, <3>4
  <2> QED
    BY <2>1, <2>6, <2>7, <2>10, WorksTrans, CalmTrans
<1> QED
  BY <1>1, <1>2

LEMMA ReplaySteady ==
  ASSUME NEW s, Sound(s), NEW t \in Nat, NEW original,
         original.spans \in Seq(1..Len(s.spans)), original.status \in Statuses,
         NEW newModel \in Models \cup {None}, NEW r, r = ReplaySpans(s, t, original, newModel)
  PROVE  Steady(s, r, t) /\ Calm(s, r)
<1> DEFINE L == Len(original.spans)
           done == CHOOSE f : f = [n \in 0..L |->
                     IF n = 0 THEN s ELSE Copy(s, t, newModel, f[n - 1], original.spans[n])]
<1>1. L \in Nat /\ original.spans \in [1..L -> 1..Len(s.spans)]
  OBVIOUS
<1>2. r = EndTrace(done[L], t, original.status)
  BY DEF ReplaySpans, Copy
<1> HIDE DEF L
<1>3. PICK f : Copying(f, L, s, t, newModel, original.spans)
  BY <1>1, CopyingExists
<1>4. \E g : g = [n \in 0..L |->
                    IF n = 0 THEN s ELSE Copy(s, t, newModel, g[n - 1], original.spans[n])]
  <2> DEFINE g == [n \in 0..L |-> f[n]]
  <2>1. \A n \in 0..L : n # 0 => n \in 1..L /\ n - 1 \in 0..L
    BY <1>1
  <2>2. \A n \in 0..L : g[n] = f[n]
    OBVIOUS
  <2>3. f[0] = s /\ \A n \in 1..L :
                      f[n] = Copy(s, t, newModel, f[n - 1], original.spans[n])
    BY <1>3 DEF Copying
  <2>4. g = [n \in 0..L |-> g[n]]
    OBVIOUS
  <2> HIDE DEF g
  <2>5. \A n \in 0..L :
          g[n] = IF n = 0 THEN s ELSE Copy(s, t, newModel, g[n - 1], original.spans[n])
    BY <2>1, <2>2, <2>3
  <2>6. g = [n \in 0..L |->
               IF n = 0 THEN s ELSE Copy(s, t, newModel, g[n - 1], original.spans[n])]
    BY <2>4, <2>5, Zenon
  <2> QED
    BY <2>6
<1>5. done = [n \in 0..L |->
                IF n = 0 THEN s ELSE Copy(s, t, newModel, done[n - 1], original.spans[n])]
  BY <1>4
<1> HIDE DEF done
<1>6. Copying(done, L, s, t, newModel, original.spans)
  <2>1. DOMAIN done = 0..L
    BY <1>5, Zenon
  <2>2. \A n \in 0..L :
          done[n] = IF n = 0 THEN s ELSE Copy(s, t, newModel, done[n - 1], original.spans[n])
    BY <1>5, Zenon
  <2>3. 0 \in 0..L /\ \A n \in 1..L : n \in 0..L /\ n # 0
    BY <1>1
  <2>4. done[0] = s
        /\ \A n \in 1..L : done[n] = Copy(s, t, newModel, done[n - 1], original.spans[n])
    BY <2>2, <2>3, Zenon
  <2> QED
    BY <2>1, <2>4 DEF Copying
<1>7. PICK q : q = done[L]
  OBVIOUS
<1>8. Works(s, q, t) /\ Calm(s, q)
  BY <1>1, <1>6, <1>7, CopyingWorks
<1>9. Works(q, r, t) /\ Calm(q, r) /\ (t \in Stored(q) => Agreeing(r, t))
  <2>1. Sound(q)
    BY <1>8 DEF Works
  <2>2. r = EndTrace(q, t, original.status)
    BY <1>2, <1>7
  <2> QED
    BY <2>1, <2>2, CloseTrace
<1>10. Stored(q) = Stored(s)
  BY <1>8 DEF Works, Sound
<1> QED
  BY <1>8, <1>9, <1>10, WorksTrans, CalmTrans DEF Steady

\* What a request makes of the platform.
Serves(s, r) == (\E t : Proper(s, r, t)) \/ Begins(s, r)

LEMMA ReplayServes ==
  ASSUME NEW s, Sound(s), NEW t, NEW tenant \in Tenants \cup {None},
         NEW newModel \in Models \cup {None}, NEW r,
         \/ r = DebugReplay(s, t, tenant, newModel)
         \/ r = ExactReplay(s, t, tenant)
  PROVE  /\ Serves(s, r)
         /\ t \in Stored(s) => Begins(s, r)
<1>1. CASE t \notin Stored(s)
  <2>1. r = s
    BY <1>1 DEF DebugReplay, ExactReplay
  <2> QED
    BY <1>1, <2>1, ProperRefl DEF Serves
<1>2. CASE t \in Stored(s)
  <2>1. PICK original \in Trace : original = s.traces[t]
    BY <1>2, TraceFields DEF Sound
  <2>2. /\ original.tenant \in Tenants /\ original.agent \in Agents \cup {None}
        /\ original.spans \in Seq(Nat) /\ original.status \in Statuses
    BY DEF Trace
  <2>3. PICK begun : begun = StartTrace(s, IF tenant = None THEN original.tenant ELSE tenant,
                                        original.agent)
    OBVIOUS
  <2>4. PICK model \in Models \cup {None} : r = ReplaySpans(begun, begun.created, original, model)
    BY <1>2, <2>1, <2>3 DEF DebugReplay, ExactReplay
  <2>5. Begins(s, begun)
    <3>1. PICK owner \in Tenants : owner = IF tenant = None THEN original.tenant ELSE tenant
      BY <2>2
    <3> QED
      BY <2>2, <2>3, <3>1, BeginsNext
  <2>6. Sound(begun) /\ begun.created \in Nat /\ Len(s.spans) \in Nat
        /\ Len(begun.spans) \in Nat /\ Len(s.spans) <= Len(begun.spans)
    BY <2>5, Fields DEF Begins, Sound
  <2>7. original.spans \in Seq(1..Len(begun.spans))
    <3>1. OwnSpans(s, t)
      BY <1>2 DEF Sound
    <3>2. \A n \in 1..Len(original.spans) : original.spans[n] \in 1..Len(s.spans)
      BY <2>1, <3>1 DEF OwnSpans
    <3>3. \A n \in 1..Len(original.spans) : original.spans[n] \in 1..Len(begun.spans)
      BY <2>6, <3>2
    <3> QED
      BY <2>2, <3>3
  <2>8. Proper(begun, r, begun.created)
    BY <2>2, <2>4, <2>6, <2>7, ReplaySteady, CalmProper
  <2>9. Begins(s, r)
    BY <2>5, <2>8, BeginsProper
  <2> QED
    BY <2>9 DEF Serves
<1> QED
  BY <1>1, <1>2

-----------------------------------------------------------------------------
(* The demo routes work on the trace they made last. *)

LEMMA EventIs ==
  ASSUME NEW type \in EventType, NEW t \in Nat, NEW tenant \in Tenants,
         NEW model \in Models \cup {None}, NEW prompt \in Int, NEW completion \in Int
  PROVE  Event(type, t, tenant, model, prompt, completion) \in EventRecord
         /\ Event(type, t, tenant, model, prompt, completion).trace = t
         /\ Event(type, t, tenant, model, prompt, completion).prompt = prompt
         /\ Event(type, t, tenant, model, prompt, completion).completion = completion
BY DEF Event, EventRecord

LEMMA DemoSpanProper ==
  ASSUME NEW s, Sound(s), s.created # 0, NEW type \in Kinds,
         NEW event, event \in Routed \/ event = None, NEW tenant \in Tenants, NEW model \in Models \cup {None}, NEW tokens \in Nat,
         NEW r, r = DemoSpan(s, type, event, tenant, model, tokens)
  PROVE  Proper(s, r, s.created)
<1>1. PICK t \in Nat : t = s.created
  BY Fields DEF Sound
<1>2. PICK open : open = StartSpan(s, t, type, model)
  OBVIOUS
<1>3. Proper(s, open, t) /\ Len(open.spans) = Len(s.spans) + 1
      /\ open.spans[Len(open.spans)].trace = t
  BY <1>2, OpenSpan, CalmProper
<1>4. Sound(open) /\ open.created = t /\ Len(s.spans) \in Nat /\ Len(open.spans) \in Nat
      /\ t \in 1..open.created
  <2>1. Sound(open) /\ open.created = t
    BY <1>1, <1>3 DEF Proper, Steady, Works
  <2> QED
    BY <1>1, <2>1, Fields DEF Sound
<1>5. PICK sent : sent = IF event = None THEN open
                         ELSE Emit(open, Event(event, t, tenant, model, tokens, tokens))
  OBVIOUS
<1>6. Proper(open, sent, t)
  <2>1. CASE event = None
    BY <1>4, <1>5, <2>1, ProperRefl
  <2>2. CASE event # None
    <3>1. event \in EventType
      BY <2>2 DEF EventType
    <3>2. PICK e : e = Event(event, t, tenant, model, tokens, tokens)
      OBVIOUS
    <3>3. /\ e \in EventRecord /\ e.trace = t
          /\ e.prompt \in Nat /\ e.completion \in Nat
      BY <3>1, <3>2, EventIs
    <3>4. sent = Emit(open, e) /\ e.trace \in 1..open.created
      BY <1>4, <1>5, <2>2, <3>2, <3>3
    <3>5. Proper(open, sent, e.trace)
      BY <1>4, <3>3, <3>4, EmitProper
    <3> QED
      BY <3>3, <3>5
  <2> QED
    BY <2>1, <2>2
<1>7. PICK id \in 1..Len(open.spans) : id = Len(open.spans)
  BY <1>3, <1>4
<1>8. Sound(sent) /\ id \in 1..Len(sent.spans) /\ sent.spans[id].trace = t
  <2>1. /\ Sound(sent) /\ Len(open.spans) <= Len(sent.spans)
        /\ \A i \in 1..Len(open.spans) : sent.spans[i].trace = open.spans[i].trace
    BY <1>6 DEF Proper, Steady, Works
  <2>2. Len(sent.spans) \in Nat
    BY <2>1, Fields DEF Sound
  <2> QED
    BY <1>3, <1>4, <1>7, <2>1, <2>2
<1>9. r = EndSpan(sent, id, "ok")
  BY <1>1, <1>2, <1>4, <1>5, <1>7 DEF DemoSpan
<1>10. Proper(sent, r, t)
  <2>1. "ok" \in Statuses /\ "ok" # "running"
    BY DEF Statuses
  <2>2. PICK u : u = sent.spans[id].trace
    OBVIOUS
  <2>3. Proper(sent, r, u)
    BY <1>8, <1>9, <2>1, <2>2, CloseSpan, CalmProper
  <2> QED
    BY <1>8, <2>2, <2>3
<1>11. Proper(s, sent, t)
  BY <1>3, <1>6, ProperTrans
<1> QED
  BY <1>1, <1>10, <1>11, ProperTrans

\* Begun, and then worked on.
LEMMA Onwards ==
  ASSUME NEW s, Sound(s), NEW q, Begins(s, q), NEW type \in Kinds, NEW event,
         event \in Routed \/ event = None, NEW tenant \in Tenants,
         NEW model \in Models \cup {None}, NEW tokens \in Nat,
         NEW r, r = DemoSpan(q, type, event, tenant, model, tokens)
  PROVE  Begins(s, r)
<1>1. Sound(q) /\ q.created # 0
  BY Fields DEF Begins, Sound
<1>2. Proper(q, r, q.created)
  BY <1>1, DemoSpanProper
<1> QED
  BY <1>2, BeginsProper

LEMMA Closing ==
  ASSUME NEW s, Sound(s), NEW q, Begins(s, q), NEW r, r = EndTrace(q, q.created, "ok")
  PROVE  Begins(s, r)
<1>1. Sound(q) /\ "ok" \in Statuses
  BY DEF Begins, Statuses
<1>2. Proper(q, r, q.created)
  BY <1>1, CloseTrace, CalmProper DEF Steady
<1> QED
  BY <1>2, BeginsProper

LEMMA DemoServes ==
  ASSUME NEW s, Sound(s), NEW tenant \in Tenants, NEW agent \in Agents \cup {None}, NEW r,
         \/ r = DemoRagTrace(s, tenant, agent)
         \/ r = DemoToolTrace(s, tenant, agent)
         \/ r = DemoSecurityTrace(s, tenant, agent)
         \/ \E m \in Models : r = DemoAgentTrace(s, tenant, agent, m)
         \/ \E m, n \in Models : r = DemoReplay(s, tenant, agent, m, n)
  PROVE  Begins(s, r)
<1>1. PICK a : a = StartTrace(s, tenant, agent)
  OBVIOUS
<1>2. Begins(s, a)
  BY <1>1, BeginsNext
<1>3. /\ "prompt" \in Kinds /\ "rag" \in Kinds /\ "tool" \in Kinds /\ "llm" \in Kinds
      /\ "prompt_build" \in Routed /\ "rag_search" \in Routed /\ "tool_call" \in Routed
      /\ "llm_call" \in Routed
  BY DEF Kinds, Routed
<1>4. CASE r = DemoRagTrace(s, tenant, agent)
  <2>1. PICK b : b = DemoSpan(a, "rag", "rag_search", tenant, None, 0)
    OBVIOUS
  <2>2. Begins(s, b)
    BY <1>2, <1>3, <2>1, Onwards
  <2>3. r = EndTrace(b, b.created, "ok")
    BY <1>1, <1>4, <2>1 DEF DemoRagTrace
  <2> QED
    BY <2>2, <2>3, Closing
<1>5. CASE r = DemoToolTrace(s, tenant, agent)
  <2>1. PICK b : b = DemoSpan(a, "tool", "tool_call", tenant, None, 0)
    OBVIOUS
  <2>2. PICK c : c = DemoSpan(b, "tool", "tool_call", tenant, None, 0)
    OBVIOUS
  <2>3. PICK d : d = DemoSpan(c, "tool", "tool_call", tenant, None, 0)
    OBVIOUS
  <2>4. Begins(s, b)
    BY <1>2, <1>3, <2>1, Onwards
  <2>5. Begins(s, c)
    BY <1>3, <2>2, <2>4, Onwards
  <2>6. Begins(s, d)
    BY <1>3, <2>3, <2>5, Onwards
  <2>7. r = EndTrace(d, d.created, "ok")
    BY <1>1, <1>5, <2>1, <2>2, <2>3 DEF DemoToolTrace
  <2> QED
    BY <2>6, <2>7, Closing
<1>6. CASE r = DemoSecurityTrace(s, tenant, agent)
  <2>1. PICK b : b = AnalyzePrompt(a, a.created, 2, 0)
    OBVIOUS
  <2>2. Sound(a) /\ a.created \in 1..a.created
    BY <1>2, Fields DEF Begins, Sound
  <2>3. Proper(a, b, a.created)
    <3>1. b = RaiseAlert(a, a.created, "prompt_injection", 50)
      BY <2>1 DEF AnalyzePrompt
    <3> QED
      BY <2>2, <3>1, AlertProper
  <2>4. Begins(s, b)
    BY <1>2, <2>3, BeginsProper
  <2>5. r = EndTrace(b, b.created, "ok")
    BY <1>1, <1>6, <2>1 DEF DemoSecurityTrace
  <2> QED
    BY <2>4, <2>5, Closing
<1>7. ASSUME NEW m \in Models, r = DemoAgentTrace(s, tenant, agent, m) PROVE Begins(s, r)
  <2>1. PICK b : b = DemoSpan(a, "prompt", "prompt_build", tenant, None, 0)
    OBVIOUS
  <2>2. PICK c : c = DemoSpan(b, "rag", "rag_search", tenant, None, 0)
    OBVIOUS
  <2>3. PICK d : d = DemoSpan(c, "tool", "tool_call", tenant, None, 0)
    OBVIOUS
  <2>4. PICK e : e = DemoSpan(d, "llm", "llm_call", tenant, m, 1)
    OBVIOUS
  <2>5. PICK f : f = Emit(e, Event("output", e.created, tenant, None, 0, 0))
    OBVIOUS
  <2>6. Begins(s, b)
    BY <1>2, <1>3, <2>1, Onwards
  <2>7. Begins(s, c)
    BY <1>3, <2>2, <2>6, Onwards
  <2>8. Begins(s, d)
    BY <1>3, <2>3, <2>7, Onwards
  <2>9. Begins(s, e)
    BY <1>3, <2>4, <2>8, Onwards
  <2>10. Sound(e) /\ e.created \in Nat /\ e.created \in 1..e.created
    BY <2>9, Fields DEF Begins, Sound
  <2>11. Proper(e, f, e.created)
    <3>1. "output" \in EventType
      BY DEF EventType
    <3>2. PICK sent : sent = Event("output", e.created, tenant, None, 0, 0)
      OBVIOUS
    <3>3. /\ sent \in EventRecord /\ sent.trace = e.created
          /\ sent.prompt \in Nat /\ sent.completion \in Nat
      BY <2>10, <3>1, <3>2 DEF Event, EventRecord
    <3>4. Proper(e, f, sent.trace)
      BY <2>5, <2>10, <3>2, <3>3, EmitProper
    <3> QED
      BY <3>3, <3>4
  <2>12. Begins(s, f)
    BY <2>9, <2>11, BeginsProper
  <2>13. r = EndTrace(f, f.created, "ok")
    BY <1>1, <1>7, <2>1, <2>2, <2>3, <2>4, <2>5 DEF DemoAgentTrace
  <2> QED
    BY <2>12, <2>13, Closing
<1>8. ASSUME NEW m \in Models, NEW n \in Models, r = DemoReplay(s, tenant, agent, m, n)
      PROVE  Begins(s, r)
  <2>1. PICK b : b = DemoSpan(a, "prompt", None, tenant, None, 0)
    OBVIOUS
  <2>2. PICK c : c = DemoSpan(b, "llm", None, tenant, m, 0)
    OBVIOUS
  <2>3. PICK d : d = EndTrace(c, c.created, "ok")
    OBVIOUS
  <2>4. Begins(s, b)
    BY <1>2, <1>3, <2>1, Onwards
  <2>5. Begins(s, c)
    BY <1>3, <2>2, <2>4, Onwards
  <2>6. Begins(s, d)
    BY <2>3, <2>5, Closing
  <2>7. r = DebugReplay(d, d.created, tenant, n)
    BY <1>1, <1>8, <2>1, <2>2, <2>3 DEF DemoReplay
  <2>8. Sound(d) /\ d.created \in Stored(d)
    <3>1. Sound(d) /\ d.created \in Nat /\ s.created \in Nat /\ d.created > s.created
          /\ MaxTraces \in Nat \ {0}
      BY <2>6, Fields, ObservabilityAssumption DEF Begins, Sound
    <3>2. d.created \in Newest(d.created)
      BY <3>1 DEF Newest
    <3> QED
      BY <3>1, <3>2 DEF Sound
  <2>9. Begins(d, r)
    BY <2>7, <2>8, ReplayServes
  <2> QED
    BY <2>6, <2>9, BeginsTwice
<1> QED
  BY <1>4, <1>5, <1>6, <1>7, <1>8

-----------------------------------------------------------------------------
(* Requests. *)

\* The inductive invariant.
ObsInv == Sound(obs) /\ \A t \in Stored(obs) : Agreeing(obs, t)

LEMMA ReplyServes ==
  ASSUME Sound(obs), NEW s, Serves(obs, s), Reply(s)
  PROVE  Serves(obs, obs')
<1>1. Sound(s) /\ s \in Platform
  BY DEF Serves, Proper, Steady, Works, Begins, Sound
<1>2. PICK r : r = obs'
  OBVIOUS
<1>3. r = [s EXCEPT !.served = s.served + 1]
  BY <1>2 DEF Reply
<1>4. s.served + 1 \in Nat
  BY <1>1, Fields
<1>5. /\ r \in Platform /\ r.created = s.created /\ r.traces = s.traces /\ r.index = s.index
      /\ r.spans = s.spans /\ r.active = s.active
      /\ r.events = s.events /\ r.records = s.records /\ r.alerts = s.alerts
  BY <1>1, <1>3, <1>4 DEF Platform
<1>6. \A t : Proper(s, r, t)
  <2>1. Calm(s, r)
    BY <1>5 DEF Calm, SameFigures, Stored
  <2>2. \A t : Steady(s, r, t)
    BY <1>1, <1>5, Besides
  <2> QED
    BY <2>1, <2>2, CalmProper
<1>7. CASE \E t : Proper(obs, s, t)
  <2>1. PICK t : Proper(obs, s, t)
    BY <1>7
  <2>2. Proper(obs, r, t)
    BY <1>6, <2>1, ProperTrans
  <2> QED
    BY <1>2, <2>2 DEF Serves
<1>8. CASE Begins(obs, s)
  BY <1>2, <1>6, <1>8, BeginsProper DEF Serves
<1> QED
  BY <1>7, <1>8 DEF Serves

LEMMA NextServes ==
  ASSUME Sound(obs), Next
  PROVE  Serves(obs, obs')
<1>0. obs.created \in Nat /\ KnownTraces \subseteq Nat /\ KnownTraces = 1..obs.created
  BY Fields DEF Sound, KnownTraces
<1>a. {"ok", "error"} \subseteq Statuses /\ {"tool", "llm"} \subseteq Kinds
  BY DEF Statuses, Kinds
<1>1. ASSUME NEW tenant \in Tenants, NEW agent \in Agents \cup {None},
             PostStart(tenant, agent)
      PROVE  Serves(obs, obs')
  <2>1. PICK s : s = StartTrace(obs, tenant, agent)
    OBVIOUS
  <2>2. Begins(obs, s)
    BY <2>1, BeginsNext
  <2>3. Sound(s) /\ s.created \in Nat /\ s.created \in 1..s.created
    BY <2>2, Fields DEF Begins, Sound
  <2>4. PICK r : r = Emit(s, Event("agent_start", s.created, tenant, None, 0, 0))
    OBVIOUS
  <2>5. Proper(s, r, s.created)
    <3>1. "agent_start" \in EventType
      BY DEF EventType
    <3>2. PICK e : e = Event("agent_start", s.created, tenant, None, 0, 0)
      OBVIOUS
    <3>3. e \in EventRecord /\ e.trace = s.created /\ e.prompt \in Nat /\ e.completion \in Nat
      BY <2>3, <3>1, <3>2 DEF Event, EventRecord
    <3>4. Proper(s, r, e.trace)
      BY <2>3, <2>4, <3>2, <3>3, EmitProper
    <3> QED
      BY <3>3, <3>4
  <2>6. Serves(obs, r)
    BY <2>2, <2>5, BeginsProper DEF Serves
  <2>7. Reply(r)
    BY <1>1, <2>1, <2>4 DEF PostStart
  <2> QED
    BY <2>6, <2>7, ReplyServes
<1>2. ASSUME NEW tenant \in Tenants, NEW agent \in Agents \cup {None}, PostDemo(tenant, agent)
      PROVE  Serves(obs, obs')
  <2>1. PICK r : /\ Reply(r)
                 /\ \/ r = DemoRagTrace(obs, tenant, agent)
                    \/ r = DemoToolTrace(obs, tenant, agent)
                    \/ r = DemoSecurityTrace(obs, tenant, agent)
                    \/ \E m \in Models : r = DemoAgentTrace(obs, tenant, agent, m)
                    \/ \E m, n \in Models : r = DemoReplay(obs, tenant, agent, m, n)
    BY <1>2 DEF PostDemo
  <2>2. Begins(obs, r)
    BY <2>1, DemoServes
  <2> QED
    BY <2>1, <2>2, ReplyServes DEF Serves
<1>3. ASSUME NEW id \in 1..Len(obs.spans), NEW status \in {"ok", "error"},
             PostSpanEnd(id, status)
      PROVE  Serves(obs, obs')
  <2>1. PICK r : r = EndSpan(obs, id, status)
    OBVIOUS
  <2>2. PICK t : t = obs.spans[id].trace
    OBVIOUS
  <2>3. status \in Statuses /\ status # "running"
    BY <1>a
  <2>4. Proper(obs, r, t)
    BY <2>1, <2>2, <2>3, CloseSpan, CalmProper
  <2>5. Reply(r)
    BY <1>3, <2>1 DEF PostSpanEnd
  <2> QED
    BY <2>4, <2>5, ReplyServes DEF Serves
<1>4. ASSUME NEW t \in KnownTraces, NEW type \in {"tool", "llm"}, PostSpan(t, type, None)
      PROVE  Serves(obs, obs')
  <2>1. PICK r : r = StartSpan(obs, t, type, None)
    OBVIOUS
  <2>2. Proper(obs, r, t)
    BY <1>0, <1>a, <2>1, OpenSpan, CalmProper
  <2>3. Reply(r)
    BY <1>4, <2>1 DEF PostSpan
  <2> QED
    BY <2>2, <2>3, ReplyServes DEF Serves
<1>5. ASSUME NEW t \in KnownTraces, NEW status \in {"ok", "error"}, PostEnd(t, status)
      PROVE  Serves(obs, obs')
  <2>1. PICK r : r = EndTrace(obs, t, status)
    OBVIOUS
  <2>2. Proper(obs, r, t)
    BY <1>a, <2>1, CloseTrace, CalmProper DEF Steady
  <2>3. Reply(r)
    BY <1>5, <2>1 DEF PostEnd
  <2> QED
    BY <2>2, <2>3, ReplyServes DEF Serves
<1>6. ASSUME NEW t \in KnownTraces, NEW tenant \in Tenants \cup {None},
             NEW mode \in {"exact", "debug"}, NEW m \in Models, PostReplay(t, tenant, mode, m)
      PROVE  Serves(obs, obs')
  <2>1. PICK r : /\ Reply(r)
                 /\ \/ r = DebugReplay(obs, t, tenant, m)
                    \/ r = ExactReplay(obs, t, tenant)
    BY <1>6 DEF PostReplay
  <2>2. Serves(obs, r)
    BY <2>1, ReplayServes
  <2> QED
    BY <2>1, <2>2, ReplyServes
<1>7. ASSUME NEW t \in KnownTraces, NEW s, Reply(s),
             NEW type \in {"prompt_injection", "tool_misuse", "data_leakage"},
             NEW points \in Nat, s = RaiseAlert(obs, t, type, points)
      PROVE  Serves(obs, obs')
  <2>1. Proper(obs, s, t)
    BY <1>0, <1>7, AlertProper
  <2> QED
    BY <1>7, <2>1, ReplyServes DEF Serves
<1>8. ASSUME NEW t \in KnownTraces, NEW n \in {0, 2}, PostAnalyzePrompt(t, n, n)
      PROVE  Serves(obs, obs')
  <2>1. PICK s : s = RaiseAlert(obs, t, "prompt_injection", 25 * n + 20 * n)
    OBVIOUS
  <2>2. Reply(s) /\ 25 * n + 20 * n \in Nat
    BY <1>8, <2>1 DEF PostAnalyzePrompt, AnalyzePrompt
  <2> QED
    BY <1>7, <2>1, <2>2
<1>9. ASSUME NEW t \in KnownTraces, NEW n \in {0, 2}, PostAnalyzeOutput(t, n)
      PROVE  Serves(obs, obs')
  <2>1. PICK s : s = RaiseAlert(obs, t, "data_leakage", 30 * n)
    OBVIOUS
  <2>2. Reply(s) /\ 30 * n \in Nat
    BY <1>9, <2>1 DEF PostAnalyzeOutput, AnalyzeOutput
  <2> QED
    BY <1>7, <2>1, <2>2
<1>10. ASSUME NEW t \in KnownTraces, NEW granted \in BOOLEAN, NEW dangerous \in BOOLEAN,
              PostAnalyzeTool(t, granted, dangerous, 0)
       PROVE  Serves(obs, obs')
  <2>1. PICK points \in Nat : points = (IF granted THEN 0 ELSE 60)
                                       + (IF dangerous THEN 30 ELSE 0) + 25 * 0
    OBVIOUS
  <2>2. PICK s : s = RaiseAlert(obs, t, "tool_misuse", points)
    OBVIOUS
  <2>3. Reply(s)
    BY <1>10, <2>1, <2>2 DEF PostAnalyzeTool, AnalyzeToolCall
  <2> QED
    BY <1>7, <2>2, <2>3
<1>11. ASSUME NEW t \in KnownTraces, NEW e \in Events, NEW tenant \in Tenants,
              PostEvent(Event(e.type, t, tenant, e.model, e.prompt, e.completion))
       PROVE  Serves(obs, obs')
  <2>1. e.type \in EventType /\ e.prompt \in Int /\ e.completion \in Int
    BY ObservabilityAssumption DEF EventType
  <2>2. PICK event \in EventRecord :
          /\ event = Event(e.type, t, tenant, e.model, e.prompt, e.completion)
          /\ event.trace = t /\ event.prompt = e.prompt /\ event.completion = e.completion
    <3>1. PICK event : event = Event(e.type, t, tenant, e.model, e.prompt, e.completion)
      OBVIOUS
    <3>2. /\ event \in EventRecord /\ event.trace = t
          /\ event.prompt = e.prompt /\ event.completion = e.completion
      BY <1>0, <2>1, <3>1 DEF Event, EventRecord
    <3> QED
      BY <3>1, <3>2
  <2>3. PICK r : r = Emit(obs, event)
    OBVIOUS
  <2>4. Proper(obs, r, t)
    <3>1. NaturalCounts => event.prompt \in Nat /\ event.completion \in Nat
      BY <2>1, <2>2 DEF NaturalCounts
    <3>2. event.trace \in 1..obs.created
      BY <1>0, <2>2
    <3>3. Proper(obs, r, event.trace)
      BY <2>3, <3>1, <3>2, EmitProper
    <3> QED
      BY <2>2, <3>3
  <2>5. Reply(r)
    BY <1>11, <2>2, <2>3 DEF PostEvent
  <2> QED
    BY <2>4, <2>5, ReplyServes DEF Serves
<1> QED
  BY <1>1, <1>2, <1>3, <1>4, <1>5, <1>6, <1>8, <1>9, <1>10, <1>11 DEF Next

-----------------------------------------------------------------------------
(* The properties. *)

LEMMA InvInit ==
  ASSUME Init
  PROVE  ObsInv
<1> DEFINE index == [k \in Tenants \cup Agents |-> <<>>]
<1>1. PICK s : s = obs
  OBVIOUS
<1>2. index \in Index /\ \A k \in Tenants \cup Agents : Len(index[k]) = 0
  BY DEF Index
<1>3. <<>> \in Traces /\ DOMAIN <<>> = {}
  <2>1. <<>> \in [{} -> Trace] /\ DOMAIN <<>> = {}
    OBVIOUS
  <2>2. {} \in SUBSET Nat
    OBVIOUS
  <2> QED
    BY <2>1, <2>2 DEF Traces
<1>4. /\ s.created = 0 /\ s.traces = <<>> /\ s.index = index /\ s.spans = <<>>
      /\ s.active = {} /\ s.served = 0
      /\ s.events = <<>> /\ s.records = <<>> /\ s.alerts = <<>>
  BY <1>1 DEF Init
<1>5. s \in Platform
  <2> HIDE DEF index
  <2>1. /\ <<>> \in Seq(Span) /\ <<>> \in Seq(EventRecord) /\ <<>> \in Seq(Record)
        /\ <<>> \in Seq(Alert)
    OBVIOUS
  <2> QED
    BY <1>1, <1>2, <1>3, <2>1 DEF Init, Platform, index
<1> HIDE DEF index
<1>6. Stored(s) = {} /\ Newest(0) = {}
  BY <1>3, <1>4 DEF Stored, Newest
<1>7. Sound(s)
  BY <1>2, <1>4, <1>5, <1>6 DEF Sound
<1> QED
  BY <1>1, <1>6, <1>7 DEF ObsInv

LEMMA InvNext ==
  ASSUME ObsInv, [Next]_obs
  PROVE  ObsInv'
<1>1. CASE UNCHANGED obs
  <2>1. Sound(obs)' <=> Sound(obs)
    BY <1>1 DEF Sound, Platform, Stored, OwnSpans, Indexed
  <2> QED
    BY <1>1, <2>1 DEF ObsInv, Stored, Agreeing
<1>2. CASE Next
  <2>1. Serves(obs, obs')
    BY <1>2, NextServes DEF ObsInv
  <2>2. Sound(obs')
    BY <2>1 DEF Serves, Proper, Steady, Works, Begins
  <2>3. ASSUME NEW u \in Stored(obs') PROVE Agreeing(obs', u)
    <3>1. ASSUME NEW t, Steady(obs, obs', t) PROVE Agreeing(obs', u)
      <4>1. Stored(obs') = Stored(obs)
        BY <3>1 DEF Steady, Works, Sound, ObsInv
      <4>2. CASE u = t
        BY <3>1, <4>1, <4>2 DEF Steady, ObsInv
      <4>3. CASE u # t
        <5>1. Same(obs, obs', u) /\ Agreeing(obs, u)
          BY <3>1, <4>1, <4>3 DEF Steady, Works, ObsInv
        <5> QED
          BY <5>1, SameAgrees
      <4> QED
        BY <4>2, <4>3
    <3>2. CASE Begins(obs, obs')
      <4>1. CASE u \in Stored(obs)
        <5>1. Same(obs, obs', u) /\ Agreeing(obs, u)
          BY <3>2, <4>1 DEF Begins, ObsInv
        <5> QED
          BY <5>1, SameAgrees
      <4>2. CASE u \notin Stored(obs)
        BY <3>2, <4>2 DEF Begins
      <4> QED
        BY <4>1, <4>2
    <3> QED
      BY <2>1, <3>1, <3>2 DEF Serves, Proper
  <2> QED
    BY <2>2, <2>3 DEF ObsInv
<1> QED
  BY <1>1, <1>2

\* A request leaves the platform sound, whatever was evicted before it: the
\* records have their types, the table holds the newest traces, each of them
\* listed and with spans of its own, and open spans are where they belong.
THEOREM ObservabilityInvariant == Spec => []ObsInv
<1>1. Init => ObsInv
  BY InvInit
<1>2. ObsInv /\ [Next]_obs => ObsInv'
  BY InvNext
<1> QED
  BY <1>1, <1>2, PTL DEF Spec

LEMMA NewestHolds ==
  ASSUME ObsInv
  PROVE  NewestKept
<1>1. Sound(obs) /\ obs \in Platform
  BY DEF ObsInv, Sound
<1>2. Stored(obs) = {t \in 1..obs.created : t > obs.created - MaxTraces}
  BY <1>1 DEF Sound, Newest
<1>3. ASSUME NEW t \in Stored(obs)
      PROVE  LET trace == obs.traces[t] IN
             /\ \A k \in {trace.tenant, trace.agent} \ {None} :
                  Cardinality({i \in DOMAIN obs.index[k] : obs.index[k][i] = t}) = 1
             /\ IsInjective(trace.spans)
             /\ \A i \in ToSet(trace.spans) : obs.spans[i].trace = t
  <2>1. OwnSpans(obs, t) /\ Indexed(obs, t)
    BY <1>1 DEF Sound
  <2>2. /\ obs.traces[t].spans \in Seq(Nat)
        /\ obs.traces[t].tenant \in Tenants /\ obs.traces[t].agent \in Agents \cup {None}
    BY <1>1, TraceFields
  <2>3. ASSUME NEW k \in {obs.traces[t].tenant, obs.traces[t].agent} \ {None}
        PROVE  Cardinality({i \in DOMAIN obs.index[k] : obs.index[k][i] = t}) = 1
    <3>1. k \in Tenants \cup Agents
      BY <2>2
    <3>2. obs.index \in [Tenants \cup Agents -> Seq(Nat)]
      BY <1>1, Fields DEF Index
    <3>3. PICK list \in Seq(Nat) : list = obs.index[k]
      BY <3>1, <3>2
    <3>4. \A i, j \in 1..Len(list) : list[i] = list[j] => i = j
      BY <1>1, <3>1, <3>3 DEF Sound
    <3>5. PICK i \in 1..Len(list) : list[i] = t
      BY <2>1, <3>3 DEF Indexed
    <3>6. {j \in DOMAIN list : list[j] = t} = {i}
      BY <3>4, <3>5
    <3>7. Cardinality({i}) = 1
      BY FS_Singleton, Zenon
    <3> QED
      BY <3>3, <3>6, <3>7
  <2>4. PICK own \in Seq(Nat) : own = obs.traces[t].spans
    BY <2>2
  <2>5. IsInjective(own)
    <3>1. \A m, n \in 1..Len(own) : own[m] = own[n] => m = n
      BY <2>1, <2>4 DEF OwnSpans
    <3>2. DOMAIN own = 1..Len(own)
      OBVIOUS
    <3> QED
      BY <3>1, <3>2 DEF IsInjective
  <2>6. ASSUME NEW i \in ToSet(own) PROVE obs.spans[i].trace = t
    <3>1. PICK n \in 1..Len(own) : own[n] = i
      BY DEF ToSet
    <3> QED
      BY <2>1, <2>4, <3>1 DEF OwnSpans
  <2> QED
    BY <2>3, <2>4, <2>5, <2>6
<1> QED
  BY <1>2, <1>3 DEF NewestKept

\* The table holds exactly the newest traces: a late request never brings an
\* evicted one back, and each stored trace is listed once and owns its spans.
THEOREM NewestKeptCorrect == Spec => []NewestKept
<1>1. ObsInv => NewestKept
  BY NewestHolds
<1> QED
  BY <1>1, ObservabilityInvariant, PTL

LEMMA AgreeingHolds ==
  ASSUME ObsInv
  PROVE  SpanTablesAgree
<1> SUFFICES ASSUME NEW t \in Stored(obs), NEW i \in ToSet(obs.traces[t].spans)
             PROVE  /\ obs.spans[i].status = "running" =>
                         i \in obs.active \/ obs.traces[t].status = "running"
                    /\ i \in obs.active /\ ~ obs.traces[t].ended =>
                         obs.spans[i].status = "running"
  BY DEF SpanTablesAgree
<1>1. obs.traces[t].spans \in Seq(Nat)
  BY TraceFields DEF ObsInv, Sound
<1>2. PICK n \in 1..Len(obs.traces[t].spans) : i = obs.traces[t].spans[n]
  BY <1>1 DEF ToSet
<1>3. Agreeing(obs, t)
  BY DEF ObsInv
<1> QED
  BY <1>2, <1>3 DEF Agreeing

\* A running span can be ended by its id, and no ended span stays active while
\* its trace is open.
THEOREM SpanTablesAgreeCorrect == Spec => []SpanTablesAgree
<1>1. ObsInv => SpanTablesAgree
  BY AgreeingHolds
<1> QED
  BY <1>1, ObservabilityInvariant, PTL

LEMMA SameView ==
  ASSUME NEW s, NEW r, NEW t, Same(s, r, t), s.traces[t].spans \in Seq(Nat)
  PROVE  View(s, t) = View(r, t)
<1>1. ASSUME NEW n \in DOMAIN s.traces[t].spans
      PROVE  r.spans[s.traces[t].spans[n]] = s.spans[s.traces[t].spans[n]]
  <2>1. n \in 1..Len(s.traces[t].spans)
    OBVIOUS
  <2> QED
    BY <2>1 DEF Same
<1>2. r.traces[t] = s.traces[t]
  BY DEF Same
<1>3. [n \in DOMAIN s.traces[t].spans |-> s.spans[s.traces[t].spans[n]]]
        = [n \in DOMAIN r.traces[t].spans |-> r.spans[r.traces[t].spans[n]]]
  BY <1>1, <1>2
<1> QED
  BY <1>2, <1>3 DEF View

LEMMA ApartStep ==
  ASSUME ObsInv, Next
  PROVE  StaysApart
<1> DEFINE changed == {t \in Stored(obs) \cap Stored(obs') : View(obs, t) # View(obs', t)}
<1>1. Serves(obs, obs') /\ Sound(obs)
  BY NextServes DEF ObsInv
<1>2. ASSUME NEW t \in Stored(obs), Same(obs, obs', t) PROVE View(obs, t) = View(obs', t)
  <2>1. obs.traces[t].spans \in Seq(Nat)
    BY <1>1, TraceFields DEF Sound
  <2>2. PICK r : r = obs'
    OBVIOUS
  <2>3. View(obs, t) = View(r, t)
    BY <1>2, <2>1, <2>2, SameView
  <2> QED
    BY <2>2, <2>3
<1>3. IsFiniteSet({}) /\ Cardinality({}) = 0
  BY FS_EmptySet
<1>4. ASSUME NEW t, Steady(obs, obs', t) PROVE StaysApart
  <2>1. obs'.created = obs.created
    BY <1>4 DEF Steady, Works
  <2>2. changed \subseteq {t}
    BY <1>2, <1>4 DEF Steady, Works
  <2>3. IsFiniteSet({t}) /\ Cardinality({t}) = 1
    BY FS_Singleton, Zenon
  <2>4. Cardinality(changed) <= 1
    <3>1. changed = {} \/ changed = {t}
      BY <2>2
    <3> QED
      BY <1>3, <2>3, <3>1
  <2> QED
    BY <2>1, <2>4 DEF StaysApart
<1>5. CASE Begins(obs, obs')
  <2>1. changed = {}
    BY <1>2, <1>5 DEF Begins
  <2> QED
    BY <1>3, <2>1 DEF StaysApart
<1> QED
  BY <1>1, <1>4, <1>5 DEF Serves, Proper

LEMMA ApartStutter ==
  ASSUME UNCHANGED obs
  PROVE  [StaysApart]_obs
OBVIOUS

\* A request changes at most one trace that was there, and one that makes a
\* trace changes none: replays copy spans and never write to the original.
THEOREM TracesApartCorrect == Spec => TracesApart
<1>1. ObsInv /\ [Next]_obs => [StaysApart]_obs
  BY ApartStep, ApartStutter
<1> QED
  BY <1>1, ObservabilityInvariant, PTL DEF Spec, TracesApart

-----------------------------------------------------------------------------
(* The totals. *)

LEMMA TallyInit ==
  ASSUME Init
  PROVE  Tallied(obs)
<1>1. PICK s : s = obs
  OBVIOUS
<1>2. s \in Platform
  BY <1>1, InvInit DEF ObsInv, Sound
<1>3. /\ s.created = 0 /\ s.events = <<>> /\ s.records = <<>> /\ s.alerts = <<>>
      /\ s.traces = <<>>
  BY <1>1 DEF Init
<1>4. Stored(s) = {} /\ Len(s.records) = 0 /\ Len(s.alerts) = 0 /\ Len(s.events) = 0
  BY <1>3 DEF Stored
<1>5. s.records \in Seq(Record) /\ s.events \in Seq(EventRecord)
  BY <1>2, Fields
<1>6. SumList(TokenList(s)) = 0 /\ SumList(CostList(s)) = 0
  <2>1. /\ TokenList(s) \in Seq(Int) /\ Len(TokenList(s)) = 0
        /\ CostList(s) \in Seq(Int) /\ Len(CostList(s)) = 0
    BY <1>2, <1>3, ListTypes
  <2>2. /\ \A n \in 1..Len(TokenList(s)) : TokenList(s)[n] = 0
        /\ \A n \in 1..Len(CostList(s)) : CostList(s)[n] = 0
    BY <2>1
  <2> QED
    BY <2>1, <2>2, SumZero
<1>7. ASSUME NEW val \in [Record -> Int] PROVE SumOf(val, s.records) = 0
  BY <1>4, <1>5, SumOfRows
<1>8. ASSUME NEW val \in [EventRecord -> Int] PROVE SumOf(val, s.events) = 0
  BY <1>4, <1>5, SumOfRows
<1>9. AllTokens \in [Record -> Int] /\ AllPaid \in [Record -> Int]
  BY DEF AllTokens, AllPaid, Record
<1>10. ASSUME NEW type
       PROVE  RecordsOf(type) \in [Record -> Int] /\ EventsOf(type) \in [EventRecord -> Int]
  BY DEF RecordsOf, EventsOf
<1>11. /\ SumList(TokenList(s)) <= SumOf(AllTokens, s.records)
       /\ SumList(CostList(s)) <= SumOf(AllPaid, s.records)
  BY <1>6, <1>7, <1>9
<1>12. \A type \in Routed : SumOf(EventsOf(type), s.events) = SumOf(RecordsOf(type), s.records)
  BY <1>7, <1>8, <1>10
<1>13. Tallied(s)
  BY <1>4, <1>11, <1>12 DEF Tallied
<1> QED
  BY <1>1, <1>13

LEMMA TallyNext ==
  ASSUME ObsInv, Tallied(obs), [Next]_obs
  PROVE  Tallied(obs')
<1>1. CASE UNCHANGED obs
  <2>1. PICK r : r = obs' /\ r = obs
    BY <1>1
  <2> QED
    BY <2>1
<1>2. CASE Next
  <2>1. Serves(obs, obs')
    BY <1>2, NextServes DEF ObsInv
  <2>2. Tallies(obs, obs')
    BY <2>1 DEF Serves, Proper, Begins
  <2> QED
    BY <2>2, CountsAssumption DEF Tallies
<1> QED
  BY <1>1, <1>2

\* What the routes sum is what the invariant sums.
LEMMA SumsTold ==
  ASSUME NEW s \in Platform
  PROVE  /\ \A t :
              /\ SumList([i \in 1..Len(s.records) |->
                            IF s.records[i].type = "llm_call" /\ s.records[i].trace = t
                            THEN s.records[i].tokens ELSE 0]) = SumOf(CallTokens(t), s.records)
              /\ SumList([i \in 1..Len(s.records) |->
                            IF s.records[i].type = "llm_call" /\ s.records[i].trace = t
                            THEN s.records[i].cost ELSE 0]) = SumOf(CallCosts(t), s.records)
              /\ GetRequestBreakdown(s, t).cost = SumOf(PaidFor(t), s.records)
         /\ GetTokenStats(s, None).tokens = SumOf(AllTokens, s.records)
         /\ GetTenantCost(s, None).cost = SumOf(AllPaid, s.records)
         /\ GetOverview(s, None).tokens = SumList(TokenList(s))
         /\ GetOverview(s, None).cost = SumList(CostList(s))
         /\ \A type :
              /\ SumList([i \in 1..Len(s.records) |-> IF s.records[i].type = type THEN 1 ELSE 0])
                   = SumOf(RecordsOf(type), s.records)
              /\ SumList([i \in 1..Len(s.events) |-> IF s.events[i].type = type THEN 1 ELSE 0])
                   = SumOf(EventsOf(type), s.events)
<1>1. /\ \A i \in 1..Len(s.records) : s.records[i] \in Record
      /\ \A i \in 1..Len(s.events) : s.events[i] \in EventRecord
  BY Fields
<1>2. ASSUME NEW t
      PROVE  SumList([i \in 1..Len(s.records) |->
                        IF s.records[i].type = "llm_call" /\ s.records[i].trace = t
                        THEN s.records[i].tokens ELSE 0]) = SumOf(CallTokens(t), s.records)
  BY <1>1 DEF SumOf, CallTokens
<1>3. ASSUME NEW t
      PROVE  SumList([i \in 1..Len(s.records) |->
                        IF s.records[i].type = "llm_call" /\ s.records[i].trace = t
                        THEN s.records[i].cost ELSE 0]) = SumOf(CallCosts(t), s.records)
  BY <1>1 DEF SumOf, CallCosts
<1>4. ASSUME NEW t
      PROVE  GetRequestBreakdown(s, t).cost = SumOf(PaidFor(t), s.records)
  <2>1. GetRequestBreakdown(s, t).cost
          = SumList([i \in 1..Len(s.records) |->
                       IF s.records[i].type = "cost" /\ s.records[i].trace = t
                       THEN s.records[i].cost ELSE 0])
    BY DEF GetRequestBreakdown, RowsOf, Total
  <2> QED
    BY <1>1, <2>1 DEF SumOf, PaidFor
<1>5. GetTokenStats(s, None).tokens = SumOf(AllTokens, s.records)
  <2>1. GetTokenStats(s, None).tokens
          = SumList([i \in 1..Len(s.records) |->
                       IF s.records[i].type = "llm_call" /\ None \in {None, s.records[i].tenant}
                       THEN s.records[i].tokens ELSE 0])
    BY DEF GetTokenStats, RowsOf, Total
  <2> QED
    BY <1>1, <2>1 DEF SumOf, AllTokens
<1>6. GetTenantCost(s, None).cost = SumOf(AllPaid, s.records)
  <2>1. GetTenantCost(s, None).cost
          = SumList([i \in 1..Len(s.records) |->
                       IF s.records[i].type = "cost" /\ None \in {None, s.records[i].tenant}
                       THEN s.records[i].cost ELSE 0])
    BY DEF GetTenantCost, RowsOf, Total
  <2> QED
    BY <1>1, <2>1 DEF SumOf, AllPaid
<1>7. GetOverview(s, None).tokens = SumList(TokenList(s))
      /\ GetOverview(s, None).cost = SumList(CostList(s))
  <2>1. ListTraces(s, None, None) = Stored(s)
    BY DEF ListTraces
  <2> QED
    BY <2>1 DEF GetOverview, TokenList, CostList
<1>8. ASSUME NEW type
      PROVE  /\ SumList([i \in 1..Len(s.records) |-> IF s.records[i].type = type THEN 1 ELSE 0])
                  = SumOf(RecordsOf(type), s.records)
             /\ SumList([i \in 1..Len(s.events) |-> IF s.events[i].type = type THEN 1 ELSE 0])
                  = SumOf(EventsOf(type), s.events)
  BY <1>1 DEF SumOf, RecordsOf, EventsOf
<1> QED
  BY <1>2, <1>3, <1>4, <1>5, <1>6, <1>7, <1>8

\* The alert a trace shows is the one of the greatest index.
LEMMA RiskShown ==
  ASSUME NEW s \in Platform, NEW t, RiskTold(s, t)
  PROVE  LET own == {i \in DOMAIN s.alerts : s.alerts[i].trace = t} IN
         IF own = {} THEN s.traces[t].risk = 0 /\ s.traces[t].level = "none"
         ELSE /\ s.traces[t].risk = s.alerts[Max(own)].score
              /\ s.traces[t].level = s.alerts[Max(own)].level
<1> DEFINE own == {i \in DOMAIN s.alerts : s.alerts[i].trace = t}
<1>1. s.alerts \in Seq(Alert)
  BY Fields
<1>2. own = {i \in 1..Len(s.alerts) : s.alerts[i].trace = t} /\ Len(s.alerts) \in Nat
  BY <1>1
<1> HIDE DEF own
<1>3. CASE \A n \in 1..Len(s.alerts) : s.alerts[n].trace # t
  <2>1. own = {}
    BY <1>2, <1>3
  <2>2. s.traces[t].risk = 0 /\ s.traces[t].level = "none"
    BY <1>3 DEF RiskTold
  <2> QED
    BY <2>1, <2>2 DEF own
<1>4. ASSUME NEW n \in 1..Len(s.alerts), s.alerts[n].trace = t,
             \A m \in 1..Len(s.alerts) : s.alerts[m].trace = t => m <= n,
             s.traces[t].risk = s.alerts[n].score, s.traces[t].level = s.alerts[n].level
      PROVE  /\ own # {} /\ s.traces[t].risk = s.alerts[Max(own)].score
             /\ s.traces[t].level = s.alerts[Max(own)].level
  <2>1. n \in own /\ own \subseteq Int /\ \A m \in own : n >= m
    BY <1>2, <1>4
  <2>2. \A x \in own : (\A m \in own : x >= m) => x = n
    BY <2>1
  <2>3. Max(own) = CHOOSE x \in own : \A m \in own : x >= m
    BY DEF Max
  <2>4. Max(own) = n
    BY <2>1, <2>2, <2>3
  <2> QED
    BY <1>4, <2>1, <2>4
<1> QED
  BY <1>3, <1>4 DEF RiskTold, own

LEMMA TallyHolds ==
  ASSUME ObsInv, Tallied(obs)
  PROVE  TotalsFollowEvents
<1>1. obs \in Platform
  BY DEF ObsInv, Sound
<1>2. ASSUME NEW t \in Stored(obs)
      PROVE  /\ obs.traces[t].tokens
                  = SumList([i \in 1..Len(obs.records) |->
                       IF obs.records[i].type = "llm_call" /\ obs.records[i].trace = t
                       THEN obs.records[i].tokens ELSE 0])
             /\ obs.traces[t].cost
                  = SumList([i \in 1..Len(obs.records) |->
                       IF obs.records[i].type = "llm_call" /\ obs.records[i].trace = t
                       THEN obs.records[i].cost ELSE 0])
             /\ obs.traces[t].cost <= GetRequestBreakdown(obs, t).cost
  BY <1>1, SumsTold DEF Tallied, TracePaid
<1>3. ASSUME NEW t \in Stored(obs)
      PROVE  LET own == {i \in DOMAIN obs.alerts : obs.alerts[i].trace = t} IN
             IF own = {} THEN obs.traces[t].risk = 0 /\ obs.traces[t].level = "none"
             ELSE /\ obs.traces[t].risk = obs.alerts[Max(own)].score
                  /\ obs.traces[t].level = obs.alerts[Max(own)].level
  <2>1. RiskTold(obs, t)
    BY DEF Tallied
  <2> QED
    BY <1>1, <2>1, RiskShown
<1>4. /\ GetOverview(obs, None).cost <= GetTenantCost(obs, None).cost
      /\ GetOverview(obs, None).tokens <= GetTokenStats(obs, None).tokens
  BY <1>1, SumsTold DEF Tallied
<1>5. ASSUME NEW type \in Routed
      PROVE  SumList([i \in 1..Len(obs.events) |-> IF obs.events[i].type = type THEN 1 ELSE 0])
               = SumList([i \in 1..Len(obs.records) |->
                            IF obs.records[i].type = type THEN 1 ELSE 0])
  BY <1>1, SumsTold DEF Tallied
<1> QED
  BY <1>2, <1>3, <1>4, <1>5 DEF TotalsFollowEvents, RowsOf, Total, Routed

\* When no price and no count is below zero, the totals a stored trace shows are
\* what its calls of models add up to, no dashboard shows more than the records
\* of costs, the risk is that of the latest alert, and every routed event has
\* its record.
THEOREM TotalsFollowEventsCorrect == Spec => []TotalsFollowEvents
<1> DEFINE Tally == ObsInv /\ Tallied(obs)
<1>1. Init => Tally
  BY InvInit, TallyInit
<1>2. Tally /\ [Next]_obs => Tally'
  BY InvNext, TallyNext
<1>3. Tally => TotalsFollowEvents
  BY TallyHolds
<1> HIDE DEF Tally
<1> QED
  BY <1>1, <1>2, <1>3, PTL DEF Spec
===============================================================================
