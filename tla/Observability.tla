----------------------------- MODULE Observability -----------------------------
(***************************************************************************)
(* The observability platform: the in-memory store with its bounded trace  *)
(* table, the collector that opens and closes spans, the event pipeline    *)
(* that routes events to tables and totals, the replay engine, the         *)
(* security detector, and the API routes that call them.  No route awaits  *)
(* anything, so one request is one action; what is hard is the sequence of *)
(* requests: the table evicts while clients still hold ids of traces and   *)
(* spans.                                                                  *)
(*                                                                         *)
(* The collector's operations are functions from one platform record to    *)
(* the next, because a replay and the demo routes make several of them in  *)
(* one request.  A trace is the number of its creation, which is also the  *)
(* order of its start time; a span is its index in "spans", where a trace  *)
(* and the table of active spans share it as the code shares the object.   *)
(* Log entries, texts, and times other than their order are left out.      *)
(***************************************************************************)
EXTENDS Sums, FiniteSets, SequencesExt, FiniteSetsExt

CONSTANTS
  Tenants, Agents,   \* the ids a client may give
  None,              \* an empty id
  MaxTraces,         \* InMemoryStore(max_traces)
  Pricing,           \* [model |-> [prompt, completion]], with a "default" row
  Models,            \* model names a client may give, priced or not
  Events,            \* [type, model, prompt, completion] a client may post
  RequestLimit, DemoLimit, TraceLimit, SpanLimit   \* bounds: requests, the last of
                     \* them that may be a demo, traces and spans made

ASSUME ObservabilityAssumption ==
  /\ MaxTraces \in Nat \ {0} /\ None \notin Tenants \cup Agents
  /\ "default" \in DOMAIN Pricing
  /\ \A m \in DOMAIN Pricing : Pricing[m].prompt \in Int /\ Pricing[m].completion \in Int
  /\ \A e \in Events : e.prompt \in Int /\ e.completion \in Int

\* Nobody posts, or is charged, less than nothing.  No route rejects it, so only
\* TotalsFollowEvents, which compares totals, takes it as given.
NaturalCounts ==
  /\ \A m \in DOMAIN Pricing : Pricing[m].prompt >= 0 /\ Pricing[m].completion >= 0
  /\ \A e \in Events : e.prompt >= 0 /\ e.completion >= 0

ASSUME CountsAssumption == NaturalCounts

VARIABLE obs

Init ==
  obs = [served  |-> 0,      \* requests so far
         created |-> 0,      \* traces made so far
         traces  |-> <<>>,   \* _traces: trace -> record
         index   |-> [k \in Tenants \cup Agents |-> <<>>],
         spans   |-> <<>>,   \* every Span object made
         active  |-> {},     \* _active_spans
         events  |-> <<>>,   \* _event_log
         records |-> <<>>,   \* the tables of calls, queries, errors and costs
         alerts  |-> <<>>]   \* _security_alerts

Stored(s) == DOMAIN s.traces

\* What the rows of one type that pass the test add up to.
RowsOf(s, type, Test(_), Value(_)) ==
  Total(s.records, LAMBDA r : r.type = type /\ Test(r), Value)

-----------------------------------------------------------------------------
(* InMemoryStore *)

\* Mutant: a full table evicts for a trace it already holds, too.
SaveTraceAlwaysEvicting(s, t, record) ==
  LET kept == IF Cardinality(Stored(s)) >= MaxTraces THEN Stored(s) \ {Min(Stored(s))}
              ELSE Stored(s)
      ids  == {record.tenant, record.agent} \ {None}
  IN  [s EXCEPT !.traces = [u \in kept \cup {t} |-> IF u = t THEN record ELSE s.traces[u]],
                !.index  = [k \in DOMAIN s.index |->
                              IF k \in ids /\ ~Contains(s.index[k], t)
                              THEN Append(s.index[k], t) ELSE s.index[k]]]

SaveTrace(s, t, record) ==
  LET evict == Cardinality(Stored(s)) >= MaxTraces /\ t \notin Stored(s)
      kept  == IF evict THEN Stored(s) \ {Min(Stored(s))} ELSE Stored(s)
      ids   == {record.tenant, record.agent} \ {None}
  IN  [s EXCEPT !.traces = [u \in kept \cup {t} |-> IF u = t THEN record ELSE s.traces[u]],
                !.index  = [k \in DOMAIN s.index |->
                              IF k \in ids /\ ~Contains(s.index[k], t)
                              THEN Append(s.index[k], t) ELSE s.index[k]]]

\* Filtered by tenant and status, both optional; the order is left out.
ListTraces(s, tenant, status) ==
  {t \in Stored(s) : /\ tenant # None => s.traces[t].tenant = tenant
                     /\ status # None => s.traces[t].status = status}

-----------------------------------------------------------------------------
(* TraceCollector *)

StartSpan(s, t, type, model) ==
  LET id   == Len(s.spans) + 1
      open == [s EXCEPT !.spans = Append(@, [trace |-> t, type |-> type, model |-> model,
                                             status |-> "running"]),
                        !.active = @ \cup {id}]
  IN  IF t \notin Stored(s) THEN open
      ELSE SaveTrace(open, t, [s.traces[t] EXCEPT !.spans = Append(@, id)])

\* Mutant: the span leaves the table but keeps its status.
EndSpanPopped(s, id, status) == [s EXCEPT !.active = @ \ {id}]

EndSpan(s, id, status) ==
  LET t    == s.spans[id].trace
      shut == [s EXCEPT !.spans[id].status = status, !.active = @ \ {id}]
  IN  IF id \notin s.active THEN s
      ELSE IF t \notin Stored(s) THEN shut
      ELSE SaveTrace(shut, t, s.traces[t])

StartTrace(s, tenant, agent) ==
  LET t    == s.created + 1
      root == StartSpan([s EXCEPT !.created = t], t, "agent", None)
  IN  SaveTrace(root, t,
        [tenant |-> tenant, agent |-> agent, spans |-> <<Len(root.spans)>>,
         status |-> "running", ended |-> FALSE, errors |-> 0,
         tokens |-> 0, cost |-> 0, risk |-> 0, level |-> "none"])

\* Errors are counted before the dangling spans take the status of the trace;
\* those spans stay in the table of active spans.
EndTrace(s, t, status) ==
  IF t \notin Stored(s) THEN s ELSE
  LET own    == ToSet(s.traces[t].spans)
      errors == Cardinality({i \in own : s.spans[i].status = "error"})
      closed == [s EXCEPT !.spans = [i \in DOMAIN s.spans |->
                   IF i \in own /\ s.spans[i].status = "running"
                   THEN [s.spans[i] EXCEPT !.status = status] ELSE s.spans[i]]]
  IN  SaveTrace(closed, t, [s.traces[t] EXCEPT !.ended = TRUE, !.status = status,
                                               !.errors = errors])

UpdateTotals(s, t, tokens, cost) ==
  IF t \notin Stored(s) THEN s
  ELSE SaveTrace(s, t, [s.traces[t] EXCEPT !.tokens = tokens, !.cost = cost])

UpdateRisk(s, t, risk, level) ==
  IF t \notin Stored(s) THEN s
  ELSE SaveTrace(s, t, [s.traces[t] EXCEPT !.risk = risk, !.level = level])

-----------------------------------------------------------------------------
(* EventPipeline *)

ComputeCost(model, prompt, completion) ==
  LET rates == Pricing[IF model \in DOMAIN Pricing THEN model ELSE "default"]
  IN  prompt * rates.prompt + completion * rates.completion

Event(type, t, tenant, model, prompt, completion) ==
  [type |-> type, trace |-> t, tenant |-> tenant, model |-> model,
   prompt |-> prompt, completion |-> completion]

Keep(s, type, e, tokens, cost) ==
  [s EXCEPT !.records = Append(@, [type |-> type, trace |-> e.trace, tenant |-> e.tenant,
                                   tokens |-> tokens, cost |-> cost])]

HandlePromptBuild(s, e) == Keep(s, "prompt_build", e, 0, 0)
HandleRagSearch(s, e)   == Keep(s, "rag_search", e, 0, 0)
HandleToolCall(s, e)    == Keep(s, "tool_call", e, 0, 0)
HandleError(s, e)       == Keep(s, "error", e, 0, 0)
HandleCost(s, e, cost)  == Keep(s, "cost", e, e.prompt + e.completion, cost)

Logged(s, e) == [s EXCEPT !.events = Append(@, e)]

\* Mutant: the totals are those of this call.
HandleLLMCallAlone(s, e) ==
  LET tokens == e.prompt + e.completion
      cost   == ComputeCost(e.model, e.prompt, e.completion)
      nested == [e EXCEPT !.type = "cost"]
  IN  UpdateTotals(HandleCost(Logged(Keep(s, "llm_call", e, tokens, cost), nested), nested, cost),
                   e.trace, tokens, cost)

\* The call, then a nested cost event with the cost in its payload, then the
\* totals of the trace, if it is still stored.
HandleLLMCall(s, e) ==
  LET tokens == e.prompt + e.completion
      cost   == ComputeCost(e.model, e.prompt, e.completion)
      called == Keep(s, "llm_call", e, tokens, cost)
      nested == [e EXCEPT !.type = "cost"]
      paid   == HandleCost(Logged(called, nested), nested, cost)
  IN  IF e.trace \notin Stored(paid) THEN paid
      ELSE UpdateTotals(paid, e.trace, paid.traces[e.trace].tokens + tokens,
                                       paid.traces[e.trace].cost + cost)

\* A cost event of a client carries its own cost, here one unit per token.
Emit(s, e) ==
  LET l == Logged(s, e)
  IN  CASE e.type = "prompt_build" -> HandlePromptBuild(l, e)
        [] e.type = "rag_search"   -> HandleRagSearch(l, e)
        [] e.type = "tool_call"    -> HandleToolCall(l, e)
        [] e.type = "llm_call"     -> HandleLLMCall(l, e)
        [] e.type = "error"        -> HandleError(l, e)
        [] e.type = "cost"         -> HandleCost(l, e, e.prompt + e.completion)
        [] OTHER                   -> l       \* agent_start, output, unknown types

-----------------------------------------------------------------------------
(* ReplayEngine.  The loop runs over the spans the original had when the     *)
(* replay began; starting the replay may evict the original.                 *)

\* Mutant: the copies are opened in the trace of their original.
ReplaySpansInPlace(s, t, original, newModel) ==
  LET Again(acc, id) ==
        LET open == StartSpan(acc, s.spans[id].trace, s.spans[id].type, s.spans[id].model)
        IN  EndSpan(open, Len(open.spans), s.spans[id].status)
      done[n \in 0..Len(original.spans)] ==
        IF n = 0 THEN s ELSE Again(done[n - 1], original.spans[n])
  IN  EndTrace(done[Len(original.spans)], t, original.status)

ReplaySpans(s, t, original, newModel) ==
  LET Again(acc, id) ==
        LET span  == s.spans[id]
            model == IF newModel # None /\ span.type = "llm" THEN newModel ELSE span.model
            open  == StartSpan(acc, t, span.type, model)
        IN  EndSpan(open, Len(open.spans), span.status)
      done[n \in 0..Len(original.spans)] ==
        IF n = 0 THEN s ELSE Again(done[n - 1], original.spans[n])
  IN  EndTrace(done[Len(original.spans)], t, original.status)

ExactReplay(s, t, tenant) ==
  LET original == s.traces[t]
      begun    == StartTrace(s, IF tenant = None THEN original.tenant ELSE tenant, original.agent)
  IN  IF t \notin Stored(s) THEN s ELSE ReplaySpans(begun, begun.created, original, None)

DebugReplay(s, t, tenant, newModel) ==
  LET original == s.traces[t]
      begun    == StartTrace(s, IF tenant = None THEN original.tenant ELSE tenant, original.agent)
  IN  IF t \notin Stored(s) THEN s ELSE ReplaySpans(begun, begun.created, original, newModel)

-----------------------------------------------------------------------------
(* SecurityDetector: each finding adds to a score; the arguments count the   *)
(* patterns that match.                                                      *)

ScoreToLevel(score) ==
  IF score >= 70 THEN "critical" ELSE IF score >= 50 THEN "high"
  ELSE IF score >= 25 THEN "medium" ELSE IF score > 0 THEN "low" ELSE "none"

RaiseAlert(s, t, type, points) ==
  LET score == Min({points, 100})
      level == ScoreToLevel(score)
      alert == [type |-> type, trace |-> t, score |-> score, level |-> level,
                block |-> score >= 70]
  IN  IF points = 0 \/ t = None THEN s
      ELSE UpdateRisk([s EXCEPT !.alerts = Append(@, alert)], t, score, level)

AnalyzePrompt(s, t, injections, leaks) ==
  RaiseAlert(s, t, "prompt_injection", 25 * injections + 20 * leaks)

AnalyzeToolCall(s, t, granted, dangerous, leaks) ==
  RaiseAlert(s, t, "tool_misuse", (IF granted THEN 0 ELSE 60)
                                  + (IF dangerous THEN 30 ELSE 0) + 25 * leaks)

AnalyzeOutput(s, t, leaks) == RaiseAlert(s, t, "data_leakage", 30 * leaks)

-----------------------------------------------------------------------------
(* MetricsEngine and CostEngine: what the dashboards compute from the tables. *)

GetOverview(s, tenant) ==
  LET traces == ListTraces(s, tenant, None)
      Over(Value(_)) ==
        SumList([t \in 1..s.created |-> IF t \in traces THEN Value(s.traces[t]) ELSE 0])
  IN  [total     |-> Cardinality(traces),
       completed |-> Cardinality({t \in traces : s.traces[t].ended}),
       failed    |-> Cardinality({t \in traces : s.traces[t].errors > 0}),
       tokens    |-> Over(LAMBDA trace : trace.tokens),
       cost      |-> Over(LAMBDA trace : trace.cost)]

GetTokenStats(s, tenant) ==
  LET Calls(Value(_)) == RowsOf(s, "llm_call", LAMBDA r : tenant \in {None, r.tenant}, Value)
  IN  [calls |-> Calls(LAMBDA r : 1), tokens |-> Calls(LAMBDA r : r.tokens)]

GetTenantCost(s, tenant) ==
  LET Costs(Value(_)) == RowsOf(s, "cost", LAMBDA r : tenant \in {None, r.tenant}, Value)
  IN  [records |-> Costs(LAMBDA r : 1), cost |-> Costs(LAMBDA r : r.cost)]

GetRequestBreakdown(s, t) ==
  LET Costs(Value(_)) == RowsOf(s, "cost", LAMBDA r : r.trace = t, Value)
  IN  [cost |-> Costs(LAMBDA r : r.cost), tokens |-> Costs(LAMBDA r : r.tokens)]

-----------------------------------------------------------------------------
(* The API routes. *)

Reply(s) ==
  /\ s.served < RequestLimit /\ s.created <= TraceLimit /\ Len(s.spans) <= SpanLimit
  /\ obs' = [s EXCEPT !.served = @ + 1]

KnownTraces == 1..obs.created   \* evicted ones too: clients keep their ids

PostStart(tenant, agent) ==
  LET s == StartTrace(obs, tenant, agent)
  IN  Reply(Emit(s, Event("agent_start", s.created, tenant, None, 0, 0)))

PostSpan(t, type, model) == Reply(StartSpan(obs, t, type, model))

PostSpanEnd(id, status) == Reply(EndSpan(obs, id, status))

PostEvent(e) == Reply(Emit(obs, e))

PostEnd(t, status) == Reply(EndTrace(obs, t, status))

PostReplay(t, tenant, mode, newModel) ==
  Reply(IF mode = "debug" THEN DebugReplay(obs, t, tenant, newModel)
        ELSE ExactReplay(obs, t, tenant))

PostAnalyzePrompt(t, injections, leaks) == Reply(AnalyzePrompt(obs, t, injections, leaks))

PostAnalyzeTool(t, granted, dangerous, leaks) ==
  Reply(AnalyzeToolCall(obs, t, granted, dangerous, leaks))

PostAnalyzeOutput(t, leaks) == Reply(AnalyzeOutput(obs, t, leaks))

(* The demo routes: a span opened, an event of its kind, the span closed. *)
DemoSpan(s, type, event, tenant, model, tokens) ==
  LET open == StartSpan(s, s.created, type, model)
      sent == IF event = None THEN open
              ELSE Emit(open, Event(event, s.created, tenant, model, tokens, tokens))
  IN  EndSpan(sent, Len(open.spans), "ok")

DemoAgentTrace(s, tenant, agent, model) ==
  LET a == StartTrace(s, tenant, agent)
      b == DemoSpan(a, "prompt", "prompt_build", tenant, None, 0)
      c == DemoSpan(b, "rag", "rag_search", tenant, None, 0)
      d == DemoSpan(c, "tool", "tool_call", tenant, None, 0)
      e == DemoSpan(d, "llm", "llm_call", tenant, model, 1)
      f == Emit(e, Event("output", e.created, tenant, None, 0, 0))
  IN  EndTrace(f, f.created, "ok")

DemoRagTrace(s, tenant, agent) ==
  LET a == DemoSpan(StartTrace(s, tenant, agent), "rag", "rag_search", tenant, None, 0)
  IN  EndTrace(a, a.created, "ok")

DemoToolTrace(s, tenant, agent) ==
  LET Call(acc) == DemoSpan(acc, "tool", "tool_call", tenant, None, 0)
      a == Call(Call(Call(StartTrace(s, tenant, agent))))
  IN  EndTrace(a, a.created, "ok")

DemoSecurityTrace(s, tenant, agent) ==
  LET a == StartTrace(s, tenant, agent)
      b == AnalyzePrompt(a, a.created, 2, 0)
  IN  EndTrace(b, b.created, "ok")

DemoReplay(s, tenant, agent, model, newModel) ==
  LET a == DemoSpan(StartTrace(s, tenant, agent), "prompt", None, tenant, None, 0)
      b == DemoSpan(a, "llm", None, tenant, model, 0)
      c == EndTrace(b, b.created, "ok")
  IN  DebugReplay(c, c.created, tenant, newModel)

PostDemo(tenant, agent) ==
  /\ obs.served < DemoLimit
  /\ \/ Reply(DemoRagTrace(obs, tenant, agent))
     \/ Reply(DemoToolTrace(obs, tenant, agent))
     \/ Reply(DemoSecurityTrace(obs, tenant, agent))
     \/ \E m \in Models : Reply(DemoAgentTrace(obs, tenant, agent, m))
     \/ \E m, n \in Models : Reply(DemoReplay(obs, tenant, agent, m, n))

Next ==
  \/ \E tenant \in Tenants, agent \in Agents \cup {None} :
       PostStart(tenant, agent) \/ PostDemo(tenant, agent)
  \/ \E id \in 1..Len(obs.spans), status \in {"ok", "error"} : PostSpanEnd(id, status)
  \/ \E t \in KnownTraces :
       \/ \E type \in {"tool", "llm"} : PostSpan(t, type, None)
       \/ \E status \in {"ok", "error"} : PostEnd(t, status)
       \/ \E tenant \in Tenants \cup {None}, mode \in {"exact", "debug"}, m \in Models :
            PostReplay(t, tenant, mode, m)
       \/ \E n \in {0, 2} : PostAnalyzePrompt(t, n, n) \/ PostAnalyzeOutput(t, n)
       \/ \E granted, dangerous \in BOOLEAN : PostAnalyzeTool(t, granted, dangerous, 0)
       \/ \E e \in Events, tenant \in Tenants :
            PostEvent(Event(e.type, t, tenant, e.model, e.prompt, e.completion))

Spec == Init /\ [][Next]_obs

-----------------------------------------------------------------------------
(* Properties *)

\* The table holds exactly the newest traces: a request that names an evicted
\* trace never brings it back nor pushes out another one, each stored trace is
\* listed once under its tenant and agent, and owns the spans it lists.
NewestKept ==
  /\ Stored(obs) = {t \in 1..obs.created : t > obs.created - MaxTraces}
  /\ \A t \in Stored(obs) :
       LET trace == obs.traces[t] IN
       /\ \A k \in {trace.tenant, trace.agent} \ {None} :
            Cardinality({i \in DOMAIN obs.index[k] : obs.index[k][i] = t}) = 1
       /\ IsInjective(trace.spans)
       /\ \A i \in ToSet(trace.spans) : obs.spans[i].trace = t

\* The totals of a stored trace are what its LLM calls add up to, each call has
\* its cost record, so the dashboard that sums the traces never shows more than
\* the one that sums the cost records; the risk shown for a trace is that of the
\* latest alert raised for it; every routed event reaches its table.
TotalsFollowEvents ==
  /\ \A t \in Stored(obs) :
       LET trace == obs.traces[t]
           Calls(Value(_)) == RowsOf(obs, "llm_call", LAMBDA r : r.trace = t, Value)
           own == {i \in DOMAIN obs.alerts : obs.alerts[i].trace = t}
       IN
       /\ trace.tokens = Calls(LAMBDA r : r.tokens)
       /\ trace.cost = Calls(LAMBDA r : r.cost)
       /\ trace.cost <= GetRequestBreakdown(obs, t).cost
       /\ IF own = {} THEN trace.risk = 0 /\ trace.level = "none"
          ELSE /\ trace.risk = obs.alerts[Max(own)].score
               /\ trace.level = obs.alerts[Max(own)].level
  /\ GetOverview(obs, None).cost <= GetTenantCost(obs, None).cost
  /\ GetOverview(obs, None).tokens <= GetTokenStats(obs, None).tokens
  /\ \A type \in {"prompt_build", "rag_search", "tool_call", "llm_call", "error", "cost"} :
       Total(obs.events, LAMBDA e : e.type = type, LAMBDA e : 1)
         = Total(obs.records, LAMBDA r : r.type = type, LAMBDA r : 1)

\* A running span of a stored trace can still be ended by its id, unless the
\* trace itself was given the status running (a replay of an unfinished trace);
\* an active span of a trace that has not ended is still running.
SpanTablesAgree ==
  \A t \in Stored(obs) : \A i \in ToSet(obs.traces[t].spans) :
    /\ obs.spans[i].status = "running" => i \in obs.active \/ obs.traces[t].status = "running"
    /\ i \in obs.active /\ ~obs.traces[t].ended => obs.spans[i].status = "running"

\* What a client is shown of a trace.
View(s, t) == <<s.traces[t], [n \in DOMAIN s.traces[t].spans |-> s.spans[s.traces[t].spans[n]]]>>

\* A request changes at most one trace that was there, and a request that makes
\* a trace, such as a replay with its copies of spans, changes none.
StaysApart ==
  LET changed == {t \in Stored(obs) \cap Stored(obs') : View(obs, t) # View(obs', t)}
  IN  /\ Cardinality(changed) <= 1
      /\ obs'.created # obs.created => changed = {}

TracesApart == [][StaysApart]_obs
================================================================================
