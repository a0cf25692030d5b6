---------------------------- MODULE Platform_proofs ----------------------------
(***************************************************************************)
(* Proofs about the other components of one process, and about all of them *)
(* together: ToolServer, for any tools, parameters and arguments, any      *)
(* limit, and any finite number of calls under way; PromptCenter, for any  *)
(* names and lists of variables; Guardrail, for any rules, texts and       *)
(* limits; LLMGateway, for any list of fallbacks; RAG, for any texts and   *)
(* any size and overlap of chunks; and Platform, which implements each of  *)
(* its components.                                                         *)
(***************************************************************************)
EXTENDS Platform, Connections_proofs, FiniteSetTheorems, WellFoundedInduction, TLAPS

\* A set of natural numbers that is not empty has a least member.
LEMMA LeastMember ==
  ASSUME NEW S \in SUBSET Nat, S # {}
  PROVE  /\ Min(S) \in S
         /\ \A m \in S : Min(S) <= m
<1>1. PICK n \in S : \A m \in S : ~ (<<m, n>> \in OpToRel(<, Nat))
  BY NatLessThanWellFounded, WFMin
<1>2. \A m \in S : ~ (m < n)
  BY <1>1 DEF OpToRel
<1>3. \A m \in S : n <= m
  BY <1>2
<1> QED
  BY <1>3 DEF Min

-----------------------------------------------------------------------------
(* ToolServer. *)

Tool ==
  [tenant : Tenants, name : ToolNames \cup BadToolNames, params : ParamLists,
   handler : {"echo", "direct", "sandbox"}, status : {"active", "inactive"}]

Fillings == {Filled(params, args) : params \in ParamLists, args \in Arguments}

CallRecord ==
  [stage : {"handler", "starting", "running", "restricted"}, tool : Nat,
   schema : ParamLists, args : Fillings]

\* The state keeps its type.
ToolTypeOK ==
  /\ made \in Nat
  /\ DOMAIN registry \subseteq 1..made
  /\ registry \in [DOMAIN registry -> Tool]
  /\ toolCalls \in [Calls -> CallRecord \cup {NoCall}]
  /\ sandbox \in [files : Nat, processes : Nat, orphans : Nat, litter : Nat]

ToolInv == ToolTypeOK /\ RegistrySound /\ CallsConform /\ SandboxAccounted

----------------------------------------------------------------------------
LEMMA ToolInitHolds == ToolInit => ToolInv
<1> SUFFICES ASSUME ToolInit PROVE ToolInv
  OBVIOUS
<1>1. /\ registry = <<>> /\ DOMAIN registry = {} /\ made = 0
      /\ toolCalls = [c \in Calls |-> NoCall]
      /\ sandbox = [files |-> 0, processes |-> 0, orphans |-> 0, litter |-> 0]
  BY DEF ToolInit
<1>2. registry \in [DOMAIN registry -> Tool]
  BY <1>1
<1>3. ToolTypeOK
  BY <1>1, <1>2 DEF ToolTypeOK
<1>4. RegistrySound /\ CallsConform
  BY <1>1 DEF RegistrySound, CallsConform
<1>5. Using({"starting", "running"}) = 0 /\ Using({"running"}) = 0
  <2>1. /\ {c \in Calls : toolCalls[c].stage \in {"starting", "running"}} = {}
        /\ {c \in Calls : toolCalls[c].stage \in {"running"}} = {}
    BY <1>1 DEF NoCall
  <2> QED
    BY <2>1, FS_EmptySet DEF Using
<1>6. SandboxAccounted
  BY <1>1, <1>5 DEF SandboxAccounted
<1> QED
  BY <1>3, <1>4, <1>6 DEF ToolInv

----------------------------------------------------------------------------
(* Arguments: what a call is given conforms to the parameters it was       *)
(* validated with.                                                         *)

LEMMA FilledConforms ==
  ASSUME NEW params, NEW args, ValidParameters(params), ValidArguments(params, args),
         NEW i \in DOMAIN params
  PROVE  LET p == params[i]
             v == Given(Filled(params, args), p.name)
         IN  IF v = None THEN ~ p.required \/ p.default # None
             ELSE Fits(v, p) \/ v = p.default
<1> DEFINE p == params[i]
           filled == Filled(params, args)
           defaults == {j \in DOMAIN params : params[j].default # None}
           names == DOMAIN args \cup {params[j].name : j \in defaults}
<1>1. \A j \in DOMAIN params : params[j].name = p.name => j = i
  BY DEF ValidParameters
<1>2. DOMAIN filled = names
  BY DEF Filled
<1>3. CASE p.name \in DOMAIN args
  <2>1. filled[p.name] = args[p.name]
    BY <1>3 DEF Filled
  <2>2. Given(filled, p.name) = args[p.name] /\ Given(args, p.name) = args[p.name]
    BY <1>2, <1>3, <2>1 DEF Given
  <2>3. IF args[p.name] = None THEN ~ p.required \/ p.default # None ELSE Fits(args[p.name], p)
    BY <2>2 DEF ValidArguments
  <2> QED
    BY <2>2, <2>3
<1>4. CASE p.name \notin DOMAIN args /\ p.default # None
  <2>1. i \in defaults /\ p.name \in names
    BY <1>4
  <2>2. (CHOOSE j \in defaults : params[j].name = p.name) = i
    BY <1>1, <2>1
  <2>3. filled[p.name] = params[CHOOSE j \in defaults : params[j].name = p.name].default
    BY <1>4, <2>1 DEF Filled
  <2>4. Given(filled, p.name) = p.default
    BY <1>2, <2>1, <2>2, <2>3 DEF Given
  <2> QED
    BY <1>4, <2>4
<1>5. CASE p.name \notin DOMAIN args /\ p.default = None
  <2>1. p.name \notin names
    BY <1>1, <1>5
  <2>2. Given(filled, p.name) = None /\ Given(args, p.name) = None
    BY <1>2, <1>5, <2>1 DEF Given
  <2>3. ~ p.required
    BY <1>5, <2>2 DEF ValidArguments
  <2> QED
    BY <2>2, <2>3
<1> QED
  BY <1>3, <1>4, <1>5

----------------------------------------------------------------------------
(* Calls that are counted. *)

\* One call changes its stage: the others are counted as before.
LEMMA UsingChanges ==
  ASSUME NEW c \in Calls, \A d \in Calls : d # c => toolCalls'[d] = toolCalls[d],
         NEW stages
  PROVE  /\ Using(stages) \in Nat
         /\ toolCalls[c].stage \in stages => Using(stages) >= 1
         /\ Using(stages)' = Using(stages)
              - (IF toolCalls[c].stage \in stages THEN 1 ELSE 0)
              + (IF toolCalls'[c].stage \in stages THEN 1 ELSE 0)
<1> DEFINE S == {d \in Calls : toolCalls[d].stage \in stages}
           T == {d \in Calls : toolCalls'[d].stage \in stages}
           R == S \ {c}
<1>1. IsFiniteSet(S) /\ IsFiniteSet(R) /\ c \notin R
  BY ToolAssumption, FS_Subset
<1>2. S = (IF toolCalls[c].stage \in stages THEN R \cup {c} ELSE R)
  OBVIOUS
<1>3. T = (IF toolCalls'[c].stage \in stages THEN R \cup {c} ELSE R)
  OBVIOUS
<1>4. Cardinality(R) \in Nat /\ Cardinality(R \cup {c}) = Cardinality(R) + 1
  BY <1>1, FS_CardinalityType, FS_AddElement
<1>5. Using(stages) = Cardinality(S) /\ Using(stages)' = Cardinality(T)
  BY DEF Using
<1> HIDE DEF S, T, R
<1> QED
  BY <1>2, <1>3, <1>4, <1>5

----------------------------------------------------------------------------
(* The registry. *)

LEMMA RegistrySoundNext ==
  ASSUME \A t, name : \A id \in DOMAIN registry' :
           registry'[id].tenant = t /\ registry'[id].name = name =>
             /\ Named(t, name)' = {id}
             /\ Cardinality(OfTenant(t)') <= MaxTools
             /\ ValidParameters(registry'[id].params)
  PROVE  RegistrySound'
<1> SUFFICES ASSUME NEW id \in DOMAIN registry'
             PROVE  /\ {i \in {i \in DOMAIN registry' :
                                 registry'[i].tenant = registry'[id].tenant} :
                          registry'[i].name = registry'[id].name} = {id}
                    /\ Cardinality({i \in DOMAIN registry' :
                         registry'[i].tenant = registry'[id].tenant}) <= MaxTools
                    /\ ValidParameters(registry'[id].params)
  BY DEF RegistrySound, Named, OfTenant
<1>1. \A t, name : registry'[id].tenant = t /\ registry'[id].name = name =>
        /\ {i \in {i \in DOMAIN registry' : registry'[i].tenant = t} :
              registry'[i].name = name} = {id}
        /\ Cardinality({i \in DOMAIN registry' : registry'[i].tenant = t}) <= MaxTools
        /\ ValidParameters(registry'[id].params)
  BY DEF Named, OfTenant
<1> QED
  BY <1>1

LEMMA RegisterKeeps ==
  ASSUME ToolInv, NEW t \in Tenants, NEW name \in ToolNames \cup BadToolNames,
         NEW params \in ParamLists, NEW handler \in {"echo", "direct", "sandbox"},
         Register(t, name, params, handler)
  PROVE  ToolInv'
<1> DEFINE tool == [tenant |-> t, name |-> name, params |-> params,
                    handler |-> handler, status |-> "active"]
           new == made + 1
<1>1. /\ made \in Nat /\ DOMAIN registry \subseteq 1..made
      /\ registry \in [DOMAIN registry -> Tool]
  BY DEF ToolInv, ToolTypeOK
<1>2. /\ made' = new
      /\ DOMAIN registry' = DOMAIN registry \cup {new}
      /\ registry'[new] = tool
      /\ UNCHANGED <<toolCalls, sandbox>>
      /\ Named(t, name) = {} /\ Cardinality(OfTenant(t)) < MaxTools /\ ValidParameters(params)
  BY DEF Register
<1>3. new \notin DOMAIN registry /\ new \in Nat
  BY <1>1
<1>4. \A id \in DOMAIN registry : registry'[id] = registry[id]
  BY <1>3 DEF Register
<1>5. tool \in Tool /\ tool.tenant = t /\ tool.name = name /\ tool.params = params
  BY DEF Tool
<1>6. registry' \in [DOMAIN registry' -> Tool]
  <2>1. registry' = [id \in DOMAIN registry' |-> registry'[id]]
    BY DEF Register
  <2>2. \A id \in DOMAIN registry' : registry'[id] \in Tool
    BY <1>1, <1>2, <1>4, <1>5
  <2> QED
    BY <2>1, <2>2
<1> HIDE DEF tool
<1>7. ToolTypeOK'
  <2>1. DOMAIN registry' \subseteq 1..made'
    BY <1>1, <1>2
  <2> QED
    BY <1>2, <1>3, <1>6, <2>1 DEF ToolInv, ToolTypeOK
<1>8. ASSUME NEW u, NEW n
      PROVE  /\ OfTenant(u)' = (IF u = t THEN OfTenant(u) \cup {new} ELSE OfTenant(u))
             /\ Named(u, n)' =
                  (IF u = t /\ n = name THEN Named(u, n) \cup {new} ELSE Named(u, n))
  <2>1. OfTenant(u)' = (IF u = t THEN OfTenant(u) \cup {new} ELSE OfTenant(u))
    BY <1>2, <1>3, <1>4, <1>5 DEF OfTenant
  <2>2. Named(u, n)' = (IF u = t /\ n = name THEN Named(u, n) \cup {new} ELSE Named(u, n))
    BY <1>2, <1>3, <1>4, <1>5, <2>1 DEF Named, OfTenant
  <2> QED
    BY <2>1, <2>2
<1>9. ASSUME NEW u, NEW n, NEW id \in DOMAIN registry',
             registry'[id].tenant = u, registry'[id].name = n
      PROVE  /\ Named(u, n)' = {id}
             /\ Cardinality(OfTenant(u)') <= MaxTools
             /\ ValidParameters(registry'[id].params)
  <2>1. /\ IsFiniteSet(OfTenant(t)) /\ Cardinality(OfTenant(t)) \in Nat
        /\ Cardinality(OfTenant(t) \cup {new}) <= MaxTools
    <3>1. OfTenant(t) \in SUBSET (1..made) /\ IsFiniteSet(1..made)
      BY <1>1, FS_Interval DEF OfTenant
    <3>2. IsFiniteSet(OfTenant(t)) /\ Cardinality(OfTenant(t)) \in Nat
      BY <3>1, FS_Subset, FS_CardinalityType
    <3>3. new \notin OfTenant(t)
      BY <1>3 DEF OfTenant
    <3>4. Cardinality(OfTenant(t) \cup {new}) = Cardinality(OfTenant(t)) + 1
      BY <3>2, <3>3, FS_AddElement
    <3> QED
      BY <1>2, <3>2, <3>4, ToolAssumption
  <2>2. CASE id = new
    BY <1>2, <1>5, <1>8, <1>9, <2>1, <2>2
  <2>3. CASE id \in DOMAIN registry
    <3>1. /\ registry'[id] = registry[id]
          /\ Named(registry[id].tenant, registry[id].name) = {id}
          /\ Cardinality(OfTenant(registry[id].tenant)) <= MaxTools
          /\ ValidParameters(registry[id].params)
      BY <1>4, <2>3 DEF ToolInv, RegistrySound
    <3>2. registry[id].tenant = u /\ registry[id].name = n
      BY <1>9, <3>1
    <3>3. ~ (u = t /\ n = name)
      BY <1>2, <3>1, <3>2
    <3> QED
      BY <1>8, <2>1, <3>1, <3>2, <3>3
  <2> QED
    BY <1>2, <2>2, <2>3
<1>10. RegistrySound'
  BY <1>9, RegistrySoundNext
<1>11. CallsConform' /\ SandboxAccounted'
  BY <1>2 DEF ToolInv, CallsConform, SandboxAccounted, Using
<1> QED
  BY <1>7, <1>10, <1>11 DEF ToolInv

LEMMA UnregisterKeeps ==
  ASSUME ToolInv, NEW gone \in DOMAIN registry, UnregisterTool(gone)
  PROVE  ToolInv'
<1>1. /\ made \in Nat /\ DOMAIN registry \subseteq 1..made
      /\ registry \in [DOMAIN registry -> Tool]
  BY DEF ToolInv, ToolTypeOK
<1>2. /\ DOMAIN registry' = DOMAIN registry \ {gone}
      /\ \A id \in DOMAIN registry' : registry'[id] = registry[id]
      /\ registry' \in [DOMAIN registry' -> Tool]
      /\ UNCHANGED <<made, toolCalls, sandbox>>
  BY <1>1 DEF UnregisterTool
<1>3. ToolTypeOK'
  BY <1>1, <1>2 DEF ToolInv, ToolTypeOK
<1>4. ASSUME NEW u
      PROVE  /\ OfTenant(u)' = OfTenant(u) \ {gone}
             /\ \A n : Named(u, n)' = Named(u, n) \ {gone}
  BY <1>2 DEF OfTenant, Named
<1>5. RegistrySound'
  <2> SUFFICES ASSUME NEW u, NEW n, NEW id \in DOMAIN registry',
                      registry'[id].tenant = u, registry'[id].name = n
               PROVE  /\ Named(u, n)' = {id}
                      /\ Cardinality(OfTenant(u)') <= MaxTools
                      /\ ValidParameters(registry'[id].params)
    BY RegistrySoundNext
  <2>1. id # gone /\ id \in DOMAIN registry /\ registry'[id] = registry[id]
    BY <1>2
  <2>2. /\ Named(u, n) = {id} /\ Cardinality(OfTenant(u)) <= MaxTools
        /\ ValidParameters(registry[id].params)
    BY <2>1 DEF ToolInv, RegistrySound
  <2>3. Cardinality(OfTenant(u)') <= MaxTools
    <3>1. OfTenant(u) \in SUBSET (1..made) /\ IsFiniteSet(1..made)
      <4>1. OfTenant(u) \in SUBSET (1..made)
        BY <1>1 DEF OfTenant
      <4>2. IsFiniteSet(1..made)
        BY <1>1, FS_Interval
      <4> QED
        BY <4>1, <4>2
    <3>2. IsFiniteSet(OfTenant(u)) /\ Cardinality(OfTenant(u)) \in Nat
      BY <3>1, FS_Subset, FS_CardinalityType
    <3> DEFINE after == OfTenant(u) \ {gone}
    <3>3. IsFiniteSet(after) /\ Cardinality(after) <= Cardinality(OfTenant(u))
      BY <3>2, FS_Subset
    <3>4. Cardinality(after) \in Nat
      BY <3>3, FS_CardinalityType
    <3>5. Cardinality(after) <= MaxTools
      <4> HIDE DEF after
      <4> QED
        BY <2>2, <3>2, <3>3, <3>4, ToolAssumption
    <3>6. OfTenant(u)' = after
      BY <1>4
    <3> QED
      BY <3>5, <3>6
  <2> QED
    BY <1>4, <2>1, <2>2, <2>3
<1>6. CallsConform' /\ SandboxAccounted'
  BY <1>2 DEF ToolInv, CallsConform, SandboxAccounted, Using
<1> QED
  BY <1>3, <1>5, <1>6 DEF ToolInv

LEMMA UpdateKeeps ==
  ASSUME ToolInv, NEW id \in DOMAIN registry, NEW status \in {None, "active", "inactive"},
         NEW params \in ParamLists \cup {None}, UpdateTool(id, status, params)
  PROVE  ToolInv'
<1> DEFINE tool == [registry[id] EXCEPT
                      !.status = IF status = None THEN @ ELSE status,
                      !.params = IF params # None /\ ValidParameters(params)
                                 THEN params ELSE @]
<1>1. /\ made \in Nat /\ DOMAIN registry \subseteq 1..made
      /\ registry \in [DOMAIN registry -> Tool] /\ registry[id] \in Tool
  BY DEF ToolInv, ToolTypeOK
<1>2. registry' = [registry EXCEPT ![id] = tool] /\ UNCHANGED <<made, toolCalls, sandbox>>
  BY <1>1 DEF UpdateTool, Tool
<1>3. /\ tool \in Tool /\ tool.tenant = registry[id].tenant /\ tool.name = registry[id].name
      /\ tool.params = registry[id].params \/ ValidParameters(tool.params)
  BY <1>1 DEF Tool
<1> HIDE DEF tool
<1>4. /\ DOMAIN registry' = DOMAIN registry /\ registry' \in [DOMAIN registry' -> Tool]
      /\ \A i \in DOMAIN registry :
           /\ registry'[i].tenant = registry[i].tenant /\ registry'[i].name = registry[i].name
           /\ registry'[i].params = registry[i].params \/ ValidParameters(registry'[i].params)
  BY <1>1, <1>2, <1>3
<1>5. ToolTypeOK'
  BY <1>1, <1>2, <1>4 DEF ToolInv, ToolTypeOK
<1>6. \A u, n : OfTenant(u)' = OfTenant(u) /\ Named(u, n)' = Named(u, n)
  BY <1>4 DEF OfTenant, Named
<1>7. RegistrySound'
  <2> SUFFICES ASSUME NEW u, NEW n, NEW i \in DOMAIN registry',
                      registry'[i].tenant = u, registry'[i].name = n
               PROVE  /\ Named(u, n)' = {i}
                      /\ Cardinality(OfTenant(u)') <= MaxTools
                      /\ ValidParameters(registry'[i].params)
    BY RegistrySoundNext
  <2>1. registry[i].tenant = u /\ registry[i].name = n /\ i \in DOMAIN registry
    BY <1>4
  <2>2. /\ Named(u, n) = {i} /\ Cardinality(OfTenant(u)) <= MaxTools
        /\ ValidParameters(registry[i].params)
    BY <2>1 DEF ToolInv, RegistrySound
  <2> QED
    BY <1>4, <1>6, <2>1, <2>2
<1>8. CallsConform' /\ SandboxAccounted'
  BY <1>2 DEF ToolInv, CallsConform, SandboxAccounted, Using
<1> QED
  BY <1>5, <1>7, <1>8 DEF ToolInv

----------------------------------------------------------------------------
(* The calls. *)

Conforms(call) ==
  \A i \in DOMAIN call.schema :
    LET p == call.schema[i]
        v == Given(call.args, p.name)
    IN  IF v = None THEN ~ p.required \/ p.default # None ELSE Fits(v, p) \/ v = p.default

\* One call changes: its record is well formed and conforms, the sandbox stays accounted.
LEMMA CallKeeps ==
  ASSUME ToolInv, NEW c \in Calls, NEW call \in CallRecord \cup {NoCall},
         call = NoCall \/ Conforms(call),
         toolCalls' = [toolCalls EXCEPT ![c] = call],
         UNCHANGED <<registry, made>>,
         sandbox' \in [files : Nat, processes : Nat, orphans : Nat, litter : Nat],
         SandboxAccounted'
  PROVE  ToolInv'
<1>1. toolCalls \in [Calls -> CallRecord \cup {NoCall}]
  BY DEF ToolInv, ToolTypeOK
<1>2. /\ toolCalls' \in [Calls -> CallRecord \cup {NoCall}]
      /\ toolCalls'[c] = call /\ \A d \in Calls : d # c => toolCalls'[d] = toolCalls[d]
  BY <1>1
<1>3. ToolTypeOK'
  BY <1>2 DEF ToolInv, ToolTypeOK
<1>4. RegistrySound'
  BY DEF ToolInv, RegistrySound, Named, OfTenant
<1>5. ASSUME NEW d \in Calls, toolCalls'[d] # NoCall
      PROVE  Conforms(toolCalls'[d])
  <2>1. CASE d = c
    BY <1>2, <1>5, <2>1
  <2>2. CASE d # c
    BY <1>2, <1>5, <2>2 DEF ToolInv, CallsConform, Conforms
  <2> QED
    BY <2>1, <2>2
<1>6. CallsConform'
  BY <1>5 DEF CallsConform, Conforms
<1> QED
  BY <1>3, <1>4, <1>6 DEF ToolInv

LEMMA SandboxType ==
  ASSUME ToolInv
  PROVE  /\ sandbox = [files |-> sandbox.files, processes |-> sandbox.processes,
                       orphans |-> sandbox.orphans, litter |-> sandbox.litter]
         /\ sandbox.files \in Nat /\ sandbox.processes \in Nat
         /\ sandbox.orphans \in Nat /\ sandbox.litter \in Nat
         /\ sandbox.files = Using({"starting", "running"}) + sandbox.litter
         /\ sandbox.processes = Using({"running"}) + sandbox.orphans
         /\ sandbox.orphans <= sandbox.litter
BY DEF ToolInv, ToolTypeOK, SandboxAccounted

LEMMA InvokeKeeps ==
  ASSUME ToolInv, NEW c \in Calls, NEW id \in DOMAIN registry, NEW args \in Arguments,
         InvokeTool(c, id, args)
  PROVE  ToolInv'
<1> DEFINE stage == StageOf(id)
           call  == Started(id, args, stage)
<1>1. /\ registry[id] \in Tool /\ id \in Nat
  BY DEF ToolInv, ToolTypeOK
<1>2. stage \in {"handler", "starting", "running", "restricted"} /\ stage # "running"
  BY DEF InvokeTool, StageOf
<1>3. Filled(registry[id].params, args) \in Fillings
  BY <1>1 DEF Tool, Fillings
<1> HIDE DEF stage
<1>4. call \in CallRecord /\ call.stage = stage /\ call.schema = registry[id].params
      /\ call.args = Filled(registry[id].params, args)
  BY <1>1, <1>2, <1>3 DEF Started, CallRecord, Tool
<1>5. ValidParameters(registry[id].params) /\ ValidArguments(registry[id].params, args)
  BY DEF ToolInv, RegistrySound, InvokeTool, Callable
<1>6. Conforms(call)
  BY <1>4, <1>5, FilledConforms DEF Conforms
<1>7. /\ toolCalls[c] = NoCall /\ toolCalls' = [toolCalls EXCEPT ![c] = call]
      /\ sandbox' = [sandbox EXCEPT !.files = @ + IF stage = "starting" THEN 1 ELSE 0]
      /\ UNCHANGED <<registry, made>>
  BY DEF InvokeTool, stage
<1> HIDE DEF call
<1>8. toolCalls[c].stage = "idle"
  BY <1>7 DEF NoCall
<1>9. /\ sandbox'.files = sandbox.files + (IF stage = "starting" THEN 1 ELSE 0)
      /\ sandbox'.processes = sandbox.processes
      /\ sandbox'.orphans = sandbox.orphans /\ sandbox'.litter = sandbox.litter
      /\ sandbox' \in [files : Nat, processes : Nat, orphans : Nat, litter : Nat]
  BY <1>7, SandboxType
<1>10. /\ Using({"starting", "running"}) \in Nat /\ Using({"running"}) \in Nat
       /\ Using({"starting", "running"})' =
            Using({"starting", "running"}) + (IF stage = "starting" THEN 1 ELSE 0)
       /\ Using({"running"})' = Using({"running"})
  <2>1. /\ toolCalls'[c].stage = stage /\ \A d \in Calls : d # c => toolCalls'[d] = toolCalls[d]
    BY <1>4, <1>7 DEF ToolInv, ToolTypeOK
  <2>2. /\ Using({"starting", "running"}) \in Nat
        /\ Using({"starting", "running"})' = Using({"starting", "running"})
             - (IF toolCalls[c].stage \in {"starting", "running"} THEN 1 ELSE 0)
             + (IF stage \in {"starting", "running"} THEN 1 ELSE 0)
    BY <2>1, UsingChanges
  <2>3. /\ Using({"running"}) \in Nat
        /\ Using({"running"})' = Using({"running"})
             - (IF toolCalls[c].stage \in {"running"} THEN 1 ELSE 0)
             + (IF stage \in {"running"} THEN 1 ELSE 0)
    BY <2>1, UsingChanges
  <2> QED
    BY <1>2, <1>8, <2>2, <2>3
<1>11. SandboxAccounted'
  <2> DEFINE waits == Using({"starting", "running"})
             runs == Using({"running"})
             waits2 == Using({"starting", "running"})'
             runs2 == Using({"running"})'
  <2>1. /\ waits \in Nat /\ runs \in Nat /\ runs2 = runs
        /\ waits2 = waits + (IF stage = "starting" THEN 1 ELSE 0)
        /\ sandbox.files = waits + sandbox.litter /\ sandbox.processes = runs + sandbox.orphans
    BY <1>10, SandboxType
  <2> SUFFICES /\ sandbox'.files = waits2 + sandbox'.litter
               /\ sandbox'.processes = runs2 + sandbox'.orphans
               /\ sandbox'.orphans <= sandbox'.litter
    BY DEF SandboxAccounted
  <2> HIDE DEF waits, runs, waits2, runs2
  <2> QED
    BY <1>9, <2>1, SandboxType
<1> QED
  BY <1>4, <1>6, <1>7, <1>9, <1>11, CallKeeps

\* A call ends, and the sandbox changes with it.
LEMMA ReturnKeeps ==
  ASSUME ToolInv, NEW c \in Calls, Return(c), UNCHANGED <<registry, made>>,
         sandbox' \in [files : Nat, processes : Nat, orphans : Nat, litter : Nat],
         SandboxAccounted'
  PROVE  ToolInv'
BY CallKeeps DEF Return

LEMMA ReturnCounts ==
  ASSUME ToolInv, NEW c \in Calls, Return(c)
  PROVE  LET waits == {"starting", "running"}
             runs  == {"running"}
         IN  /\ Using(waits) \in Nat /\ Using(runs) \in Nat
             /\ toolCalls[c].stage \in waits => Using(waits) >= 1
             /\ toolCalls[c].stage \in runs => Using(runs) >= 1
             /\ Using(waits)' = Using(waits)
                  - (IF toolCalls[c].stage \in waits THEN 1 ELSE 0)
             /\ Using(runs)' = Using(runs)
                  - (IF toolCalls[c].stage \in runs THEN 1 ELSE 0)
<1>1. /\ toolCalls'[c].stage = "idle"
      /\ \A d \in Calls : d # c => toolCalls'[d] = toolCalls[d]
  BY DEF NoCall, Return, ToolInv, ToolTypeOK
<1>2. ASSUME NEW stages, "idle" \notin stages
      PROVE  /\ Using(stages) \in Nat
             /\ toolCalls[c].stage \in stages => Using(stages) >= 1
             /\ Using(stages)' = Using(stages) - (IF toolCalls[c].stage \in stages THEN 1 ELSE 0)
  BY <1>1, <1>2, UsingChanges
<1> QED
  BY <1>2

LEMMA ProcessStartsKeeps ==
  ASSUME ToolInv, NEW c \in Calls, ProcessStarts(c)
  PROVE  ToolInv'
<1> DEFINE call == [toolCalls[c] EXCEPT !.stage = "running"]
<1>1. toolCalls[c].stage = "starting" /\ toolCalls[c] \in CallRecord /\ toolCalls[c] # NoCall
  BY DEF ProcessStarts, ToolInv, ToolTypeOK, NoCall
<1>2. /\ call \in CallRecord /\ call.stage = "running"
      /\ call.schema = toolCalls[c].schema /\ call.args = toolCalls[c].args
  BY <1>1 DEF CallRecord
<1>3. toolCalls' = [toolCalls EXCEPT ![c] = call]
  BY DEF ProcessStarts, ToolInv, ToolTypeOK
<1> HIDE DEF call
<1>4. Conforms(call)
  BY <1>1, <1>2 DEF ToolInv, CallsConform, Conforms
<1>5. /\ sandbox'.processes = sandbox.processes + 1 /\ sandbox'.files = sandbox.files
      /\ sandbox'.orphans = sandbox.orphans /\ sandbox'.litter = sandbox.litter
      /\ sandbox' \in [files : Nat, processes : Nat, orphans : Nat, litter : Nat]
  BY SandboxType DEF ProcessStarts
<1>6. toolCalls'[c].stage = "running" /\ \A d \in Calls : d # c => toolCalls'[d] = toolCalls[d]
  BY <1>2, <1>3 DEF ToolInv, ToolTypeOK
<1>7. /\ Using({"starting", "running"})' = Using({"starting", "running"})
      /\ Using({"running"})' = Using({"running"}) + 1
      /\ Using({"starting", "running"}) \in Nat /\ Using({"running"}) \in Nat
  <2>1. /\ Using({"starting", "running"}) \in Nat
        /\ Using({"starting", "running"})' = Using({"starting", "running"}) - 1 + 1
    BY <1>1, <1>6, UsingChanges
  <2>2. /\ Using({"running"}) \in Nat
        /\ Using({"running"})' = Using({"running"}) - 0 + 1
    BY <1>1, <1>6, UsingChanges
  <2> QED
    BY <2>1, <2>2
<1>8. SandboxAccounted'
  <2> DEFINE waits == Using({"starting", "running"})
             runs == Using({"running"})
             waits2 == Using({"starting", "running"})'
             runs2 == Using({"running"})'
  <2>1. /\ waits \in Nat /\ runs \in Nat /\ waits2 = waits /\ runs2 = runs + 1
        /\ sandbox.files = waits + sandbox.litter /\ sandbox.processes = runs + sandbox.orphans
    BY <1>7, SandboxType
  <2> SUFFICES /\ sandbox'.files = waits2 + sandbox'.litter
               /\ sandbox'.processes = runs2 + sandbox'.orphans
               /\ sandbox'.orphans <= sandbox'.litter
    BY DEF SandboxAccounted
  <2> HIDE DEF waits, runs, waits2, runs2
  <2> QED
    BY <1>5, <2>1, SandboxType
<1>9. UNCHANGED <<registry, made>>
  BY DEF ProcessStarts
<1> QED
  BY <1>2, <1>3, <1>4, <1>5, <1>8, <1>9, CallKeeps

\* A call that ends leaves the sandbox as it was, or accounts for what it leaves.
LEMMA ReturnAccounts ==
  ASSUME ToolInv, NEW c \in Calls, Return(c), UNCHANGED <<registry, made>>,
         \/ toolCalls[c].stage \in {"handler", "restricted"} /\ UNCHANGED sandbox
         \/ /\ toolCalls[c].stage = "starting"
            /\ sandbox' = [sandbox EXCEPT !.litter = @ + 1]
         \/ /\ toolCalls[c].stage = "running"
            /\ \/ sandbox' = [sandbox EXCEPT !.processes = @ - 1, !.files = @ - 1]
               \/ sandbox' = [sandbox EXCEPT !.orphans = @ + 1, !.litter = @ + 1]
  PROVE  ToolInv'
<1> DEFINE waits == Using({"starting", "running"})
           runs == Using({"running"})
           waits2 == Using({"starting", "running"})'
           runs2 == Using({"running"})'
           stage == toolCalls[c].stage
<1>1. /\ waits \in Nat /\ runs \in Nat
      /\ stage \in {"starting", "running"} => waits >= 1
      /\ stage = "running" => runs >= 1
      /\ waits2 = waits - (IF stage \in {"starting", "running"} THEN 1 ELSE 0)
      /\ runs2 = runs - (IF stage = "running" THEN 1 ELSE 0)
  BY ReturnCounts
<1>2. /\ sandbox.files = waits + sandbox.litter /\ sandbox.processes = runs + sandbox.orphans
      /\ sandbox.orphans <= sandbox.litter
      /\ sandbox.files \in Nat /\ sandbox.processes \in Nat
      /\ sandbox.orphans \in Nat /\ sandbox.litter \in Nat
  BY SandboxType
<1> SUFFICES /\ sandbox' \in [files : Nat, processes : Nat, orphans : Nat, litter : Nat]
             /\ sandbox'.files = waits2 + sandbox'.litter
             /\ sandbox'.processes = runs2 + sandbox'.orphans
             /\ sandbox'.orphans <= sandbox'.litter
  BY ReturnKeeps DEF SandboxAccounted
<1> HIDE DEF waits, runs, waits2, runs2
<1>3. CASE stage \in {"handler", "restricted"} /\ UNCHANGED sandbox
  BY <1>1, <1>2, <1>3, SandboxType DEF ToolInv, ToolTypeOK
<1>4. CASE stage = "starting" /\ sandbox' = [sandbox EXCEPT !.litter = @ + 1]
  <2>1. sandbox' = [files |-> sandbox.files, processes |-> sandbox.processes,
                    orphans |-> sandbox.orphans, litter |-> sandbox.litter + 1]
    BY <1>4, SandboxType
  <2>2. /\ sandbox'.files = sandbox.files /\ sandbox'.processes = sandbox.processes
        /\ sandbox'.orphans = sandbox.orphans /\ sandbox'.litter = sandbox.litter + 1
    BY <2>1
  <2>3. waits2 = waits - 1 /\ runs2 = runs /\ waits >= 1
    BY <1>1, <1>4
  <2>4. {sandbox.files, sandbox.processes, sandbox.orphans, sandbox.litter + 1} \subseteq Nat
    BY <1>1, <1>2, <1>4
  <2> QED
    BY <1>1, <1>2, <2>1, <2>2, <2>3, <2>4
<1>5. CASE stage = "running" /\ sandbox' = [sandbox EXCEPT !.processes = @ - 1, !.files = @ - 1]
  <2>1. sandbox' = [files |-> sandbox.files - 1, processes |-> sandbox.processes - 1,
                    orphans |-> sandbox.orphans, litter |-> sandbox.litter]
    BY <1>5, SandboxType
  <2>2. /\ sandbox'.files = sandbox.files - 1 /\ sandbox'.processes = sandbox.processes - 1
        /\ sandbox'.orphans = sandbox.orphans /\ sandbox'.litter = sandbox.litter
    BY <2>1
  <2>3. waits2 = waits - 1 /\ runs2 = runs - 1 /\ waits >= 1 /\ runs >= 1
    BY <1>1, <1>5
  <2>4. {sandbox.files - 1, sandbox.processes - 1, sandbox.orphans, sandbox.litter} \subseteq Nat
    BY <1>1, <1>2, <1>5
  <2> QED
    BY <1>1, <1>2, <2>1, <2>2, <2>3, <2>4
<1>6. CASE stage = "running" /\ sandbox' = [sandbox EXCEPT !.orphans = @ + 1, !.litter = @ + 1]
  <2>1. sandbox' = [files |-> sandbox.files, processes |-> sandbox.processes,
                    orphans |-> sandbox.orphans + 1, litter |-> sandbox.litter + 1]
    BY <1>6, SandboxType
  <2>2. /\ sandbox'.files = sandbox.files /\ sandbox'.processes = sandbox.processes
        /\ sandbox'.orphans = sandbox.orphans + 1 /\ sandbox'.litter = sandbox.litter + 1
    BY <2>1
  <2>3. waits2 = waits - 1 /\ runs2 = runs - 1 /\ waits >= 1 /\ runs >= 1
    BY <1>1, <1>6
  <2>4. {sandbox.files, sandbox.processes, sandbox.orphans + 1, sandbox.litter + 1} \subseteq Nat
    BY <1>1, <1>2, <1>6
  <2> QED
    BY <1>1, <1>2, <2>1, <2>2, <2>3, <2>4
<1> QED
  BY <1>3, <1>4, <1>5, <1>6

LEMMA OrphanEndsKeeps ==
  ASSUME ToolInv, OrphanEnds
  PROVE  ToolInv'
<1> DEFINE waits == Using({"starting", "running"})
           runs == Using({"running"})
<1>1. waits' = waits /\ runs' = runs
  BY DEF OrphanEnds, Using
<1>2. runs \in Nat
  <2>1. {c \in Calls : toolCalls[c].stage \in {"running"}} \in SUBSET Calls
    OBVIOUS
  <2> QED
    BY <2>1, ToolAssumption, FS_Subset, FS_CardinalityType DEF Using
<1>3. /\ sandbox'.files = sandbox.files /\ sandbox'.processes = sandbox.processes - 1
      /\ sandbox'.orphans = sandbox.orphans - 1 /\ sandbox'.litter = sandbox.litter
      /\ sandbox' = [files |-> sandbox.files, processes |-> sandbox.processes - 1,
                     orphans |-> sandbox.orphans - 1, litter |-> sandbox.litter]
      /\ sandbox.orphans > 0
  BY SandboxType DEF OrphanEnds
<1>4. sandbox.files = waits + sandbox.litter /\ sandbox.processes = runs + sandbox.orphans
  BY SandboxType
<1> HIDE DEF waits, runs
<1>5. /\ sandbox' \in [files : Nat, processes : Nat, orphans : Nat, litter : Nat]
      /\ sandbox'.files = waits' + sandbox'.litter
      /\ sandbox'.processes = runs' + sandbox'.orphans
      /\ sandbox'.orphans <= sandbox'.litter
  BY <1>1, <1>2, <1>3, <1>4, SandboxType
<1>6. SandboxAccounted'
  BY <1>5 DEF SandboxAccounted, waits, runs
<1>7. ToolTypeOK' /\ RegistrySound' /\ CallsConform'
  BY <1>5 DEF OrphanEnds, ToolInv, ToolTypeOK, RegistrySound, Named, OfTenant, CallsConform
<1> QED
  BY <1>6, <1>7 DEF ToolInv

----------------------------------------------------------------------------
LEMMA ToolStepKeeps == ToolInv /\ [ToolNext]_toolVars => ToolInv'
<1> SUFFICES ASSUME ToolInv, [ToolNext]_toolVars PROVE ToolInv'
  OBVIOUS
<1>1. ASSUME NEW t \in Tenants, NEW name \in ToolNames \cup BadToolNames,
             NEW params \in ParamLists,
             \/ RegisterTool(t, name, params)
             \/ RegisterDirect(t, name, params)
             \/ RegisterSandboxTool(t, name, params)
      PROVE  ToolInv'
  BY <1>1, RegisterKeeps DEF RegisterTool, RegisterDirect, RegisterSandboxTool
<1>2. ASSUME NEW id \in DOMAIN registry, UnregisterTool(id)
      PROVE  ToolInv'
  BY <1>2, UnregisterKeeps
<1>3. ASSUME NEW id \in DOMAIN registry, NEW status \in {None, "active", "inactive"},
             NEW params \in ParamLists \cup {None}, UpdateTool(id, status, params)
      PROVE  ToolInv'
  BY <1>3, UpdateKeeps
<1>4. ASSUME NEW id \in DOMAIN registry, NEW c \in Calls, NEW args \in Arguments,
             InvokeTool(c, id, args)
      PROVE  ToolInv'
  BY <1>4, InvokeKeeps
<1>5. ASSUME NEW c \in Calls, NEW t \in Tenants, NEW name \in ToolNames, NEW args \in Arguments,
             InvokeToolByName(c, t, name, args)
      PROVE  ToolInv'
  BY <1>4, <1>5 DEF InvokeToolByName, Named, OfTenant
<1>6. ASSUME NEW c \in Calls, ProcessStarts(c)
      PROVE  ToolInv'
  BY <1>6, ProcessStartsKeeps
<1>7. ASSUME NEW c \in Calls,
             HandlerReturns(c) \/ RestrictedRuns(c) \/ ProcessFails(c) \/ ProcessEnds(c)
               \/ ProcessTimesOut(c)
      PROVE  ToolInv'
  <2>1. /\ Return(c) /\ UNCHANGED <<registry, made>>
        /\ \/ toolCalls[c].stage \in {"handler", "restricted"} /\ UNCHANGED sandbox
           \/ /\ toolCalls[c].stage = "starting"
              /\ sandbox' = [sandbox EXCEPT !.litter = @ + 1]
           \/ /\ toolCalls[c].stage = "running"
              /\ \/ sandbox' = [sandbox EXCEPT !.processes = @ - 1, !.files = @ - 1]
                 \/ sandbox' = [sandbox EXCEPT !.orphans = @ + 1, !.litter = @ + 1]
    BY <1>7 DEF HandlerReturns, RestrictedRuns, ProcessFails, ProcessEnds, ProcessTimesOut
  <2> QED
    BY <2>1, ReturnAccounts
<1>8. CASE OrphanEnds
  BY <1>8, OrphanEndsKeeps
<1>9. CASE UNCHANGED toolVars
  BY <1>9 DEF toolVars, ToolInv, ToolTypeOK, RegistrySound, Named, OfTenant, CallsConform,
              SandboxAccounted, Using
<1> QED
  BY <1>1, <1>2, <1>3, <1>4, <1>5, <1>6, <1>7, <1>8, <1>9 DEF ToolNext

\* However registrations, calls and the processes they start overlap: names and limits of
\* tenants hold, schemas stay well formed, calls conform to the schema they began with, and
\* every file and process is accounted for.
THEOREM ToolsHoldCorrect == ToolSpec => []ToolsHold
<1>1. ToolInit => ToolInv
  BY ToolInitHolds
<1>2. ToolInv /\ [ToolNext]_toolVars => ToolInv'
  BY ToolStepKeeps
<1>3. ToolInv => ToolsHold
  BY DEF ToolInv, ToolsHold
<1> QED
  BY <1>1, <1>2, <1>3, PTL DEF ToolSpec

-----------------------------------------------------------------------------
(* PromptCenter. *)

LEMMA GreatestMember ==
  ASSUME NEW m \in Nat, NEW S \in SUBSET (0..m), S # {}
  PROVE  Max(S) \in S
<1> DEFINE T == {m - x : x \in S}
<1>1. T \in SUBSET Nat /\ T # {}
  <2>1. \A x \in S : x \in Nat /\ m - x \in Nat
    OBVIOUS
  <2>2. PICK x : x \in S
    OBVIOUS
  <2> QED
    BY <2>1, <2>2
<1>2. Min(T) \in T /\ \A y \in T : Min(T) <= y
  <2> HIDE DEF T
  <2> QED
    BY <1>1, LeastMember
<1>3. PICK x \in S : Min(T) = m - x
  BY <1>2
<1>4. \A y \in S : x >= y
  <2> SUFFICES ASSUME NEW y \in S PROVE x >= y
    OBVIOUS
  <2>1. m - y \in T
    OBVIOUS
  <2>2. m - x <= m - y
    BY <1>2, <1>3, <2>1
  <2>3. x \in Nat /\ y \in Nat
    OBVIOUS
  <2> HIDE DEF T
  <2> QED
    BY <2>2, <2>3
<1> HIDE DEF T
<1> QED
  BY <1>4 DEF Max

PromptVersion == [number : 1..MaxVersions, variables : VariableLists]

PromptVersions == UNION {[contents -> PromptVersion] : contents \in SUBSET Nat}

Template ==
  [tenant : Tenants, name : PromptNames, active : BOOLEAN, current : 1..MaxVersions,
   versions : PromptVersions]

\* A template has versions written so far, no more than there may be, and its current
\* version is one of them while there is one.
Sound(t, upTo) ==
  /\ t \in Template
  /\ DOMAIN t.versions \subseteq 1..upTo
  /\ Cardinality(DOMAIN t.versions) <= MaxVersions
  /\ DOMAIN t.versions # {} => t.current \in Numbers(t)

PromptInv ==
  /\ drafted \in Nat /\ written \in Nat
  /\ DOMAIN templates \subseteq 1..drafted
  /\ \A id \in DOMAIN templates : Sound(templates[id], written)

\* Who renders a version by its number notices no difference.
SamePinned(t, u) ==
  \A n \in Numbers(t) \cap Numbers(u) : Rendered(u, n) = Rendered(t, n)

LEMMA VersionsAre ==
  ASSUME NEW t \in Template
  PROVE  \A content \in DOMAIN t.versions :
           /\ content \in Nat
           /\ t.versions[content] \in PromptVersion
           /\ t.versions[content].number \in 1..MaxVersions
           /\ t.versions[content].variables \in VariableLists
<1>1. t.versions \in PromptVersions
  BY DEF Template
<1>2. PICK contents \in SUBSET Nat : t.versions \in [contents -> PromptVersion]
  BY <1>1 DEF PromptVersions
<1>3. \A content \in DOMAIN t.versions : content \in Nat /\ t.versions[content] \in PromptVersion
  BY <1>2
<1> QED
  BY <1>3 DEF PromptVersion

LEMMA RenderedIs ==
  ASSUME NEW t \in Template, NEW n \in 1..MaxVersions
  PROVE  /\ Rendered(t, n) = [content |-> Min(Numbered(t, n)),
                              variables |-> t.versions[Min(Numbered(t, n))].variables]
         /\ n \in Numbers(t) => /\ Min(Numbered(t, n)) \in Numbered(t, n)
                                /\ \A content \in Numbered(t, n) : Min(Numbered(t, n)) <= content
<1>1. n # None
  BY PromptAssumption
<1>2. Rendered(t, n) = Resolve(t, n)
  BY <1>1 DEF Rendered
<1>3. Numbered(t, n) \in SUBSET Nat
  BY VersionsAre DEF Numbered
<1>4. n \in Numbers(t) => Numbered(t, n) # {}
  BY DEF Numbers, Numbered
<1> QED
  BY <1>2, <1>3, <1>4, LeastMember DEF Resolve

\* One version more, with a content written after the others.
LEMMA OneVersionMore ==
  ASSUME written \in Nat, NEW t \in Template, Sound(t, written), NEW n \in 1..MaxVersions,
         Cardinality(DOMAIN t.versions) + 1 <= MaxVersions,
         NEW variables \in VariableLists, NEW u \in Template,
         u.versions = WithVersion(t.versions, n, variables), u.current = n
  PROVE  Sound(u, written + 1) /\ SamePinned(t, u)
<1> DEFINE old == DOMAIN t.versions
           w == written + 1
<1>1. old \subseteq 1..written /\ w \notin old /\ Cardinality(old) + 1 <= MaxVersions
  BY DEF Sound
<1>2. /\ DOMAIN u.versions = old \cup {w}
      /\ u.versions[w] = [number |-> n, variables |-> variables]
      /\ \A content \in old : u.versions[content] = t.versions[content]
  BY <1>1 DEF WithVersion
<1>3. DOMAIN u.versions \subseteq 1..(written + 1)
  BY <1>1, <1>2
<1>4. Cardinality(DOMAIN u.versions) <= MaxVersions
  <2>1. IsFiniteSet(1..written)
    BY FS_Interval
  <2>2. IsFiniteSet(old)
    BY <1>1, <2>1, FS_Subset
  <2>3. Cardinality(old \cup {w}) = Cardinality(old) + 1
    <3> HIDE DEF old, w
    <3> QED
      BY <1>1, <2>2, FS_AddElement
  <2> QED
    BY <1>1, <1>2, <2>3
<1>5. u.current \in Numbers(u)
  <2>1. w \in DOMAIN u.versions /\ u.versions[w].number = n
    BY <1>2
  <2> QED
    BY <2>1 DEF Numbers
<1>6. Sound(u, written + 1)
  BY <1>3, <1>4, <1>5 DEF Sound
<1>7. ASSUME NEW m \in Numbers(t) PROVE Rendered(u, m) = Rendered(t, m)
  <2>1. m \in 1..MaxVersions
    BY VersionsAre DEF Numbers
  <2> DEFINE T == Numbered(t, m)
             U == Numbered(u, m)
  <2>2. Min(T) \in T /\ \A content \in T : Min(T) <= content
    BY <2>1, RenderedIs
  <2>3. T \subseteq old /\ T \subseteq U /\ U \subseteq T \cup {w}
    BY <1>2 DEF Numbered
  <2>4. m \in Numbers(u)
    BY <2>2, <2>3 DEF Numbers, Numbered
  <2>5. Min(U) \in U /\ \A content \in U : Min(U) <= content
    BY <2>1, <2>4, RenderedIs
  <2>6. Min(U) = Min(T)
    <3> HIDE DEF T, U
    <3>1. Min(T) \in 1..written /\ Min(U) <= Min(T)
      BY <1>1, <2>2, <2>3, <2>5
    <3>2. Min(U) \in 1..written \/ Min(U) = written + 1
      BY <1>1, <2>3, <2>5
    <3>3. Min(U) # w
      BY <3>1, <3>2
    <3>4. Min(U) \in T
      BY <2>3, <2>5, <3>3
    <3>5. Min(T) <= Min(U)
      BY <2>2, <3>4
    <3> QED
      BY <3>1, <3>2, <3>5
  <2>7. u.versions[Min(T)] = t.versions[Min(T)]
    BY <1>2, <2>2, <2>3
  <2>8. /\ Rendered(t, m) = [content |-> Min(T), variables |-> t.versions[Min(T)].variables]
        /\ Rendered(u, m) = [content |-> Min(U), variables |-> u.versions[Min(U)].variables]
    BY <2>1, RenderedIs
  <2> HIDE DEF T, U
  <2> QED
    BY <2>6, <2>7, <2>8
<1> QED
  BY <1>6, <1>7 DEF SamePinned

\* The versions without those of a number.
LEMMA NumberDropped ==
  ASSUME written \in Nat, NEW t \in Template, Sound(t, written), NEW n \in 1..MaxVersions,
         NEW u \in Template, NEW kept, kept = DOMAIN t.versions \ Numbered(t, n),
         u.versions = [content \in kept |-> t.versions[content]],
         u.current = IF t.current = n /\ kept # {} THEN Max(Numbers(t) \ {n}) ELSE t.current
  PROVE  Sound(u, written) /\ SamePinned(t, u)
<1>1. /\ DOMAIN u.versions = kept /\ kept \subseteq DOMAIN t.versions
      /\ \A content \in kept : u.versions[content] = t.versions[content]
  OBVIOUS
<1>2. Cardinality(kept) <= MaxVersions
  <2>1. IsFiniteSet(1..written)
    BY FS_Interval
  <2>2. IsFiniteSet(DOMAIN t.versions)
    BY <2>1, FS_Subset DEF Sound
  <2>3. Cardinality(kept) <= Cardinality(DOMAIN t.versions) /\ IsFiniteSet(kept)
    BY <1>1, <2>2, FS_Subset
  <2>4. Cardinality(kept) \in Nat /\ Cardinality(DOMAIN t.versions) \in Nat
    BY <2>2, <2>3, FS_CardinalityType
  <2> QED
    BY <2>3, <2>4, PromptAssumption DEF Sound
<1>3. Numbers(u) = Numbers(t) \ {n}
  BY <1>1 DEF Numbers, Numbered
<1>4. ASSUME kept # {} PROVE u.current \in Numbers(u)
  <2>1. CASE t.current = n
    <3> DEFINE S == Numbers(t) \ {n}
    <3>1. S # {}
      <4>1. PICK content : content \in kept
        BY <1>4
      <4>2. t.versions[content].number \in S
        BY <1>1, <4>1 DEF Numbers, Numbered
      <4> QED
        BY <4>2
    <3>2. S \in SUBSET (0..MaxVersions)
      BY VersionsAre DEF Numbers
    <3>3. Max(S) \in S
      <4> HIDE DEF S
      <4> QED
        BY <3>1, <3>2, GreatestMember, PromptAssumption
    <3> QED
      BY <1>3, <1>4, <2>1, <3>3
  <2>2. CASE t.current # n
    <3>1. t.current \in Numbers(t)
      BY <1>1, <1>4 DEF Sound
    <3> QED
      BY <1>3, <2>2, <3>1
  <2> QED
    BY <2>1, <2>2
<1>5. Sound(u, written)
  BY <1>1, <1>2, <1>4 DEF Sound
<1>6. ASSUME NEW m \in Numbers(t), m # n PROVE Rendered(u, m) = Rendered(t, m)
  <2>1. m \in 1..MaxVersions
    BY VersionsAre DEF Numbers
  <2>2. Numbered(u, m) = Numbered(t, m)
    BY <1>1, <1>6 DEF Numbered
  <2>3. Min(Numbered(t, m)) \in Numbered(t, m)
    BY <2>1, RenderedIs
  <2>4. u.versions[Min(Numbered(t, m))] = t.versions[Min(Numbered(t, m))]
    BY <1>1, <2>2, <2>3 DEF Numbered
  <2> QED
    BY <2>1, <2>2, <2>4, RenderedIs
<1> QED
  BY <1>3, <1>5, <1>6 DEF SamePinned

LEMMA PromptInitHolds ==
  PromptInit => PromptInv
  BY DEF PromptInit, PromptInv

LEMMA PromptStepHolds ==
  PromptInv /\ [PromptNext]_promptVars => PromptInv' /\ [PinnedSame]_promptVars
<1> SUFFICES ASSUME PromptInv, [PromptNext]_promptVars
             PROVE  PromptInv' /\ [PinnedSame]_promptVars
  OBVIOUS
<1>i. /\ drafted \in Nat /\ written \in Nat /\ DOMAIN templates \subseteq 1..drafted
      /\ \A id \in DOMAIN templates : Sound(templates[id], written)
  BY DEF PromptInv
<1>r. ASSUME NEW t PROVE SamePinned(t, t)
  BY DEF SamePinned
<1>p. ASSUME \A id \in DOMAIN templates \cap DOMAIN templates' :
               SamePinned(templates[id], templates'[id])
      PROVE  PinnedSame
  BY <1>p DEF PinnedSame, SamePinned
<1>w. ASSUME NEW t, Sound(t, written) PROVE Sound(t, written + 1)
  BY <1>i, <1>w DEF Sound
<1>o. ASSUME NEW id \in DOMAIN templates, NEW u, NEW upTo \in {written, written + 1},
             DOMAIN templates' = DOMAIN templates, templates'[id] = u,
             \A i \in DOMAIN templates : i # id => templates'[i] = templates[i],
             drafted' = drafted, written' = upTo,
             Sound(u, upTo), SamePinned(templates[id], u)
      PROVE  PromptInv' /\ PinnedSame
  <2>1. ASSUME NEW i \in DOMAIN templates
        PROVE  Sound(templates'[i], upTo) /\ SamePinned(templates[i], templates'[i])
    <3>1. CASE i = id
      BY <1>o, <3>1
    <3>2. CASE i # id
      <4>1. templates'[i] = templates[i]
        BY <1>o, <3>2
      <4>2. Sound(templates[i], upTo)
        BY <1>i, <1>w
      <4> QED
        BY <1>r, <4>1, <4>2
    <3> QED
      BY <3>1, <3>2
  <2>2. upTo \in Nat
    BY <1>i
  <2>3. PromptInv'
    BY <1>i, <1>o, <2>1, <2>2 DEF PromptInv
  <2> QED
    BY <1>o, <1>p, <2>1, <2>3
<1>1. ASSUME NEW tenant \in Tenants, NEW name \in PromptNames, NEW variables \in VariableLists,
             CreateTemplate(tenant, name, variables)
      PROVE  PromptInv' /\ PinnedSame
  <2> DEFINE new == drafted + 1
             t == [tenant |-> tenant, name |-> name, active |-> TRUE, current |-> 1,
                   versions |-> WithVersion(<<>>, 1, variables)]
             v == WithVersion(<<>>, 1, variables)
  <2>1. /\ drafted' = new /\ written' = written + 1
        /\ DOMAIN templates' = DOMAIN templates \cup {new}
        /\ \A id \in DOMAIN templates' : templates'[id] = IF id = new THEN t ELSE templates[id]
    BY <1>1 DEF CreateTemplate
  <2>2. new \notin DOMAIN templates /\ new \in Nat /\ written + 1 \in Nat
    BY <1>i
  <2>3. 1 \in 1..MaxVersions
    BY PromptAssumption
  <2>4. v = [content \in {written + 1} |-> [number |-> 1, variables |-> variables]]
    BY DEF WithVersion
  <2>5. v \in [{written + 1} -> PromptVersion]
    BY <2>3, <2>4 DEF PromptVersion
  <2>6. v \in PromptVersions
    BY <2>2, <2>5 DEF PromptVersions
  <2>7. DOMAIN v = {written + 1} /\ v[written + 1].number = 1
    BY <2>4
  <2> HIDE DEF v
  <2>8. t = [tenant |-> tenant, name |-> name, active |-> TRUE, current |-> 1, versions |-> v]
    BY DEF v
  <2> HIDE DEF t
  <2>9. t \in Template /\ t.versions = v /\ t.current = 1
    BY <2>3, <2>6, <2>8 DEF Template
  <2>10. Cardinality({written + 1}) = 1
    BY FS_Singleton, Zenon
  <2>11. Sound(t, written + 1)
    BY <1>i, <2>7, <2>9, <2>10, PromptAssumption DEF Sound, Numbers
  <2>12. ASSUME NEW id \in DOMAIN templates' PROVE Sound(templates'[id], written + 1)
    <3>1. CASE id = new
      BY <2>1, <2>11, <3>1
    <3>2. CASE id # new
      <4>1. id \in DOMAIN templates /\ templates'[id] = templates[id]
        BY <2>1, <3>2
      <4> QED
        BY <1>i, <1>w, <4>1
    <3> QED
      BY <3>1, <3>2
  <2>13. DOMAIN templates' \subseteq 1..new
    BY <1>i, <2>1
  <2>14. PromptInv'
    BY <2>1, <2>2, <2>12, <2>13 DEF PromptInv
  <2>15. \A id \in DOMAIN templates : templates'[id] = templates[id]
    BY <2>1, <2>2
  <2> QED
    BY <1>p, <1>r, <2>14, <2>15
<1>2. ASSUME NEW id \in DOMAIN templates, NEW name \in PromptNames \cup {None},
             NEW active \in BOOLEAN \cup {None}, UpdateTemplate(id, name, active)
      PROVE  PromptInv' /\ PinnedSame
  <2> DEFINE t == templates[id]
             u == templates'[id]
  <2>1. Sound(t, written) /\ t \in Template
    BY <1>i DEF Sound
  <2>2. /\ u = [t EXCEPT !.name = IF name = None THEN @ ELSE name,
                         !.active = IF active = None THEN @ ELSE active]
        /\ DOMAIN templates' = DOMAIN templates
        /\ \A i \in DOMAIN templates : i # id => templates'[i] = templates[i]
        /\ drafted' = drafted /\ written' = written
    BY <1>2 DEF UpdateTemplate
  <2>3. u \in Template /\ u.versions = t.versions /\ u.current = t.current
    <3> HIDE DEF t
    <3>1. PICK a : a = [t EXCEPT !.name = IF name = None THEN t.name ELSE name,
                                 !.active = IF active = None THEN t.active ELSE active]
      OBVIOUS
    <3>2. /\ (IF name = None THEN t.name ELSE name) \in PromptNames
          /\ (IF active = None THEN t.active ELSE active) \in BOOLEAN
      BY <2>1 DEF Template
    <3>3. a \in Template /\ a.versions = t.versions /\ a.current = t.current
      BY <2>1, <3>1, <3>2 DEF Template
    <3>4. u = a
      BY <2>2, <3>1 DEF t
    <3> QED
      BY <3>3, <3>4
  <2>4. PICK new : new = u
    OBVIOUS
  <2> HIDE DEF t, u
  <2>5. new \in Template /\ new.versions = t.versions /\ new.current = t.current
    BY <2>3, <2>4
  <2>6. Sound(new, written)
    BY <2>1, <2>5 DEF Sound, Numbers
  <2>7. SamePinned(t, new)
    BY <2>5 DEF SamePinned, Rendered, Resolve, Numbered
  <2> QED
    BY <1>o, <2>2, <2>4, <2>6, <2>7 DEF t, u
<1>3. ASSUME NEW id \in DOMAIN templates, DeleteTemplate(id) PROVE PromptInv' /\ PinnedSame
  <2>1. /\ DOMAIN templates' = DOMAIN templates \ {id} /\ UNCHANGED <<drafted, written>>
        /\ \A i \in DOMAIN templates' : templates'[i] = templates[i]
    BY <1>3 DEF DeleteTemplate
  <2>2. PromptInv'
    BY <1>i, <2>1 DEF PromptInv
  <2> QED
    BY <1>p, <1>r, <2>1, <2>2
<1>4. ASSUME NEW id \in DOMAIN templates, NEW variables \in VariableLists,
             CreateVersion(id, variables)
      PROVE  PromptInv' /\ PinnedSame
  <2> DEFINE t == templates[id]
             n == Cardinality(DOMAIN t.versions) + 1
             w == WithVersion(t.versions, n, variables)
  <2>1. Sound(t, written) /\ t \in Template
    BY <1>i DEF Sound
  <2>2. n \in 1..MaxVersions /\ n <= MaxVersions
    <3>1. n <= MaxVersions
      BY <1>4 DEF CreateVersion
    <3>2. IsFiniteSet(1..written)
      BY <1>i, FS_Interval
    <3>3. IsFiniteSet(DOMAIN t.versions)
      BY <2>1, <3>2, FS_Subset DEF Sound
    <3>4. Cardinality(DOMAIN t.versions) \in Nat
      BY <3>3, FS_CardinalityType
    <3> QED
      BY <3>1, <3>4, PromptAssumption
  <2>3. /\ templates' = [templates EXCEPT ![id].versions = w, ![id].current = n]
        /\ drafted' = drafted /\ written' = written + 1
    BY <1>4 DEF CreateVersion
  <2>4. w \in PromptVersions
    <3>1. PICK contents \in SUBSET Nat : t.versions \in [contents -> PromptVersion]
      BY <2>1 DEF Template, PromptVersions
    <3>2. [number |-> n, variables |-> variables] \in PromptVersion
      BY <2>2 DEF PromptVersion
    <3>3. w \in [contents \cup {written + 1} -> PromptVersion]
      <4> HIDE DEF n, t
      <4> QED
        BY <3>1, <3>2 DEF WithVersion
    <3>4. contents \cup {written + 1} \in SUBSET Nat
      BY <1>i
    <3> HIDE DEF w
    <3> QED
      BY <3>3, <3>4 DEF PromptVersions
  <2> HIDE DEF w, n
  <2>5. PICK new : new = [t EXCEPT !.versions = w, !.current = n]
    OBVIOUS
  <2>6. new \in Template /\ new.versions = w /\ new.current = n
    <3> HIDE DEF t
    <3> QED
      BY <2>1, <2>2, <2>4, <2>5 DEF Template
  <2>7. Sound(new, written + 1) /\ SamePinned(t, new)
    <3>1. new.versions = WithVersion(t.versions, n, variables)
      BY <2>6 DEF w
    <3>2. Cardinality(DOMAIN t.versions) + 1 <= MaxVersions
      BY <2>2 DEF n
    <3> HIDE DEF t
    <3> QED
      BY <1>i, <2>1, <2>2, <2>6, <3>1, <3>2, OneVersionMore
  <2>8. /\ templates'[id] = new /\ DOMAIN templates' = DOMAIN templates
        /\ \A i \in DOMAIN templates : i # id => templates'[i] = templates[i]
    BY <2>3, <2>5
  <2> QED
    BY <1>o, <2>3, <2>7, <2>8
<1>5. ASSUME NEW id \in DOMAIN templates, NEW n \in 1..MaxVersions, RollbackVersion(id, n)
      PROVE  PromptInv' /\ PinnedSame
  <2> DEFINE t == templates[id]
  <2>1. Sound(t, written) /\ t \in Template
    BY <1>i DEF Sound
  <2>2. /\ n \in Numbers(t) /\ templates' = [templates EXCEPT ![id].current = n]
        /\ drafted' = drafted /\ written' = written
    BY <1>5 DEF RollbackVersion
  <2>3. PICK new : new = [t EXCEPT !.current = n]
    OBVIOUS
  <2>4. new \in Template /\ new.versions = t.versions /\ new.current = n
    <3> HIDE DEF t
    <3> QED
      BY <2>1, <2>3 DEF Template
  <2>5. Sound(new, written)
    BY <2>1, <2>2, <2>4 DEF Sound, Numbers
  <2>6. SamePinned(t, new)
    <3> SUFFICES ASSUME NEW m \in Numbers(t) PROVE Rendered(new, m) = Rendered(t, m)
      BY DEF SamePinned
    <3>1. m \in 1..MaxVersions
      BY <2>1, VersionsAre DEF Numbers
    <3>2. m # None
      BY <3>1, PromptAssumption
    <3> HIDE DEF t
    <3> QED
      BY <2>4, <3>2 DEF Rendered, Resolve, Numbered
  <2>7. /\ templates'[id] = new /\ DOMAIN templates' = DOMAIN templates
        /\ \A i \in DOMAIN templates : i # id => templates'[i] = templates[i]
    BY <2>2, <2>3
  <2> QED
    BY <1>o, <2>2, <2>5, <2>6, <2>7
<1>6. ASSUME NEW id \in DOMAIN templates, NEW n \in 1..MaxVersions, DeleteVersion(id, n)
      PROVE  PromptInv' /\ PinnedSame
  <2> DEFINE t == templates[id]
             kept == DOMAIN t.versions \ Numbered(t, n)
             left == [content \in kept |-> t.versions[content]]
             current == IF t.current = n /\ kept # {} THEN Max(Numbers(t) \ {n}) ELSE t.current
  <2>1. Sound(t, written) /\ t \in Template
    BY <1>i DEF Sound
  <2>2. /\ templates' = [templates EXCEPT ![id].versions = left, ![id].current = current]
        /\ drafted' = drafted /\ written' = written
    BY <1>6 DEF DeleteVersion
  <2>3. left \in PromptVersions
    <3>1. PICK contents \in SUBSET Nat : t.versions \in [contents -> PromptVersion]
      BY <2>1 DEF Template, PromptVersions
    <3>2. kept \in SUBSET Nat /\ left \in [kept -> PromptVersion]
      <4> HIDE DEF t
      <4> QED
        BY <3>1
    <3> HIDE DEF left, kept
    <3> QED
      BY <3>2 DEF PromptVersions
  <2>4. current \in 1..MaxVersions
    <3> DEFINE S == Numbers(t) \ {n}
    <3>1. S \in SUBSET (1..MaxVersions) /\ S \in SUBSET (0..MaxVersions)
      BY <2>1, VersionsAre DEF Numbers
    <3>2. t.current \in 1..MaxVersions
      BY <2>1 DEF Template
    <3>3. ASSUME kept # {} PROVE S # {}
      <4>1. PICK content : content \in kept
        BY <3>3
      <4>2. t.versions[content].number \in S
        BY <4>1 DEF Numbers, Numbered
      <4> QED
        BY <4>2
    <3> HIDE DEF S, kept, t
    <3>4. ASSUME kept # {} PROVE Max(S) \in S
      BY <3>1, <3>3, <3>4, GreatestMember, PromptAssumption
    <3> QED
      BY <3>1, <3>2, <3>4 DEF S
  <2> HIDE DEF left, current
  <2>5. PICK new : new = [t EXCEPT !.versions = left, !.current = current]
    OBVIOUS
  <2>6. new \in Template /\ new.versions = left /\ new.current = current
    <3> HIDE DEF t, kept
    <3> QED
      BY <2>1, <2>3, <2>4, <2>5 DEF Template
  <2>7. Sound(new, written) /\ SamePinned(t, new)
    <3>1. /\ new.versions = [content \in kept |-> t.versions[content]]
          /\ new.current = IF t.current = n /\ kept # {} THEN Max(Numbers(t) \ {n}) ELSE t.current
          /\ kept = DOMAIN t.versions \ Numbered(t, n)
      BY <2>6 DEF left, current
    <3> HIDE DEF t, kept
    <3> QED
      BY <1>i, <2>1, <2>6, <3>1, NumberDropped
  <2>8. /\ templates'[id] = new /\ DOMAIN templates' = DOMAIN templates
        /\ \A i \in DOMAIN templates : i # id => templates'[i] = templates[i]
    BY <2>2, <2>5
  <2> QED
    BY <1>o, <2>2, <2>7, <2>8
<1>7. CASE UNCHANGED promptVars
  BY <1>7 DEF promptVars, PromptInv
<1>8. CASE PromptNext
  BY <1>8, <1>1, <1>2, <1>3, <1>4, <1>5, <1>6 DEF PromptNext
<1> QED
  BY <1>7, <1>8

\* Every template keeps its type, has versions that were written, within the limit, and
\* a current version among them.
THEOREM PromptInvariant ==
  PromptSpec => []PromptInv
<1> QED
  BY PromptInitHolds, PromptStepHolds, PTL DEF PromptSpec

LEMMA PromptInvImplies ==
  PromptInv => CurrentRenders
<1> SUFFICES ASSUME PromptInv, NEW id \in DOMAIN templates
             PROVE  LET t == templates[id]
                    IN  /\ t.active /\ DOMAIN t.versions # {} =>
                             Renders(t, None, UNION {{v.name : v \in vs} : vs \in VariableLists})
                        /\ Numbers(t) \subseteq 1..MaxVersions
                        /\ Cardinality(DOMAIN t.versions) <= MaxVersions
  BY DEF CurrentRenders
<1> DEFINE t == templates[id]
           given == UNION {{v.name : v \in vs} : vs \in VariableLists}
<1>1. Sound(t, written) /\ t \in Template
  BY DEF PromptInv, Sound
<1> HIDE DEF t
<1>2. Numbers(t) \subseteq 1..MaxVersions
  BY <1>1, VersionsAre DEF Numbers
<1>3. ASSUME t.active, DOMAIN t.versions # {} PROVE Renders(t, None, given)
  <2> DEFINE n == t.current
             least == Min(Numbered(t, n))
  <2>1. n \in Numbers(t)
    BY <1>1, <1>3 DEF Sound
  <2>2. n \in 1..MaxVersions
    BY <1>2, <2>1
  <2>3. least \in Numbered(t, n)
    BY <1>1, <2>1, <2>2, RenderedIs
  <2>4. t.versions[least].variables \in VariableLists
    BY <1>1, <2>3, VersionsAre DEF Numbered
  <2>5. Rendered(t, None).variables = t.versions[least].variables
    BY DEF Rendered, Resolve
  <2> HIDE DEF least, n
  <2>6. \A v \in Rendered(t, None).variables : v.name \in given
    BY <2>4, <2>5
  <2> QED
    BY <1>3, <2>1, <2>6 DEF Renders, n
<1> QED
  BY <1>1, <1>2, <1>3 DEF Sound, t

\* Whatever the editors of a template do, those who render it notice nothing but a new
\* current version, and there is one as long as there is a version.
THEOREM PromptsHoldCorrect ==
  PromptSpec => PromptsHold
<1>1. PromptSpec => []CurrentRenders
  BY PromptInvariant, PromptInvImplies, PTL
<1>2. PromptSpec => [][PinnedSame]_promptVars
  BY PromptInvariant, PromptStepHolds, PTL DEF PromptSpec
<1>3. PromptSpec => PinnedStays
  BY <1>2 DEF PinnedStays
<1> QED
  BY <1>1, <1>3 DEF PromptsHold

-----------------------------------------------------------------------------
(* Guardrail. *)

Actions == {"block", "warn", "allow", "redact"}

LogEntry == [direction : {"input", "output"}, action : Actions, highest : 0..3]

\* What is severe is stopped.
Fitting(e) ==
  e.highest >= High =>
    e.action \in {"block"} \cup (IF e.direction = "output" THEN {"redact"} ELSE {})

Policy == [enabled : BOOLEAN, rules : Seq(RuleChoices)]

GuardTypeOK ==
  /\ policies \in [Policies -> Policy \cup {None, Gone}]
  /\ defaultPolicy \in Policy \cup {None}
  /\ auditLogs \in Seq(LogEntry)
  /\ totals \in [{"checks", "block", "warn", "allow"} -> Nat]

\* The entries of a log that have an action, and the redactions that were counted.
Logged(log, a) == Cardinality({i \in DOMAIN log : log[i].action = a})

Redacts(t) == t["checks"] - t["block"] - t["warn"] - t["allow"]

StatsInv ==
  /\ Len(auditLogs) = IF totals["checks"] <= LogLimit THEN totals["checks"] ELSE LogLimit
  /\ \A a \in {"block", "warn", "allow"} : Logged(auditLogs, a) <= totals[a]
  /\ Logged(auditLogs, "redact") <= Redacts(totals)
  /\ totals["checks"] <= LogLimit => Logged(auditLogs, "redact") = Redacts(totals)

GuardInv ==
  /\ GuardTypeOK
  /\ \A i \in 1..Len(auditLogs) : Fitting(auditLogs[i])
  /\ StatsInv

-----------------------------------------------------------------------------
\* What a check decides.

LEMMA MaxOfSeverities ==
  ASSUME NEW S \in SUBSET (0..3), S # {}
  PROVE  Max(S) \in S /\ \A y \in S : Max(S) >= y
<1>1. \E x \in S : \A y \in S : x >= y
  <2>1. CASE 3 \in S
    <3>1. \A y \in S : 3 >= y
      OBVIOUS
    <3>2. 3 \in S
      BY <2>1
    <3> QED
      BY <3>1, <3>2
  <2>2. CASE 3 \notin S /\ 2 \in S
    <3>1. \A y \in S : 2 >= y
      BY <2>2
    <3> QED
      BY <2>2, <3>1
  <2>3. CASE 3 \notin S /\ 2 \notin S /\ 1 \in S
    <3>1. \A y \in S : 1 >= y
      BY <2>3
    <3> QED
      BY <2>3, <3>1
  <2>4. CASE 3 \notin S /\ 2 \notin S /\ 1 \notin S
    <3>1. \A y \in S : y = 0
      BY <2>4
    <3>0. PICK z : z \in S
      OBVIOUS
    <3>2. z \in S /\ \A y \in S : z >= y
      BY <3>0, <3>1
    <3> QED
      BY <3>2
  <2> QED
    BY <2>1, <2>2, <2>3, <2>4
<1> QED
  BY <1>1 DEF Max

Rated(violations) == \A v \in violations : v.severity \in 0..3

LEMMA HighestIs ==
  ASSUME NEW violations, Rated(violations)
  PROVE  /\ HighestSeverity(violations) \in 0..3
         /\ \A v \in violations : HighestSeverity(violations) >= v.severity
         /\ HighestSeverity(violations) = 0
            \/ \E v \in violations : HighestSeverity(violations) = v.severity
<1> DEFINE S == {Low} \cup {v.severity : v \in violations}
<1>1. S \in SUBSET (0..3) /\ S # {} /\ 0 \in S
  BY DEF Rated, Low
<1>2. Max(S) \in S /\ \A y \in S : Max(S) >= y
  <2> HIDE DEF S
  <2> QED
    BY <1>1, MaxOfSeverities
<1>3. HighestSeverity(violations) = Max(S)
  BY DEF HighestSeverity
<1>4. Max(S) \in 0..3
  BY <1>1, <1>2
<1>5. \A v \in violations : v.severity \in S
  OBVIOUS
<1>6. Max(S) = 0 \/ \E v \in violations : Max(S) = v.severity
  BY <1>2 DEF Low
<1> HIDE DEF S
<1> QED
  BY <1>2, <1>3, <1>4, <1>5, <1>6

\* The lists that the code tells apart, and a decision for each.
LEMMA DecisionIs ==
  ASSUME NEW violations, Rated(violations)
  PROVE  /\ DetermineAction(violations) \in Actions
         /\ HighestSeverity(violations) \in {2, 3} => DetermineAction(violations) = "block"
         /\ HighestSeverity(violations) = 0 => DetermineAction(violations) = "allow"
         /\ HighestSeverity(violations) = 1 => DetermineAction(violations) = DefaultAction
<1> DEFINE h == HighestSeverity(violations)
<1>1. h \in 0..3 /\ (violations = {} => h = 0)
  BY HighestIs
<1>2. DefaultAction \in Actions
  BY GuardrailAssumption DEF Actions
<1> HIDE DEF h
<1>3. DetermineAction(violations) =
        CASE violations = {} -> "allow"
          [] h \in {2, 3} -> "block"
          [] h = 0 -> "allow"
          [] OTHER -> DefaultAction
  BY DEF DetermineAction, h, High, Critical, Low
<1>4. CASE violations = {}
  <2>1. DetermineAction(violations) = "allow" /\ h = 0
    BY <1>1, <1>4 DEF DetermineAction, h, High, Critical, Low
  <2> QED
    BY <2>1 DEF h, Actions
<1>5. CASE violations # {} /\ h \in {2, 3}
  BY <1>3, <1>5 DEF h, Actions
<1>6. CASE violations # {} /\ h = 0
  BY <1>3, <1>6 DEF h, Actions
<1>7. CASE violations # {} /\ h = 1
  BY <1>2, <1>3, <1>7 DEF h
<1> QED
  BY <1>1, <1>4, <1>5, <1>6, <1>7

LEMMA FoundRated ==
  ASSUME NEW content, NEW rules \in SUBSET RuleChoices
  PROVE  Rated(PromptViolations(content, rules)) /\ Rated(OutputViolations(content, rules))
<1>1. Rated(TooLong(content))
  BY DEF Rated, TooLong, Violation, Low
<1>2. Rated(Detect(content))
  BY DEF Rated, Detect, Violation, InjectionSeverity, Medium, High, Critical
<1>3. Rated(FilterOutput(content))
  BY DEF Rated, FilterOutput, Violation, High
<1>4. \A direction : Rated(EvaluateRules(content, rules, direction))
  BY GuardrailAssumption DEF Rated, EvaluateRules, Violation
<1> QED
  BY <1>1, <1>2, <1>3, <1>4 DEF Rated, PromptViolations, OutputViolations

LEMMA CheckedIs ==
  ASSUME NEW content, NEW rules \in SUBSET RuleChoices
  PROVE  /\ CheckedPrompt(content, rules) \in LogEntry /\ Fitting(CheckedPrompt(content, rules))
         /\ CheckedOutput(content, rules) \in LogEntry /\ Fitting(CheckedOutput(content, rules))
<1> DEFINE p == PromptViolations(content, rules)
           o == OutputViolations(content, rules)
<1>1. Rated(p) /\ Rated(o)
  BY FoundRated
<1> HIDE DEF p, o
<1>2. /\ HighestSeverity(p) \in 0..3 /\ DetermineAction(p) \in Actions
      /\ HighestSeverity(p) \in {2, 3} => DetermineAction(p) = "block"
  BY <1>1, HighestIs, DecisionIs
<1>3. /\ HighestSeverity(o) \in 0..3 /\ OutputAction(o) \in Actions
      /\ HighestSeverity(o) \in {2, 3} => OutputAction(o) \in {"block", "redact"}
  <2>1. /\ HighestSeverity(o) \in 0..3 /\ DetermineAction(o) \in Actions
        /\ HighestSeverity(o) \in {2, 3} => DetermineAction(o) = "block"
    BY <1>1, HighestIs, DecisionIs
  <2> QED
    BY <2>1 DEF OutputAction, Actions
<1>4. CheckedPrompt(content, rules) =
        [direction |-> "input", action |-> DetermineAction(p), highest |-> HighestSeverity(p)]
  BY DEF CheckedPrompt, Entry, p
<1>5. CheckedOutput(content, rules) =
        [direction |-> "output", action |-> OutputAction(o), highest |-> HighestSeverity(o)]
  BY DEF CheckedOutput, Entry, o
<1>6. CheckedPrompt(content, rules) \in LogEntry /\ Fitting(CheckedPrompt(content, rules))
  BY <1>2, <1>4 DEF LogEntry, Fitting, High
<1>7. CheckedOutput(content, rules) \in LogEntry /\ Fitting(CheckedOutput(content, rules))
  BY <1>3, <1>5 DEF LogEntry, Fitting, High
<1> QED
  BY <1>6, <1>7

LEMMA RulesAreChoices ==
  ASSUME GuardTypeOK, NEW p \in Policies \cup {None}
  PROVE  RulesFor(p) \in SUBSET RuleChoices
<1> DEFINE policy == PolicyNamed(p)
<1>1. policy \in Policy \cup {None, Gone}
  BY DEF PolicyNamed, GuardTypeOK
<1>2. RulesFor(p) = IF policy \in {None, Gone} THEN {}
                    ELSE IF policy.enabled THEN ToSet(policy.rules) ELSE {}
  BY DEF RulesFor
<1> HIDE DEF policy
<1>3. ASSUME policy \in Policy PROVE ToSet(policy.rules) \in SUBSET RuleChoices
  BY <1>3 DEF Policy, ToSet
<1> QED
  BY <1>1, <1>2, <1>3

\* More violations are never treated more leniently.
LEMMA MoreIsStricter ==
  ASSUME NEW A, NEW B, B \subseteq A, Rated(A)
  PROVE  LET Rank == [allow |-> 0, warn |-> 1, redact |-> 2, block |-> 3]
         IN  Rank[DetermineAction(A)] >= Rank[DetermineAction(B)]
<1>1. Rated(B)
  BY DEF Rated
<1> DEFINE Rank == [allow |-> 0, warn |-> 1, redact |-> 2, block |-> 3]
<1>2. \A a \in Actions : Rank[a] \in 0..3 /\ Rank["allow"] = 0 /\ Rank["block"] = 3
  BY DEF Actions
<1> HIDE DEF Rank
<1> DEFINE a == HighestSeverity(A)
           b == HighestSeverity(B)
<1>3. a \in 0..3 /\ b \in 0..3 /\ a >= b
  <2>1. a \in 0..3 /\ \A v \in A : a >= v.severity
    BY HighestIs
  <2>2. b \in 0..3 /\ (b = 0 \/ \E v \in B : b = v.severity)
    BY <1>1, HighestIs
  <2> HIDE DEF a, b
  <2>3. CASE b = 0
    BY <2>1, <2>2, <2>3
  <2>4. CASE b # 0
    <3>1. PICK v \in B : b = v.severity
      BY <2>2, <2>4
    <3>2. a >= v.severity
      BY <2>1, <3>1
    <3> QED
      BY <2>1, <2>2, <3>1, <3>2
  <2> QED
    BY <2>3, <2>4
<1> DEFINE da == DetermineAction(A)
           db == DetermineAction(B)
<1>4. /\ da \in Actions /\ (a \in {2, 3} => da = "block") /\ (a = 1 => da = DefaultAction)
      /\ a = 0 => da = "allow"
  BY DecisionIs
<1>5. /\ db \in Actions /\ (b \in {2, 3} => db = "block") /\ (b = 1 => db = DefaultAction)
      /\ b = 0 => db = "allow"
  BY <1>1, DecisionIs
<1> HIDE DEF a, b, da, db
<1>6. Rank[da] >= Rank[db]
  <2>1. CASE b = 0
    BY <1>2, <1>4, <1>5, <2>1
  <2>2. CASE a \in {2, 3}
    BY <1>2, <1>4, <1>5, <2>2
  <2>3. CASE a = 1 /\ b = 1
    BY <1>2, <1>4, <1>5, <2>3
  <2> QED
    BY <1>3, <2>1, <2>2, <2>3
<1> QED
  BY <1>6 DEF Rank, da, db

LEMMA Tighten ==
  ASSUME GuardTypeOK
  PROVE  RulesTighten
<1> SUFFICES ASSUME NEW p \in Policies, NEW content
             PROVE  LET Rank == [allow |-> 0, warn |-> 1, redact |-> 2, block |-> 3]
                    IN  Rank[DetermineAction(PromptViolations(content, RulesFor(p)))] >=
                          Rank[DetermineAction(PromptViolations(content, {}))]
  BY DEF RulesTighten
<1>1. Rated(PromptViolations(content, RulesFor(p)))
  BY RulesAreChoices, FoundRated
<1>2. PromptViolations(content, {}) \subseteq PromptViolations(content, RulesFor(p))
  BY DEF PromptViolations, EvaluateRules
<1> QED
  BY <1>1, <1>2, MoreIsStricter

-----------------------------------------------------------------------------
\* The statistics.

LEMMA LoggedIs ==
  ASSUME NEW log \in Seq(LogEntry), NEW a
  PROVE  /\ IsFiniteSet({i \in DOMAIN log : log[i].action = a})
         /\ Logged(log, a) \in Nat
<1>1. IsFiniteSet(1..Len(log)) /\ DOMAIN log = 1..Len(log)
  BY FS_Interval
<1>2. {i \in DOMAIN log : log[i].action = a} \in SUBSET (1..Len(log))
  BY <1>1
<1>3. IsFiniteSet({i \in DOMAIN log : log[i].action = a})
  BY <1>1, <1>2, FS_Subset
<1> QED
  BY <1>3, FS_CardinalityType DEF Logged

LEMMA LoggedAppend ==
  ASSUME NEW log \in Seq(LogEntry), NEW e \in LogEntry, NEW a
  PROVE  Logged(Append(log, e), a) = Logged(log, a) + (IF e.action = a THEN 1 ELSE 0)
<1> DEFINE old == {i \in DOMAIN log : log[i].action = a}
           next == Append(log, e)
           n == Len(log) + 1
           new == {i \in DOMAIN next : next[i].action = a}
<1>1. DOMAIN log = 1..Len(log) /\ DOMAIN next = 1..n /\ n \notin old
  OBVIOUS
<1>2. next[n] = e /\ \A i \in 1..Len(log) : next[i] = log[i]
  OBVIOUS
<1>3. IsFiniteSet(old) /\ Cardinality(old) \in Nat
  BY LoggedIs, FS_CardinalityType
<1>n. Logged(next, a) = Cardinality(new) /\ Logged(log, a) = Cardinality(old)
  BY DEF Logged
<1>4. CASE e.action = a
  <2>1. new = old \cup {n}
    BY <1>1, <1>2, <1>4
  <2> HIDE DEF new, old, next
  <2>2. Cardinality(old \cup {n}) = Cardinality(old) + 1
    BY <1>1, <1>3, FS_AddElement
  <2> QED
    BY <1>4, <1>n, <2>1, <2>2 DEF next
<1>5. CASE e.action # a
  <2>1. new = old
    BY <1>1, <1>2, <1>5
  <2> HIDE DEF new, old, next
  <2> QED
    BY <1>3, <1>5, <1>n, <2>1 DEF next
<1> QED
  BY <1>4, <1>5

\* The latest entries are as many as they are in the log, or fewer.
LEMMA LoggedTail ==
  ASSUME NEW log \in Seq(LogEntry), NEW m \in 1..(Len(log) + 1), NEW a
  PROVE  Logged(SubSeq(log, m, Len(log)), a) <= Logged(log, a)
<1> DEFINE tail == SubSeq(log, m, Len(log))
           some == {i \in DOMAIN tail : tail[i].action = a}
           all == {i \in DOMAIN log : log[i].action = a}
           f == [i \in some |-> i + m - 1]
<1>1. IsFiniteSet(all)
  BY LoggedIs
<1>2. DOMAIN tail = 1..(Len(log) - m + 1) /\ DOMAIN log = 1..Len(log)
  OBVIOUS
<1>3. \A i \in DOMAIN tail : i + m - 1 \in DOMAIN log /\ tail[i] = log[i + m - 1]
  BY <1>2
<1>4. f \in [some -> all]
  BY <1>3
<1>5. \A i, j \in some : f[i] = f[j] => i = j
  BY <1>2
<1>6. f \in Injection(some, all)
  <2> HIDE DEF f, some, all
  <2> QED
    BY <1>4, <1>5 DEF Injection, IsInjective
<1> HIDE DEF f, some, all
<1>7. Cardinality(some) <= Cardinality(all)
  BY <1>1, <1>6, FS_Injection
<1> QED
  BY <1>7 DEF Logged, some, all

LEMMA CountingIs ==
  ASSUME NEW e \in LogEntry, NEW a \in {"checks", "block", "warn", "allow"}
  PROVE  /\ Cardinality(CountingAs(<<e>>, a)) = IF a \in {"checks", e.action} THEN 1 ELSE 0
         /\ \A f \in LogEntry :
              Cardinality(CountingAs(<<e, f>>, a)) =
                (IF a \in {"checks", e.action} THEN 1 ELSE 0)
                  + (IF a \in {"checks", f.action} THEN 1 ELSE 0)
<1>1. CountingAs(<<e>>, a) = IF a \in {"checks", e.action} THEN {1} ELSE {}
  BY DEF CountingAs
<1>2. ASSUME NEW f \in LogEntry
      PROVE  Cardinality(CountingAs(<<e, f>>, a)) =
               (IF a \in {"checks", e.action} THEN 1 ELSE 0)
                 + (IF a \in {"checks", f.action} THEN 1 ELSE 0)
  <2>1. CountingAs(<<e, f>>, a) =
          (IF a \in {"checks", e.action} THEN {1} ELSE {})
            \cup (IF a \in {"checks", f.action} THEN {2} ELSE {})
    BY DEF CountingAs
  <2>2. Cardinality({1} \cup {2}) = 2
    <3>0. IsFiniteSet({1}) /\ Cardinality({1}) = 1
      BY FS_Singleton, Zenon
    <3>1. IsFiniteSet({1}) /\ Cardinality({1}) = 1 /\ 2 \notin {1}
      BY <3>0
    <3>2. Cardinality({1} \cup {2}) = IF 2 \in {1} THEN Cardinality({1}) ELSE Cardinality({1}) + 1
      BY <3>1, FS_AddElement, Zenon
    <3> QED
      BY <3>1, <3>2
  <2>3. Cardinality({1}) = 1 /\ Cardinality({2}) = 1 /\ Cardinality({}) = 0
    BY FS_Singleton, FS_EmptySet
  <2>4. {1} \cup {} = {1} /\ {} \cup {2} = {2} /\ {} \cup {} = {}
    OBVIOUS
  <2>5. CASE a \in {"checks", e.action}
    BY <2>1, <2>2, <2>3, <2>4, <2>5
  <2>6. CASE a \notin {"checks", e.action}
    BY <2>1, <2>2, <2>3, <2>4, <2>6
  <2> QED
    BY <2>5, <2>6
<1> QED
  BY <1>1, <1>2, FS_Singleton, FS_EmptySet

\* The statistics before a check and after it, with the log not trimmed yet.
Untrimmed(log, t) ==
  /\ log \in Seq(LogEntry)
  /\ t \in [{"checks", "block", "warn", "allow"} -> Nat]
  /\ \A i \in 1..Len(log) : Fitting(log[i])
  /\ \A a \in {"block", "warn", "allow"} : Logged(log, a) <= t[a]
  /\ Logged(log, "redact") <= Redacts(t)
  /\ Len(log) <= t["checks"]

Tally(t, e) ==
  [a \in {"checks", "block", "warn", "allow"} |->
     t[a] + IF a \in {"checks", e.action} THEN 1 ELSE 0]

LEMMA OneMore ==
  ASSUME NEW log, NEW t, Untrimmed(log, t), NEW e \in LogEntry, Fitting(e)
  PROVE  /\ Untrimmed(Append(log, e), Tally(t, e))
         /\ Tally(t, e)["checks"] = t["checks"] + 1
         /\ Len(Append(log, e)) = Len(log) + 1
         /\ Logged(log, "redact") = Redacts(t) =>
              Logged(Append(log, e), "redact") = Redacts(Tally(t, e))
<1> DEFINE next == Append(log, e)
           u == Tally(t, e)
<1>1. /\ log \in Seq(LogEntry) /\ t \in [{"checks", "block", "warn", "allow"} -> Nat]
      /\ e.action \in Actions
  BY DEF Untrimmed, LogEntry
<1>2. next \in Seq(LogEntry) /\ Len(next) = Len(log) + 1
  BY <1>1
<1>3. u \in [{"checks", "block", "warn", "allow"} -> Nat]
  BY <1>1 DEF Tally
<1>4. /\ u["checks"] = t["checks"] + 1
      /\ u["block"] = t["block"] + (IF e.action = "block" THEN 1 ELSE 0)
      /\ u["warn"] = t["warn"] + (IF e.action = "warn" THEN 1 ELSE 0)
      /\ u["allow"] = t["allow"] + (IF e.action = "allow" THEN 1 ELSE 0)
  BY <1>1 DEF Tally
<1>5. \A i \in 1..Len(next) : Fitting(next[i])
  BY <1>1 DEF Untrimmed
<1>6. \A a \in Actions : /\ Logged(next, a) = Logged(log, a) + (IF e.action = a THEN 1 ELSE 0)
                         /\ Logged(log, a) \in Nat
  BY <1>1, LoggedAppend, LoggedIs
<1>7. /\ Logged(log, "block") <= t["block"] /\ Logged(log, "warn") <= t["warn"]
      /\ Logged(log, "allow") <= t["allow"] /\ Logged(log, "redact") <= Redacts(t)
      /\ Len(log) <= t["checks"]
  BY DEF Untrimmed
<1> HIDE DEF next, u
<1>8. /\ t["checks"] \in Nat /\ t["block"] \in Nat /\ t["warn"] \in Nat /\ t["allow"] \in Nat
      /\ Redacts(t) = t["checks"] - t["block"] - t["warn"] - t["allow"]
      /\ Redacts(u) = u["checks"] - u["block"] - u["warn"] - u["allow"]
      /\ Len(log) \in Nat
  BY <1>1 DEF Redacts
<1>a. /\ Logged(next, "block") = Logged(log, "block") + (IF e.action = "block" THEN 1 ELSE 0)
      /\ Logged(next, "warn") = Logged(log, "warn") + (IF e.action = "warn" THEN 1 ELSE 0)
      /\ Logged(next, "allow") = Logged(log, "allow") + (IF e.action = "allow" THEN 1 ELSE 0)
      /\ Logged(log, "block") \in Nat /\ Logged(log, "warn") \in Nat
      /\ Logged(log, "allow") \in Nat
  BY <1>6 DEF Actions
<1>9. \A a \in {"block", "warn", "allow"} : Logged(next, a) <= u[a]
  <2>1. Logged(next, "block") <= u["block"]
    <3>1. PICK d \in {0, 1} : /\ Logged(next, "block") = Logged(log, "block") + d
                             /\ u["block"] = t["block"] + d
      BY <1>4, <1>a
    <3> QED
      BY <3>1, <1>a, <1>7, <1>8
  <2>2. Logged(next, "warn") <= u["warn"]
    <3>1. PICK d \in {0, 1} : /\ Logged(next, "warn") = Logged(log, "warn") + d
                             /\ u["warn"] = t["warn"] + d
      BY <1>4, <1>a
    <3> QED
      BY <3>1, <1>a, <1>7, <1>8
  <2>3. Logged(next, "allow") <= u["allow"]
    <3>1. PICK d \in {0, 1} : /\ Logged(next, "allow") = Logged(log, "allow") + d
                             /\ u["allow"] = t["allow"] + d
      BY <1>4, <1>a
    <3> QED
      BY <3>1, <1>a, <1>7, <1>8
  <2> QED
    BY <2>1, <2>2, <2>3
<1>10. Redacts(u) = Redacts(t) + (IF e.action = "redact" THEN 1 ELSE 0)
  <2>1. /\ Redacts(t) = t["checks"] - t["block"] - t["warn"] - t["allow"]
        /\ Redacts(u) = u["checks"] - u["block"] - u["warn"] - u["allow"]
    BY DEF Redacts
  <2>2. PICK c \in Nat, k \in Nat, w \in Nat, l \in Nat :
          c = t["checks"] /\ k = t["block"] /\ w = t["warn"] /\ l = t["allow"]
    BY <1>8
  <2>3. CASE e.action = "redact"
    <3>1. u["checks"] = c + 1 /\ u["block"] = k /\ u["warn"] = w /\ u["allow"] = l
      BY <2>2, <2>3, <1>4
    <3>2. Redacts(u) = Redacts(t) + 1
      BY <2>1, <2>2, <3>1
    <3> QED
      BY <2>3, <3>2
  <2>4. CASE e.action # "redact"
    <3>1. \/ u["checks"] = c + 1 /\ u["block"] = k + 1 /\ u["warn"] = w /\ u["allow"] = l
          \/ u["checks"] = c + 1 /\ u["block"] = k /\ u["warn"] = w + 1 /\ u["allow"] = l
          \/ u["checks"] = c + 1 /\ u["block"] = k /\ u["warn"] = w /\ u["allow"] = l + 1
      <4>1. e.action \in {"block", "warn", "allow"}
        BY <1>1, <2>4 DEF Actions
      <4> QED
        BY <2>2, <1>4, <4>1
    <3>2. Redacts(t) = c - k - w - l /\ Redacts(t) \in Int
      BY <2>1, <2>2
    <3>3. \/ Redacts(u) = (c + 1) - (k + 1) - w - l
          \/ Redacts(u) = (c + 1) - k - (w + 1) - l
          \/ Redacts(u) = (c + 1) - k - w - (l + 1)
      BY <2>1, <3>1
    <3>4. Redacts(u) = Redacts(t) /\ Redacts(t) \in Int
      BY <3>2, <3>3
    <3> QED
      BY <2>4, <3>4
  <2> QED
    BY <2>3, <2>4
<1>11. /\ Logged(next, "redact") = Logged(log, "redact") + (IF e.action = "redact" THEN 1 ELSE 0)
       /\ Logged(log, "redact") \in Nat /\ Redacts(t) \in Int
  BY <1>6, <1>8 DEF Actions
<1>12. Logged(next, "redact") <= Redacts(u)
  BY <1>7, <1>10, <1>11
<1>13. Len(next) <= u["checks"]
  BY <1>2, <1>4, <1>7, <1>8
<1>14. Untrimmed(next, u)
  BY <1>2, <1>3, <1>5, <1>9, <1>12, <1>13 DEF Untrimmed
<1>15. Logged(log, "redact") = Redacts(t) => Logged(next, "redact") = Redacts(u)
  BY <1>10, <1>11
<1> QED
  BY <1>2, <1>4, <1>14, <1>15 DEF next, u

LEMMA TrimmedIs ==
  ASSUME NEW log \in Seq(LogEntry)
  PROVE  /\ Len(log) <= LogLimit => Trimmed(log) = log
         /\ Len(log) > LogLimit => Trimmed(log) = SubSeq(log, Len(log) - LogLimit + 1, Len(log))
<1>1. LogLimit \in Nat \ {0} /\ Len(log) \in Nat
  BY GuardrailAssumption
<1>2. ASSUME Len(log) <= LogLimit PROVE Trimmed(log) = log
  <2>1. Max({1, Len(log) - LogLimit + 1}) = 1
    BY <1>1, <1>2 DEF Max
  <2>2. SubSeq(log, 1, Len(log)) = log
    OBVIOUS
  <2> QED
    BY <2>1, <2>2 DEF Trimmed
<1>3. ASSUME Len(log) > LogLimit
      PROVE  Trimmed(log) = SubSeq(log, Len(log) - LogLimit + 1, Len(log))
  <2>1. Max({1, Len(log) - LogLimit + 1}) = Len(log) - LogLimit + 1
    BY <1>1, <1>3 DEF Max
  <2> QED
    BY <2>1 DEF Trimmed
<1> QED
  BY <1>2, <1>3

LEMMA TrimKeeps ==
  ASSUME NEW log, NEW t, Untrimmed(log, t),
         Len(log) <= LogLimit => Len(log) = t["checks"],
         Len(log) > LogLimit => t["checks"] > LogLimit,
         t["checks"] <= LogLimit => Logged(log, "redact") = Redacts(t)
  PROVE  /\ Trimmed(log) \in Seq(LogEntry)
         /\ \A i \in 1..Len(Trimmed(log)) : Fitting(Trimmed(log)[i])
         /\ Len(Trimmed(log)) = IF t["checks"] <= LogLimit THEN t["checks"] ELSE LogLimit
         /\ \A a \in {"block", "warn", "allow"} : Logged(Trimmed(log), a) <= t[a]
         /\ Logged(Trimmed(log), "redact") <= Redacts(t)
         /\ t["checks"] <= LogLimit => Logged(Trimmed(log), "redact") = Redacts(t)
<1>1. /\ LogLimit \in Nat \ {0} /\ Len(log) \in Nat /\ log \in Seq(LogEntry)
      /\ t \in [{"checks", "block", "warn", "allow"} -> Nat]
  BY GuardrailAssumption DEF Untrimmed
<1>2. CASE Len(log) <= LogLimit
  <2>1. Trimmed(log) = log
    BY <1>1, <1>2, TrimmedIs
  <2> QED
    BY <1>1, <1>2, <2>1 DEF Untrimmed
<1>3. CASE Len(log) > LogLimit
  <2> DEFINE m == Len(log) - LogLimit + 1
             tail == SubSeq(log, m, Len(log))
  <2>1. Trimmed(log) = tail
    BY <1>1, <1>3, TrimmedIs
  <2>2. m \in 1..(Len(log) + 1) /\ Len(log) - m + 1 = LogLimit
    BY <1>1, <1>3
  <2>3. \A a : Logged(tail, a) <= Logged(log, a)
    BY <1>1, <2>2, LoggedTail
  <2> HIDE DEF m
  <2>4. tail \in Seq(LogEntry) /\ Len(tail) = LogLimit
    BY <1>1, <2>2
  <2>5. \A i \in 1..Len(tail) : Fitting(tail[i])
    <3>1. \A i \in 1..LogLimit : tail[i] = log[m + i - 1] /\ m + i - 1 \in 1..Len(log)
      BY <1>1, <2>2
    <3> HIDE DEF tail
    <3> QED
      BY <2>4, <3>1 DEF Untrimmed
  <2> HIDE DEF tail
  <2>6. \A a \in Actions : Logged(tail, a) \in Nat /\ Logged(log, a) \in Nat
    BY <1>1, <2>4, LoggedIs
  <2>7. t["checks"] > LogLimit /\ t["checks"] \in Nat /\ Redacts(t) \in Int
    BY <1>1, <1>3 DEF Redacts
  <2>8. \A a \in {"block", "warn", "allow"} : Logged(tail, a) <= t[a]
    <3> SUFFICES ASSUME NEW a \in {"block", "warn", "allow"} PROVE Logged(tail, a) <= t[a]
      OBVIOUS
    <3>1. Logged(tail, a) <= Logged(log, a) /\ Logged(log, a) <= t[a] /\ t[a] \in Nat
      BY <1>1, <2>3 DEF Untrimmed
    <3> QED
      BY <2>6, <3>1 DEF Actions
  <2>9. Logged(tail, "redact") <= Redacts(t)
    <3>1. Logged(tail, "redact") <= Logged(log, "redact") /\ Logged(log, "redact") <= Redacts(t)
      BY <2>3 DEF Untrimmed
    <3> QED
      BY <2>6, <2>7, <3>1 DEF Actions
  <2> QED
    BY <1>1, <2>1, <2>4, <2>5, <2>7, <2>8, <2>9
<1> QED
  BY <1>1, <1>2, <1>3

\* A check, or two, keep the log and the counters in step.
LEMMA LogAndCountKeeps ==
  ASSUME GuardInv, NEW e \in LogEntry, Fitting(e), NEW entries,
         \/ entries = <<e>>
         \/ \E f \in LogEntry : Fitting(f) /\ entries = <<e, f>>,
         LogAndCount(entries)
  PROVE  GuardInv'
<1> DEFINE rank == {"checks", "block", "warn", "allow"}
<1>1. /\ auditLogs \in Seq(LogEntry) /\ totals \in [rank -> Nat]
      /\ LogLimit \in Nat \ {0} /\ Len(auditLogs) \in Nat /\ totals["checks"] \in Nat
  BY GuardrailAssumption DEF GuardInv, GuardTypeOK
<1>2. Untrimmed(auditLogs, totals)
  BY <1>1 DEF GuardInv, StatsInv, Untrimmed
<1>3. /\ auditLogs' = Trimmed(auditLogs \o entries)
      /\ totals' = [a \in rank |-> totals[a] + Cardinality(CountingAs(entries, a))]
      /\ UNCHANGED <<policies, defaultPolicy>>
  BY <1>1 DEF LogAndCount
<1>4. /\ Len(auditLogs) = IF totals["checks"] <= LogLimit THEN totals["checks"] ELSE LogLimit
      /\ totals["checks"] <= LogLimit => Logged(auditLogs, "redact") = Redacts(totals)
  BY DEF GuardInv, StatsInv
<1>5. \E log, t : /\ auditLogs' = Trimmed(log) /\ totals' = t /\ Untrimmed(log, t)
                  /\ Len(log) <= LogLimit => Len(log) = t["checks"]
                  /\ Len(log) > LogLimit => t["checks"] > LogLimit
                  /\ t["checks"] <= LogLimit => Logged(log, "redact") = Redacts(t)
  <2> DEFINE log1 == Append(auditLogs, e)
             t1 == Tally(totals, e)
  <2>1. /\ Untrimmed(log1, t1) /\ t1["checks"] = totals["checks"] + 1
        /\ Len(log1) = Len(auditLogs) + 1
        /\ Logged(auditLogs, "redact") = Redacts(totals) => Logged(log1, "redact") = Redacts(t1)
    BY <1>2, OneMore
  <2>2. \A a \in rank : t1[a] = totals[a] + IF a \in {"checks", e.action} THEN 1 ELSE 0
    BY DEF Tally
  <2>3. CASE entries = <<e>>
    <3>1. auditLogs \o entries = log1
      BY <1>1, <2>3
    <3>2. totals' = t1
      <4>1. \A a \in rank : Cardinality(CountingAs(entries, a)) = IF a \in {"checks", e.action} THEN 1 ELSE 0
        BY <2>3, CountingIs
      <4> QED
        BY <1>3, <4>1 DEF Tally
    <3> HIDE DEF log1, t1
    <3>3. /\ Len(log1) <= LogLimit => Len(log1) = t1["checks"]
          /\ Len(log1) > LogLimit => t1["checks"] > LogLimit
          /\ t1["checks"] <= LogLimit => Logged(log1, "redact") = Redacts(t1)
      BY <1>1, <1>4, <2>1
    <3> QED
      BY <1>3, <2>1, <3>1, <3>2, <3>3
  <2>4. CASE \E f \in LogEntry : Fitting(f) /\ entries = <<e, f>>
    <3>1. PICK f \in LogEntry : Fitting(f) /\ entries = <<e, f>>
      BY <2>4
    <3> DEFINE log2 == Append(log1, f)
               t2 == Tally(t1, f)
    <3>2. /\ Untrimmed(log2, t2) /\ t2["checks"] = t1["checks"] + 1
          /\ Len(log2) = Len(log1) + 1
          /\ Logged(log1, "redact") = Redacts(t1) => Logged(log2, "redact") = Redacts(t2)
      <4> HIDE DEF log1, t1
      <4> QED
        BY <2>1, <3>1, OneMore
    <3>3. auditLogs \o entries = log2
      BY <1>1, <3>1
    <3>4. totals' = t2
      <4>1. \A a \in rank : Cardinality(CountingAs(entries, a)) =
                              (IF a \in {"checks", e.action} THEN 1 ELSE 0)
                                + (IF a \in {"checks", f.action} THEN 1 ELSE 0)
        BY <3>1, CountingIs
      <4>2. \A a \in rank : t2[a] = t1[a] + IF a \in {"checks", f.action} THEN 1 ELSE 0
        BY DEF Tally
      <4>3. DOMAIN t2 = rank /\ t2 = [a \in rank |-> t2[a]]
        BY DEF Tally
      <4> HIDE DEF t1, t2
      <4>4. ASSUME NEW a \in rank
            PROVE  totals[a] + Cardinality(CountingAs(entries, a)) = t2[a]
        <5>1. totals[a] \in Nat
          BY <1>1
        <5>2. t1[a] = totals[a] + IF a \in {"checks", e.action} THEN 1 ELSE 0
          BY <2>2
        <5>3. t2[a] = t1[a] + IF a \in {"checks", f.action} THEN 1 ELSE 0
          BY <4>2
        <5>4. Cardinality(CountingAs(entries, a)) =
                (IF a \in {"checks", e.action} THEN 1 ELSE 0)
                  + (IF a \in {"checks", f.action} THEN 1 ELSE 0)
          BY <4>1
        <5> QED
          BY <5>1, <5>2, <5>3, <5>4
      <4> QED
        BY <1>3, <4>3, <4>4
    <3> HIDE DEF log1, t1, log2, t2
    <3>5. /\ Len(log2) <= LogLimit => Len(log2) = t2["checks"]
          /\ Len(log2) > LogLimit => t2["checks"] > LogLimit
          /\ t2["checks"] <= LogLimit => Logged(log2, "redact") = Redacts(t2)
      BY <1>1, <1>4, <2>1, <3>2
    <3> QED
      BY <1>3, <3>2, <3>3, <3>4, <3>5
  <2> QED
    BY <2>3, <2>4
<1>6. PICK log, t : /\ auditLogs' = Trimmed(log) /\ totals' = t /\ Untrimmed(log, t)
                    /\ Len(log) <= LogLimit => Len(log) = t["checks"]
                    /\ Len(log) > LogLimit => t["checks"] > LogLimit
                    /\ t["checks"] <= LogLimit => Logged(log, "redact") = Redacts(t)
  BY <1>5
<1>7. /\ Trimmed(log) \in Seq(LogEntry)
      /\ \A i \in 1..Len(Trimmed(log)) : Fitting(Trimmed(log)[i])
      /\ Len(Trimmed(log)) = IF t["checks"] <= LogLimit THEN t["checks"] ELSE LogLimit
      /\ \A a \in {"block", "warn", "allow"} : Logged(Trimmed(log), a) <= t[a]
      /\ Logged(Trimmed(log), "redact") <= Redacts(t)
      /\ t["checks"] <= LogLimit => Logged(Trimmed(log), "redact") = Redacts(t)
  BY <1>6, TrimKeeps
<1>8. t \in [rank -> Nat]
  BY <1>6 DEF Untrimmed
<1>9. PICK new : new = Trimmed(log)
  OBVIOUS
<1>10. auditLogs' = new /\ totals' = t
  BY <1>6, <1>9
<1>11. GuardTypeOK'
  BY <1>3, <1>7, <1>8, <1>9, <1>10 DEF GuardInv, GuardTypeOK
<1>12. (\A i \in 1..Len(auditLogs) : Fitting(auditLogs[i]))'
  BY <1>7, <1>9, <1>10
<1>13. StatsInv'
  BY <1>7, <1>9, <1>10 DEF StatsInv
<1> QED
  BY <1>11, <1>12, <1>13 DEF GuardInv

LEMMA GuardInitHolds ==
  GuardInit => GuardInv
<1> SUFFICES ASSUME GuardInit PROVE GuardInv
  OBVIOUS
<1>1. auditLogs = <<>> /\ totals = NoTotals /\ policies = [p \in Policies |-> None]
      /\ defaultPolicy = None
  BY DEF GuardInit
<1>2. totals = [a \in {"checks", "block", "warn", "allow"} |-> 0]
  BY <1>1 DEF NoTotals
<1>3. GuardTypeOK
  BY <1>1, <1>2 DEF GuardTypeOK
<1>4. \A a : Logged(auditLogs, a) = 0
  BY <1>1, FS_EmptySet DEF Logged
<1>5. Redacts(totals) = 0 /\ totals["checks"] = 0
  BY <1>2 DEF Redacts
<1>6. StatsInv
  BY <1>1, <1>2, <1>4, <1>5, GuardrailAssumption DEF StatsInv
<1> QED
  BY <1>1, <1>3, <1>6 DEF GuardInv

LEMMA GuardStepKeeps ==
  GuardInv /\ [GuardNext]_guardVars => GuardInv'
<1> SUFFICES ASSUME GuardInv, [GuardNext]_guardVars PROVE GuardInv'
  OBVIOUS
<1>t. GuardTypeOK
  BY DEF GuardInv
<1>u. ASSUME UNCHANGED <<auditLogs, totals>>, GuardTypeOK' PROVE GuardInv'
  BY <1>u DEF GuardInv, StatsInv
<1>p. ASSUME NEW p \in Policies, NEW policy \in Policy \cup {Gone},
             policies' = [policies EXCEPT ![p] = policy],
             UNCHANGED <<defaultPolicy, auditLogs, totals>>
      PROVE  GuardInv'
  <2>1. GuardTypeOK'
    BY <1>p, <1>t DEF GuardTypeOK
  <2> QED
    BY <1>p, <1>u, <2>1
<1>e. ASSUME NEW p \in Policies, Exists(p) PROVE policies[p] \in Policy
  BY <1>e, <1>t DEF Exists, GuardTypeOK
<1>1. ASSUME NEW p \in Policies \cup {None}, NEW content, ValidatePrompt(content, p)
      PROVE  GuardInv'
  BY <1>1, <1>t, RulesAreChoices, CheckedIs, LogAndCountKeeps DEF ValidatePrompt
<1>2. ASSUME NEW p \in Policies \cup {None}, NEW content, ValidateOutput(content, p)
      PROVE  GuardInv'
  BY <1>2, <1>t, RulesAreChoices, CheckedIs, LogAndCountKeeps DEF ValidateOutput
<1>3. ASSUME NEW p \in Policies \cup {None}, NEW prompt, NEW output,
             ValidateFullCycle(prompt, output, p)
      PROVE  GuardInv'
  BY <1>3, <1>t, RulesAreChoices, CheckedIs, LogAndCountKeeps DEF ValidateFullCycle
<1>4. ASSUME NEW p \in Policies, NEW rules \in {<<>>} \cup {<<r>> : r \in RuleChoices},
             CreatePolicy(p, rules)
      PROVE  GuardInv'
  <2>1. rules \in Seq(RuleChoices)
    <3>1. \A r \in RuleChoices : <<r>> \in Seq(RuleChoices)
      OBVIOUS
    <3>2. <<>> \in Seq(RuleChoices)
      OBVIOUS
    <3> QED
      BY <3>1, <3>2
  <2>2. [enabled |-> TRUE, rules |-> rules] \in Policy
    BY <2>1 DEF Policy
  <2> QED
    BY <1>4, <1>p, <2>2 DEF CreatePolicy
<1>5. ASSUME NEW p \in Policies, NEW enabled \in BOOLEAN, UpdatePolicy(p, enabled)
      PROVE  GuardInv'
  <2>1. policies[p] \in Policy
    BY <1>5, <1>e DEF UpdatePolicy
  <2>2. [policies[p] EXCEPT !.enabled = enabled] \in Policy
    BY <2>1 DEF Policy
  <2>3. policies' = [policies EXCEPT ![p] = [policies[p] EXCEPT !.enabled = enabled]]
    BY <1>5, <1>t DEF UpdatePolicy, GuardTypeOK
  <2> QED
    BY <1>5, <1>p, <2>2, <2>3 DEF UpdatePolicy
<1>6. ASSUME NEW p \in Policies, DeletePolicy(p) PROVE GuardInv'
  BY <1>6, <1>p DEF DeletePolicy
<1>7. ASSUME NEW p \in Policies, NEW rule \in RuleChoices, AddRule(p, rule) PROVE GuardInv'
  <2>1. policies[p] \in Policy
    BY <1>7, <1>e DEF AddRule
  <2> DEFINE rules == Append(policies[p].rules, rule)
  <2>2. rules \in Seq(RuleChoices)
    BY <2>1 DEF Policy
  <2>3. policies' = [policies EXCEPT ![p] = [policies[p] EXCEPT !.rules = rules]]
    BY <1>7, <1>t DEF AddRule, GuardTypeOK
  <2> HIDE DEF rules
  <2>4. [policies[p] EXCEPT !.rules = rules] \in Policy
    BY <2>1, <2>2 DEF Policy
  <2> QED
    BY <1>7, <1>p, <2>3, <2>4 DEF AddRule
<1>8. ASSUME NEW p \in Policies, Exists(p), NEW i \in DOMAIN policies[p].rules, RemoveRule(p, i)
      PROVE  GuardInv'
  <2>1. policies[p] \in Policy
    BY <1>8, <1>e
  <2> DEFINE old == policies[p].rules
             rules == SubSeq(old, 1, i - 1) \o SubSeq(old, i + 1, Len(old))
  <2>2. old \in Seq(RuleChoices) /\ i \in 1..Len(old)
    BY <2>1 DEF Policy
  <2>3. rules \in Seq(RuleChoices)
    <3> HIDE DEF old
    <3>0. Len(old) \in Nat /\ i \in Nat /\ 1 <= i /\ i <= Len(old)
      BY <2>2
    <3>1. SubSeq(old, 1, i - 1) \in Seq(RuleChoices)
      BY <2>2
    <3>2. SubSeq(old, i + 1, Len(old)) \in Seq(RuleChoices)
      BY <2>2
    <3> QED
      BY <3>1, <3>2
  <2>4. policies' = [policies EXCEPT ![p] = [policies[p] EXCEPT !.rules = rules]]
    BY <1>8, <1>t DEF RemoveRule, RemoveAt, GuardTypeOK
  <2> HIDE DEF rules
  <2>5. [policies[p] EXCEPT !.rules = rules] \in Policy
    BY <2>1, <2>3 DEF Policy
  <2> QED
    BY <1>8, <1>p, <2>4, <2>5 DEF RemoveRule
<1>9. ASSUME NEW rule \in RuleChoices, SetDefaultPolicy(rule) PROVE GuardInv'
  <2>1. [enabled |-> TRUE, rules |-> <<rule>>] \in Policy
    BY DEF Policy
  <2>2. defaultPolicy' \in Policy /\ UNCHANGED <<policies, auditLogs, totals>>
    BY <1>9, <2>1 DEF SetDefaultPolicy
  <2>3. GuardTypeOK'
    BY <1>t, <2>2 DEF GuardTypeOK
  <2> QED
    BY <1>u, <2>2, <2>3
<1>10. ASSUME Reset PROVE GuardInv'
  <2>1. auditLogs' = <<>> /\ totals' = NoTotals /\ defaultPolicy' = None
        /\ policies' \in [Policies -> Policy \cup {None, Gone}]
    BY <1>10, <1>t DEF Reset, GuardTypeOK
  <2>2. totals' = [a \in {"checks", "block", "warn", "allow"} |-> 0]
    BY <2>1 DEF NoTotals
  <2>3. GuardTypeOK'
    BY <2>1, <2>2 DEF GuardTypeOK
  <2>4. \A a : Logged(<<>>, a) = 0
    BY FS_EmptySet DEF Logged
  <2>5. Redacts(totals)' = 0 /\ totals'["checks"] = 0
    BY <2>2 DEF Redacts
  <2>6. StatsInv'
    BY <2>1, <2>2, <2>4, <2>5, GuardrailAssumption DEF StatsInv
  <2> QED
    BY <2>1, <2>3, <2>6 DEF GuardInv
<1>11. CASE UNCHANGED guardVars
  BY <1>11, <1>t DEF guardVars, GuardInv, GuardTypeOK, StatsInv
<1>12. CASE GuardNext
  BY <1>12, <1>1, <1>2, <1>3, <1>4, <1>5, <1>6, <1>7, <1>8, <1>9, <1>10 DEF GuardNext
<1> QED
  BY <1>11, <1>12

\* The log, the counters and the policies keep their type and fit each other.
THEOREM GuardInvariant ==
  GuardSpec => []GuardInv
<1> QED
  BY GuardInitHolds, GuardStepKeeps, PTL DEF GuardSpec

LEMMA GuardInvImplies ==
  GuardInv => GuardsHold
<1> SUFFICES ASSUME GuardInv PROVE GuardsHold
  OBVIOUS
<1>t. GuardTypeOK
  BY DEF GuardInv
<1>1. SevereStopped
  BY <1>t DEF GuardInv, GuardTypeOK, SevereStopped, Fitting
<1>2. RulesTighten
  BY <1>t, Tighten
<1>3. StatsFollowLog
  <2>1. /\ totals["checks"] \in Nat /\ LogLimit \in Nat /\ Len(auditLogs) \in Nat
    BY <1>t, GuardrailAssumption DEF GuardTypeOK
  <2>2. Min({totals.checks, LogLimit}) =
          IF totals["checks"] <= LogLimit THEN totals["checks"] ELSE LogLimit
    BY <2>1 DEF Min
  <2> QED
    BY <2>2 DEF GuardInv, StatsInv, StatsFollowLog, Logged, Redacts
<1> QED
  BY <1>1, <1>2, <1>3 DEF GuardsHold

\* What is severe is stopped, policies only tighten, and the statistics follow the log.
THEOREM GuardsHoldCorrect ==
  GuardSpec => []GuardsHold
<1> QED
  BY GuardInvariant, GuardInvImplies, PTL

-----------------------------------------------------------------------------
(* LLMGateway. *)

Outcome == [by : Adapters \cup {None}, mocked : BOOLEAN]

Chat ==
  [kind : {None, "chat", "stream", "fallback"}, list : Seq(Names \cup Adapters),
   asked : Seq(Nat), at : Adapters \cup {None}, outcome : Outcome \cup {None},
   chunks : Seq({"provider", "mock"})]

LLMTypeOK ==
  /\ settings \in [key : BOOLEAN, mock : BOOLEAN, installed : SUBSET Adapters]
  /\ llmCalls \in [Calls -> Chat]

\* Mocks come only where they are allowed.
Unmocked(call) ==
  /\ call.outcome # None => (call.outcome.mocked => settings.mock)
  /\ \A k \in DOMAIN call.chunks : call.chunks[k] = "mock" => settings.mock

\* The positions asked ascend, and none that has an adapter was left out below the last.
InOrder(call) ==
  /\ \A k \in DOMAIN call.asked : call.asked[k] \in Known(call.list)
  /\ \A k, l \in DOMAIN call.asked : k < l => call.asked[k] < call.asked[l]
  /\ \A i \in Known(call.list) : \A k \in DOMAIN call.asked :
       i <= call.asked[k] => \E l \in DOMAIN call.asked : call.asked[l] = i

Exhausted(call) ==
  \A i \in Known(call.list) : \E k \in DOMAIN call.asked : call.asked[k] = i

FallbackInv(call) ==
  call.kind = "fallback" =>
    /\ \E name \in Names : call.list = <<name>> \o Fallbacks
    /\ InOrder(call)
    /\ call.at = None /\ call.outcome = Raised => Exhausted(call)

LLMInv ==
  /\ LLMTypeOK
  /\ \A c \in Calls : Unmocked(llmCalls[c]) /\ FallbackInv(llmCalls[c])

LEMMA AskAtType ==
  ASSUME NEW call \in Chat, NEW i \in Known(call.list)
  PROVE  AskAt(call, i) \in Chat
<1>1. call.list[i] \in Adapters /\ i \in Nat
  BY DEF Known, Chat
<1>2. Append(call.asked, i) \in Seq(Nat)
  BY <1>1 DEF Chat
<1> QED
  BY <1>1, <1>2 DEF AskAt, Chat

LEMMA AskAtFields ==
  ASSUME NEW call \in Chat, NEW i
  PROVE  /\ AskAt(call, i).kind = call.kind
         /\ AskAt(call, i).list = call.list
         /\ AskAt(call, i).outcome = call.outcome
         /\ AskAt(call, i).chunks = call.chunks
         /\ AskAt(call, i).at = call.list[i]
         /\ AskAt(call, i).asked = Append(call.asked, i)
  BY DEF AskAt, Chat

LEMMA EndType ==
  ASSUME NEW call \in Chat, NEW o \in Outcome
  PROVE  /\ End(call, o) \in Chat
         /\ End(call, o).kind = call.kind
         /\ End(call, o).list = call.list
         /\ End(call, o).outcome = o
         /\ End(call, o).chunks = call.chunks
         /\ End(call, o).at = None
         /\ End(call, o).asked = call.asked
  BY DEF End, Chat

\* The next provider to be asked is the first one left.
LEMMA AdvanceKeeps ==
  ASSUME LLMTypeOK, NEW call \in Chat, call.kind = "fallback", Unmocked(call),
         \E name \in Names : call.list = <<name>> \o Fallbacks,
         InOrder(call)
  PROVE  Advance(call) \in Chat /\ Unmocked(Advance(call)) /\ FallbackInv(Advance(call))
<1> DEFINE left == {i \in Known(call.list) : \A j \in ToSet(call.asked) : j < i}
<1>0. left \in SUBSET Nat /\ Known(call.list) \in SUBSET Nat
  BY DEF Known, Chat
<1>a. call.asked \in Seq(Nat)
  BY DEF Chat
<1>1. CASE left # {}
  <2> DEFINE i == Min(left)
  <2>1. i \in left /\ \A m \in left : i <= m
    BY <1>0, <1>1, LeastMember
  <2>2. Advance(call) = AskAt(call, i)
    BY <1>1 DEF Advance
  <2>3. i \in Known(call.list) /\ i \in Nat /\ \A k \in DOMAIN call.asked : call.asked[k] < i
    BY <1>0, <2>1 DEF ToSet
  <2>4. \A j \in Known(call.list) : j < i => \E l \in DOMAIN call.asked : call.asked[l] = j
    <3> SUFFICES ASSUME NEW j \in Known(call.list), j < i
                 PROVE  \E l \in DOMAIN call.asked : call.asked[l] = j
      OBVIOUS
    <3>1. j \notin left
      <4> HIDE DEF i, left
      <4>1. j \in left => i <= j
        BY <2>1
      <4>2. j \in Nat /\ i \in Nat
        BY <1>0, <2>3
      <4> QED
        BY <4>1, <4>2
    <3>2. PICK k \in DOMAIN call.asked : ~ (call.asked[k] < j)
      BY <3>1 DEF ToSet
    <3>3. call.asked[k] \in Nat /\ j \in Nat
      BY <1>0, <1>a
    <3>4. j <= call.asked[k]
      BY <3>2, <3>3
    <3> QED
      BY <3>4 DEF InOrder
  <2> HIDE DEF i, left
  <2>5. AskAt(call, i) \in Chat
    BY <2>3, AskAtType
  <2> DEFINE next == AskAt(call, i)
  <2>6. /\ next.kind = call.kind /\ next.list = call.list /\ next.outcome = call.outcome
        /\ next.chunks = call.chunks /\ next.asked = Append(call.asked, i)
        /\ next.at = call.list[i]
    BY AskAtFields
  <2> HIDE DEF next
  <2>7. DOMAIN next.asked = 1..(Len(call.asked) + 1) /\ DOMAIN call.asked = 1..Len(call.asked)
    BY <1>a, <2>3, <2>6
  <2>8. \A k \in 1..Len(call.asked) : next.asked[k] = call.asked[k]
    BY <1>a, <2>3, <2>6
  <2>9. next.asked[Len(call.asked) + 1] = i /\ Len(call.asked) \in Nat
    BY <1>a, <2>3, <2>6
  <2>10. \A k \in DOMAIN next.asked : k \in 1..Len(call.asked) \/ k = Len(call.asked) + 1
    BY <2>7, <2>9
  <2>11. InOrder(next)
    <3>1. \A k \in DOMAIN next.asked : next.asked[k] \in Known(next.list)
      BY <2>3, <2>6, <2>7, <2>8, <2>9, <2>10 DEF InOrder
    <3>2. \A k, l \in DOMAIN next.asked : k < l => next.asked[k] < next.asked[l]
      <4> SUFFICES ASSUME NEW k \in DOMAIN next.asked, NEW l \in DOMAIN next.asked, k < l
                   PROVE  next.asked[k] < next.asked[l]
        OBVIOUS
      <4>1. k \in 1..Len(call.asked)
        BY <2>7, <2>9
      <4>2. CASE l \in 1..Len(call.asked)
        BY <4>1, <4>2, <2>7, <2>8 DEF InOrder
      <4>3. CASE l = Len(call.asked) + 1
        BY <4>1, <4>3, <2>3, <2>7, <2>8, <2>9
      <4> QED
        BY <4>2, <4>3, <2>10
    <3>3. ASSUME NEW j \in Known(next.list), NEW k \in DOMAIN next.asked, j <= next.asked[k]
          PROVE  \E l \in DOMAIN next.asked : next.asked[l] = j
      <4>1. CASE k \in 1..Len(call.asked)
        <5>1. PICK l \in DOMAIN call.asked : call.asked[l] = j
          BY <3>3, <4>1, <2>6, <2>7, <2>8 DEF InOrder
        <5>2. l \in DOMAIN next.asked /\ next.asked[l] = j
          BY <5>1, <2>7, <2>8, <2>9
        <5> QED
          BY <5>2
      <4>2. CASE k = Len(call.asked) + 1
        <5>1. j = i \/ j < i
          BY <3>3, <4>2, <2>9, <2>3, <1>0, <2>6
        <5>2. CASE j = i
          <6>1. Len(call.asked) + 1 \in DOMAIN next.asked
            BY <2>7, <2>9
          <6> QED
            BY <5>2, <6>1, <2>9
        <5>3. CASE j < i
          <6>1. PICK l \in DOMAIN call.asked : call.asked[l] = j
            BY <5>3, <2>4, <2>6
          <6>2. l \in DOMAIN next.asked /\ next.asked[l] = j
            BY <6>1, <2>7, <2>8, <2>9
          <6> QED
            BY <6>2
        <5> QED
          BY <5>1, <5>2, <5>3
      <4> QED
        BY <4>1, <4>2, <2>10
    <3> QED
      BY <3>1, <3>2, <3>3 DEF InOrder
  <2>12. next.at # None
    BY <2>3, <2>6, LLMAssumption DEF Known, Adapters
  <2>13. Unmocked(next)
    BY <2>6 DEF Unmocked
  <2>14. FallbackInv(next)
    BY <2>6, <2>11, <2>12 DEF FallbackInv
  <2> QED
    BY <2>2, <2>5, <2>13, <2>14 DEF next
<1>2. CASE left = {}
  <2> DEFINE next == End(call, Raised)
  <2>1. Advance(call) = next
    BY <1>2 DEF Advance
  <2>2. Raised \in Outcome /\ Raised.mocked = FALSE
    BY DEF Raised, Outcome
  <2>3. /\ next \in Chat /\ next.kind = call.kind /\ next.list = call.list
        /\ next.outcome = Raised /\ next.chunks = call.chunks /\ next.asked = call.asked
    BY <2>2, EndType
  <2>4. Exhausted(call)
    <3> SUFFICES ASSUME NEW i \in Known(call.list)
                 PROVE  \E k \in DOMAIN call.asked : call.asked[k] = i
      BY DEF Exhausted
    <3>1. PICK k \in DOMAIN call.asked : ~ (call.asked[k] < i)
      BY <1>2 DEF ToSet
    <3>2. i \in Nat /\ call.asked[k] \in Nat
      BY <1>0, <1>a
    <3>3. i <= call.asked[k]
      BY <3>1, <3>2
    <3> QED
      BY <3>3 DEF InOrder
  <2> HIDE DEF next, left
  <2>5. InOrder(next) /\ Exhausted(next)
    BY <2>3, <2>4 DEF InOrder, Exhausted
  <2>6. Unmocked(next)
    BY <2>2, <2>3 DEF Unmocked
  <2>7. FallbackInv(next)
    BY <2>3, <2>5 DEF FallbackInv
  <2> QED
    BY <2>1, <2>3, <2>6, <2>7
<1> QED
  BY <1>1, <1>2

LEMMA ChunksFields ==
  ASSUME NEW call \in Chat, NEW chunks \in Seq({"provider", "mock"})
  PROVE  /\ [call EXCEPT !.chunks = chunks] \in Chat
         /\ [call EXCEPT !.chunks = chunks].kind = call.kind
         /\ [call EXCEPT !.chunks = chunks].outcome = call.outcome
         /\ [call EXCEPT !.chunks = chunks].chunks = chunks
  BY DEF Chat

LEMMA IdleCall ==
  /\ NotAsking \in Chat /\ Unmocked(NotAsking) /\ NotAsking.kind = None
  /\ FallbackInv(NotAsking)
<1> DEFINE idle == [kind |-> None, list |-> <<>>, asked |-> <<>>, at |-> None,
                    outcome |-> None, chunks |-> <<>>]
<1>1. idle \in Chat /\ Unmocked(idle) /\ idle.kind = None
  BY DEF Chat, Unmocked
<1>2. FallbackInv(idle)
  BY <1>1, LLMAssumption DEF FallbackInv
<1> QED
  BY <1>1, <1>2 DEF NotAsking

\* A step of one call leaves the others as they are.
LEMMA CallSteps ==
  ASSUME LLMInv, UNCHANGED settings, NEW c \in Calls, NEW call \in Chat,
         llmCalls' = [llmCalls EXCEPT ![c] = call],
         Unmocked(call), FallbackInv(call)
  PROVE  LLMInv'
<1>1. llmCalls \in [Calls -> Chat]
  BY DEF LLMInv, LLMTypeOK
<1>2. LLMTypeOK'
  BY <1>1 DEF LLMInv, LLMTypeOK
<1>3. ASSUME NEW d \in Calls PROVE Unmocked(llmCalls[d])' /\ FallbackInv(llmCalls[d])'
  <2>1. d = c => llmCalls'[d] = call
    BY <1>1
  <2>2. d # c => llmCalls'[d] = llmCalls[d]
    BY <1>1
  <2>3. PICK new : new = llmCalls'[d]
    OBVIOUS
  <2>4. Unmocked(new) /\ FallbackInv(new)
    BY <2>1, <2>2, <2>3 DEF LLMInv
  <2>5. Unmocked(llmCalls[d])'
    BY <2>3, <2>4 DEF Unmocked
  <2>6. FallbackInv(llmCalls[d])'
    BY <2>3, <2>4 DEF FallbackInv, InOrder, Exhausted
  <2> QED
    BY <2>5, <2>6
<1> QED
  BY <1>2, <1>3 DEF LLMInv

LEMMA LLMInitHolds ==
  LLMInit => LLMInv
<1> SUFFICES ASSUME LLMInit PROVE LLMInv
  OBVIOUS
<1>1. LLMTypeOK
  BY IdleCall DEF LLMInit, LLMTypeOK
<1>2. \A c \in Calls : llmCalls[c] = NotAsking
  BY DEF LLMInit
<1> QED
  BY <1>1, <1>2, IdleCall DEF LLMInv

LEMMA LLMStepKeeps ==
  LLMInv /\ [LLMNext]_llmVars => LLMInv'
<1> SUFFICES ASSUME LLMInv, [LLMNext]_llmVars PROVE LLMInv'
  OBVIOUS
<1>t. llmCalls \in [Calls -> Chat] /\ settings.mock \in BOOLEAN /\ LLMTypeOK
  BY DEF LLMInv, LLMTypeOK
<1>a. \A c \in Calls : Unmocked(llmCalls[c]) /\ FallbackInv(llmCalls[c]) /\ llmCalls[c] \in Chat
  BY <1>t DEF LLMInv
<1>o. /\ Raised \in Outcome /\ Raised.mocked = FALSE
      /\ \A p \in Adapters \cup {None} :
           /\ Answered(p) \in Outcome /\ Answered(p).mocked = FALSE
           /\ Mocked(p) \in Outcome /\ Mocked(p) # Raised
           /\ Answered(p) # Raised \/ p = None
  BY DEF Raised, Answered, Mocked, Outcome
<1>e. ASSUME NEW c \in Calls, NEW o \in Outcome, UNCHANGED settings,
             llmCalls' = [llmCalls EXCEPT ![c] = End(llmCalls[c], o)],
             o.mocked => settings.mock,
             llmCalls[c].kind # "fallback" \/ o # Raised
      PROVE  LLMInv'
  <2> DEFINE call == llmCalls[c]
             next == End(call, o)
  <2>1. call \in Chat /\ Unmocked(call) /\ FallbackInv(call)
    BY <1>a
  <2>2. /\ next \in Chat /\ next.kind = call.kind /\ next.list = call.list
        /\ next.outcome = o /\ next.chunks = call.chunks /\ next.asked = call.asked
    BY <1>e, <2>1, EndType
  <2>3. llmCalls' = [llmCalls EXCEPT ![c] = next] /\ UNCHANGED settings
    BY <1>e
  <2> HIDE DEF next, call
  <2>4. Unmocked(next)
    BY <1>e, <2>1, <2>2 DEF Unmocked
  <2>5. FallbackInv(next)
    <3>1. call.kind # "fallback" \/ o # Raised
      BY <1>e DEF call
    <3>2. InOrder(call) => InOrder(next)
      BY <2>2 DEF InOrder
    <3> QED
      BY <3>1, <3>2, <2>1, <2>2 DEF FallbackInv
  <2> QED
    BY <2>2, <2>3, <2>4, <2>5, CallSteps
<1>1. ASSUME NEW c \in Calls, NEW name \in Names \cup {None}, NEW kind \in {"chat", "stream"},
             Ask(c, kind, name)
      PROVE  LLMInv'
  <2> DEFINE p == AdapterFor(name)
             idle == [NotAsking EXCEPT !.kind = kind, !.list = <<p>>]
             next == AskAt(idle, 1)
  <2>1. p \in Adapters
    BY LLMAssumption DEF AdapterFor, Adapters
  <2>2. llmCalls' = [llmCalls EXCEPT ![c] = next] /\ UNCHANGED settings
    BY <1>1 DEF Ask
  <2>3. <<p>> \in Seq(Names \cup Adapters) /\ <<p>>[1] = p /\ 1 \in DOMAIN <<p>>
    BY <2>1
  <2>4. /\ idle \in Chat /\ idle.kind = kind /\ idle.list = <<p>>
        /\ idle.outcome = NotAsking.outcome /\ idle.chunks = NotAsking.chunks
    <3>1. NotAsking \in Chat /\ kind \in {"chat", "stream", "fallback"}
      BY IdleCall
    <3> HIDE DEF p
    <3> QED
      BY <2>3, <3>1 DEF Chat
  <2>5. 1 \in Known(idle.list)
    BY <2>1, <2>3, <2>4 DEF Known
  <2>6. idle.outcome = None /\ idle.chunks = <<>>
    BY <2>4 DEF NotAsking
  <2> HIDE DEF idle, p
  <2>7. next \in Chat
    BY <2>4, <2>5, AskAtType
  <2>8. next.kind = kind /\ next.outcome = None /\ next.chunks = <<>>
    BY <2>4, <2>6, AskAtFields
  <2> HIDE DEF next
  <2>9. Unmocked(next) /\ FallbackInv(next)
    BY <2>8 DEF Unmocked, FallbackInv
  <2> QED
    BY <2>2, <2>7, <2>9, CallSteps
<1>2. ASSUME NEW c \in Calls, NEW name \in Names, ChatWithFallback(c, name)
      PROVE  LLMInv'
  <2> DEFINE list == <<name>> \o Fallbacks
             idle == [NotAsking EXCEPT !.kind = "fallback", !.list = list]
  <2>1. list \in Seq(Names \cup Adapters)
    BY LLMAssumption
  <2>2. llmCalls' = [llmCalls EXCEPT ![c] = Advance(idle)] /\ UNCHANGED settings
    BY <1>2 DEF ChatWithFallback
  <2> HIDE DEF list
  <2>3. /\ idle \in Chat /\ idle.kind = "fallback" /\ idle.list = list
        /\ idle.outcome = NotAsking.outcome /\ idle.chunks = NotAsking.chunks
        /\ idle.asked = NotAsking.asked
    <3>1. NotAsking \in Chat
      BY IdleCall
    <3>2. PICK kind \in {"chat", "stream", "fallback"} : kind = "fallback"
      OBVIOUS
    <3> QED
      BY <2>1, <3>1, <3>2 DEF Chat
  <2> HIDE DEF idle
  <2>4. idle.outcome = None /\ idle.chunks = <<>> /\ idle.asked = <<>>
    BY <2>3 DEF NotAsking
  <2>5. Unmocked(idle) /\ InOrder(idle) /\ \E n \in Names : idle.list = <<n>> \o Fallbacks
    BY <2>3, <2>4 DEF Unmocked, InOrder, list
  <2>6. Advance(idle) \in Chat /\ Unmocked(Advance(idle)) /\ FallbackInv(Advance(idle))
    BY <1>t, <2>3, <2>5, AdvanceKeeps
  <2> QED
    BY <2>2, <2>6, CallSteps
<1>3. ASSUME NEW c \in Calls, ProviderAnswers(c) PROVE LLMInv'
  <2>1. llmCalls[c].at \in Adapters /\ UNCHANGED settings
    BY <1>3, <1>a DEF ProviderAnswers, Active, Chat
  <2>2. llmCalls[c].at # None
    BY <2>1, LLMAssumption DEF Adapters
  <2> DEFINE o == Answered(llmCalls[c].at)
  <2>3. o \in Outcome /\ o.mocked = FALSE /\ o # Raised
    BY <1>o, <2>1, <2>2
  <2>4. llmCalls' = [llmCalls EXCEPT ![c] = End(llmCalls[c], o)]
    BY <1>3, <1>t DEF ProviderAnswers
  <2> HIDE DEF o
  <2> QED
    BY <1>e, <2>1, <2>3, <2>4
<1>4. ASSUME NEW c \in Calls, ProviderMocked(c) PROVE LLMInv'
  <2>1. llmCalls[c].at \in Adapters \cup {None} /\ settings.mock /\ UNCHANGED settings
    BY <1>4, <1>a DEF ProviderMocked, Mocks, Chat
  <2> DEFINE o == Mocked(llmCalls[c].at)
  <2>3. o \in Outcome /\ o # Raised
    BY <2>1 DEF Mocked, Raised, Outcome
  <2>4. llmCalls' = [llmCalls EXCEPT ![c] = End(llmCalls[c], o)]
    BY <1>4, <1>t DEF ProviderMocked
  <2> HIDE DEF o
  <2> QED
    BY <1>e, <2>1, <2>3, <2>4
<1>5. ASSUME NEW c \in Calls, ProviderFails(c) PROVE LLMInv'
  <2>1. UNCHANGED settings
    BY <1>5 DEF ProviderFails
  <2>2. CASE llmCalls[c].kind = "fallback"
    <3>1. llmCalls' = [llmCalls EXCEPT ![c] = Advance(llmCalls[c])]
      BY <1>5, <1>t, <2>2 DEF ProviderFails
    <3>2. /\ \E name \in Names : llmCalls[c].list = <<name>> \o Fallbacks
          /\ InOrder(llmCalls[c]) /\ Unmocked(llmCalls[c]) /\ llmCalls[c] \in Chat
      BY <1>a, <2>2 DEF FallbackInv
    <3>3. /\ Advance(llmCalls[c]) \in Chat /\ Unmocked(Advance(llmCalls[c]))
          /\ FallbackInv(Advance(llmCalls[c]))
      BY <1>t, <2>2, <3>2, AdvanceKeeps
    <3> QED
      BY <2>1, <3>1, <3>3, CallSteps
  <2>3. CASE llmCalls[c].kind # "fallback"
    <3>1. llmCalls' = [llmCalls EXCEPT ![c] = End(llmCalls[c], Raised)]
      BY <1>5, <1>t, <2>3 DEF ProviderFails
    <3> QED
      BY <1>e, <1>o, <2>1, <2>3, <3>1
  <2> QED
    BY <2>2, <2>3
<1>6. ASSUME NEW c \in Calls, StreamChunk(c) PROVE LLMInv'
  <2> DEFINE call == llmCalls[c]
             chunks == Append(call.chunks, "provider")
             next == [call EXCEPT !.chunks = chunks]
  <2>1. call \in Chat /\ Unmocked(call) /\ call.chunks \in Seq({"provider", "mock"})
    BY <1>a DEF Chat
  <2>2. llmCalls' = [llmCalls EXCEPT ![c] = next] /\ UNCHANGED settings /\ call.kind = "stream"
    BY <1>6, <1>t DEF StreamChunk, Active
  <2>3. chunks \in Seq({"provider", "mock"})
    BY <2>1
  <2>4. \A k \in DOMAIN chunks : (k \in DOMAIN call.chunks /\ chunks[k] = call.chunks[k])
                                 \/ chunks[k] = "provider"
    BY <2>1
  <2> HIDE DEF chunks, call
  <2>5. next \in Chat /\ next.kind = call.kind /\ next.outcome = call.outcome /\ next.chunks = chunks
    BY <2>1, <2>3, ChunksFields
  <2> HIDE DEF next
  <2>6. Unmocked(next) /\ FallbackInv(next)
    BY <2>1, <2>2, <2>4, <2>5 DEF Unmocked, FallbackInv
  <2> QED
    BY <2>2, <2>5, <2>6, CallSteps
<1>7. ASSUME NEW c \in Calls, StreamEnds(c) PROVE LLMInv'
  <2>1. llmCalls[c].at \in Adapters \cup {None} /\ UNCHANGED settings /\ llmCalls[c].kind = "stream"
    BY <1>7, <1>a DEF StreamEnds, Active, Chat
  <2> DEFINE o == Answered(llmCalls[c].at)
  <2>3. o \in Outcome /\ o.mocked = FALSE
    BY <1>o, <2>1
  <2>4. llmCalls' = [llmCalls EXCEPT ![c] = End(llmCalls[c], o)]
    BY <1>7, <1>t DEF StreamEnds
  <2> HIDE DEF o
  <2> QED
    BY <1>e, <2>1, <2>3, <2>4
<1>8. ASSUME NEW c \in Calls, StreamFails(c) PROVE LLMInv'
  <2> DEFINE call == llmCalls[c]
             o == Mocked(call.at)
             ended == End(call, o)
             chunks == Append(ended.chunks, "mock")
             next == [ended EXCEPT !.chunks = chunks]
  <2>1. UNCHANGED settings /\ call.kind = "stream"
    BY <1>8 DEF StreamFails, Active
  <2>2. call \in Chat /\ call.at \in Adapters \cup {None}
    BY <1>a DEF Chat
  <2>c. o \in Outcome
    BY <2>2 DEF Mocked, Outcome
  <2>3. CASE call.at = "openai" /\ Mocks(call.at)
    <3>1. settings.mock
      BY <2>3 DEF Mocks
    <3>2. /\ ended \in Chat /\ ended.kind = "stream"
      BY <2>1, <2>2, <2>c, EndType
    <3>3. llmCalls' = [llmCalls EXCEPT ![c] = next]
      <4>1. llmCalls' = [llmCalls EXCEPT ![c] = EndMocked(call)]
        BY <1>8, <1>t, <2>3 DEF StreamFails
      <4> QED
        BY <4>1 DEF EndMocked
    <3> HIDE DEF ended
    <3>4. chunks \in Seq({"provider", "mock"})
      BY <3>2 DEF Chat
    <3> HIDE DEF chunks
    <3>5. next \in Chat /\ next.kind = "stream"
      BY <3>2, <3>4, ChunksFields
    <3> HIDE DEF next
    <3>6. Unmocked(next) /\ FallbackInv(next)
      BY <3>1, <3>5 DEF Unmocked, FallbackInv
    <3> QED
      BY <2>1, <3>3, <3>5, <3>6, CallSteps
  <2>4. CASE ~ (call.at = "openai" /\ Mocks(call.at))
    <3>1. llmCalls' = [llmCalls EXCEPT ![c] = End(llmCalls[c], Raised)]
      BY <1>8, <1>t, <2>4 DEF StreamFails
    <3> QED
      BY <1>e, <1>o, <2>1, <3>1
  <2> QED
    BY <2>3, <2>4
<1>9. CASE UNCHANGED llmVars
  BY <1>9 DEF llmVars, LLMInv, LLMTypeOK, Unmocked, FallbackInv
<1>10. CASE LLMNext
  BY <1>10, <1>1, <1>2, <1>3, <1>4, <1>5, <1>6, <1>7, <1>8 DEF LLMNext
<1> QED
  BY <1>9, <1>10

\* The type of the calls, and the way a list of providers is worked through.
THEOREM LLMInvariant ==
  LLMSpec => []LLMInv
<1> QED
  BY LLMInitHolds, LLMStepKeeps, PTL DEF LLMSpec

LEMMA LLMInvImplies ==
  LLMInv => LLMAnswers
<1> SUFFICES ASSUME LLMInv, NEW c \in Calls
             PROVE  /\ llmCalls[c].outcome # None /\ llmCalls[c].outcome.mocked => settings.mock
                    /\ "mock" \in ToSet(llmCalls[c].chunks) => settings.mock
                    /\ Failed(llmCalls[c]) =>
                         /\ \E name \in Names : llmCalls[c].list = <<name>> \o Fallbacks
                         /\ ToSet(llmCalls[c].asked) = Known(llmCalls[c].list)
                         /\ \A i, j \in DOMAIN llmCalls[c].asked :
                              i < j => llmCalls[c].asked[i] < llmCalls[c].asked[j]
  BY DEF LLMAnswers
<1>1. Unmocked(llmCalls[c]) /\ FallbackInv(llmCalls[c])
  BY DEF LLMInv
<1>2. "mock" \in ToSet(llmCalls[c].chunks) => settings.mock
  BY <1>1 DEF Unmocked, ToSet
<1>3. ASSUME Failed(llmCalls[c])
      PROVE  /\ \E name \in Names : llmCalls[c].list = <<name>> \o Fallbacks
             /\ ToSet(llmCalls[c].asked) = Known(llmCalls[c].list)
             /\ \A i, j \in DOMAIN llmCalls[c].asked :
                  i < j => llmCalls[c].asked[i] < llmCalls[c].asked[j]
  <2>1. /\ \E name \in Names : llmCalls[c].list = <<name>> \o Fallbacks
        /\ InOrder(llmCalls[c]) /\ Exhausted(llmCalls[c])
    BY <1>1, <1>3 DEF FallbackInv, Failed
  <2>2. ToSet(llmCalls[c].asked) = Known(llmCalls[c].list)
    BY <2>1 DEF InOrder, Exhausted, ToSet
  <2> QED
    BY <2>1, <2>2 DEF InOrder
<1> QED
  BY <1>1, <1>2, <1>3 DEF Unmocked

\* No mock where the settings forbid it; a call with fallbacks fails only after each
\* provider with an adapter was asked in the order of its list.
THEOREM LLMAnswersCorrect ==
  LLMSpec => []LLMAnswers
<1> QED
  BY LLMInvariant, LLMInvImplies, PTL

-----------------------------------------------------------------------------
(* RAG. *)

Step == ChunkSize - Overlap

LEMMA Division ==
  ASSUME NEW a \in Nat, NEW s \in Nat \ {0}
  PROVE  /\ a \div s \in Nat
         /\ (a \div s) * s <= a
         /\ a < (a \div s) * s + s
  OBVIOUS

LEMMA Products ==
  ASSUME NEW a \in Nat, NEW b \in Nat, NEW s \in Nat, a <= b
  PROVE  a * s <= b * s /\ a * s \in Nat /\ b * s \in Nat
  OBVIOUS

LEMMA DivisionGrows ==
  ASSUME NEW a \in Nat, NEW b \in Nat, NEW s \in Nat \ {0}, a <= b
  PROVE  a \div s <= b \div s
<1> DEFINE p == a \div s
           q == b \div s
<1>1. p \in Nat /\ p * s <= a
  BY Division
<1>2. q \in Nat /\ b < q * s + s
  BY Division
<1> HIDE DEF p, q
<1> SUFFICES ASSUME q < p PROVE FALSE
  BY <1>1, <1>2 DEF p, q
<1>3. q + 1 <= p /\ q + 1 \in Nat
  BY <1>1, <1>2
<1>4. (q + 1) * s <= p * s /\ p * s \in Nat
  BY <1>1, <1>3, Products
<1>5. (q + 1) * s = q * s + s /\ q * s \in Nat
  BY <1>2
<1> QED
  BY <1>1, <1>2, <1>4, <1>5

Covers(chunks, length) ==
  /\ Len(chunks) \in Nat \ {0} /\ DOMAIN chunks = 1..Len(chunks)
  /\ \A i \in 1..Len(chunks) :
       chunks[i].first \in Nat /\ chunks[i].last \in Nat /\ chunks[i].last <= length
  /\ \A x \in 1..length : \E i \in 1..Len(chunks) :
       chunks[i].first < x /\ x <= chunks[i].last

LEMMA SequenceOfLength ==
  ASSUME NEW f, NEW n \in Nat, DOMAIN f = 1..n, f = [i \in 1..n |-> f[i]]
  PROVE  Len(f) = n
<1> DEFINE S == {f[i] : i \in 1..n}
<1>1. f \in [1..n -> S]
  OBVIOUS
<1>2. f \in Seq(S)
  BY <1>1
<1> HIDE DEF S
<1> QED
  BY <1>2

\* Every character of a text is in a chunk.
LEMMA ChunksCover ==
  ASSUME NEW length \in Nat \ {0}
  PROVE  Covers(Chunks(length), length)
<1>1. ChunkSize \in Nat \ {0} /\ Step \in Nat \ {0} /\ Step <= ChunkSize
  BY RAGAssumption DEF Step
<1>2. CASE length <= ChunkSize
  <2>1. Chunks(length) = <<[first |-> 0, last |-> length]>>
    BY <1>2 DEF Chunks
  <2> DEFINE chunks == <<[first |-> 0, last |-> length]>>
  <2>2. Len(chunks) = 1 /\ DOMAIN chunks = 1..1 /\ chunks[1].first = 0 /\ chunks[1].last = length
    OBVIOUS
  <2> HIDE DEF chunks
  <2>3. Covers(chunks, length)
    BY <2>2 DEF Covers
  <2> QED
    BY <2>1, <2>3 DEF chunks
<1>3. CASE ~ (length <= ChunkSize)
  <2> DEFINE n == (length - 1) \div Step + 1
             at == [i \in 1..n |-> (i - 1) * Step]
             chunks == [i \in 1..n |-> [first |-> at[i], last |-> Min({at[i] + ChunkSize, length})]]
  <2>1. Chunks(length) = chunks
    BY <1>3 DEF Chunks, Step
  <2>2. length - 1 \in Nat
    OBVIOUS
  <2>3. n \in Nat \ {0}
    <3>1. (length - 1) \div Step \in Nat
      BY <1>1, <2>2, Division
    <3> QED
      BY <3>1
  <2>4. ASSUME NEW x \in 1..length
        PROVE  \E i \in 1..n : at[i] < x /\ x <= at[i] + ChunkSize
    <3> DEFINE q == (x - 1) \div Step
    <3>1. x - 1 \in Nat /\ x - 1 <= length - 1
      OBVIOUS
    <3>2. q \in Nat /\ q * Step <= x - 1 /\ x - 1 < q * Step + Step
      BY <1>1, <3>1, Division
    <3>3. q <= (length - 1) \div Step
      BY <1>1, <2>2, <3>1, DivisionGrows
    <3> HIDE DEF q
    <3>4. q + 1 \in 1..n
      <4>1. PICK m \in Nat : m = (length - 1) \div Step
        BY <1>1, <2>2, Division
      <4>2. n = m + 1 /\ q <= m
        BY <3>3, <4>1
      <4> HIDE DEF n
      <4> QED
        BY <3>2, <4>2
    <3>5. at[q + 1] = q * Step
      <4> HIDE DEF n
      <4>1. PICK i \in 1..n : i = q + 1
        BY <3>4
      <4>2. at[i] = (i - 1) * Step
        OBVIOUS
      <4>3. i - 1 = q
        BY <3>2, <4>1
      <4> HIDE DEF at
      <4> QED
        BY <4>1, <4>2, <4>3
    <3>6. q * Step \in Nat
      BY <1>1, <3>2, Products
    <3> HIDE DEF at
    <3>7. at[q + 1] < x /\ x <= at[q + 1] + ChunkSize
      BY <1>1, <3>2, <3>5, <3>6
    <3> QED
      BY <3>4, <3>7
  <2>5. ASSUME NEW i \in 1..n PROVE at[i] \in Nat
    <3> HIDE DEF n
    <3>1. i - 1 \in Nat /\ at[i] = (i - 1) * Step
      BY <2>3
    <3> QED
      BY <1>1, <3>1, Products
  <2>6. ASSUME NEW i \in 1..n
        PROVE  /\ chunks[i].first = at[i]
               /\ chunks[i].last = IF at[i] + ChunkSize <= length THEN at[i] + ChunkSize ELSE length
    <3>1. at[i] \in Nat
      BY <2>5
    <3> HIDE DEF at, n
    <3>2. Min({at[i] + ChunkSize, length}) =
            IF at[i] + ChunkSize <= length THEN at[i] + ChunkSize ELSE length
      BY <1>1, <3>1 DEF Min
    <3> QED
      BY <3>2
  <2>7. Len(chunks) = n /\ DOMAIN chunks = 1..n
    <3> HIDE DEF at, n
    <3>1. DOMAIN chunks = 1..n /\ chunks = [i \in 1..n |-> chunks[i]]
      OBVIOUS
    <3> HIDE DEF chunks
    <3> QED
      BY <2>3, <3>1, SequenceOfLength
  <2> HIDE DEF chunks, at, n
  <2>8. \A i \in 1..n : chunks[i].first \in Nat /\ chunks[i].last \in Nat /\ chunks[i].last <= length
    BY <1>1, <2>5, <2>6
  <2>9. \A x \in 1..length : \E i \in 1..n : chunks[i].first < x /\ x <= chunks[i].last
    <3> SUFFICES ASSUME NEW x \in 1..length
                 PROVE  \E i \in 1..n : chunks[i].first < x /\ x <= chunks[i].last
      OBVIOUS
    <3>1. PICK i \in 1..n : at[i] < x /\ x <= at[i] + ChunkSize
      BY <2>4
    <3>2. chunks[i].first < x /\ x <= chunks[i].last
      BY <2>6, <3>1
    <3> QED
      BY <3>2
  <2>10. Covers(chunks, length)
    BY <2>3, <2>7, <2>8, <2>9 DEF Covers
  <2> QED
    BY <2>1, <2>10
<1> QED
  BY <1>2, <1>3

-----------------------------------------------------------------------------
RAGCallOK(call) ==
  /\ call.left \in SUBSET Nat
  /\ \A i \in call.left : call.texts[i].length \in Nat \ {0}

\* The documents are known by the number of chunks stored so far.
RAGInv ==
  /\ stored \in Nat
  /\ DOMAIN documents \subseteq 1..stored
  /\ \A d \in DOMAIN documents : documents[d].text \in 1..stored
  /\ embeddings = DOMAIN documents
  /\ DOMAIN ragCalls = Calls
  /\ \A c \in Calls : RAGCallOK(ragCalls[c])

LEMMA IdleOK ==
  RAGCallOK(Idle)
  BY DEF RAGCallOK, Idle

\* What one embedding more stores is whole.
LEMMA AddIs ==
  ASSUME RAGInv, NEW text, text.length \in Nat \ {0}, Add(text)
  PROVE  /\ EntersWhole
         /\ stored' \in Nat
         /\ DOMAIN documents' \subseteq 1..stored'
         /\ \A d \in DOMAIN documents' : documents'[d].text \in 1..stored'
         /\ embeddings' = DOMAIN documents'
<1> DEFINE chunks == Chunks(text.length)
           n == Len(chunks)
           ids == (stored + 1)..(stored + n)
<1>1. text.length \in Nat \ {0} /\ stored \in Nat
  BY DEF RAGInv
<1>2. Covers(chunks, text.length)
  BY <1>1, ChunksCover
<1>3. /\ stored' = stored + n
      /\ documents' = [d \in DOMAIN documents \cup ids |->
                         IF d \in ids THEN Stored(text)[d - stored] ELSE documents[d]]
      /\ embeddings' = embeddings \cup ids
  BY DEF Add
<1>4. \A i \in 1..n :
        /\ Stored(text)[i].text = stored + 1
        /\ Stored(text)[i].length = text.length
        /\ Stored(text)[i].span = chunks[i]
  BY DEF Stored
<1> HIDE DEF chunks
<1>5. n \in Nat \ {0}
  BY <1>2 DEF Covers
<1> HIDE DEF n
<1>6. DOMAIN documents \subseteq 1..stored /\ \A d \in ids : d \notin DOMAIN documents
  BY <1>1 DEF RAGInv
<1>7. DOMAIN documents' = DOMAIN documents \cup ids
  BY <1>3
<1>8. \A d \in DOMAIN documents : documents'[d] = documents[d]
  BY <1>3, <1>6
<1>9. \A d \in ids : d - stored \in 1..n /\ documents'[d] = Stored(text)[d - stored]
  BY <1>1, <1>3, <1>5
<1>10. \A d \in ids : /\ documents'[d].text = stored + 1
                      /\ documents'[d].length = text.length
                      /\ documents'[d].span = chunks[d - stored]
  BY <1>4, <1>9
<1>11. \A d \in DOMAIN documents : documents[d].text \in 1..stored
  BY DEF RAGInv
<1>12. DOMAIN documents' \ DOMAIN documents = ids
  BY <1>6, <1>7
<1>13. EntersWhole
  <2> SUFFICES ASSUME NEW d \in ids
               PROVE  /\ \A e \in DOMAIN documents : documents[e].text # documents'[d].text
                      /\ 1..documents'[d].length =
                           UNION {(documents'[e].span.first + 1)..documents'[e].span.last :
                             e \in {f \in ids : documents'[f].text = documents'[d].text}}
    BY <1>8, <1>12 DEF EntersWhole
  <2>1. \A e \in DOMAIN documents : documents[e].text # documents'[d].text
    BY <1>1, <1>10, <1>11
  <2>2. {f \in ids : documents'[f].text = documents'[d].text} = ids
    BY <1>10
  <2> DEFINE spans == {(documents'[e].span.first + 1)..documents'[e].span.last : e \in ids}
  <2>3. UNION spans \subseteq 1..text.length
    <3> SUFFICES ASSUME NEW e \in ids, NEW x \in (documents'[e].span.first + 1)..documents'[e].span.last
                 PROVE  x \in 1..text.length
      OBVIOUS
    <3>1. PICK i \in 1..n : documents'[e].span = chunks[i]
      BY <1>9, <1>10
    <3>2. chunks[i].first \in Nat /\ chunks[i].last \in Nat /\ chunks[i].last <= text.length
      BY <1>2 DEF Covers, n
    <3> QED
      BY <1>1, <3>1, <3>2
  <2>4. ASSUME NEW x \in 1..text.length PROVE x \in UNION spans
    <3>1. PICK i \in 1..n : chunks[i].first < x /\ x <= chunks[i].last
      BY <1>2 DEF Covers, n
    <3>2. chunks[i].first \in Nat /\ chunks[i].last \in Nat
      BY <1>2 DEF Covers, n
    <3>3. stored + i \in ids /\ stored + i - stored = i
      BY <1>1, <1>5
    <3>4. documents'[stored + i].span = chunks[i]
      <4>1. PICK e \in ids : e = stored + i
        BY <3>3
      <4>2. documents'[e].span = chunks[e - stored]
        BY <1>10
      <4>3. e - stored = i
        <5>1. stored \in Int /\ i \in Int
          BY <1>1, <1>5
        <5> HIDE DEF ids
        <5> QED
          BY <4>1, <5>1
      <4> HIDE DEF ids
      <4> QED
        BY <4>1, <4>2, <4>3
    <3>5. x \in (documents'[stored + i].span.first + 1)..documents'[stored + i].span.last
      BY <3>1, <3>2, <3>4
    <3> QED
      BY <3>3, <3>5
  <2> QED
    BY <1>10, <2>1, <2>2, <2>3, <2>4
<1>14. stored' \in Nat /\ DOMAIN documents' \subseteq 1..stored'
  BY <1>1, <1>3, <1>5, <1>6, <1>7
<1>15. \A d \in DOMAIN documents' : documents'[d].text \in 1..stored'
  <2> SUFFICES ASSUME NEW d \in DOMAIN documents' PROVE documents'[d].text \in 1..stored'
    OBVIOUS
  <2>1. CASE d \in ids
    <3>1. documents'[d].text = stored + 1
      BY <2>1, <1>10
    <3> QED
      BY <1>1, <1>3, <1>5, <3>1
  <2>2. CASE d \in DOMAIN documents
    <3>1. documents'[d].text \in 1..stored
      BY <2>2, <1>8, <1>11
    <3> QED
      BY <1>1, <1>3, <1>5, <3>1
  <2> QED
    BY <1>7, <2>1, <2>2
<1> QED
  BY <1>3, <1>7, <1>13, <1>14, <1>15 DEF RAGInv

LEMMA RAGInitHolds ==
  RAGInit => RAGInv
  BY IdleOK DEF RAGInit, RAGInv

LEMMA RAGStepHolds ==
  RAGInv /\ [RAGNext]_ragVars => RAGInv' /\ [EntersWhole]_ragVars
<1> SUFFICES ASSUME RAGInv, [RAGNext]_ragVars PROVE RAGInv' /\ [EntersWhole]_ragVars
  OBVIOUS
<1>a. ASSUME UNCHANGED <<documents, embeddings, stored>>, DOMAIN ragCalls' = Calls,
             \A c \in Calls : RAGCallOK(ragCalls'[c])
      PROVE  RAGInv' /\ EntersWhole
  BY <1>a DEF RAGInv, EntersWhole
<1>c. ASSUME UNCHANGED <<documents, embeddings, stored>>, NEW c \in Calls, NEW call,
             RAGCallOK(call), ragCalls' = [ragCalls EXCEPT ![c] = call]
      PROVE  RAGInv' /\ EntersWhole
  <2>1. DOMAIN ragCalls' = Calls
    BY <1>c DEF RAGInv
  <2>2. ASSUME NEW d \in Calls PROVE RAGCallOK(ragCalls'[d])
    <3>1. ragCalls'[d] = IF d = c THEN call ELSE ragCalls[d]
      BY <1>c DEF RAGInv
    <3> QED
      BY <1>c, <3>1 DEF RAGInv
  <2> QED
    BY <1>a, <1>c, <2>1, <2>2
<1>d. ASSUME NEW ids, Delete(ids) PROVE RAGInv' /\ EntersWhole
  <2>1. /\ DOMAIN documents' = DOMAIN documents \ ids
        /\ \A d \in DOMAIN documents' : documents'[d] = documents[d]
        /\ embeddings' = embeddings \ ids
        /\ UNCHANGED <<stored, ragCalls>>
    BY <1>d DEF Delete
  <2>2. EntersWhole
    BY <2>1 DEF EntersWhole
  <2>3. RAGInv'
    BY <2>1 DEF RAGInv
  <2> QED
    BY <2>2, <2>3
<1>1. ASSUME NEW c \in Calls, NEW texts \in TextLists, Ingest(c, texts)
      PROVE  RAGInv' /\ EntersWhole
  <2> DEFINE left == {i \in DOMAIN texts : texts[i].length > 0}
             call == [Idle EXCEPT !.kind = "ingest", !.texts = texts, !.left = left]
  <2>1. \A i \in DOMAIN texts : i \in Nat /\ texts[i].length \in Nat
    BY RAGAssumption
  <2>2. left \in SUBSET Nat /\ \A i \in left : texts[i].length \in Nat \ {0}
    BY <2>1
  <2> HIDE DEF left
  <2>3. call.left = left /\ call.texts = texts
    BY DEF Idle
  <2>4. ragCalls' = [ragCalls EXCEPT ![c] = call] /\ UNCHANGED <<documents, embeddings, stored>>
    BY <1>1 DEF Ingest, left
  <2> HIDE DEF call
  <2>5. RAGCallOK(call)
    BY <2>2, <2>3 DEF RAGCallOK
  <2> QED
    BY <1>c, <2>4, <2>5
<1>2. ASSUME NEW c \in Calls, Embedded(c) PROVE RAGInv' /\ EntersWhole
  <2> DEFINE call == ragCalls[c]
             first == Min(call.left)
             text == call.texts[first]
  <2>1. RAGCallOK(call) /\ call.left # {} /\ DOMAIN ragCalls = Calls
    BY <1>2 DEF RAGInv, Embedded
  <2>2. first \in call.left
    <3>1. call.left \in SUBSET Nat /\ call.left # {}
      BY <2>1 DEF RAGCallOK
    <3> HIDE DEF call
    <3> QED
      BY <3>1, LeastMember
  <2>3. text.length \in Nat \ {0}
    BY <2>1, <2>2 DEF RAGCallOK
  <2>4. CASE call.embedded + 1 = Len(Chunks(text.length))
    <3>1. Add(text) /\ ragCalls' = [ragCalls EXCEPT ![c].embedded = 0, ![c].left = @ \ {first}]
      BY <1>2, <2>4 DEF Embedded
    <3>2. /\ EntersWhole /\ stored' \in Nat /\ DOMAIN documents' \subseteq 1..stored'
          /\ \A d \in DOMAIN documents' : documents'[d].text \in 1..stored'
          /\ embeddings' = DOMAIN documents'
      BY <2>3, <3>1, AddIs
    <3>3. DOMAIN ragCalls' = Calls
      BY <2>1, <3>1
    <3>4. ASSUME NEW d \in Calls PROVE RAGCallOK(ragCalls'[d])
      <4>1. CASE d = c
        <5>1. ragCalls'[d].left = call.left \ {first} /\ ragCalls'[d].texts = call.texts
          BY <2>1, <3>1, <4>1
        <5> QED
          BY <2>1, <5>1 DEF RAGCallOK
      <4>2. CASE d # c
        <5>1. ragCalls'[d] = ragCalls[d]
          BY <2>1, <3>1, <4>2
        <5> QED
          BY <5>1 DEF RAGInv
      <4> QED
        BY <4>1, <4>2
    <3> QED
      BY <3>2, <3>3, <3>4 DEF RAGInv
  <2>5. CASE call.embedded + 1 # Len(Chunks(text.length))
    <3>1. /\ ragCalls' = [ragCalls EXCEPT ![c].embedded = @ + 1]
          /\ UNCHANGED <<documents, embeddings, stored>>
      BY <1>2, <2>5 DEF Embedded
    <3>2. DOMAIN ragCalls' = Calls
      BY <2>1, <3>1
    <3>3. ASSUME NEW d \in Calls PROVE RAGCallOK(ragCalls'[d])
      <4>1. ragCalls'[d].left = ragCalls[d].left /\ ragCalls'[d].texts = ragCalls[d].texts
        BY <2>1, <3>1
      <4>2. RAGCallOK(ragCalls[d])
        BY DEF RAGInv
      <4> QED
        BY <4>1, <4>2 DEF RAGCallOK
    <3> QED
      BY <1>a, <3>1, <3>2, <3>3
  <2> QED
    BY <2>4, <2>5
<1>3. ASSUME NEW c \in Calls, IngestReturns(c) PROVE RAGInv' /\ EntersWhole
  BY <1>3, <1>c, IdleOK DEF IngestReturns
<1>4. ASSUME NEW c \in Calls, EmbeddingFails(c) PROVE RAGInv' /\ EntersWhole
  BY <1>4, <1>c, IdleOK DEF EmbeddingFails
<1>5. ASSUME NEW c \in Calls, NEW filter, Search(c, filter) PROVE RAGInv' /\ EntersWhole
  <2> DEFINE call == [Idle EXCEPT !.kind = "search", !.filter = filter]
  <2>1. RAGCallOK(call)
    BY DEF RAGCallOK, Idle
  <2>2. ragCalls' = [ragCalls EXCEPT ![c] = call] /\ UNCHANGED <<documents, embeddings, stored>>
    BY <1>5 DEF Search
  <2> HIDE DEF call
  <2> QED
    BY <1>c, <2>1, <2>2
<1>6. ASSUME NEW c \in Calls, SearchReturns(c) PROVE RAGInv' /\ EntersWhole
  <2>1. ragCalls' = [ragCalls EXCEPT ![c] = Idle] /\ UNCHANGED <<documents, embeddings, stored>>
    BY <1>6 DEF SearchReturns
  <2> QED
    BY <1>c, <2>1, IdleOK
<1>7. ASSUME \/ \E d \in DOMAIN documents : DeleteDocument(d)
             \/ \E filter \in Tenants : DeleteByFilter(filter)
             \/ ClearKnowledgeBase
      PROVE  RAGInv' /\ EntersWhole
  BY <1>7, <1>d DEF DeleteDocument, DeleteByFilter, ClearKnowledgeBase
<1>8. CASE UNCHANGED ragVars
  BY <1>8 DEF ragVars, RAGInv
<1>9. CASE RAGNext
  BY <1>9, <1>1, <1>2, <1>3, <1>4, <1>5, <1>6, <1>7 DEF RAGNext
<1> QED
  BY <1>8, <1>9

\* The documents are the embedded chunks, and come from the texts stored so far.
THEOREM RAGInvariant ==
  RAGSpec => []RAGInv
<1> QED
  BY RAGInitHolds, RAGStepHolds, PTL DEF RAGSpec

\* The index agrees with the documents; a text enters as a whole, every character of it
\* in a chunk, and a chunk stays as it is until it is deleted.
THEOREM TextsHoldCorrect ==
  RAGSpec => TextsHold
<1>1. RAGInv => IndexAgrees
  BY DEF RAGInv, IndexAgrees
<1>2. RAGSpec => []IndexAgrees
  BY <1>1, RAGInvariant, PTL
<1>3. RAGSpec => [][EntersWhole]_ragVars
  BY RAGInvariant, RAGStepHolds, PTL DEF RAGSpec
<1>4. RAGSpec => TextsWhole
  BY <1>3 DEF TextsWhole
<1> QED
  BY <1>2, <1>4 DEF TextsHold

-----------------------------------------------------------------------------
(* Platform. *)

\* A step of the process is a step of one component's specification, and rests for the
\* others.
LEMMA ComponentSteps ==
  ASSUME [Next]_vars
  PROVE  /\ [ToolNext]_toolVars /\ [PromptNext]_promptVars /\ [GatewayNext]_gatewayVars
         /\ [BusNext]_busVars /\ [SocketNext]_wsVars /\ [GuardNext]_guardVars
         /\ [LLMNext]_llmVars /\ [RAGNext]_ragVars
<1>1. CASE ToolsServe
  BY <1>1 DEF ToolsServe
<1>2. CASE PromptsServe
  BY <1>2 DEF PromptsServe
<1>3. CASE GatewayServes
  BY <1>3 DEF GatewayServes
<1>4. CASE BusServes
  BY <1>4 DEF BusServes
<1>5. CASE SocketsServe
  BY <1>5 DEF SocketsServe
<1>6. CASE GuardrailServes
  BY <1>6 DEF GuardrailServes
<1>7. CASE LLMServes
  BY <1>7 DEF LLMServes
<1>8. CASE RAGServes
  BY <1>8 DEF RAGServes
<1>9. CASE UNCHANGED vars
  BY <1>9 DEF vars
<1> QED
  BY <1>1, <1>2, <1>3, <1>4, <1>5, <1>6, <1>7, <1>8, <1>9 DEF Next

\* Whatever the order in which the process serves its components, what it does is, for
\* each of them, a behaviour of that component alone.
LEMMA PlatformImplements ==
  Spec => /\ ToolSpec /\ PromptSpec /\ GatewaySpec /\ BusSpec
          /\ SocketSpec /\ GuardSpec /\ LLMSpec /\ RAGSpec
<1>1. Init => /\ ToolInit /\ PromptInit /\ GatewayInit /\ BusInit
              /\ SocketInit /\ GuardInit /\ LLMInit /\ RAGInit
  BY DEF Init
<1>2. Spec => ToolSpec
  BY <1>1, ComponentSteps, PTL DEF Spec, ToolSpec
<1>3. Spec => PromptSpec
  BY <1>1, ComponentSteps, PTL DEF Spec, PromptSpec
<1>4. Spec => GatewaySpec
  BY <1>1, ComponentSteps, PTL DEF Spec, GatewaySpec
<1>5. Spec => BusSpec
  BY <1>1, ComponentSteps, PTL DEF Spec, BusSpec
<1>6. Spec => SocketSpec
  BY <1>1, ComponentSteps, PTL DEF Spec, SocketSpec
<1>7. Spec => GuardSpec
  BY <1>1, ComponentSteps, PTL DEF Spec, GuardSpec
<1>8. Spec => LLMSpec
  BY <1>1, ComponentSteps, PTL DEF Spec, LLMSpec
<1>9. Spec => RAGSpec
  BY <1>1, ComponentSteps, PTL DEF Spec, RAGSpec
<1> QED
  BY <1>2, <1>3, <1>4, <1>5, <1>6, <1>7, <1>8, <1>9

\* So what each component promises holds in the process that serves them all, their steps
\* interleaved at will.
LEMMA PlatformCorrect ==
  Spec => /\ [](ToolsHold /\ GatewayHolds /\ SentOnce /\ BroadcastsReach
                /\ GuardsHold /\ LLMAnswers)
          /\ PromptsHold /\ TextsHold
<1>1. Spec => [](ToolsHold /\ GatewayHolds /\ SentOnce /\ BroadcastsReach
                 /\ GuardsHold /\ LLMAnswers)
  BY PlatformImplements, ToolsHoldCorrect, GatewayHoldsCorrect, SentOnceCorrect,
     BroadcastsReachCorrect, GuardsHoldCorrect, LLMAnswersCorrect, PTL
<1> QED
  BY <1>1, PlatformImplements, PromptsHoldCorrect, TextsHoldCorrect
===============================================================================
