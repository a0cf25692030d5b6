------------------------------- MODULE ToolServer ------------------------------
(***************************************************************************)
(* The MCP tool server: the registry of tools, the calls that run their    *)
(* handlers, the sandbox, and the service over them.                       *)
(*                                                                         *)
(* The registry never suspends a request except to wait for a handler, and *)
(* the service publishes its events after the last change, so a request is *)
(* one action, and a call that waits has a place in "toolCalls".  A tool   *)
(* may be updated or unregistered under a waiting call.  Arguments are     *)
(* values of a small set; enums, ranges and patterns are the set of values *)
(* a parameter allows.  Descriptions, categories, tags and times are left  *)
(* out.                                                                    *)
(***************************************************************************)
EXTENDS Requests, Integers, FiniteSets, Sequences

CONSTANTS
  ToolNames, BadToolNames,
  Values,          \* records with a field kind, the JSON type
  ParamLists,      \* sequences of [name, type, required, default, allows]
  BadParamNames,
  Arguments,       \* what clients send: functions from names to Values \cup {None}
  SandboxModes,    \* the values the configuration may give sandbox_mode
  MaxTools,        \* max_tools
  ToolLimit,       \* bound: tools ever registered
  LitterLimit      \* bound: files left behind before the last call starts

ASSUME ToolAssumption ==
  /\ MaxTools \in Nat /\ ToolLimit \in Nat /\ LitterLimit \in Nat
  /\ IsFiniteSet(Calls)

VARIABLES
  registry,   \* ToolRegistry._tools: tool_id -> tool
  made,       \* the tools registered so far
  mode,       \* sandbox_mode
  toolCalls,  \* the calls that wait for a handler
  sandbox     \* the sandbox's temporary files and processes

toolVars == <<registry, made, mode, toolCalls, sandbox>>

NoCall == [stage |-> "idle"]

ToolInit ==
  /\ registry = <<>>
  /\ made = 0
  /\ mode \in SandboxModes
  /\ toolCalls = [c \in Calls |-> NoCall]
  /\ sandbox = [files |-> 0, processes |-> 0, orphans |-> 0, litter |-> 0]

-----------------------------------------------------------------------------
\* Parameters and arguments.

ParamTypes == {"string", "number", "integer", "boolean", "array", "object"}

ValidParameters(params) ==
  \A i \in DOMAIN params :
    /\ params[i].name \notin BadParamNames
    /\ params[i].type \in ParamTypes
    /\ \A j \in DOMAIN params : params[j].name = params[i].name => i = j

\* Python's isinstance: a boolean is an integer, and both are numbers.
KindsOf(type) ==
  CASE type = "number"  -> {"integer", "number", "boolean"}
    [] type = "integer" -> {"integer", "boolean"}
    [] OTHER            -> {type}

Fits(v, p) == v.kind \in KindsOf(p.type) /\ v \in p.allows

Given(args, name) == IF name \in DOMAIN args THEN args[name] ELSE None

\* Mutant: a parameter that is present is not compared with its schema.
ValidArgumentsPresent(params, args) ==
  \A i \in DOMAIN params :
    LET p == params[i]
    IN  ~ p.required \/ p.default # None \/ p.name \in DOMAIN args

ValidArguments(params, args) ==
  \A i \in DOMAIN params :
    LET p == params[i]
        v == Given(args, p.name)
    IN  IF v = None THEN ~ p.required \/ p.default # None
        ELSE Fits(v, p)

\* invoke_tool fills in a default only for a name the client left out altogether.
Filled(params, args) ==
  LET defaults == {i \in DOMAIN params : params[i].default # None}
  IN  [name \in DOMAIN args \cup {params[i].name : i \in defaults} |->
        IF name \in DOMAIN args THEN args[name]
        ELSE params[CHOOSE i \in defaults : params[i].name = name].default]

-----------------------------------------------------------------------------
\* The registry.

OfTenant(t) == {id \in DOMAIN registry : registry[id].tenant = t}
Named(t, name) == {id \in OfTenant(t) : registry[id].name = name}

Register(t, name, params, handler) ==
  /\ made < ToolLimit
  /\ name \notin BadToolNames
  /\ Named(t, name) = {}
  /\ Cardinality(OfTenant(t)) < MaxTools
  /\ ValidParameters(params)
  /\ made' = made + 1
  /\ registry' = [id \in DOMAIN registry \cup {made + 1} |->
                    IF id = made + 1
                    THEN [tenant |-> t, name |-> name, params |-> params,
                          handler |-> handler, status |-> "active"]
                    ELSE registry[id]]
  /\ UNCHANGED <<mode, toolCalls, sandbox>>

\* The service's own tools answer with their arguments; the MCP server registers a
\* handler of the caller's, or one that runs the caller's code in the sandbox.
RegisterTool(t, name, params) == Register(t, name, params, "echo")
RegisterDirect(t, name, params) == Register(t, name, params, "direct")
RegisterSandboxTool(t, name, params) == Register(t, name, params, "sandbox")

UnregisterTool(id) ==
  /\ registry' = [i \in DOMAIN registry \ {id} |-> registry[i]]
  /\ UNCHANGED <<made, mode, toolCalls, sandbox>>

\* The status is set before the parameters are validated, and stays set when they are
\* refused.
UpdateTool(id, status, params) ==
  /\ registry' = [registry EXCEPT
                   ![id].status = IF status = None THEN @ ELSE status,
                   ![id].params = IF params # None /\ ValidParameters(params)
                                  THEN params ELSE @]
  /\ UNCHANGED <<made, mode, toolCalls, sandbox>>

-----------------------------------------------------------------------------
\* Calls.  A handler that answers at once leaves no trace; the others wait.

Callable(id, args) ==
  /\ registry[id].status = "active"
  /\ ValidArguments(registry[id].params, args)

Started(id, args, stage) ==
  [stage |-> stage, tool |-> id, schema |-> registry[id].params,
   args |-> Filled(registry[id].params, args)]

\* The process mode writes the code to a temporary file before it starts a process; the
\* restricted mode runs it in a task of its own; the container mode refuses at once.
StageOf(id) ==
  CASE registry[id].handler = "echo"   -> "idle"
    [] registry[id].handler = "direct" -> "handler"
    [] mode = "process"                -> "starting"
    [] mode = "restricted"             -> "restricted"
    [] OTHER                           -> "idle"

InvokeTool(c, id, args) ==
  /\ toolCalls[c] = NoCall
  /\ Callable(id, args)
  /\ StageOf(id) # "idle" /\ sandbox.litter <= LitterLimit
  /\ toolCalls' = [toolCalls EXCEPT ![c] = Started(id, args, StageOf(id))]
  /\ sandbox' = [sandbox EXCEPT !.files = @ + IF StageOf(id) = "starting" THEN 1 ELSE 0]
  /\ UNCHANGED <<registry, made, mode>>

\* invoke_tool_by_name and tools/call look the tool up by its name first.
InvokeToolByName(c, t, name, args) ==
  \E id \in Named(t, name) : InvokeTool(c, id, args)

Return(c) == toolCalls' = [toolCalls EXCEPT ![c] = NoCall]

\* The caller's handler returns or raises: the answer differs, the state does not.
HandlerReturns(c) ==
  /\ toolCalls[c].stage = "handler"
  /\ Return(c)
  /\ UNCHANGED <<registry, made, mode, sandbox>>

\* The restricted mode runs in the event loop without a pause: its time-out cannot fire.
RestrictedRuns(c) ==
  /\ toolCalls[c].stage = "restricted"
  /\ Return(c)
  /\ UNCHANGED <<registry, made, mode, sandbox>>

ProcessStarts(c) ==
  /\ toolCalls[c].stage = "starting"
  /\ toolCalls' = [toolCalls EXCEPT ![c].stage = "running"]
  /\ sandbox' = [sandbox EXCEPT !.processes = @ + 1]
  /\ UNCHANGED <<registry, made, mode>>

\* No process could be made: the error is answered and the file stays.
ProcessFails(c) ==
  /\ toolCalls[c].stage = "starting"
  /\ Return(c)
  /\ sandbox' = [sandbox EXCEPT !.litter = @ + 1]   \* of the files, one nobody removes
  /\ UNCHANGED <<registry, made, mode>>

ProcessEnds(c) ==
  /\ toolCalls[c].stage = "running"
  /\ Return(c)
  /\ sandbox' = [sandbox EXCEPT !.processes = @ - 1, !.files = @ - 1]
  /\ UNCHANGED <<registry, made, mode>>

\* The time-out gives up on the process, and neither kills it nor removes its file.
ProcessTimesOut(c) ==
  /\ toolCalls[c].stage = "running"
  /\ Return(c)
  /\ sandbox' = [sandbox EXCEPT !.orphans = @ + 1, !.litter = @ + 1]
  /\ UNCHANGED <<registry, made, mode>>

\* A process nobody waits for comes to its end.
OrphanEnds ==
  /\ sandbox.orphans > 0
  /\ sandbox' = [sandbox EXCEPT !.orphans = @ - 1, !.processes = @ - 1]
  /\ UNCHANGED <<registry, made, mode, toolCalls>>

-----------------------------------------------------------------------------
ToolNext ==
  \/ \E t \in Tenants, name \in ToolNames \cup BadToolNames, params \in ParamLists :
       \/ RegisterTool(t, name, params)
       \/ RegisterDirect(t, name, params)
       \/ RegisterSandboxTool(t, name, params)
  \/ \E id \in DOMAIN registry :
       \/ UnregisterTool(id)
       \/ \E status \in {None, "active", "inactive"}, params \in ParamLists \cup {None} :
            UpdateTool(id, status, params)
       \/ \E c \in Calls, args \in Arguments : InvokeTool(c, id, args)
  \/ \E c \in Calls, t \in Tenants, name \in ToolNames, args \in Arguments :
       InvokeToolByName(c, t, name, args)
  \/ \E c \in Calls :
       \/ HandlerReturns(c) \/ RestrictedRuns(c)
       \/ ProcessStarts(c) \/ ProcessFails(c) \/ ProcessEnds(c) \/ ProcessTimesOut(c)
  \/ OrphanEnds

ToolSpec == ToolInit /\ [][ToolNext]_toolVars

-----------------------------------------------------------------------------
\* Properties.

\* However registrations, removals and updates follow one another, a tenant never has two
\* tools of one name nor more tools than its limit, and the parameters of every tool,
\* an update that was refused half way included, are well formed.
RegistrySound ==
  \A id \in DOMAIN registry :
    /\ Named(registry[id].tenant, registry[id].name) = {id}
    /\ Cardinality(OfTenant(registry[id].tenant)) <= MaxTools
    /\ ValidParameters(registry[id].params)

Using(stages) == Cardinality({c \in Calls : toolCalls[c].stage \in stages})

\* What a handler was given conforms to the parameters its tool had when the call began,
\* whatever became of the tool since: nothing required without a default is missing, and
\* every value is one the client sent and the schema admits, or the default.
CallsConform ==
  \A c \in Calls : toolCalls[c] # NoCall =>
    \A i \in DOMAIN toolCalls[c].schema :
      LET p == toolCalls[c].schema[i]
          v == Given(toolCalls[c].args, p.name)
      IN  IF v = None THEN ~ p.required \/ p.default # None
          ELSE Fits(v, p) \/ v = p.default

\* The temporary files are those of the calls that wait for a process and the ones that
\* a failure or a time-out left behind, and a process runs for a call or as an orphan.
SandboxAccounted ==
  /\ sandbox.files = Using({"starting", "running"}) + sandbox.litter
  /\ sandbox.processes = Using({"running"}) + sandbox.orphans
  /\ sandbox.orphans <= sandbox.litter

\* However registrations, calls and the processes they start overlap: the registry stays
\* sound, calls conform to the schemas they began with, and nothing of the sandbox is lost
\* track of.
ToolsHold == RegistrySound /\ CallsConform /\ SandboxAccounted
=============================================================================
