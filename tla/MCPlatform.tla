------------------------------ MODULE MCPlatform ------------------------------
EXTENDS Platform

CONSTANTS
  x, y,                                     \* parameters of tools
  Greeting, greeting, blank, who, why,      \* names of templates, and of variables
  t1, t2                                    \* tenants

-----------------------------------------------------------------------------
\* No step of one component reads or writes what another has, so to each component a
\* behaviour of the process is one of the component alone (lemma PlatformImplements of
\* Platform_proofs), and every property is about one component.  It is therefore enough
\* to look at the behaviours in which one of them, whichever it is, is asked for
\* something: "served".  What is read from the configuration matters to that one only.
VARIABLE served

MCInit ==
  /\ Init
  /\ served \in {"tools", "prompts", "gateway", "bus", "sockets", "guardrail", "llm", "rag"}
  /\ served # "tools" => mode = "docker"
  /\ served # "llm" => settings = [key |-> FALSE, mock |-> FALSE, installed |-> {}]

MCNext ==
  /\ \/ served = "tools" /\ ToolsServe
     \/ served = "prompts" /\ PromptsServe
     \/ served = "gateway" /\ GatewayServes
     \/ served = "bus" /\ BusServes
     \/ served = "sockets" /\ SocketsServe
     \/ served = "guardrail" /\ GuardrailServes
     \/ served = "llm" /\ LLMServes
     \/ served = "rag" /\ RAGServes
  /\ UNCHANGED served

MCSpec == MCInit /\ [][MCNext]_<<vars, served>>

-----------------------------------------------------------------------------
\* The tool server: JSON values, and parameters: an integer of at most 1 with a default
\* that is out of its range, and a required text.
Text  == [kind |-> "string", n |-> 0]
One   == [kind |-> "integer", n |-> 1]
Nine  == [kind |-> "integer", n |-> 9]
Truth == [kind |-> "boolean", n |-> 1]
MCValues == {Text, One, Nine, Truth}

Param(name, type, default, allows) ==
  [name |-> name, type |-> type, required |-> TRUE, default |-> default, allows |-> allows]

Bounded == Param(x, "integer", Nine, {One, Truth})
Needed  == Param(y, "string", None, MCValues)

\* The second list is refused: its two parameters have one name.
MCParamLists == {<<Bounded, Needed>>, <<Needed, Needed>>}

\* One client leaves x out; another sends x, and null for y.
MCArguments == {[n \in {y} |-> Text], [n \in {x, y} |-> IF n = x THEN Truth ELSE None]}

-----------------------------------------------------------------------------
\* The prompt center: two names that differ in case and a blank one; versions without
\* variables, and with one that has a default and one that has none.
MCLower == [n \in {Greeting, greeting, blank} |-> IF n = blank THEN None ELSE greeting]
MCVariableLists ==
  {{}, {[name |-> who, required |-> TRUE, default |-> FALSE],
        [name |-> why, required |-> TRUE, default |-> TRUE]}}

-----------------------------------------------------------------------------
\* One tier, besides the default limit that a tier of no known name leads to.
MCTierLimits == [tier \in {"free"} |-> 2]

\* The default of LLMConfig.fallback_providers.
MCFallbacks == <<"claude", "local">>

-----------------------------------------------------------------------------
\* The guardrails: a harmless text, texts that one detector or several find something in,
\* a custom rule, and a rule that declares a word it forbids to be a leak.
MCFragments == {"word", "slur", "mail", "jail", "leak"}
MCContents ==
  {{"word"}, {"slur", "leak"}, {"slur"}, {"word", "slur", "jail", "mail"}, {"word", "jail"}}
MCKind ==
  [word |-> "plain", slur |-> "harmful_content", mail |-> "pii_leak",
   jail |-> "jailbreak", leak |-> "prompt_leak"]
MCRules ==
  {[direction |-> "both", matches |-> {"word"}, category |-> "custom", severity |-> Medium,
    enabled |-> TRUE],
   [direction |-> "both", matches |-> {"slur"}, category |-> "pii_leak", severity |-> Low,
    enabled |-> TRUE]}

-----------------------------------------------------------------------------
\* The knowledge base, in chunks of three characters that overlap by one: a text of two
\* chunks, and a batch of another tenant with an empty text.
MCTextLists ==
  {<<[length |-> 4, tenant |-> t1]>>,
   <<[length |-> 2, tenant |-> t2], [length |-> 0, tenant |-> t2]>>}

-----------------------------------------------------------------------------
\* What is alike in one component may have the names of what is alike in another: a
\* permutation of the calls is one of the clients, and of the slugs one of the tenants of
\* connections.
Symmetric == Permutations(Calls) \cup Permutations(Slugs)
===============================================================================
