------------------------------ MODULE LLMGateway ------------------------------
(***************************************************************************)
(* The LLM gateway: calls to one provider, calls that fall back from one   *)
(* provider to the next, and streams.                                      *)
(*                                                                         *)
(* What a provider answers is left open; what an adapter may do with it    *)
(* depends on the settings: whether there is a key, whether mocked answers *)
(* are allowed, and which client libraries are installed.  The gateway     *)
(* changes nothing but the calls themselves.  No adapter reports "error"   *)
(* as the reason of an end, so a response is always an answer.  Texts,     *)
(* token counts, costs and latencies are left out.                         *)
(***************************************************************************)
EXTENDS Requests, Integers, SequencesExt

CONSTANTS
  Names,           \* names a request or the configuration may give a provider
  Default,         \* LLMConfig.provider
  Fallbacks,       \* LLMConfig.fallback_providers
  StreamLimit       \* bound: chunks of a stream

ASSUME LLMAssumption ==
  /\ Fallbacks \in Seq(Names) /\ StreamLimit \in Nat
  /\ Default \in {"openai", "anthropic", "local"}
  /\ None \notin {"openai", "anthropic", "local", "chat", "stream", "fallback"}

VARIABLES
  settings,   \* [key, mock, installed], fixed when the process starts
  llmCalls    \* the calls in flight and those that have ended

llmVars == <<settings, llmCalls>>

Adapters == {"openai", "anthropic", "local"}

\* A call has a list of names, and asks the providers at some positions of it.
NotAsking == [kind |-> None, list |-> <<>>, asked |-> <<>>, at |-> None,
              outcome |-> None, chunks |-> <<>>]

LLMInit ==
  /\ settings \in [key : BOOLEAN, mock : BOOLEAN, installed : SUBSET Adapters]
  /\ llmCalls = [c \in Calls |-> NotAsking]

-----------------------------------------------------------------------------
(* What an adapter may do with a request. *)

Answered(p) == [by |-> p, mocked |-> FALSE]
Mocked(p)   == [by |-> p, mocked |-> TRUE]
Raised      == [by |-> None, mocked |-> FALSE]

Configured(p) == p = "local" \/ settings.key \/ settings.mock

MayAnswer(p) == Configured(p) /\ p \in settings.installed

\* OpenAI mocks a call that fails but not a missing library, Anthropic a missing library
\* but not a call that fails.
Mocks(p) ==
  /\ settings.mock
  /\ \/ p = "openai" /\ p \in settings.installed
     \/ p = "anthropic" /\ p \notin settings.installed

-----------------------------------------------------------------------------
(* The calls. *)

Active(c, kinds) == llmCalls[c].at # None /\ llmCalls[c].kind \in kinds

End(call, outcome) == [call EXCEPT !.at = None, !.outcome = outcome]

\* A name without an adapter is OpenAI's when one provider is asked for ...
AdapterFor(name) ==
  LET provider == IF name = None THEN Default ELSE name
  IN  IF provider \in Adapters THEN provider ELSE "openai"

Known(list) == {i \in DOMAIN list : list[i] \in Adapters}

AskAt(call, i) == [call EXCEPT !.at = call.list[i], !.asked = Append(@, i)]

\* Mutant: a name without an adapter ends the list.
AdvanceByOne(call) ==
  LET next == Max({0} \cup ToSet(call.asked)) + 1
  IN  IF next \in Known(call.list) THEN AskAt(call, next) ELSE End(call, Raised)

\* ... and passed over when there are others.  When there are none left the last error is
\* raised, or, if nobody was asked, a response returned that reports one.
Advance(call) ==
  LET left == {i \in Known(call.list) : \A j \in ToSet(call.asked) : j < i}
  IN  IF left # {} THEN AskAt(call, Min(left)) ELSE End(call, Raised)

Ask(c, kind, name) ==
  /\ llmCalls[c] = NotAsking
  /\ llmCalls' = [llmCalls EXCEPT ![c] =
       AskAt([NotAsking EXCEPT !.kind = kind, !.list = <<AdapterFor(name)>>], 1)]
  /\ UNCHANGED settings

ChatWithFallback(c, name) ==
  /\ llmCalls[c] = NotAsking
  /\ llmCalls' = [llmCalls EXCEPT ![c] =
                 Advance([NotAsking EXCEPT !.kind = "fallback", !.list = <<name>> \o Fallbacks])]
  /\ UNCHANGED settings

ProviderAnswers(c) ==
  /\ Active(c, {"chat", "fallback"}) /\ MayAnswer(llmCalls[c].at)
  /\ llmCalls' = [llmCalls EXCEPT ![c] = End(@, Answered(@.at))]
  /\ UNCHANGED settings

ProviderMocked(c) ==
  /\ Active(c, {"chat", "fallback"}) /\ Mocks(llmCalls[c].at)
  /\ llmCalls' = [llmCalls EXCEPT ![c] = End(@, Mocked(@.at))]
  /\ UNCHANGED settings

ProviderFails(c) ==
  /\ Active(c, {"chat", "fallback"}) /\ ~ Mocks(llmCalls[c].at)
  /\ llmCalls' = [llmCalls EXCEPT ![c] =
                 IF @.kind = "fallback" THEN Advance(@) ELSE End(@, Raised)]
  /\ UNCHANGED settings

StreamChunk(c) ==
  /\ Active(c, {"stream"}) /\ MayAnswer(llmCalls[c].at)
  /\ Len(llmCalls[c].chunks) < StreamLimit
  /\ llmCalls' = [llmCalls EXCEPT ![c].chunks = Append(@, "provider")]
  /\ UNCHANGED settings

StreamEnds(c) ==
  /\ Active(c, {"stream"}) /\ MayAnswer(llmCalls[c].at)
  /\ llmCalls' = [llmCalls EXCEPT ![c] = End(@, Answered(@.at))]
  /\ UNCHANGED settings

EndMocked(call) ==
  LET ended == End(call, Mocked(call.at)) IN [ended EXCEPT !.chunks = Append(@, "mock")]

\* Only OpenAI's stream is mocked, after whatever the provider has sent.
StreamFails(c) ==
  /\ Active(c, {"stream"})
  /\ llmCalls' = [llmCalls EXCEPT ![c] =
       IF @.at = "openai" /\ Mocks(@.at) THEN EndMocked(@) ELSE End(@, Raised)]
  /\ UNCHANGED settings

LLMNext ==
  \E c \in Calls :
    \/ \E name \in Names \cup {None} : Ask(c, "chat", name) \/ Ask(c, "stream", name)
    \/ \E name \in Names : ChatWithFallback(c, name)
    \/ ProviderAnswers(c) \/ ProviderMocked(c) \/ ProviderFails(c)
    \/ StreamChunk(c) \/ StreamEnds(c) \/ StreamFails(c)

LLMSpec == LLMInit /\ [][LLMNext]_llmVars

-----------------------------------------------------------------------------
\* Properties.

Failed(call) == call.kind = "fallback" /\ call.at = None /\ call.outcome = Raised

\* "No mock data in production": nobody is answered with a mock, whatever fails, unless
\* the settings allow it; and a call with fallbacks fails only after every provider of
\* its list that has an adapter was asked, in the order of the list.
LLMAnswers ==
  \A c \in Calls :
    /\ llmCalls[c].outcome # None /\ llmCalls[c].outcome.mocked => settings.mock
    /\ "mock" \in ToSet(llmCalls[c].chunks) => settings.mock
    /\ Failed(llmCalls[c]) =>
         /\ \E name \in Names : llmCalls[c].list = <<name>> \o Fallbacks
         /\ ToSet(llmCalls[c].asked) = Known(llmCalls[c].list)
         /\ \A i, j \in DOMAIN llmCalls[c].asked :
              i < j => llmCalls[c].asked[i] < llmCalls[c].asked[j]
=============================================================================
