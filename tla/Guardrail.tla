------------------------------- MODULE Guardrail -------------------------------
(***************************************************************************)
(* The guardrail engine and its service: what a check of a prompt or of an *)
(* answer decides from the detectors and the rules of a policy, the audit  *)
(* log, and the counters.                                                  *)
(*                                                                         *)
(* A text is the set of the fragments that a pattern or a keyword can      *)
(* match.  No check suspends between its first read and its last write, so *)
(* each is one action.  The redacted text, which is returned and kept      *)
(* nowhere, is left out, and so are names, positions and times.            *)
(***************************************************************************)
EXTENDS Requests, Integers, SequencesExt

CONSTANTS
  Policies, Gone,    \* the ids of policies; one whose policy is deleted
  Fragments, Contents,   \* fragments, and the texts made of them that are checked
  Kind,              \* the category a detector gives a fragment, "plain" if it has none
  RuleChoices,       \* rules: [direction, matches, category, severity, enabled]
  MaxLength,         \* max_prompt_length and max_output_length, in fragments
  DefaultAction,     \* default_action of the configuration
  LogLimit,          \* audit_log_retention_days * 1000
  CheckLimit, RuleLimit   \* bounds: checks between two resets, rules of a policy

ASSUME GuardrailAssumption ==
  /\ LogLimit \in Nat \ {0} /\ CheckLimit \in Nat /\ RuleLimit \in Nat
  /\ MaxLength \in Nat /\ Contents \subseteq SUBSET Fragments
  /\ DefaultAction \in {"allow", "warn", "block", "redact"}
  /\ \A r \in RuleChoices : r.severity \in 0..3

VARIABLES
  policies,        \* GuardrailEngine._policies
  defaultPolicy,   \* GuardrailEngine._default_policy
  auditLogs,       \* GuardrailEngine._audit_logs
  totals           \* the four counters

guardVars == <<policies, defaultPolicy, auditLogs, totals>>

Low      == 0
Medium   == 1
High     == 2
Critical == 3

NoTotals == [checks |-> 0, block |-> 0, warn |-> 0, allow |-> 0]

GuardInit ==
  /\ policies = [p \in Policies |-> None]
  /\ defaultPolicy = None
  /\ auditLogs = <<>>
  /\ totals = NoTotals

-----------------------------------------------------------------------------
(* What a check finds and decides. *)

Violation(category, severity) == [category |-> category, severity |-> severity]

TooLong(content) ==
  IF Cardinality(content) > MaxLength THEN {Violation("custom", Low)} ELSE {}

InjectionSeverity ==
  [jailbreak |-> Critical, injection |-> High, role_switch |-> High, prompt_leak |-> Medium]

Detect(content) ==
  {Violation(Kind[f], InjectionSeverity[Kind[f]]) :
     f \in {g \in content : Kind[g] \in DOMAIN InjectionSeverity}}

FilterOutput(content) ==
  {Violation(Kind[f], High) :
     f \in {g \in content : Kind[g] \in {"harmful_content", "pii_leak", "sensitive_data"}}}

EvaluateRules(content, rules, direction) ==
  {Violation(r.category, r.severity) :
     r \in {s \in rules : /\ s.enabled
                          /\ s.direction \in {direction, "both"}
                          /\ s.matches \cap content # {}}}

\* A check that names a policy which is not there is made without one.
PolicyNamed(p) == IF p = None THEN defaultPolicy ELSE policies[p]

RulesFor(p) ==
  LET policy == PolicyNamed(p)
  IN  IF policy \in {None, Gone} THEN {}
      ELSE IF policy.enabled THEN ToSet(policy.rules) ELSE {}

HighestSeverity(violations) == Max({Low} \cup {v.severity : v \in violations})

\* Mutant: any violation of low severity decides.
DetermineActionLowFirst(violations) ==
  CASE violations = {} \/ \E v \in violations : v.severity = Low -> "allow"
    [] HighestSeverity(violations) \in {High, Critical} -> "block"
    [] OTHER                                       -> DefaultAction

DetermineAction(violations) ==
  CASE violations = {}                             -> "allow"
    [] HighestSeverity(violations) \in {High, Critical} -> "block"
    [] HighestSeverity(violations) = Low           -> "allow"
    [] OTHER                                       -> DefaultAction

PromptViolations(content, rules) ==
  TooLong(content) \cup Detect(content) \cup EvaluateRules(content, rules, "input")

OutputViolations(content, rules) ==
  TooLong(content) \cup FilterOutput(content) \cup EvaluateRules(content, rules, "output")

\* What can be redacted is redacted, whatever else was found.
OutputAction(violations) ==
  IF \E v \in violations : v.category \in {"pii_leak", "sensitive_data"}
  THEN "redact" ELSE DetermineAction(violations)

Entry(direction, action, violations) ==
  [direction |-> direction, action |-> action, highest |-> HighestSeverity(violations)]

CheckedPrompt(content, rules) ==
  LET found == PromptViolations(content, rules)
  IN  Entry("input", DetermineAction(found), found)

CheckedOutput(content, rules) ==
  LET found == OutputViolations(content, rules)
  IN  Entry("output", OutputAction(found), found)

-----------------------------------------------------------------------------
(* The checks. *)

Trimmed(log) == SubSeq(log, Max({1, Len(log) - LogLimit + 1}), Len(log))

\* Every entry is a check; a redaction has no counter of its own.
CountingAs(entries, a) == {i \in DOMAIN entries : a \in {"checks", entries[i].action}}

LogAndCount(entries) ==
  /\ totals.checks + Len(entries) <= CheckLimit
  /\ auditLogs' = Trimmed(auditLogs \o entries)
  /\ totals' = [a \in DOMAIN totals |-> totals[a] + Cardinality(CountingAs(entries, a))]
  /\ UNCHANGED <<policies, defaultPolicy>>

ValidatePrompt(content, p) ==
  LogAndCount(<<CheckedPrompt(content, RulesFor(p))>>)

ValidateOutput(content, p) ==
  LogAndCount(<<CheckedOutput(content, RulesFor(p))>>)

\* The answer is checked even when the prompt was blocked.
ValidateFullCycle(prompt, output, p) ==
  LogAndCount(<<CheckedPrompt(prompt, RulesFor(p)),
                CheckedOutput(output, RulesFor(p))>>)

-----------------------------------------------------------------------------
(* Policies. *)

Exists(p) == policies[p] \notin {None, Gone}

CreatePolicy(p, rules) ==
  /\ policies[p] = None
  /\ policies' = [policies EXCEPT ![p] = [enabled |-> TRUE, rules |-> rules]]
  /\ UNCHANGED <<defaultPolicy, auditLogs, totals>>

UpdatePolicy(p, enabled) ==
  /\ Exists(p)
  /\ policies' = [policies EXCEPT ![p].enabled = enabled]
  /\ UNCHANGED <<defaultPolicy, auditLogs, totals>>

DeletePolicy(p) ==
  /\ Exists(p)
  /\ policies' = [policies EXCEPT ![p] = Gone]
  /\ UNCHANGED <<defaultPolicy, auditLogs, totals>>

AddRule(p, rule) ==
  /\ Exists(p)
  /\ Len(policies[p].rules) < RuleLimit
  /\ policies' = [policies EXCEPT ![p].rules = Append(@, rule)]
  /\ UNCHANGED <<defaultPolicy, auditLogs, totals>>

RemoveRule(p, i) ==
  /\ policies' = [policies EXCEPT ![p].rules = RemoveAt(@, i)]
  /\ UNCHANGED <<defaultPolicy, auditLogs, totals>>

\* A policy that is no client's: only the engine's own API sets it.
SetDefaultPolicy(rule) ==
  /\ defaultPolicy' = [enabled |-> TRUE, rules |-> <<rule>>]
  /\ UNCHANGED <<policies, auditLogs, totals>>

Reset ==
  /\ policies' = [p \in Policies |-> IF Exists(p) THEN Gone ELSE policies[p]]
  /\ defaultPolicy' = None
  /\ auditLogs' = <<>>
  /\ totals' = NoTotals

GuardNext ==
  \/ \E p \in Policies \cup {None}, content \in Contents :
       \/ ValidatePrompt(content, p)
       \/ ValidateOutput(content, p)
       \/ \E output \in Contents : ValidateFullCycle(content, output, p)
  \/ \E p \in Policies :
       \/ \E rules \in {<<>>} \cup {<<r>> : r \in RuleChoices} : CreatePolicy(p, rules)
       \/ \E enabled \in BOOLEAN : UpdatePolicy(p, enabled)
       \/ DeletePolicy(p)
       \/ \E rule \in RuleChoices : AddRule(p, rule)
       \/ Exists(p) /\ \E i \in DOMAIN policies[p].rules : RemoveRule(p, i)
  \/ \E rule \in RuleChoices : SetDefaultPolicy(rule)
  \/ Reset

GuardSpec == GuardInit /\ [][GuardNext]_guardVars

-----------------------------------------------------------------------------
\* Properties.

\* Whatever the detectors, the rules and a policy changed or deleted between two checks
\* contribute, nothing of high severity passes, except an answer that is to be redacted.
SevereStopped ==
  \A i \in DOMAIN auditLogs :
    auditLogs[i].highest >= High =>
      auditLogs[i].action \in {"block"} \cup
        (IF auditLogs[i].direction = "output" THEN {"redact"} ELSE {})

\* A policy can only make the check of a prompt stricter.
RulesTighten ==
  LET Rank == [allow |-> 0, warn |-> 1, redact |-> 2, block |-> 3]
  IN  \A p \in {p \in Policies : RulesFor(p) # {}}, content \in SUBSET Fragments :
        Rank[DetermineAction(PromptViolations(content, RulesFor(p)))] >=
          Rank[DetermineAction(PromptViolations(content, {}))]

\* The log holds the latest checks, the counters cover it, and agree with it as long as
\* nothing was trimmed; redactions have no counter and are what the others leave.
StatsFollowLog ==
  LET Logged(a) == Cardinality({i \in DOMAIN auditLogs : auditLogs[i].action = a})
      redacts == totals.checks - totals.block - totals.warn - totals.allow
  IN  /\ Len(auditLogs) = Min({totals.checks, LogLimit})
      /\ \A a \in {"block", "warn", "allow"} : Logged(a) <= totals[a]
      /\ Logged("redact") <= redacts
      /\ totals.checks <= LogLimit => Logged("redact") = redacts

\* Whatever the policies become between two checks: what is severe is stopped, policies
\* only tighten, and the statistics follow the log.
GuardsHold == SevereStopped /\ RulesTighten /\ StatsFollowLog
===============================================================================
