------------------------------ MODULE PromptCenter -----------------------------
(***************************************************************************)
(* The prompt center: templates of a tenant, their versions, the current   *)
(* version, and what a render of one finds.                                *)
(*                                                                         *)
(* No request suspends before its last change, so each is one action.  A   *)
(* content is the number of the request that wrote it, so that no two      *)
(* contents are alike; whether the renderer accepts it is its validity.  A *)
(* template maps its contents to [number, variables]; the order in which   *)
(* they were written is the order of the code's list of versions.          *)
(* Requests that are refused change nothing, except where an action says   *)
(* so.  Descriptions, categories, tags, times and the text a render makes  *)
(* are left out.                                                           *)
(***************************************************************************)
EXTENDS Requests, Integers, SequencesExt

CONSTANTS
  PromptNames,
  Lower,           \* the lower case of each name
  MaxVersions,     \* max_versions_per_template
  VariableLists,   \* sets of [name, required, default] a version may declare
  TemplateLimit, ContentLimit   \* bounds: templates and versions ever written

ASSUME PromptAssumption ==
  /\ MaxVersions \in Nat \ {0} /\ TemplateLimit \in Nat /\ ContentLimit \in Nat
  /\ None \notin 1..MaxVersions

VARIABLES
  templates,   \* PromptManager._templates
  drafted,     \* templates ever created
  written      \* contents ever accepted

promptVars == <<templates, drafted, written>>

PromptInit == templates = <<>> /\ drafted = 0 /\ written = 0

-----------------------------------------------------------------------------
Numbers(t) == {t.versions[content].number : content \in DOMAIN t.versions}

Numbered(t, n) == {content \in DOMAIN t.versions : t.versions[content].number = n}

\* Mutant: the version of that number that was written last.
ResolveLast(t, n) ==
  [content |-> Max(Numbered(t, n)), variables |-> t.versions[Max(Numbered(t, n))].variables]

\* get_version answers with the first version of that number.
Resolve(t, n) ==
  [content |-> Min(Numbered(t, n)), variables |-> t.versions[Min(Numbered(t, n))].variables]

\* The versions with one more, whose content is written now.
WithVersion(versions, n, variables) ==
  [content \in DOMAIN versions \cup {written + 1} |->
     IF content = written + 1 THEN [number |-> n, variables |-> variables]
     ELSE versions[content]]

Blank(name) == Lower[name] = None

CreateTemplate(tenant, name, variables) ==
  /\ drafted < TemplateLimit /\ written < ContentLimit
  /\ ~ Blank(name)
  /\ \A id \in DOMAIN templates :
       templates[id].tenant # tenant \/ Lower[templates[id].name] # Lower[name]
  /\ drafted' = drafted + 1
  /\ written' = written + 1
  /\ templates' = [id \in DOMAIN templates \cup {drafted + 1} |->
                     IF id = drafted + 1
                     THEN [tenant |-> tenant, name |-> name, active |-> TRUE,
                           current |-> 1, versions |-> WithVersion(<<>>, 1, variables)]
                     ELSE templates[id]]

\* A new name is not compared with the names in use.
UpdateTemplate(id, name, active) ==
  /\ name # None => ~ Blank(name)
  /\ templates' = [templates EXCEPT
                    ![id].name = IF name = None THEN @ ELSE name,
                    ![id].active = IF active = None THEN @ ELSE active]
  /\ UNCHANGED <<drafted, written>>

DeleteTemplate(id) ==
  /\ templates' = [i \in DOMAIN templates \ {id} |-> templates[i]]
  /\ UNCHANGED <<drafted, written>>

\* The number of a version is how many there are, itself included: after a deletion it
\* may be a number in use.
CreateVersion(id, variables) ==
  LET t == templates[id]
      n == Cardinality(DOMAIN t.versions) + 1
  IN  /\ written < ContentLimit
      /\ n <= MaxVersions
      /\ written' = written + 1
      /\ templates' = [templates EXCEPT
                        ![id].versions = WithVersion(@, n, variables),
                        ![id].current = n]
      /\ UNCHANGED drafted

RollbackVersion(id, n) ==
  /\ n \in Numbers(templates[id])
  /\ templates' = [templates EXCEPT ![id].current = n]
  /\ UNCHANGED <<drafted, written>>

\* Every version of the number goes.  When none is left the search for the latest raises,
\* and the template keeps the number it had.
DeleteVersion(id, n) ==
  LET t == templates[id]
      kept == DOMAIN t.versions \ Numbered(t, n)
  IN  /\ Cardinality(DOMAIN t.versions) > 1
      /\ templates' = [templates EXCEPT
                        ![id].versions = [content \in kept |-> @[content]],
                        ![id].current = IF @ = n /\ kept # {} THEN Max(Numbers(t) \ {n}) ELSE @]
      /\ UNCHANGED <<drafted, written>>

\* A version that is not named is the current one.  A required variable that is not
\* given takes a default, and is missing when it has none.
Rendered(t, n) == Resolve(t, IF n = None THEN t.current ELSE n)

Renders(t, n, given) ==
  /\ t.active
  /\ (IF n = None THEN t.current ELSE n) \in Numbers(t)
  /\ \A v \in Rendered(t, n).variables : v.required => v.name \in given \/ v.default

PromptNext ==
  \/ \E tenant \in Tenants, name \in PromptNames, variables \in VariableLists :
       CreateTemplate(tenant, name, variables)
  \/ \E id \in DOMAIN templates :
       \/ \E name \in PromptNames \cup {None}, active \in BOOLEAN \cup {None} :
            UpdateTemplate(id, name, active)
       \/ DeleteTemplate(id)
       \/ \E variables \in VariableLists : CreateVersion(id, variables)
       \/ \E n \in 1..MaxVersions : RollbackVersion(id, n) \/ DeleteVersion(id, n)

PromptSpec == PromptInit /\ [][PromptNext]_promptVars

-----------------------------------------------------------------------------
\* Properties.

\* However versions are added, deleted and rolled back, a client who leaves the version
\* out and gives every variable has an active template rendered as long as it has a
\* version at all; and the numbers stay within the limit although they are reused.
CurrentRenders ==
  \A id \in DOMAIN templates :
    LET t == templates[id]
    IN  /\ t.active /\ DOMAIN t.versions # {} =>
             Renders(t, None, UNION {{v.name : v \in vs} : vs \in VariableLists})
        /\ Numbers(t) \subseteq 1..MaxVersions
        /\ Cardinality(DOMAIN t.versions) <= MaxVersions

\* A client who pins a version number has the same content rendered, with the same
\* variables, as long as the number exists, also when a later version is given it again.
PinnedSame ==
  \A id \in DOMAIN templates \cap DOMAIN templates' :
    \A n \in Numbers(templates[id]) \cap Numbers(templates'[id]) :
      Rendered(templates'[id], n) = Rendered(templates[id], n)

PinnedStays == [][PinnedSame]_promptVars

\* Whatever the editors of a template do, those who render it, by a number or without one,
\* notice nothing but a new current version.
PromptsHold == []CurrentRenders /\ PinnedStays
=============================================================================
