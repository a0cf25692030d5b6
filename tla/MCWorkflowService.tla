------------------------- MODULE MCWorkflowService -------------------------
(* Small workflows on which TLC checks WorkflowService.                    *)
EXTENDS WorkflowService, TLC

CONSTANTS plain, stream, third, a, b, c

\* Two parallel nodes joined by a third, which also compensates for the first.
JoinNodes == {a, b, c}
JoinDeps  == (a :> {}) @@ (b :> {}) @@ (c :> {a, b})
JoinComp  == (a :> c) @@ (b :> None) @@ (c :> None)

\* A chain: every level has one node; the second compensates for the first.
ChainNodes == {a, b}
ChainDeps  == (a :> {}) @@ (b :> {a})
ChainComp  == (a :> b) @@ (b :> None)

\* A single node without compensation.
OneDeps == a :> {}
OneComp == a :> None
=============================================================================
