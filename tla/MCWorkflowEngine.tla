-------------------------- MODULE MCWorkflowEngine --------------------------
(* Small graphs on which TLC checks WorkflowEngine.                        *)
EXTENDS WorkflowEngine, TLC

CONSTANTS one, two, c, p, q, f, j, k, d

\* The condition c skips p or f; j joins p and q; k follows f.  The condition d skips k
\* or nothing.
AllNodes    == {c, p, q, f, j, k, d}
LongNodes   == AllNodes \ {d}
LongEdges   == {<<c, p>>, <<c, q>>, <<c, f>>, <<p, j>>, <<q, j>>, <<f, k>>}
AllRanks    == (c :> 0) @@ (p :> 1) @@ (q :> 2) @@ (f :> 3) @@ (j :> 4) @@ (d :> 5) @@ (k :> 6)
AllBranches == [n \in AllNodes |-> IF n = c THEN {p, f} ELSE IF n = d THEN {k, None} ELSE {}]
AllRetries  == [n \in AllNodes |-> IF n = j THEN 1 ELSE 0]

\* One strategy in the long version ("map" is the code of "all"), and a short version.
Long(s) == [nodes |-> LongNodes, edges |-> LongEdges, strategy |-> [n \in AllNodes |-> s]]
Short   == [nodes |-> {d, k}, edges |-> {<<d, k>>}, strategy |-> [n \in AllNodes |-> "all"]]

AllOnly     == one :> {Long("all")}
AllVersions == (one :> {Long(s) : s \in Strategies \ {"map"}}) @@ (two :> {Short})
=============================================================================
