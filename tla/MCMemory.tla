------------------------------- MODULE MCMemory -------------------------------
(***************************************************************************)
(* One session, two suspended calls, a working memory of one turn, an      *)
(* episodic memory of two and a semantic memory of two.                    *)
(***************************************************************************)
EXTENDS Memory, TLC

CONSTANTS s1, c1, c2

MCSessionIds == {s1}
MCStatuses == {"active"}
MCCalls == {c1, c2}

CallSymmetry == Permutations(MCCalls)
===============================================================================
