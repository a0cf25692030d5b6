------------------------------- MODULE MCEconomy -------------------------------
(***************************************************************************)
(* Two tenants, one agent with two prices, one plugin, two waiting         *)
(* requests; every percentage of a price of 20 is a whole number.          *)
(***************************************************************************)
EXTENDS Economy, TLC

CONSTANTS t1, t2, a1, c1, c2

MCTenants == {t1, t2}
MCAgentIds == {a1}
MCCalls == {c1, c2}
Symmetry == Permutations(MCTenants) \cup Permutations(MCCalls)

MCCategories == {None, "tools"}
MCAgentShare == [creator |-> 70, platform |-> 15, affiliate |-> 15]
MCPluginShare == [developer |-> 75, platform |-> 25]
MCPricings == {[model |-> "flat", price |-> 20, perCall |-> 0],
               [model |-> "per_call", price |-> 20, perCall |-> 40]}
================================================================================
