------------------------------- MODULE Requests -------------------------------
(***************************************************************************)
(* What the modules of the platform's components have in common: the       *)
(* places for requests under way at one time, the tenants they come from,  *)
(* and the absent value.                                                   *)
(***************************************************************************)
CONSTANTS Calls, Tenants, None
===============================================================================
