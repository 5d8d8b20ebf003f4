------------------------------ MODULE MCMcpPool ------------------------------
(***************************************************************************)
(* Two requests, two configurations and a pool that is cut down to one     *)
(* entry, so that a sweep has to choose; the third entry is the one that   *)
(* replaces a failed or an evicted one.  Nothing distinguishes the         *)
(* requests or the configurations.                                         *)
(***************************************************************************)
EXTENDS McpPool, TLC

Same == Permutations(Callers) \cup Permutations(Configs)
=============================================================================
