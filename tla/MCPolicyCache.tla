---------------------------- MODULE MCPolicyCache ----------------------------
(***************************************************************************)
(* Small instances of the contract and the cache: one agent whose policy   *)
(* is controlled by "owner", or by "heir" after a transfer; "pay" is a     *)
(* financial policy, "garbled" one the contract stores and the daemon      *)
(* refuses.                                                                *)
(***************************************************************************)
EXTENDS PolicyCache, TLC

CONSTANTS c1, c2

Symmetry == Permutations(Calls)
=============================================================================
