----------------------------- MODULE MCAgentKey -----------------------------
(***************************************************************************)
(* Two sessions for one agent under every combination of faults, and the   *)
(* daemon that uses what they leave, with two overlapping checks.          *)
(***************************************************************************)
EXTENDS AgentKey, TLC

CONSTANTS s1, s2, c1, c2

Symmetry == Permutations(Sessions) \cup Permutations(Checks)
=============================================================================
