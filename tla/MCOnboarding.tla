---------------------------- MODULE MCOnboarding ----------------------------
(***************************************************************************)
(* Three sessions for one agent, under different faults.                   *)
(***************************************************************************)
EXTENDS Onboarding, TLC

CONSTANTS s1, s2, s3

Symmetry == Permutations(Sessions)
=============================================================================
