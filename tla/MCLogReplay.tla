---------------------------- MODULE MCLogReplay -----------------------------
(***************************************************************************)
(* Small log regions for TLC to check LogReplay on.                        *)
(***************************************************************************)
EXTENDS LogReplay, TLC

(* The target sectors are interchangeable. *)
TargetSymmetry == Permutations(Targets)
=============================================================================
