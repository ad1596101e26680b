---------------------------- MODULE MCBatGeometry ----------------------------
(***************************************************************************)
(* Disks of up to three chunks for TLC to check BatGeometry on.            *)
(***************************************************************************)
EXTENDS BatGeometry

SmallBlockSizes == {1, 2, 4}
SmallRatios == {1, 2, 3}
SmallSizes == 0 .. 9
SmallRegions == 0 .. 24
=============================================================================
