---------------------------- MODULE MCSatellite ----------------------------
(* Small instances of Satellite for TLC. *)
EXTENDS Satellite, TLC

TVSymmetry == Permutations(TVs)
=============================================================================
