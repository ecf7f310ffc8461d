------------------------------ MODULE MCUplink -----------------------------
(* Small instances of Uplink for TLC. *)
EXTENDS Uplink, TLC

SatelliteSymmetry == Permutations(Satellites)
=============================================================================
