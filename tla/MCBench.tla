------------------------------ MODULE MCBench ------------------------------
(* A small instance of Bench for TLC. *)
EXTENDS Bench

\* Nothing, less than a block, a block, a rest, and all that fits.
MCImages == {[k \in 1..n |-> k] : n \in {0, 1, 2, 3, 6}}
=============================================================================
