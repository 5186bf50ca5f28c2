---------------------------- MODULE MCBandwidth ----------------------------
(***************************************************************************)
(* One node downloads with two goroutines, another with one.               *)
(***************************************************************************)
EXTENDS Bandwidth, TLC

CONSTANTS n1, n2, d1, d2, d3

MCTestOf == d1 :> n1 @@ d2 :> n1 @@ d3 :> n2

Symmetry == Permutations({d1, d2})
=============================================================================
