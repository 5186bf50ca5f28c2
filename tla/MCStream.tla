------------------------------ MODULE MCStream ------------------------------
(***************************************************************************)
(* Small Streams: one AddProxies call of two nodes and one AddProxy call;  *)
(* and, for liveness, one AddProxies call of two nodes.                    *)
(***************************************************************************)
EXTENDS Stream, TLC

CONSTANTS c1, c2, c3, batch, single

MCCallOf   == c1 :> batch @@ c2 :> batch @@ c3 :> single
MCOneBatch == c1 :> batch @@ c2 :> batch

(* Two of the three nodes of MCCallOf are in the same call.                *)
Symmetry == Permutations({c1, c2})
=============================================================================
