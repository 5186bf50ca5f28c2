----------------------------- MODULE MCNodeTest -----------------------------
(***************************************************************************)
(* Two workers with nodes of one cache key, and a cache that may expire.   *)
(***************************************************************************)
EXTENDS NodeTest, TLC

CONSTANTS w1, w2, node

MCKeyOf == w1 :> node @@ w2 :> node
MCValue == [by : {w1, w2}, alive : BOOLEAN]

Symmetry == Permutations({w1, w2})
=============================================================================
