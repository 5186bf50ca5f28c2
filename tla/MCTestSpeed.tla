---------------------------- MODULE MCTestSpeed ----------------------------
(***************************************************************************)
(* TestSpeed with two nodes, one in a source and one in options.Proxies.   *)
(***************************************************************************)
EXTENDS TestSpeed, TLC

CONSTANTS c1, c2, k1, k2, s1

TwoCalls  == c1 :> k1 @@ c2 :> k2
OneSource == s1 :> <<k1>>
=============================================================================
