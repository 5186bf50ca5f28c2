--------------------------- MODULE MCSourceLoader ---------------------------
(***************************************************************************)
(* Three sources - one of two batches, one of one, one empty - and two     *)
(* workers.                                                                *)
(***************************************************************************)
EXTENDS SourceLoader, TLC

CONSTANTS s1, s2, s3, b1, b2, b3

MCBatchesOf == s1 :> <<b1, b2>> @@ s2 :> <<b3>> @@ s3 :> <<>>
=============================================================================
