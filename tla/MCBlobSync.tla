----------------------------- MODULE MCBlobSync -----------------------------
(***************************************************************************)
(* Small values for the runs of BlobSync: a small blob "s", and a large one *)
(* "l" of three parts.                                                      *)
(***************************************************************************)
EXTENDS BlobSync

Sizes == [b \in Blobs |-> IF b = "l" THEN 3 ELSE 0]
=============================================================================
