----------------------------- MODULE MCLruTable -----------------------------
(***************************************************************************)
(* An instance of LruTable in which three of four keys share a bucket.     *)
(***************************************************************************)
EXTENDS LruTable, TLC

CONSTANTS k1, k2, k3, k4

MCKey == {k1, k2, k3, k4}

MCHashCode == (k1 :> 0) @@ (k2 :> 0) @@ (k3 :> 0) @@ (k4 :> 1)

Interchangeable == Permutations(Node)
=============================================================================
