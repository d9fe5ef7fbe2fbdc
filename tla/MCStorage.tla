----------------------------- MODULE MCStorage ------------------------------
(***************************************************************************)
(* Storage for TLC.  The threads are interchangeable.                      *)
(***************************************************************************)
EXTENDS Storage, TLC

Interchangeable == Permutations(Thread)
=============================================================================
