---------------------------- MODULE MCThreadPool ----------------------------
(***************************************************************************)
(* ThreadPool on small instances.                                          *)
(***************************************************************************)
EXTENDS ThreadPool, TLC

Interchangeable == Permutations(Worker) \cup Permutations(Submitter) \cup Permutations(Task)
=============================================================================
