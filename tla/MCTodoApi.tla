----------------------------- MODULE MCTodoApi ------------------------------
(***************************************************************************)
(* TodoApi on small instances.                                             *)
(***************************************************************************)
EXTENDS TodoApi, TLC

Interchangeable == Permutations(Thread) \cup Permutations(User) \cup Permutations(Data)
=============================================================================
