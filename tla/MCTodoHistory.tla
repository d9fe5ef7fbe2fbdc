--------------------------- MODULE MCTodoHistory ----------------------------
(***************************************************************************)
(* TodoHistory on small instances.                                         *)
(***************************************************************************)
EXTENDS TodoHistory, TLC

Interchangeable == Permutations(Thread) \cup Permutations(User) \cup Permutations(Data)
=============================================================================
