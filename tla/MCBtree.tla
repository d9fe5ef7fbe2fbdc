------------------------------ MODULE MCBtree -------------------------------
(***************************************************************************)
(* Btree for TLC.  All pairs but one take a third of a page, the most that *)
(* MAX_KEY_SIZE and MAX_VALUE_SIZE allow, and separators half a page, so   *)
(* that six keys are enough for a tree of three levels.                    *)
(***************************************************************************)
EXTENDS Btree

OneSmallPair == [k \in Key |-> IF k = 4 THEN 1 ELSE 2]
=============================================================================
