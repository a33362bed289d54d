---------------------------- MODULE MCPointerForest ----------------------------
(***************************************************************************)
(* Pointer forests read from every tree over the labels.                   *)
(***************************************************************************)
EXTENDS PointerForest, SmallTrees
=============================================================================
