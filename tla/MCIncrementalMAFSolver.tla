------------------------ MODULE MCIncrementalMAFSolver ------------------------
(***************************************************************************)
(* Pairs of trees for the MaxSAT loop.                                     *)
(***************************************************************************)
EXTENDS IncrementalMAFSolver, SmallTrees

\* Second trees whose two cherries cross those of the first trees.
CrossingTrees == {T \in AllTrees : {{1, 4}, {2, 5}} \subseteq T}

CrossingPairs == {Caterpillar, Balanced} \X CrossingTrees
=============================================================================
