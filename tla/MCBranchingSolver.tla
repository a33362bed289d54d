-------------------------- MODULE MCBranchingSolver --------------------------
(***************************************************************************)
(* Small instances for the branching solver.                               *)
(***************************************************************************)
EXTENDS BranchingSolverCorrectness, SmallTrees

\* Three trees on six labels in which the cherry 1, 2 of the first one is
\* split by label 3 in the second and by label 4 in the third.
TwoSplittingLabels ==
    {<<Singletons \cup {{1, 2}, {3, 5}, {4, 6}, 3..6, 1..6},
       Singletons \cup {{1, 3}, 1..3, {1, 2, 3, 5}, {4, 6}, 1..6},
       Singletons \cup {{3, 5}, {1, 4}, {1, 2, 4}, {1, 2, 4, 6}, 1..6}>>}

NoThresholds == {}
SomeThresholds == {2, 3}
=============================================================================
