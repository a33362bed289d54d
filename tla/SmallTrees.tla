------------------------------ MODULE SmallTrees ------------------------------
(***************************************************************************)
(* The trees over all of a few labels.                                     *)
(***************************************************************************)
EXTENDS BinaryTrees

AllTrees == TreesOver(Labels)

Singletons == {{l} : l \in Labels}

\* Three first trees that differ in shape and in the order of their leaves.
Caterpillar == Singletons \cup {1..k : k \in 2..Cardinality(Labels)}
ReversedCaterpillar ==
    Singletons \cup {k..Cardinality(Labels) : k \in 1..Cardinality(Labels)}
Balanced == Singletons \cup {{1, 3}, {2, 4}, 1..4, Labels}

\* Every second tree, and third tree, against some of these first trees.
PairsOfTrees == {Caterpillar, ReversedCaterpillar, Balanced} \X AllTrees

FewPairs == {Caterpillar, Balanced} \X AllTrees

TriplesOfTrees == {Caterpillar, Balanced} \X AllTrees \X AllTrees
=============================================================================
