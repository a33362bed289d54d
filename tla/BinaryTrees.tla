------------------------------ MODULE BinaryTrees ------------------------------
(***************************************************************************)
(* Every rooted binary tree over a set of labels, for the configurations   *)
(* to choose their instances from.                                         *)
(***************************************************************************)
EXTENDS LaminarForest

Four == 1..4
Five == 1..5
Six == 1..6

\* Every rooted binary tree over a nonempty set of labels.
TreesOver(S) ==
    LET over[A \in SUBSET S] ==
            IF Cardinality(A) <= 1 THEN {{A}}
            ELSE LET least == CHOOSE l \in A : \A k \in A : l <= k
                     splits == {B \in SUBSET A : least \in B /\ B # A}
                 IN  UNION {{left \cup right \cup {A} :
                                left \in over[B], right \in over[A \ B]} :
                            B \in splits}
    IN  over[S]
=============================================================================
