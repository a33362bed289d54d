---------------------------- MODULE MaximumForests ----------------------------
(***************************************************************************)
(* All maximum agreement forests of a few trees, grown one label at a      *)
(* time: what an agreement forest leaves on fewer labels is an agreement   *)
(* forest, so no partial forest is worth keeping that is not one already.  *)
(***************************************************************************)
EXTENDS AgreementForest, SequencesExt

\* A block that grew keeps its place in the forest.
Fits(trees, P, block) ==
    \A i \in DOMAIN trees :
        /\ Induced(trees[i], block) = Induced(trees[1], block)
        /\ LET span == Span(trees[i], block)
           IN  \A c \in P : Span(trees[i], c) \cap span = {}

\* One more label joins a block or stands alone, in at most k blocks.
Extensions(trees, P, l, k) ==
    {(P \ {b}) \cup {b \cup {l}} : b \in {c \in P : Fits(trees, P \ {c}, c \cup {l})}}
    \cup {Q \in {P \cup {{l}}} : Cardinality(Q) <= k /\ Fits(trees, P, {l})}

AgreementForestsWithin(trees, k) ==
    LET labels == UNION trees[1]
        grown[S \in SUBSET labels] ==
            IF S = {} THEN {{}}
            ELSE LET l == CHOOSE m \in S : TRUE
                 IN  UNION {Extensions(trees, P, l, k) : P \in grown[S \ {l}]}
    IN  grown[labels]

MaximumAgreementForests(trees) ==
    LET from[k \in 1..Cardinality(UNION trees[1])] ==
            LET found == AgreementForestsWithin(trees, k)
            IN  IF found # {} THEN found ELSE from[k + 1]
    IN  from[1]
=============================================================================
