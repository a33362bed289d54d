---------------------------- MODULE DualLowerBound ----------------------------
(***************************************************************************)
(* computeCertifiedLowerBound: the bound of the 3-approximation, then the  *)
(* best of the Red-Blue passes over both orderings of every two trees, as  *)
(* many as the deadline leaves time for.                                   *)
(***************************************************************************)
EXTENDS RedBlueDual

VARIABLES
    l3,     \* what computeDual3ApproxLowerBound returned, 0 before
    l2      \* the best of the finished passes, 0 if none

vars == <<trees, order, cuts1, cuts2, active, dualSum, red, blue, sawStar,
          todo, l3, l2, pc>>

Greater(i, j) == IF i > j THEN i ELSE j

\* With two trees the 3-approximation runs; otherwise its bound is 1.
Init ==
    /\ trees \in DualInstances
    /\ order = <<1, 2>>
    /\ InitPass(trees)
    /\ red = {}
    /\ blue = {}
    /\ sawStar = FALSE
    /\ todo = <<>>
    /\ l2 = 0
    /\ IF Len(trees) = 2 THEN l3 = 0 /\ pc = "three"
       ELSE l3 = 1 /\ pc = "preprocess"

IsLastOrder == order = <<Len(trees), Len(trees) - 1>>

\* Mutant: the two orderings follow each other.
NextOrderOfSameTrees == <<order[2], order[1]>>

\* i < j, then j and i, then the next two.
NextOrder ==
    IF order[1] < order[2] THEN <<order[2], order[1]>>
    ELSE IF order[1] < Len(trees) THEN <<order[2], order[1] + 1>>
    ELSE <<order[2] + 1, order[2] + 2>>

ThreeApprox ==
    /\ ThreeApproxStep
    /\ UNCHANGED <<trees, order, red, blue, sawStar, todo, l3, l2>>

StartRedBlue ==
    /\ ThreeApproxDone
    /\ l3' = ThreeApproxBound
    /\ NewPass
    /\ pc' = "preprocess"
    /\ UNCHANGED <<trees, order, red, blue, sawStar, todo, l2>>

RedBlue ==
    /\ RedBlueStep
    /\ UNCHANGED <<trees, order, l3, l2>>

\* What a pass kept is gone with its clones.
EndPass ==
    /\ NewPass
    /\ red' = {}
    /\ blue' = {}
    /\ sawStar' = FALSE
    /\ todo' = <<>>
    /\ pc' = IF IsLastOrder THEN "done" ELSE "preprocess"
    /\ order' = IF IsLastOrder THEN order ELSE NextOrder

FinishPass ==
    /\ RedBlueDone
    /\ l2' = Greater(l2, RedBlueBound)
    /\ EndPass
    /\ UNCHANGED <<trees, l3>>

\* Past the deadline; the passes that are left abort at once.
Abort ==
    /\ CanAbort
    /\ pc' = "done"
    /\ NewPass
    /\ red' = {}
    /\ blue' = {}
    /\ sawStar' = FALSE
    /\ todo' = <<>>
    /\ UNCHANGED <<trees, order, l3, l2>>

Rest == pc = "done" /\ UNCHANGED vars

Next ==
    \/ ThreeApprox
    \/ StartRedBlue
    \/ RedBlue
    \/ FinishPass
    \/ Abort
    \/ Rest

\* One thread that runs on until it returns, with a deadline or without:
\* weak fairness on its steps, written out.  Some step is enabled until the
\* last pass is done, and none leaves everything as it was.
Fairness ==
    \/ []<>(pc = "done")
    \/ []<><<ThreeApprox \/ StartRedBlue \/ RedBlue \/ FinishPass>>_vars

Spec == Init /\ [][Next]_vars /\ Fairness

CertifiedLowerBound == Greater(l2, l3)

-----------------------------------------------------------------------------
(* Properties.                                                             *)

\* Partitions the bounds are compared with.
CONSTANT Comparators

\* The bound returned is at most the size of any agreement forest, whichever
\* passes the deadline cut off: no forest among the comparators is smaller.
BoundIsSound ==
    pc = "done" =>
        \A P \in Comparators :
            /\ Cardinality(P) < CertifiedLowerBound
            /\ UNION P = UNION trees[1]
            => ~ IsAgreementForest(P, trees)

\* The defensive branches of the Red-Blue pass are never needed: a set of
\* more than two leaves always holds a cherry of its colour to resolve, red is
\* never a single leaf, and when resolveSet fails the blue leaves shrink to
\* one of a triplet.
FallbacksUnreached ==
    /\ pc = "resolveSet" =>
          /\ Cardinality(red \cup blue) >= 3
          /\ Cardinality(red \cap active) >= 2
          /\ Cardinality(red \cap active) >= 3 => CherriesIn(red) # {}
    /\ pc = "resolveBlue" =>
          /\ Cardinality(blue \cap active) >= 2 => CherriesIn(blue) # {}
          /\ Cardinality(red \cap active) = 2 /\ blue \cap active # {}

\* The passes end: every iteration of their loops deactivates a leaf, so the
\* iteration guard of the main loop is never what ends it.
EventuallyDone == <>(pc = "done")
=============================================================================
