------------------------------ MODULE RedBlueDual ------------------------------
(***************************************************************************)
(* RedBlue2: one pass of the 2-approximation for an ordered pair of trees. *)
(* It takes an incompatible set of leaves, red below one child of a node   *)
(* of t1 and blue below the other, resolves the red leaves pair by pair,   *)
(* and where that fails the blue ones too, until a triplet is left.        *)
(*                                                                         *)
(* Everything is cut in t1 and t2 as they are; closeness of leaves (uv|w)  *)
(* and compatibility are read from the trees before any cut.               *)
(***************************************************************************)
EXTENDS ThreeApproxDual

VARIABLES
    red,        \* R and B of the set under work
    blue,
    sawStar,    \* a FinalCut or a Merge-After-Cut since R was chosen
    todo        \* leaves about to be finalized, in this order

passVars == <<cuts1, cuts2, active, dualSum, red, blue, sawStar, todo>>

InOrder(S) ==
    [k \in 1..Cardinality(S) |->
        CHOOSE l \in S : Cardinality({j \in S : Before(T1, l, j)}) = k - 1]

-----------------------------------------------------------------------------
(* Leaving.                                                                *)

\* cutOffLeaf in both, and y_x <- 1.
Finalize(x) ==
    /\ cuts1' = CutOffLeaf(T1, cuts1, active, x)
    /\ cuts2' = CutOffLeaf(T2, cuts2, active, x)
    /\ active' = active \ {x}
    /\ dualSum' = dualSum + 1

FinalizeNext ==
    /\ pc = "finalize"
    /\ Finalize(Head(todo))
    /\ todo' = Tail(todo)
    /\ pc' = IF Len(todo) = 1 THEN "preprocess" ELSE pc
    /\ UNCHANGED <<red, blue, sawStar>>

-----------------------------------------------------------------------------
(* resolvePair.  U is the colour of the pair.                              *)

\* The leaf whose tree does not hold the node where u and v met.
AwayFromLca(u, v) ==
    IF RootOf(T2, cuts2, Lca(T2, {u, v})) = RootOf(T2, cuts2, {u}) THEN v ELSE u

OutsideOf(x, U) == (Component(T2, cuts2, x) \cap active) \ (U \cup {x})

ResolveDifferentTrees(u, v, U) ==
    /\ ~ SameTree(T2, cuts2, {u, v})
    /\ \E x \in {AwayFromLca(u, v)} :
          /\ cuts1' = CutOffLeaf(T1, cuts1, active, x)
          /\ cuts2' = IF OutsideOf(x, U) = {} THEN cuts2
                      ELSE CutOffLeaf(T2, cuts2, active, x)
          /\ active' = active \ {x}
          /\ dualSum' = dualSum + 1
          /\ sawStar' = (sawStar \/ OutsideOf(x, U) # {})

ResolveSiblings(u, v) ==
    /\ ActiveSiblings(T2, cuts2, active, {u, v})
    /\ active' = active \ {u}
    /\ UNCHANGED <<cuts1, cuts2, dualSum, sawStar>>

\* A leaf with an active pendant between it and the lowest common ancestor.
BlockedSide(u, v) ==
    IF PendantBelowLca(T2, cuts2, active, u, v) THEN u ELSE v

\* The pendant is cut; either that makes u and v siblings or one is finalized.
ResolveBlocked(u, v) ==
    /\ SameTree(T2, cuts2, {u, v})
    /\ ~ ActiveSiblings(T2, cuts2, active, {u, v})
    /\ \E x \in {BlockedSide(u, v)} :
       \E C \in {CutPendant(T2, cuts2, active, x)} :
       \E siblings \in {ActiveSiblings(T2, C, active, {u, v})} :
          /\ cuts1' = IF siblings THEN cuts1 ELSE CutOffLeaf(T1, cuts1, active, x)
          /\ cuts2' = IF siblings THEN C ELSE CutOffLeaf(T2, C, active, x)
          /\ active' = active \ {x}
          /\ sawStar' = (sawStar \/ siblings)
          /\ UNCHANGED dualSum

ResolvePair(u, v, U) ==
    \/ ResolveDifferentTrees(u, v, U)
    \/ ResolveSiblings(u, v)
    \/ ResolveBlocked(u, v)

\* resolvePair of two leaves of one tree that are not siblings there; the
\* leaf it leaves is finalized.
ResolveLastPair(u, v) ==
    /\ ResolveBlocked(u, v)
    /\ \E x \in {u, v} \cap active' : todo' = <<x>>
    /\ pc' = "finalize"
    /\ UNCHANGED <<red, blue>>

-----------------------------------------------------------------------------
(* preprocess.                                                             *)

SharedCherries ==
    {p \in Cherries(T1, cuts1, active) : ActiveSiblings(T2, cuts2, active, p)}

\* Mutant: leaves alone in their tree are left to the main loop.
NoAloneLeaves == {}

AloneLeaves ==
    IF Cardinality(active) <= 1 THEN {}
    ELSE {l \in active : AloneInTree(T2, cuts2, active, l)}

\* The one whose root comes first.
FirstAlone ==
    CHOOSE l \in AloneLeaves : \A k \in AloneLeaves \ {l} :
        LET r == RootOf(T2, cuts2, {l})
            s == RootOf(T2, cuts2, {k})
        IN  s \subseteq r \/ (~ r \subseteq s /\ \A i \in r, j \in s : Before(T2, j, i))

MergeShared ==
    /\ pc = "preprocess"
    /\ SharedCherries # {}
    /\ active' = active \ {FirstLeaf(T1, FirstOf(T1, SharedCherries))}
    /\ UNCHANGED <<cuts1, cuts2, dualSum, red, blue, sawStar, todo, pc>>

FinalizeAlone ==
    /\ pc = "preprocess"
    /\ SharedCherries = {}
    /\ AloneLeaves # {}
    /\ cuts1' = CutOffLeaf(T1, cuts1, active, FirstAlone)
    /\ active' = active \ {FirstAlone}
    /\ dualSum' = dualSum + 1
    /\ UNCHANGED <<cuts2, red, blue, sawStar, todo, pc>>

Preprocessed ==
    /\ pc = "preprocess"
    /\ SharedCherries = {}
    /\ AloneLeaves = {}
    /\ pc' = "main"
    /\ UNCHANGED passVars

-----------------------------------------------------------------------------
(* findMinIncompat and orient.                                             *)

Compatible(S) == Induced(T1, S) = Induced(T2, S)

\* The descent from the root goes to the left child unless only the right
\* one is incompatible; it ends where both children are compatible.
MinIncompat ==
    LET lowest == {S \in Induced(T1, active) :
                      /\ ~ Compatible(S)
                      /\ \A A \in Induced(T1, S) \ {S} : Compatible(A)}
    IN  IF lowest = {} THEN active
        ELSE CHOOSE S \in lowest :
                \A A \in lowest \ {S} : \A l \in S, k \in A : Before(T1, l, k)

\* Its leaves below the two children.
Sides(S) == {A \in Induced(T1, S) \ {S} : S \ A \in Induced(T1, S)}

\* The side that spans all of S in t2, the left one first; otherwise the
\* left one unless it is a single leaf.
Orient(S) ==
    LET big == {A \in Sides(S) : Cardinality(A) >= 2}
        spanning == {A \in big : SameTree(T2, cuts2, S) /\ Lca(T2, A) = Lca(T2, S)}
        leftOf(As) == CHOOSE A \in As :
            \A C \in As \ {A} : \A l \in A, k \in C : Before(T1, l, k)
    IN  IF spanning # {} THEN leftOf(spanning)
        ELSE IF big # {} THEN leftOf(big) ELSE leftOf(Sides(S))

ChooseSet ==
    /\ pc = "main"
    /\ Cardinality(active) >= 2
    /\ \E S \in {MinIncompat} :
          /\ red' = Orient(S)
          /\ blue' = S \ Orient(S)
    /\ sawStar' = FALSE
    /\ dualSum' = dualSum - 1
    /\ pc' = "resolveSet"
    /\ UNCHANGED <<cuts1, cuts2, active, todo>>

-----------------------------------------------------------------------------
(* resolveSet.                                                             *)

CherriesIn(S) == {p \in Cherries(T1, cuts1, active) : p \subseteq S}

ResolveCherryIn(S) ==
    /\ \E p \in {FirstOf(T1, CherriesIn(S))} :
          ResolvePair(FirstLeaf(T1, p), SecondLeaf(T1, p), S)
    /\ UNCHANGED <<red, blue, todo, pc>>

\* Each pair resolved leaves one of its leaves: two red ones are left (what
\* the code does with fewer is in FallbacksUnreached).
MoreThanPairIsRed == Cardinality(red \cap active) >= 3 /\ CherriesIn(red) # {}

ResolveRedPair ==
    /\ pc = "resolveSet"
    /\ MoreThanPairIsRed
    /\ ResolveCherryIn(red)

\* uv|w for an active leaf w of their tree.
HasOuterLeaf(u, v) ==
    ~ Component(T2, cuts2, u) \cap active \subseteq Lca(T2, {u, v})

\* Whether the two red leaves are separated.
Separable(u, v) == ~ SameTree(T2, cuts2, {u, v}) \/ ~ HasOuterLeaf(u, v)

LastRedPair ==
    /\ pc = "resolveSet"
    /\ ~ MoreThanPairIsRed
    /\ Cardinality(red \cap active) >= 2
    /\ \E u \in {InOrder(red \cap active)[1]}, v \in {InOrder(red \cap active)[2]} :
          \/ /\ ActiveSiblings(T2, cuts2, active, {u, v})
             /\ active' = active \ {u}
             /\ dualSum' = dualSum + 1
             /\ pc' = "preprocess"
             /\ UNCHANGED <<cuts1, cuts2, red, blue, sawStar, todo>>
          \/ /\ ~ ActiveSiblings(T2, cuts2, active, {u, v})
             /\ Separable(u, v)
             /\ todo' = <<u, v>>
             /\ pc' = "finalize"
             /\ UNCHANGED <<cuts1, cuts2, active, dualSum, red, blue, sawStar>>
          \/ /\ ~ ActiveSiblings(T2, cuts2, active, {u, v})
             /\ ~ Separable(u, v)
             /\ sawStar
             /\ ResolveLastPair(u, v)
          \/ /\ ~ ActiveSiblings(T2, cuts2, active, {u, v})
             /\ ~ Separable(u, v)
             /\ ~ sawStar
             /\ pc' = "resolveBlue"
             /\ UNCHANGED passVars

-----------------------------------------------------------------------------
(* After a failure: the blue leaves, then the triplet left (proc4a, b, c). *)

MoreThanOneIsBlue == Cardinality(blue \cap active) >= 2 /\ CherriesIn(blue) # {}

ResolveBluePair ==
    /\ pc = "resolveBlue"
    /\ MoreThanOneIsBlue
    /\ ResolveCherryIn(blue)

Remainder == (red \cup blue) \cap active

IsTriplet ==
    Cardinality(red \cap active) = 2 /\ Cardinality(blue \cap active) = 1

\* Red leaves first.
InTripletOrder == InOrder(red \cap active) \o InOrder(blue \cap active)

Trees == {RootOf(T2, cuts2, {l}) : l \in Remainder}

\* proc4a: the edge above b and the red leaf closer to it, then the other one.
TripletInOneTree ==
    /\ pc = "resolveBlue"
    /\ ~ MoreThanOneIsBlue
    /\ IsTriplet
    /\ Cardinality(Trees) = 1
    /\ \E b \in blue \cap active, reds \in {InOrder(red \cap active)} :
       \E far \in {IF reds[2] \in Lca(T2, {b, reds[1]}) THEN reds[1] ELSE reds[2]} :
       \E near \in (red \cap active) \ {far} :
       \E C \in {CutOffLeaf(T2, Cut(T2, cuts2, Lca(T2, {near, b})), active, far)} :
       \E siblings \in {ActiveSiblings(T2, C, active \ {far}, {near, b})} :
          /\ cuts1' = CutOffLeaf(T1, cuts1, active, far)
          /\ cuts2' = C
          /\ active' = IF siblings THEN active \ {far, b} ELSE active \ {far}
          /\ dualSum' = IF siblings THEN dualSum + 1 ELSE dualSum
          /\ todo' = IF siblings THEN <<>> ELSE <<near, b>>
          /\ pc' = IF siblings THEN "preprocess" ELSE "finalize"
    /\ UNCHANGED <<red, blue, sawStar>>

\* proc4b, and what the main loop does with anything but a triplet.
FinalizeRemainder ==
    /\ pc = "resolveBlue"
    /\ ~ MoreThanOneIsBlue
    /\ IsTriplet => Cardinality(Trees) = 3
    /\ todo' = IF IsTriplet
               THEN InOrder(blue \cap active) \o InOrder(red \cap active)
               ELSE InTripletOrder
    /\ pc' = IF Remainder = {} THEN "preprocess" ELSE "finalize"
    /\ UNCHANGED <<cuts1, cuts2, active, dualSum, red, blue, sawStar>>

\* proc4c: first the leaf that is apart from the other two.
TripletInTwoTrees ==
    /\ pc = "resolveBlue"
    /\ ~ MoreThanOneIsBlue
    /\ IsTriplet
    /\ Cardinality(Trees) = 2
    /\ \E apart \in Remainder :
          /\ \A l \in Remainder \ {apart} : ~ SameTree(T2, cuts2, {apart, l})
          /\ Finalize(apart)
    /\ pc' = "lastPair"
    /\ UNCHANGED <<red, blue, sawStar, todo>>

LastPair ==
    /\ pc = "lastPair"
    /\ \E u \in {InTripletOrder[1]}, v \in {InTripletOrder[2]} :
          \/ /\ ActiveSiblings(T2, cuts2, active, {u, v})
             /\ active' = active \ {IF v \in blue THEN v ELSE u}
             /\ dualSum' = dualSum + 1
             /\ pc' = "preprocess"
             /\ UNCHANGED <<cuts1, cuts2, red, blue, sawStar, todo>>
          \/ /\ ~ ActiveSiblings(T2, cuts2, active, {u, v})
             /\ ResolveLastPair(u, v)

-----------------------------------------------------------------------------
RedBlueStep ==
    \/ FinalizeNext
    \/ MergeShared
    \/ FinalizeAlone
    \/ Preprocessed
    \/ ChooseSet
    \/ ResolveRedPair
    \/ LastRedPair
    \/ ResolveBluePair
    \/ TripletInOneTree
    \/ FinalizeRemainder
    \/ TripletInTwoTrees
    \/ LastPair

RedBlueDone == pc = "main" /\ Cardinality(active) <= 1

\* Mutant: the last component is given a dual variable too.
RedBlueBoundWithLast == BoundOf(dualSum + Cardinality(active))

\* What run returns: the last component is not credited.
RedBlueBound == BoundOf(dualSum)

\* timedOut is asked at the heads of the two loops.
CanAbort == pc = "preprocess" \/ (pc = "main" /\ active # {})
=============================================================================
