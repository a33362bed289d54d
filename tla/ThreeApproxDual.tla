---------------------------- MODULE ThreeApproxDual ----------------------------
(***************************************************************************)
(* computeDual3ApproxLowerBound: the sum of the dual variables that the    *)
(* 3-approximation assigns while it takes two trees apart.                 *)
(***************************************************************************)
EXTENDS ActiveForest

CONSTANT DualInstances      \* the instances, two trees or more each

\* What the Newick reader builds: binary trees with a leaf for every label.
ASSUME DualInstancesAreTrees ==
    \A ts \in DualInstances :
        /\ DOMAIN ts = 1..Len(ts) /\ Len(ts) \in Nat /\ Len(ts) >= 2
        /\ \A i \in DOMAIN ts :
              /\ ts[i] \in Forest /\ NullNode \notin ts[i]
              /\ Laminar(ts[i])
              /\ Roots(ts[i]) = {UNION ts[1]}
              /\ \A l \in UNION ts[1] : {l} \in ts[i]
              /\ \A n \in ts[i] \ Roots(ts[i]) : Sibling(ts[i], n) \in ts[i]

VARIABLES
    trees,      \* the instance
    order,      \* which of its trees is t1, which t2
    cuts1,      \* the cuts in t1 and in t2
    cuts2,
    active,     \* the active leaves
    dualSum,
    pc

T1 == trees[order[1]]
T2 == trees[order[2]]

InitPass(ts) ==
    /\ cuts1 = {}
    /\ cuts2 = {}
    /\ active = UNION ts[1]
    /\ dualSum = 0

\* A new pass on clones of the same trees.
NewPass ==
    /\ cuts1' = {}
    /\ cuts2' = {}
    /\ active' = UNION trees[1]
    /\ dualSum' = 0

BoundOf(sum) == IF sum > 1 THEN sum ELSE 1

-----------------------------------------------------------------------------
(* One iteration of its loop; u, v is the first active cherry of t1.       *)

NextCherry == FirstOf(T1, Cherries(T1, cuts1, active))

\* u or v is alone in its piece of t2.
FinalizeSingleton(u, v) ==
    \E w \in {u, v} :
        /\ AloneInTree(T2, cuts2, active, w)
        /\ w = v => ~ AloneInTree(T2, cuts2, active, u)
        /\ cuts1' = Cut(T1, cuts1, {w})
        /\ cuts2' = Cut(T2, cuts2, {w})
        /\ active' = active \ {w}
        /\ dualSum' = dualSum + 1

MergeCommonCherry(u, v) ==
    /\ ActiveSiblings(T2, cuts2, active, {u, v})
    /\ active' = active \ {u}
    /\ UNCHANGED <<cuts1, cuts2, dualSum>>

\* findBlockingW
BlockingW(u, v) ==
    LET blocked == {w \in {u, v} : PendantBelowLca(T2, cuts2, active, w,
                                                   IF w = u THEN v ELSE u)}
    IN  IF blocked = {} \/ ~ SameTree(T2, cuts2, {u, v}) THEN {}
        ELSE {PendantOf(T2, cuts2, active, IF u \in blocked THEN u ELSE v)}

\* Anything else: an active pendant on the way from u to v is cut, then both.
CutConflict(u, v) ==
    /\ \A w \in {u, v} : ~ AloneInTree(T2, cuts2, active, w)
    /\ ~ ActiveSiblings(T2, cuts2, active, {u, v})
    /\ cuts1' = cuts1 \cup {{u}, {v}}
    /\ cuts2' = cuts2 \cup {{u}, {v}} \cup BlockingW(u, v)
    /\ active' = active \ {u, v}
    /\ dualSum' = dualSum + 1 - Cardinality(BlockingW(u, v))

ThreeApproxStep ==
    /\ pc = "three"
    /\ Cardinality(active) >= 2
    /\ \E u \in {FirstLeaf(T1, NextCherry)}, v \in {SecondLeaf(T1, NextCherry)} :
          \/ FinalizeSingleton(u, v)
          \/ MergeCommonCherry(u, v)
          \/ CutConflict(u, v)
    /\ UNCHANGED pc

\* What it returns.
ThreeApproxBound == BoundOf(dualSum + Cardinality(active))

ThreeApproxDone == pc = "three" /\ Cardinality(active) < 2
=============================================================================
