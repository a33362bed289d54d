----------------------------- MODULE ActiveForest -----------------------------
(***************************************************************************)
(* solver::approx::MutableForestView: a tree that is cut without being     *)
(* spliced, and the active leaves in its pieces.                           *)
(*                                                                         *)
(* A view is the tree T as it was cloned and the set C of its nodes whose  *)
(* upper edge was cut; act is the set of active labels.                    *)
(***************************************************************************)
EXTENDS AgreementForest

\* cut: nothing happens at a root.
Cut(T, C, n) == C \cup ({n} \ Roots(T))

\* The labels still connected to n below it.
Under(C, n) == n \ UNION {m \in C : m \subseteq n /\ m # n}

\* rootOf, as the node it was in T.
RootOf(T, C, n) == {l \in UNION T : \A m \in C : n \subseteq m => l \in m}

Component(T, C, l) == Under(C, RootOf(T, C, {l}))

SameTree(T, C, p) == \A l \in p : p \subseteq Component(T, C, l)

\* lca on the tree as it was cloned.
Lca(T, S) == {l \in UNION T : \A n \in T : S \subseteq n => l \in n}

ActiveSiblings(T, C, act, p) ==
    /\ SameTree(T, C, p)
    /\ Under(C, Lca(T, p)) \cap act = p

AloneInTree(T, C, act, u) == Component(T, C, u) \cap act = {u}

\* The highest node below which u is the only active leaf: the climb from u
\* ends here, either at the root or where a sibling holds an active leaf.
TopOf(T, C, act, u) ==
    UNION {n \in T : u \in Under(C, n) /\ Under(C, n) \cap act \subseteq {u}}

\* That sibling, the active pendant of u; only where the top is not a root.
PendantOf(T, C, act, u) == Sibling(T, TopOf(T, C, act, u))

CutOffLeaf(T, C, act, u) ==
    LET top == TopOf(T, C, act, u)
    IN  IF top = RootOf(T, C, {u}) THEN C ELSE C \cup {top}

CutPendant(T, C, act, u) ==
    IF TopOf(T, C, act, u) = RootOf(T, C, {u}) THEN C
    ELSE C \cup {PendantOf(T, C, act, u)}

\* An active pendant between u and its lowest common ancestor with v, both
\* in one piece.
PendantBelowLca(T, C, act, u, v) ==
    Parent(T, TopOf(T, C, act, u)) # Lca(T, {u, v})

-----------------------------------------------------------------------------
(* The order of nodes: a preorder that takes the right child first.        *)

FirstLeaf(T, S) == CHOOSE l \in S : \A k \in S \ {l} : Before(T, k, l)

SecondLeaf(T, p) == CHOOSE l \in p : l # FirstLeaf(T, p)

\* The first active cherry with this property: the lowest nodes with two
\* active leaves are disjoint, so their leaves tell which one comes first.
Cherries(T, C, act) ==
    {p \in {{l, k} : l, k \in act} :
        Cardinality(p) = 2 /\ ActiveSiblings(T, C, act, p)}

FirstOf(T, pairs) ==
    CHOOSE p \in pairs : FirstLeaf(T, UNION pairs) \in p
=============================================================================
