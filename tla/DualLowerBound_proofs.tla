------------------------ MODULE DualLowerBound_proofs ------------------------
(***************************************************************************)
(* The defensive branches of the Red-Blue pass are never taken, whatever   *)
(* the trees, the ordering and the pass: while the main loop runs there is *)
(* an incompatible set to choose, it has three leaves or more, red has two *)
(* of them, and as long as a colour has leaves to spare it has a cherry.   *)
(***************************************************************************)
EXTENDS DualLowerBound, LaminarForest_proofs

-----------------------------------------------------------------------------
(* Trees, and the order of their leaves.                                   *)

\* A binary tree over the labels U.
IsTree(T, U) ==
    /\ T \in Forest /\ NullNode \notin T /\ Laminar(T)
    /\ U \in T /\ UNION T = U
    /\ \A l \in U : {l} \in T
    /\ \A n \in T \ {U} : Sibling(T, n) \in T

\* Two lists of labels of disjoint nodes are told apart by the same nodes.
LEMMA SameChildWith ==
    ASSUME NEW T, Laminar(T), NEW m \in T, NEW n \in T, m \cap n = {},
           NEW l \in m, NEW k \in n, NEW f \in m, NEW j \in n
    PROVE  ChildWith(T, l, k) \subseteq ChildWith(T, f, j)
<1>1. ASSUME NEW q \in T, l \in q, k \notin q
      PROVE  \E p \in T : f \in p /\ j \notin p /\ q \subseteq p
  <2>1. m \subseteq q \/ q \subseteq m
    BY <1>1 DEF Laminar
  <2>2. CASE q \subseteq m
    BY <2>2
  <2>3. CASE m \subseteq q
    <3>1. n \cap q = {} \/ n \subseteq q \/ q \subseteq n
      BY <1>1 DEF Laminar
    <3>2. j \notin q
      BY <1>1, <2>3, <3>1
    <3> QED
      BY <2>3, <3>2
  <2> QED
    BY <2>1, <2>2, <2>3
<1> QED
  BY <1>1 DEF ChildWith

\* Of two disjoint nodes all leaves of one come before all leaves of the other.
LEMMA NodesAreOrdered ==
    ASSUME NEW T \in Forest, Laminar(T), NEW m \in T, NEW n \in T,
           m \cap n = {}, m # {}, n # {}
    PROVE  \/ \A l \in m, k \in n : Before(T, l, k)
           \/ \A l \in m, k \in n : Before(T, k, l)
<1>1. PICK a \in m, c \in n : TRUE
  OBVIOUS
<1>2. PICK X : X = ChildWith(T, a, c)
  OBVIOUS
<1>3. PICK Y : Y = ChildWith(T, c, a)
  OBVIOUS
<1>4. ASSUME NEW l \in m, NEW k \in n
      PROVE  ChildWith(T, l, k) = X /\ ChildWith(T, k, l) = Y
  <2>1. ChildWith(T, l, k) \subseteq X /\ X \subseteq ChildWith(T, l, k)
    BY <1>1, <1>2, SameChildWith
  <2>2. n \cap m = {}
    OBVIOUS
  <2>3. ChildWith(T, k, l) \subseteq Y /\ Y \subseteq ChildWith(T, k, l)
    BY <1>1, <1>3, <2>2, SameChildWith
  <2> QED
    BY <2>1, <2>3
<1>5. \A l, k : Before(T, l, k) <=> \E i \in ChildWith(T, l, k) :
                                       \A j \in ChildWith(T, k, l) : i < j
  BY DEF Before, ChildWith
<1>6. X \in SUBSET Labels /\ Y \in SUBSET Labels /\ X # {} /\ Y # {}
  <2>1. \A q \in T : q \subseteq Labels
    BY DEF Forest, Node
  <2>2. a \in X /\ c \in Y
    BY <1>1, <1>2, <1>3 DEF ChildWith
  <2> QED
    BY <1>2, <1>3, <2>1, <2>2 DEF ChildWith
<1>7. X \cap Y = {}
  <2>1. ASSUME NEW p \in T, NEW q \in T, a \in p, c \notin p, c \in q, a \notin q
        PROVE  p \cap q = {}
    BY <2>1 DEF Laminar
  <2> QED
    BY <1>2, <1>3, <2>1 DEF ChildWith
<1>8. PICK x \in X : \A j \in X : x <= j
  BY <1>6, LabelOfExists
<1>9. PICK y \in Y : \A j \in Y : y <= j
  BY <1>6, LabelOfExists
<1>10. X \subseteq Nat /\ Y \subseteq Nat /\ x \in Nat /\ y \in Nat /\ x # y
  BY <1>6, <1>7, LabelsAreTaxa
<1>11. CASE x < y
  <2>1. \A j \in Y : x < j
    BY <1>9, <1>10, <1>11
  <2> QED
    BY <1>4, <1>5, <2>1
<1>12. CASE y < x
  <2>1. \A j \in X : y < j
    BY <1>8, <1>10, <1>12
  <2> QED
    BY <1>4, <1>5, <2>1
<1> QED
  BY <1>10, <1>11, <1>12

\* n is made of two nodes.
PartsInTwo(T, n) ==
    \E x \in T : x # {} /\ x \subseteq n /\ n \ x \in T /\ n \ x # {}

\* A node with more than one label is.
LEMMA TwoParts ==
    ASSUME NEW T, NEW U, IsTree(T, U), NEW n \in T, NEW l \in n, n # {l}
    PROVE  PartsInTwo(T, n)
<1> DEFINE M == {m \in T : Above(m, n)}
<1>1. T \in Forest /\ NullNode \notin T /\ {l} \in T
  BY DEF IsTree
<1>2. M \in SUBSET Node /\ M # {}
  <2>1. {l} \in M
    BY <1>1 DEF Above
  <2> QED
    BY <1>1, <2>1 DEF Forest
<1>3. PICK x \in M : \A y \in M : x \subseteq y => y = x
  BY <1>2, OutermostExists
<1>4. x \in T /\ Above(x, n) /\ x # NullNode
  BY <1>1, <1>3
<1>5. ASSUME NEW q \in T, Above(x, q)
      PROVE  n \subseteq q
  <2>1. q \cap n # {}
    BY <1>4, <1>5 DEF Above, NullNode
  <2>2. q \subseteq n \/ n \subseteq q
    BY <2>1 DEF IsTree, Laminar
  <2>3. ASSUME q \subseteq n, q # n
        PROVE  q = x
    <3>1. q \in M
      BY <2>3 DEF Above
    <3> QED
      BY <1>3, <1>5, <3>1 DEF Above
  <2> QED
    BY <1>5, <2>2, <2>3 DEF Above
<1>6. Parent(T, x) = n
  BY <1>1, <1>4, <1>5, ParentIsInnermost
<1>7. x # U
  BY <1>4 DEF Above, IsTree
<1>8. Sibling(T, x) \in T /\ Sibling(T, x) = n \ x
  BY <1>4, <1>6, <1>7 DEF IsTree, Sibling
<1> QED
  BY <1>1, <1>4, <1>8 DEF PartsInTwo, Above, NullNode

\* Before, and the other way round.
InTurn(T, up, l, k) == IF up THEN Before(T, l, k) ELSE Before(T, k, l)

\* Some label of a set of labels comes first, and some last.
LEMMA EndExists ==
    ASSUME NEW T, NEW U, IsTree(T, U), NEW S \in SUBSET U, S # {}, NEW up \in BOOLEAN
    PROVE  \E l \in S : \A k \in S \ {l} : InTurn(T, up, l, k)
<1> DEFINE Leads(n) == /\ n \cap S # {}
                       /\ \A l \in n \cap S : \A k \in S \ n : InTurn(T, up, l, k)
           M == {n \in T : Leads(n)}
<1>0. T \in Forest /\ Laminar(T) /\ U \in T
  BY DEF IsTree
<1>1. M \in SUBSET Node /\ M # {}
  <2>1. Leads(U)
    OBVIOUS
  <2> HIDE DEF Leads
  <2> QED
    BY <1>0, <2>1 DEF Forest
<1>2. PICK n \in M : \A y \in M : y \subseteq n => y = n
  BY <1>1, InnermostExists
<1>3. n \in T /\ n \cap S # {}
      /\ \A l \in n \cap S : \A k \in S \ n : InTurn(T, up, l, k)
  BY <1>2
<1>4. \A y \in T : Leads(y) /\ y \subseteq n => y = n
  BY <1>2
<1> HIDE DEF M
<1>5. PICK l \in n \cap S : TRUE
  BY <1>3
<1>6. CASE n = {l}
  BY <1>3, <1>5, <1>6
<1>7. CASE n # {l}
  <2>0. PartsInTwo(T, n)
    BY <1>3, <1>5, <1>7, TwoParts
  <2>1. PICK x \in T : x # {} /\ x \subseteq n /\ n \ x \in T /\ n \ x # {}
    BY <2>0 DEF PartsInTwo
  <2>2. \/ \A i \in x, k \in n \ x : Before(T, i, k)
        \/ \A i \in x, k \in n \ x : Before(T, k, i)
    <3>1. x \cap (n \ x) = {}
      OBVIOUS
    <3> QED
      BY <1>0, <2>1, <3>1, NodesAreOrdered
  <2>3. \E y, z \in T : /\ y # {} /\ z # {} /\ y \cap z = {} /\ y \cup z = n
                        /\ \A i \in y, k \in z : InTurn(T, up, i, k)
    <3>1. x \cup (n \ x) = n /\ (n \ x) \cup x = n /\ x \cap (n \ x) = {}
          /\ (n \ x) \cap x = {}
      BY <2>1
    <3>2. CASE \A i \in x, k \in n \ x : InTurn(T, up, i, k)
      BY <2>1, <3>1, <3>2
    <3>3. CASE \A i \in n \ x, k \in x : InTurn(T, up, i, k)
      BY <2>1, <3>1, <3>3
    <3> QED
      BY <2>2, <3>2, <3>3 DEF InTurn
  <2>4. PICK y \in T, z \in T : /\ y # {} /\ z # {} /\ y \cap z = {} /\ y \cup z = n
                                /\ \A i \in y, k \in z : InTurn(T, up, i, k)
    BY <2>3
  <2>5. CASE y \cap S # {}
    <3>1. ASSUME NEW i \in y \cap S, NEW k \in S \ y
          PROVE  InTurn(T, up, i, k)
      BY <1>3, <2>4
    <3>2. Leads(y)
      BY <2>5, <3>1
    <3>3. y \subseteq n /\ y # n
      BY <2>4
    <3> HIDE DEF Leads
    <3> QED
      BY <1>4, <3>2, <3>3
  <2>6. CASE y \cap S = {}
    <3>1. z \cap S # {} /\ S \ z = S \ n
      BY <1>3, <2>4, <2>6
    <3>2. Leads(z)
      BY <1>3, <2>4, <3>1
    <3>3. z \subseteq n /\ z # n
      BY <2>4
    <3> HIDE DEF Leads
    <3> QED
      BY <1>4, <3>2, <3>3
  <2> QED
    BY <2>5, <2>6
<1> QED
  BY <1>6, <1>7

-----------------------------------------------------------------------------
(* What the views of cut trees return.                                     *)

\* Nodes of T, or none.
NodesOrNone(T) == T \cup {{}}

\* The lowest common ancestor is a node.
LEMMA LcaIsNode ==
    ASSUME NEW T, NEW U, IsTree(T, U), NEW S, S # {}
    PROVE  /\ Lca(T, S) \in T
           /\ \A n \in T : S \subseteq n => Lca(T, S) \subseteq n
           /\ S \subseteq U => S \subseteq Lca(T, S)
<1>1. T \in Forest /\ Laminar(T) /\ U \in T /\ UNION T = U
  BY DEF IsTree
<1>2. \A l : l \in Lca(T, S) <=> l \in U /\ \A n \in T : S \subseteq n => l \in n
  BY <1>1 DEF Lca
<1>3. CASE S \subseteq U
  <2>1. PICK n \in T : IsTop(T, S, n)
    BY <1>1, <1>3, TopOfBlock
  <2>2. S \subseteq n /\ n \subseteq U /\ \A m \in T : S \subseteq m => n \subseteq m
    BY <1>1, <2>1 DEF IsTop
  <2>3. Lca(T, S) = n
    BY <1>2, <2>2
  <2> QED
    BY <2>2, <2>3
<1>4. CASE ~ S \subseteq U
  <2>1. \A n \in T : ~ S \subseteq n
    BY <1>1, <1>4
  <2>2. Lca(T, S) = U
    BY <1>2, <2>1
  <2> QED
    BY <1>1, <1>4, <2>1, <2>2
<1> QED
  BY <1>3, <1>4

\* R is the root of the piece of l.
IsPieceRoot(T, U, C, l, R) ==
    /\ R \in T /\ l \in R /\ R \in C \cup {U}
    /\ \A m \in C : l \in m => R \subseteq m
    /\ l \in Component(T, C, l)

\* So is the root of a piece, and the piece of a label holds the label.
LEMMA RootOfIsNode ==
    ASSUME NEW T, NEW U, IsTree(T, U), NEW C, C \subseteq NodesOrNone(T), NEW l \in U
    PROVE  IsPieceRoot(T, U, C, l, RootOf(T, C, {l}))
<1> DEFINE R == RootOf(T, C, {l})
           M == {m \in C : l \in m}
<1>1. T \in Forest /\ Laminar(T) /\ U \in T /\ UNION T = U
  BY DEF IsTree
<1>2. \A k : k \in R <=> k \in U /\ \A m \in C : l \in m => k \in m
  BY <1>1 DEF RootOf
<1>3. M \subseteq T
  BY DEF NodesOrNone
<1> HIDE DEF R
<1>4. l \in R /\ \A m \in C : l \in m => R \subseteq m
  BY <1>2
<1>5. R \in T /\ R \in C \cup {U}
  <2>1. CASE M = {}
    <3>1. \A m \in C : l \notin m
      BY <2>1
    <3>2. R = U
      BY <1>2, <3>1
    <3> QED
      BY <1>1, <3>2
  <2>2. CASE M # {}
    <3>1. M \in SUBSET Node
      BY <1>1, <1>3 DEF Forest
    <3>2. PICK x \in M : \A y \in M : y \subseteq x => y = x
      BY <2>2, <3>1, InnermostExists
    <3>3. x \in T /\ l \in x /\ x \in C /\ x \subseteq U
      BY <1>1, <1>3, <3>2
    <3>4. ASSUME NEW m \in C, l \in m
          PROVE  x \subseteq m
      <4>1. m \in M /\ m \in T
        BY <1>3, <3>4
      <4>2. m \subseteq x \/ x \subseteq m
        BY <1>1, <3>3, <3>4, <4>1 DEF Laminar
      <4> QED
        BY <3>2, <4>1, <4>2
    <3>5. R = x
      BY <1>2, <3>3, <3>4
    <3> QED
      BY <3>3, <3>5
  <2> QED
    BY <2>1, <2>2
<1>6. l \in Component(T, C, l)
  <2>1. \A m \in C : m \subseteq R /\ m # R => l \notin m
    BY <1>4
  <2> QED
    BY <1>4, <2>1 DEF Component, Under, R
<1> QED
  BY <1>4, <1>5, <1>6 DEF R, IsPieceRoot

\* The climb from a label ends at a node, or nowhere.
LEMMA TopIsNode ==
    ASSUME NEW T, NEW U, IsTree(T, U), NEW C, NEW act, NEW u
    PROVE  TopOf(T, C, act, u) \in NodesOrNone(T)
<1> DEFINE M == {n \in T : u \in Under(C, n) /\ Under(C, n) \cap act \subseteq {u}}
<1>1. T \in Forest /\ Laminar(T)
  BY DEF IsTree
<1>2. TopOf(T, C, act, u) = UNION M
  BY DEF TopOf
<1>3. \A n \in M : u \in n /\ n \in T
  BY DEF Under
<1> HIDE DEF M
<1>4. CASE M = {}
  BY <1>2, <1>4 DEF NodesOrNone
<1>5. CASE M # {}
  <2>1. M \in SUBSET Node
    BY <1>1, <1>3 DEF Forest
  <2>2. PICK x \in M : \A y \in M : x \subseteq y => y = x
    BY <1>5, <2>1, OutermostExists
  <2>3. \A y \in M : y \subseteq x
    <3>1. ASSUME NEW y \in M
          PROVE  y \subseteq x \/ x \subseteq y
      BY <1>1, <1>3, <2>2 DEF Laminar
    <3> QED
      BY <2>2, <3>1
  <2>4. UNION M = x
    BY <2>2, <2>3
  <2>5. TopOf(T, C, act, u) = x /\ x \in T
    BY <1>2, <1>3, <2>2, <2>4
  <2> QED
    BY <2>5 DEF NodesOrNone
<1> QED
  BY <1>4, <1>5

\* And the sibling of where it ends is a node or none.
LEMMA SiblingIsNode ==
    ASSUME NEW T, NEW U, IsTree(T, U), NEW n \in NodesOrNone(T)
    PROVE  Sibling(T, n) \in NodesOrNone(T)
<1>1. U \in T /\ UNION T = U /\ \A x \in T \ {U} : Sibling(T, x) \in T
  BY DEF IsTree
<1>2. CASE n = {} \/ n = U
  <2>1. ~ HasParent(T, n)
    BY <1>1, <1>2 DEF HasParent, NullNode
  <2>2. Sibling(T, n) = {}
    BY <2>1 DEF Sibling, Parent, NullNode
  <2> QED
    BY <2>2 DEF NodesOrNone
<1>3. CASE n # {} /\ n # U
  BY <1>1, <1>3 DEF NodesOrNone
<1> QED
  BY <1>2, <1>3

\* Cutting cuts nodes.
LEMMA CutsAreNodes ==
    ASSUME NEW T, NEW U, IsTree(T, U), NEW C, C \subseteq NodesOrNone(T),
           NEW act, NEW u
    PROVE  /\ CutOffLeaf(T, C, act, u) \subseteq NodesOrNone(T)
           /\ CutPendant(T, C, act, u) \subseteq NodesOrNone(T)
<1>1. TopOf(T, C, act, u) \in NodesOrNone(T)
  BY TopIsNode
<1>2. PendantOf(T, C, act, u) \in NodesOrNone(T)
  BY <1>1, SiblingIsNode DEF PendantOf
<1> QED
  BY <1>1, <1>2 DEF CutOffLeaf, CutPendant

-----------------------------------------------------------------------------
(* Nothing active is below a cut of t1.                                    *)

Avoids(C, act) == \A m \in C : m \cap act = {}

\* A leaf is cut off together with nothing else that is active.
LEMMA CutOffAvoids ==
    ASSUME NEW T, NEW C, NEW act, Avoids(C, act), NEW u,
           NEW left, left \subseteq act \ {u}
    PROVE  Avoids(CutOffLeaf(T, C, act, u), left)
<1> DEFINE top == TopOf(T, C, act, u)
<1>1. ASSUME NEW l \in top \cap act
      PROVE  l = u
  <2>1. PICK n \in T : l \in n /\ u \in Under(C, n) /\ Under(C, n) \cap act \subseteq {u}
    BY <1>1 DEF TopOf
  <2>2. l \in Under(C, n)
    BY <1>1, <2>1 DEF Avoids, Under
  <2> QED
    BY <1>1, <2>1, <2>2
<1> HIDE DEF top
<1>2. top \cap left = {}
  BY <1>1
<1>3. CutOffLeaf(T, C, act, u) \subseteq C \cup {top}
  BY DEF CutOffLeaf, top
<1> QED
  BY <1>2, <1>3 DEF Avoids

\* It stays so when leaves become inactive.
LEMMA AvoidsFewer ==
    ASSUME NEW C, NEW act, Avoids(C, act), NEW left, left \subseteq act
    PROVE  Avoids(C, left)
BY DEF Avoids

\* Two labels are two.
LEMMA PairHasTwo ==
    ASSUME NEW u, NEW v, u # v
    PROVE  IsFiniteSet({u, v}) /\ Cardinality({u, v}) = 2
<1>1. IsFiniteSet({u}) /\ Cardinality({u}) = 1
  BY FS_Singleton
<1>2. {u} \cup {v} = {u, v} /\ v \notin {u}
  OBVIOUS
<1> QED
  BY <1>1, <1>2, FS_AddElement

LEMMA MoreThanOne ==
    ASSUME NEW S, IsFiniteSet(S)
    PROVE  Cardinality(S) >= 2 <=> \E u, v \in S : u # v
<1>1. Cardinality(S) \in Nat
  BY FS_CardinalityType
<1>2. ASSUME NEW u \in S, NEW v \in S, u # v
      PROVE  Cardinality(S) >= 2
  <2>1. {u, v} \in SUBSET S
    BY <1>2
  <2>2. Cardinality({u, v}) <= Cardinality(S)
    BY <2>1, FS_Subset
  <2>3. Cardinality({u, v}) = 2
    BY <1>2, PairHasTwo
  <2> QED
    BY <1>1, <2>2, <2>3
<1>3. ASSUME Cardinality(S) >= 2
      PROVE  \E u, v \in S : u # v
  <2>1. S # {}
    BY <1>3, FS_EmptySet
  <2>2. PICK u \in S : TRUE
    BY <2>1
  <2>3. Cardinality({u}) = 1
    BY FS_Singleton
  <2>4. S # {u}
    BY <1>3, <2>3
  <2> QED
    BY <2>2, <2>4
<1> QED
  BY <1>2, <1>3

\* A node at or below n holds exactly two members of S.
PairBelow(T, n, S) ==
    \E q \in T : \E u, v : q \subseteq n /\ u # v /\ q \cap S = {u, v}

\* A node with two members of S has a lowest node with two below it, which
\* holds no third one.
LEMMA LowestPair ==
    ASSUME NEW T, NEW U, IsTree(T, U), NEW n \in T, NEW S \in SUBSET U,
           NEW a \in n \cap S, NEW c \in n \cap S, a # c
    PROVE  PairBelow(T, n, S)
<1> DEFINE Two(q) == q \subseteq n /\ \E u, v \in q \cap S : u # v
           M == {q \in T : Two(q)}
<1>1. T \in Forest
  BY DEF IsTree
<1>2. M \in SUBSET Node /\ M # {}
  <2>1. Two(n)
    OBVIOUS
  <2> HIDE DEF Two
  <2> QED
    BY <1>1, <2>1 DEF Forest
<1>3. PICK q \in M : \A y \in M : y \subseteq q => y = q
  BY <1>2, InnermostExists
<1>4. q \in T /\ q \subseteq n /\ \A y \in T : Two(y) /\ y \subseteq q => y = q
  BY <1>3
<1>5. PICK u \in q \cap S, v \in q \cap S : u # v
  BY <1>3
<1>6. u \in q /\ q # {u}
  BY <1>5
<1>a. q \in T /\ q \subseteq n
  BY <1>4
<1>b. PartsInTwo(T, q)
  BY <1>a, <1>6, TwoParts
<1>7. PICK x \in T : x # {} /\ x \subseteq q /\ q \ x \in T /\ q \ x # {}
  BY <1>b DEF PartsInTwo
<1>8. ~ Two(x) /\ ~ Two(q \ x)
  <2>1. x # q /\ q \ x # q /\ q \ x \subseteq q
    BY <1>7
  <2> HIDE DEF Two
  <2> QED
    BY <1>4, <1>7, <2>1
<1>9. \A k, l \in q \cap S : k = l \/ (k \in x /\ l \notin x) \/ (k \notin x /\ l \in x)
  BY <1>4, <1>7, <1>8
<1>10. q \cap S = {u, v}
  BY <1>5, <1>9
<1> QED
  BY <1>4, <1>5, <1>10 DEF PairBelow

\* In t1 such a node is a cherry.
LEMMA PairIsCherry ==
    ASSUME NEW T, NEW U, IsTree(T, U), NEW act \in SUBSET U,
           NEW C, Avoids(C, act),
           NEW q \in T, NEW u, NEW v, u # v, q \cap act = {u, v}
    PROVE  {u, v} \in Cherries(T, C, act)
<1>1. u \in act /\ v \in act /\ u \in q /\ v \in q /\ UNION T = U
  BY DEF IsTree
<1>2. ASSUME NEW l \in {u, v}
      PROVE  {u, v} \subseteq Component(T, C, l)
  <2>1. \A m \in C : l \notin m /\ u \notin m /\ v \notin m
    BY <1>1, <1>2 DEF Avoids
  <2>2. {u, v} \subseteq RootOf(T, C, {l})
    BY <1>1, <2>1 DEF RootOf
  <2> QED
    BY <2>1, <2>2 DEF Component, Under
<1>3. {u, v} \subseteq Lca(T, {u, v}) /\ Lca(T, {u, v}) \subseteq q
  <2>1. {u, v} # {} /\ {u, v} \subseteq U /\ {u, v} \subseteq q
    BY <1>1
  <2> QED
    BY <2>1, LcaIsNode
<1>4. Under(C, Lca(T, {u, v})) \cap act = {u, v}
  <2>1. \A l \in act : \A m \in C : l \notin m
    BY DEF Avoids
  <2>2. \A l \in act : l \in Under(C, Lca(T, {u, v})) <=> l \in Lca(T, {u, v})
    BY <2>1 DEF Under
  <2>3. \A l \in act : l \in Lca(T, {u, v}) <=> l \in {u, v}
    BY <1>3
  <2> QED
    BY <1>1, <2>2, <2>3
<1>5. ActiveSiblings(T, C, act, {u, v})
  BY <1>2, <1>4 DEF ActiveSiblings, SameTree
<1>6. {u, v} \in {{l, k} : l, k \in act}
  BY <1>1
<1>7. Cardinality({u, v}) = 2
  BY PairHasTwo
<1> QED
  BY <1>5, <1>6, <1>7 DEF Cherries

\* As long as a node of t1 has two active leaves it has a cherry.
LEMMA CherryBelow ==
    ASSUME NEW T, NEW U, IsTree(T, U), NEW act \in SUBSET U,
           NEW C, Avoids(C, act),
           NEW n \in T, Cardinality(n \cap act) >= 2
    PROVE  \E p \in Cherries(T, C, act) : p \subseteq n
<1>1. IsFiniteSet(n \cap act)
  <2>1. n \cap act \in SUBSET Labels
    BY DEF IsTree, Forest, Node
  <2> QED
    BY <2>1, LabelsAreTaxa, FS_Subset
<1>2. PICK a \in n \cap act, c \in n \cap act : a # c
  BY <1>1, MoreThanOne
<1>b. PairBelow(T, n, act)
  BY <1>2, LowestPair
<1>c. PICK q \in T : \E u, v : q \subseteq n /\ u # v /\ q \cap act = {u, v}
  BY <1>b DEF PairBelow
<1>3. PICK u, v : q \subseteq n /\ u # v /\ q \cap act = {u, v}
  BY <1>c
<1>4. u # v /\ q \cap act = {u, v}
  BY <1>3
<1>5. {u, v} \in Cherries(T, C, act)
  BY <1>4, PairIsCherry
<1>6. {u, v} \subseteq n
  BY <1>3, <1>4
<1> QED
  BY <1>5, <1>6

-----------------------------------------------------------------------------
(* What is left after preprocessing is incompatible.                       *)

\* If the trees agree on the active leaves and none is alone in its piece of
\* the second tree, then a cherry of the first is a cherry of the second.
LEMMA CompatibleLeavesShareCherry ==
    ASSUME NEW T, NEW V, NEW U, IsTree(T, U), IsTree(V, U),
           NEW act \in SUBSET U, act # {},
           NEW C, Avoids(C, act), NEW D, D \subseteq NodesOrNone(V),
           \A k \in act : ~ AloneInTree(V, D, act, k),
           Induced(T, act) = Induced(V, act)
    PROVE  \E p \in Cherries(T, C, act) : ActiveSiblings(V, D, act, p)
<1> DEFINE R(k) == RootOf(V, D, {k})
           Two(n) == \E u, v \in Under(D, n) \cap act : u # v
           M == {n \in V : Two(n)}
<1>0. V \in Forest /\ Laminar(V) /\ UNION V = U
  BY DEF IsTree
<1>1. ASSUME NEW k \in act
      PROVE  R(k) \in V /\ Two(R(k)) /\ \A m \in D : k \in m => R(k) \subseteq m
  <2>1. /\ R(k) \in V /\ k \in Component(V, D, k)
        /\ \A m \in D : k \in m => R(k) \subseteq m
    <3>1. k \in U
      BY <1>1
    <3>2. IsPieceRoot(V, U, D, k, RootOf(V, D, {k}))
      BY <3>1, RootOfIsNode
    <3> QED
      BY <3>2 DEF IsPieceRoot
  <2>2. k \in Under(D, R(k)) /\ Under(D, R(k)) \cap act # {k}
    BY <1>1, <2>1 DEF Component, AloneInTree
  <2>3. Two(R(k))
    BY <1>1, <2>2
  <2> QED
    BY <2>1, <2>3
<1> HIDE DEF R
<1>2. M \in SUBSET Node /\ M # {}
  <2> HIDE DEF Two
  <2> QED
    BY <1>0, <1>1 DEF Forest
<1>3. PICK n \in M : \A y \in M : y \subseteq n => y = n
  BY <1>2, InnermostExists
<1>4. n \in V /\ Two(n)
  BY <1>3
<1>5. ASSUME NEW y \in V, Two(y), y \subseteq n
      PROVE  y = n
  <2> HIDE DEF Two
  <2> QED
    BY <1>3, <1>5
<1> HIDE DEF M
<1>6. ASSUME NEW l \in n \cap act
      PROVE  l \in Under(D, n)
  <2>1. ASSUME NEW m \in D, m \subseteq n, m # n, l \in m
        PROVE  FALSE
    <3>1. R(l) \in V /\ Two(R(l)) /\ R(l) \subseteq m
      BY <1>1, <1>6, <2>1
    <3> HIDE DEF Two
    <3> QED
      BY <1>5, <2>1, <3>1
  <2> QED
    BY <1>6, <2>1 DEF Under
<1>7. PICK u \in n \cap act, v \in n \cap act : u # v
  BY <1>4 DEF Under
<1>8. PartsInTwo(V, n)
  <2>1. u \in n /\ n # {u}
    BY <1>7
  <2> QED
    BY <1>4, <2>1, TwoParts
<1>9. PICK x \in V : x # {} /\ x \subseteq n /\ n \ x \in V /\ n \ x # {}
  BY <1>8 DEF PartsInTwo
<1>10. ~ Two(x) /\ ~ Two(n \ x)
  <2>1. x # n /\ n \ x # n /\ n \ x \subseteq n
    BY <1>9
  <2> HIDE DEF Two
  <2> QED
    BY <1>5, <1>9, <2>1
<1>11. ASSUME NEW y, y \subseteq n, y # n, NEW l \in y \cap act
       PROVE  l \in Under(D, y)
  <2>1. l \in Under(D, n)
    BY <1>6, <1>11
  <2>2. \A m : m \subseteq y /\ m # y => m \subseteq n /\ m # n
    BY <1>11
  <2> QED
    BY <1>11, <2>1, <2>2 DEF Under
<1>12. \A k, l \in n \cap act : k = l \/ (k \in x /\ l \notin x) \/ (k \notin x /\ l \in x)
  <2>1. ASSUME NEW k \in n \cap act, NEW l \in n \cap act, k # l, k \in x, l \in x
        PROVE  FALSE
    BY <1>9, <1>10, <1>11, <2>1
  <2>2. ASSUME NEW k \in n \cap act, NEW l \in n \cap act, k # l, k \notin x, l \notin x
        PROVE  FALSE
    <3>1. n \ x \subseteq n /\ n \ x # n
      BY <1>9
    <3>2. k \in Under(D, n \ x) /\ l \in Under(D, n \ x)
      BY <1>11, <2>2, <3>1
    <3> QED
      BY <1>10, <2>2, <3>2
  <2> QED
    BY <2>1, <2>2
<1>13. n \cap act = {u, v}
  BY <1>7, <1>12
<1> HIDE DEF Two
<1>14. PICK q \in T : q \cap act = {u, v}
  <2>1. {u, v} \in Induced(V, act)
    BY <1>4, <1>13 DEF Induced
  <2>2. {u, v} \in Induced(T, act)
    BY <2>1
  <2> QED
    BY <2>2 DEF Induced
<1>15. {u, v} \in Cherries(T, C, act)
  BY <1>7, <1>14, PairIsCherry
<1>16. u \in Under(D, n) /\ v \in Under(D, n)
  BY <1>6, <1>7
<1>17. ASSUME NEW m \in D, u \in m \/ v \in m
       PROVE  n \subseteq m
  <2>1. ~ (m \subseteq n /\ m # n)
    BY <1>16, <1>17 DEF Under
  <2>2. m \in V
    BY <1>17 DEF NodesOrNone
  <2>3. m \cap n # {}
    BY <1>7, <1>17
  <2>4. m \subseteq n \/ n \subseteq m
    BY <1>0, <1>4, <2>2, <2>3 DEF Laminar
  <2> QED
    BY <2>1, <2>4
<1>18. ASSUME NEW k \in {u, v}
       PROVE  {u, v} \subseteq Component(V, D, k)
  <2>1. k \in U /\ u \in U /\ v \in U /\ n \subseteq U
    BY <1>0, <1>4, <1>7, <1>18
  <2>2. \A l : l \in R(k) <=> l \in U /\ \A m \in D : k \in m => l \in m
    BY <1>0 DEF RootOf, R
  <2>3. n \subseteq R(k)
    BY <1>17, <1>18, <2>1, <2>2
  <2>4. ASSUME NEW l \in {u, v}, NEW m \in D, l \in m
        PROVE  R(k) \subseteq m
    <3>1. k \in m
      BY <1>7, <1>17, <1>18, <2>4
    <3> QED
      BY <2>2, <2>4, <3>1
  <2>5. \A l \in {u, v} : l \in R(k) /\ \A m \in D : m \subseteq R(k) /\ m # R(k) => l \notin m
    BY <1>7, <2>3, <2>4
  <2> QED
    BY <2>5 DEF Component, Under, R
<1>19. {u, v} \subseteq Lca(V, {u, v}) /\ Lca(V, {u, v}) \subseteq n
  <2>1. {u, v} # {} /\ {u, v} \subseteq U /\ {u, v} \subseteq n
    BY <1>7
  <2>2. /\ \A m \in V : {u, v} \subseteq m => Lca(V, {u, v}) \subseteq m
        /\ {u, v} \subseteq U => {u, v} \subseteq Lca(V, {u, v})
    BY <2>1, LcaIsNode
  <2> QED
    BY <1>4, <2>1, <2>2
<1>20. Under(D, Lca(V, {u, v})) \cap act = {u, v}
  <2>1. ASSUME NEW l \in {u, v}, NEW m \in D, l \in m, m \subseteq Lca(V, {u, v})
        PROVE  m = Lca(V, {u, v})
    BY <1>17, <1>19, <2>1
  <2>2. {u, v} \subseteq Under(D, Lca(V, {u, v}))
    BY <1>19, <2>1 DEF Under
  <2>3. Under(D, Lca(V, {u, v})) \subseteq n
    BY <1>19 DEF Under
  <2> QED
    BY <1>7, <1>13, <2>2, <2>3
<1>21. ActiveSiblings(V, D, act, {u, v})
  BY <1>18, <1>20 DEF ActiveSiblings, SameTree
<1> QED
  BY <1>15, <1>21

\* Trees cannot disagree on fewer than three labels.
LEMMA SmallSetsAgree ==
    ASSUME NEW T, NEW V, NEW U, IsTree(T, U), IsTree(V, U), NEW S \in SUBSET U,
           Induced(T, S) # Induced(V, S)
    PROVE  Cardinality(S) >= 3
<1>1. IsFiniteSet(S) /\ Cardinality(S) \in Nat
  <2>1. S \in SUBSET Labels
    BY DEF IsTree, Forest, Node
  <2> QED
    BY <2>1, LabelsAreTaxa, FS_Subset, FS_CardinalityType
<1>2. SUFFICES ASSUME Cardinality(S) <= 2 PROVE FALSE
  BY <1>1
<1>3. ASSUME NEW A \in SUBSET S, A # {}
      PROVE  A = S \/ \E l \in S : A = {l}
  <2>1. PICK l \in A : TRUE
    BY <1>3
  <2>2. CASE A # {l}
    <3>1. PICK k \in A : k # l
      BY <2>1, <2>2
    <3>2. {k, l} \in SUBSET S
      BY <1>3, <2>1, <3>1
    <3>3. Cardinality({k, l}) = 2
      BY <3>1, PairHasTwo
    <3>4. /\ Cardinality({k, l}) <= Cardinality(S)
          /\ Cardinality(S) = Cardinality({k, l}) => S = {k, l}
      BY <1>1, <3>2, FS_Subset
    <3>5. S = {k, l}
      BY <1>1, <1>2, <3>3, <3>4
    <3> QED
      BY <2>1, <3>1, <3>5
  <2> QED
    BY <2>1, <2>2
<1>4. ASSUME NEW X, NEW Y, IsTree(X, U), IsTree(Y, U)
      PROVE  Induced(X, S) \subseteq Induced(Y, S)
  <2>1. ASSUME NEW A \in Induced(X, S)
        PROVE  A \in Induced(Y, S)
    <3>1. A \in SUBSET S /\ A # {}
      BY <2>1 DEF Induced
    <3>2. CASE A = S
      <4>1. U \in Y /\ U \cap S = S
        BY <1>4 DEF IsTree
      <4> QED
        BY <3>1, <3>2, <4>1 DEF Induced
    <3>3. CASE \E l \in S : A = {l}
      <4>1. PICK l \in S : A = {l}
        BY <3>3
      <4>2. {l} \in Y /\ {l} \cap S = A
        BY <1>4, <4>1 DEF IsTree
      <4> QED
        BY <3>1, <4>2 DEF Induced
    <3> QED
      BY <1>3, <3>1, <3>2, <3>3
  <2> QED
    BY <2>1
<1> QED
  BY <1>4

-----------------------------------------------------------------------------
(* The set the main loop takes, and its red and its blue side.             *)

LEMMA BeforeIsAsymmetric ==
    ASSUME NEW T \in Forest, NEW l, NEW k, Before(T, l, k)
    PROVE  ~ Before(T, k, l)
<1>1. ChildWith(T, l, k) \subseteq Nat /\ ChildWith(T, k, l) \subseteq Nat
  <2>1. \A n \in T : n \subseteq Nat
    BY LabelsAreTaxa DEF Forest, Node
  <2> QED
    BY <2>1 DEF ChildWith
<1>2. \A x, y : Before(T, x, y) <=> \E i \in ChildWith(T, x, y) :
                                       \A j \in ChildWith(T, y, x) : i < j
  BY DEF Before, ChildWith
<1>3. SUFFICES ASSUME Before(T, k, l) PROVE FALSE
  OBVIOUS
<1>4. PICK i \in ChildWith(T, l, k) : \A j \in ChildWith(T, k, l) : i < j
  BY <1>2
<1>5. PICK h \in ChildWith(T, k, l) : \A j \in ChildWith(T, l, k) : h < j
  BY <1>2, <1>3
<1>6. i < h /\ h < i /\ i \in Nat /\ h \in Nat
  BY <1>1, <1>4, <1>5
<1> QED
  BY <1>6

IsLeftmost(T, Sets, A) ==
    A \in Sets /\ \A B \in Sets \ {A} : \A l \in A, k \in B : Before(T, l, k)

\* Of sets of labels below disjoint nodes one comes first.
LEMMA LeftmostExists ==
    ASSUME NEW T, NEW U, IsTree(T, U), NEW Sets, Sets # {},
           \A A \in Sets : A # {} /\ A \subseteq U,
           \A A, B \in Sets : A # B =>
              \E m, n \in T : m \cap n = {} /\ A \subseteq m /\ B \subseteq n
    PROVE  \E A \in Sets : IsLeftmost(T, Sets, A)
<1> DEFINE W == UNION Sets
<1>1. W \in SUBSET U /\ W # {}
  OBVIOUS
<1>2. PICK l \in W : \A k \in W \ {l} : Before(T, l, k)
  <2>1. \E l \in W : \A k \in W \ {l} : InTurn(T, TRUE, l, k)
    <3> HIDE DEF W
    <3> QED
      BY <1>1, EndExists
  <2> QED
    BY <2>1 DEF InTurn
<1>3. PICK A \in Sets : l \in A
  OBVIOUS
<1>4. ASSUME NEW B \in Sets \ {A}, NEW i \in A, NEW j \in B
      PROVE  Before(T, i, j)
  <2>1. PICK m \in T, n \in T : m \cap n = {} /\ A \subseteq m /\ B \subseteq n
    BY <1>4
  <2>2. j \in W \ {l}
    BY <1>3, <1>4, <2>1
  <2>3. Before(T, l, j)
    BY <1>2, <2>2
  <2>4. T \in Forest /\ Laminar(T)
    BY DEF IsTree
  <2>5. ~ Before(T, j, l)
    BY <2>3, <2>4, BeforeIsAsymmetric
  <2>6. m # {} /\ n # {} /\ l \in m /\ j \in n /\ i \in m
    BY <1>3, <1>4, <2>1
  <2>7. \/ \A x \in m, y \in n : Before(T, x, y)
        \/ \A x \in m, y \in n : Before(T, y, x)
    BY <2>1, <2>4, <2>6, NodesAreOrdered
  <2> QED
    BY <2>5, <2>6, <2>7
<1> QED
  BY <1>4 DEF IsLeftmost

\* The chosen set lies below one node of t1, all of what is active there, and
\* has three leaves or more.
LEMMA MinIncompatIsBelow ==
    ASSUME NEW U, IsTree(T1, U), IsTree(T2, U), active \in SUBSET U,
           ~ Compatible(active)
    PROVE  \E n \in T1 : MinIncompat = n \cap active /\ Cardinality(n \cap active) >= 3
<1> DEFINE Lowest(S) == /\ ~ Compatible(S)
                        /\ \A A \in Induced(T1, S) \ {S} : Compatible(A)
           lowest == {S \in Induced(T1, active) : Lowest(S)}
           M == {n \in T1 : ~ Compatible(n \cap active)}
<1>0. T1 \in Forest /\ Laminar(T1) /\ U \in T1 /\ UNION T1 = U
  BY DEF IsTree
<1>1. ASSUME NEW S \in SUBSET U, ~ Compatible(S)
      PROVE  Cardinality(S) >= 3 /\ S # {}
  <2>1. Cardinality(S) >= 3
    BY <1>1, SmallSetsAgree DEF Compatible
  <2> QED
    BY <2>1, FS_EmptySet
<1>2. \A n \in T1 : n \cap active \in SUBSET U
  OBVIOUS
<1>3. M \in SUBSET Node /\ M # {}
  <2>1. U \cap active = active
    OBVIOUS
  <2> QED
    BY <1>0, <2>1 DEF Forest
<1>4. PICK n \in M : \A y \in M : y \subseteq n => y = n
  BY <1>3, InnermostExists
<1>5. n \cap active \in lowest
  <2>1. n \cap active \in Induced(T1, active)
    BY <1>1, <1>2, <1>4 DEF Induced
  <2>2. ASSUME NEW A \in Induced(T1, n \cap active) \ {n \cap active}
        PROVE  Compatible(A)
    <3>1. PICK m \in T1 : A = m \cap (n \cap active) /\ A # {}
      BY <2>2 DEF Induced
    <3>2. m \subseteq n
      <4>1. m \cap n # {} /\ ~ n \subseteq m
        BY <2>2, <3>1
      <4> QED
        BY <1>0, <1>4, <4>1 DEF Laminar
    <3>3. A = m \cap active /\ m # n
      BY <2>2, <3>1, <3>2
    <3>4. m \notin M
      BY <1>4, <3>2, <3>3
    <3> QED
      BY <3>1, <3>3, <3>4
  <2> QED
    BY <1>4, <2>1, <2>2
<1>6. ASSUME NEW A \in lowest
      PROVE  A # {} /\ A \subseteq U /\ Lowest(A) /\ \E m \in T1 : A = m \cap active
  BY <1>6 DEF Induced
<1> HIDE DEF M
<1>7. ASSUME NEW A \in lowest, NEW B \in lowest, A # B
      PROVE  \E m, q \in T1 : m \cap q = {} /\ A \subseteq m /\ B \subseteq q
  <2>1. PICK m \in T1 : A = m \cap active
    BY <1>6, <1>7
  <2>2. PICK q \in T1 : B = q \cap active
    BY <1>6, <1>7
  <2>3. ~ Compatible(A) /\ ~ Compatible(B) /\ A # {} /\ B # {}
        /\ (\A S \in Induced(T1, A) \ {A} : Compatible(S))
        /\ (\A S \in Induced(T1, B) \ {B} : Compatible(S))
    BY <1>6, <1>7
  <2>4. ~ m \subseteq q
    <3>1. SUFFICES ASSUME m \subseteq q PROVE FALSE
      OBVIOUS
    <3>2. A = m \cap B
      BY <2>1, <2>2, <3>1
    <3>3. A \in Induced(T1, B)
      BY <2>1, <2>3, <3>2 DEF Induced
    <3> QED
      BY <1>7, <2>3, <3>3
  <2>5. ~ q \subseteq m
    <3>1. SUFFICES ASSUME q \subseteq m PROVE FALSE
      OBVIOUS
    <3>2. B = q \cap A
      BY <2>1, <2>2, <3>1
    <3>3. B \in Induced(T1, A)
      BY <2>2, <2>3, <3>2 DEF Induced
    <3> QED
      BY <1>7, <2>3, <3>3
  <2>6. m \cap q = {}
    BY <1>0, <2>4, <2>5 DEF Laminar
  <2> QED
    BY <2>1, <2>2, <2>6
<1>8. MinIncompat = IF lowest = {} THEN active
                    ELSE CHOOSE S \in lowest :
                            \A A \in lowest \ {S} : \A l \in S, k \in A : Before(T1, l, k)
  BY DEF MinIncompat
<1>9. MinIncompat \in lowest
  <2>1. lowest # {} /\ (\A A \in lowest : A # {} /\ A \subseteq U)
    BY <1>5, <1>6
  <2> HIDE DEF lowest
  <2>2. \E A \in lowest : IsLeftmost(T1, lowest, A)
    BY <1>7, <2>1, LeftmostExists
  <2>3. \E S \in lowest : \A A \in lowest \ {S} : \A l \in S, k \in A : Before(T1, l, k)
    BY <2>2 DEF IsLeftmost
  <2> QED
    BY <1>8, <2>1, <2>3
<1>10. PICK m \in T1 : MinIncompat = m \cap active
  BY <1>6, <1>9
<1>11. Cardinality(m \cap active) >= 3
  BY <1>1, <1>2, <1>6, <1>9, <1>10
<1> QED
  BY <1>10, <1>11

\* x and y are nodes of t1 that part S, all that is active below them.
Halves(S, x, y) ==
    /\ x \in T1 /\ y \in T1 /\ x \cap y = {}
    /\ x \cap S = x \cap active /\ y \cap S = y \cap active
    /\ x \cap S # {} /\ y \cap S # {}
    /\ S = (x \cap S) \cup (y \cap S)
    /\ Sides(S) = {x \cap S, y \cap S}

\* What is active below a node, if more than a leaf, is parted by the children
\* of the lowest node that holds it.
LEMMA SidesAreTwo ==
    ASSUME NEW U, IsTree(T1, U), active \in SUBSET U, NEW n \in T1,
           NEW S, S = n \cap active, NEW a \in S, NEW c \in S, a # c
    PROVE  \E x, y : Halves(S, x, y)
<1> DEFINE M == {m \in T1 : m \cap active = S}
<1>0. T1 \in Forest /\ Laminar(T1)
  BY DEF IsTree
<1>1. M \in SUBSET Node /\ M # {}
  BY <1>0 DEF Forest
<1>2. PICK m \in M : \A q \in M : q \subseteq m => q = m
  BY <1>1, InnermostExists
<1>3. m \in T1 /\ m \cap active = S
      /\ \A q \in T1 : q \cap active = S /\ q \subseteq m => q = m
  BY <1>2
<1> HIDE DEF M
<1>4. PartsInTwo(T1, m)
  <2>1. a \in m /\ m # {a}
    BY <1>3
  <2> QED
    BY <1>3, <2>1, TwoParts
<1>5. PICK x \in T1 : x # {} /\ x \subseteq m /\ m \ x \in T1 /\ m \ x # {}
  BY <1>4 DEF PartsInTwo
<1>6. PICK y : y = m \ x
  OBVIOUS
<1>7. y \in T1 /\ x \cap y = {} /\ x \cup y = m /\ x # m /\ y # m
      /\ x \subseteq m /\ y \subseteq m /\ x # {} /\ y # {}
  BY <1>5, <1>6
<1>8. x \cap S = x \cap active /\ y \cap S = y \cap active
      /\ S = (x \cap S) \cup (y \cap S)
  BY <1>3, <1>7
<1>9. x \cap S # {} /\ y \cap S # {}
  <2>1. x \cap S # S /\ y \cap S # S
    BY <1>3, <1>7, <1>8
  <2> QED
    BY <1>8, <2>1
<1>10. x \cap S \in Sides(S) /\ y \cap S \in Sides(S)
  <2>1. x \cap S \in Induced(T1, S) /\ y \cap S \in Induced(T1, S)
    BY <1>7, <1>9 DEF Induced
  <2>2. S \ (x \cap S) = y \cap S /\ S \ (y \cap S) = x \cap S
    BY <1>7, <1>8
  <2>3. x \cap S # S /\ y \cap S # S
    BY <1>7, <1>8, <1>9
  <2> QED
    BY <2>1, <2>2, <2>3 DEF Sides
<1>11. ASSUME NEW A \in Induced(T1, S) \ {S}
       PROVE  A # {} /\ (A \subseteq x \cap S \/ A \subseteq y \cap S)
  <2>1. PICK q \in T1 : A = q \cap S /\ A # {}
    BY <1>11 DEF Induced
  <2>2. q \subseteq m
    <3>1. q \cap m # {} /\ ~ m \subseteq q
      BY <1>3, <1>11, <2>1
    <3> QED
      BY <1>0, <1>3, <3>1 DEF Laminar
  <2>3. q # m
    BY <1>3, <1>11, <2>1
  <2>4. q \subseteq x \/ q \subseteq y
    <3>1. q \cap x = {} \/ q \subseteq x \/ x \subseteq q
      BY <1>0, <1>5 DEF Laminar
    <3>2. q \cap y = {} \/ q \subseteq y \/ y \subseteq q
      BY <1>0, <1>7 DEF Laminar
    <3>3. ~ (x \subseteq q /\ y \subseteq q)
      BY <1>7, <2>2, <2>3
    <3> QED
      BY <1>7, <2>2, <3>1, <3>2, <3>3
  <2> QED
    BY <2>1, <2>4
<1>12. ASSUME NEW A \in Sides(S)
       PROVE  A \in {x \cap S, y \cap S}
  <2>1. A \in Induced(T1, S) \ {S} /\ S \ A \in Induced(T1, S)
    BY <1>12 DEF Sides
  <2>2. A # {} /\ (A \subseteq x \cap S \/ A \subseteq y \cap S)
    BY <1>11, <2>1
  <2>3. S \ A # S
    BY <1>8, <2>2
  <2>4. S \ A \subseteq x \cap S \/ S \ A \subseteq y \cap S
    BY <1>11, <2>1, <2>3
  <2>5. A \subseteq x \cap S => S \ A = y \cap S
    BY <1>7, <1>8, <1>9, <2>4
  <2>6. A \subseteq y \cap S => S \ A = x \cap S
    BY <1>7, <1>8, <1>9, <2>4
  <2> QED
    BY <1>7, <1>8, <2>2, <2>5, <2>6
<1>13. Sides(S) = {x \cap S, y \cap S}
  BY <1>10, <1>12
<1> QED
  BY <1>5, <1>7, <1>8, <1>9, <1>13 DEF Halves

OrientsWell(S) ==
    \E x, y \in T1 :
        /\ x \cap y = {}
        /\ Orient(S) = x \cap active
        /\ S \ Orient(S) = y \cap active /\ Orient(S) \subseteq S
        /\ y \cap active # {} /\ Cardinality(x \cap active) >= 2

\* Red is one of the sides, not a single leaf, and blue is the other one.
LEMMA OrientIsSide ==
    ASSUME NEW U, IsTree(T1, U), active \in SUBSET U, NEW n \in T1,
           NEW S, S = n \cap active, Cardinality(S) >= 3
    PROVE  OrientsWell(S)
<1> DEFINE big == {A \in Sides(S) : Cardinality(A) >= 2}
           spanning == {A \in big : SameTree(T2, cuts2, S) /\ Lca(T2, A) = Lca(T2, S)}
           LeftOf(As) == CHOOSE A \in As :
               \A C \in As \ {A} : \A l \in A, k \in C : Before(T1, l, k)
<1>1. IsFiniteSet(S) /\ Cardinality(S) \in Nat
  <2>1. S \in SUBSET Labels
    BY DEF IsTree, Forest, Node
  <2> QED
    BY <2>1, LabelsAreTaxa, FS_Subset, FS_CardinalityType
<1>2. PICK x, y : Halves(S, x, y)
  <2>1. Cardinality(S) >= 2
    BY <1>1
  <2>2. PICK a \in S, c \in S : a # c
    BY <1>1, <2>1, MoreThanOne
  <2> QED
    BY <2>2, SidesAreTwo
<1>3. /\ x \in T1 /\ y \in T1 /\ x \cap y = {}
      /\ x \cap S = x \cap active /\ y \cap S = y \cap active
      /\ x \cap S # {} /\ y \cap S # {}
      /\ S = (x \cap S) \cup (y \cap S)
      /\ Sides(S) = {x \cap S, y \cap S}
  BY <1>2 DEF Halves
<1>4. ASSUME NEW As \in SUBSET Sides(S), As # {}
      PROVE  LeftOf(As) \in As
  <2>0. S \subseteq U /\ \A A \in As : A = x \cap S \/ A = y \cap S
    BY <1>3, <1>4
  <2>1. \A A \in As : A # {} /\ A \subseteq U
    BY <1>3, <2>0
  <2>2. \A A, B \in As : A # B =>
           \E m, q \in T1 : m \cap q = {} /\ A \subseteq m /\ B \subseteq q
    <3>1. ASSUME NEW A \in As, NEW B \in As, A # B
          PROVE  \E m, q \in T1 : m \cap q = {} /\ A \subseteq m /\ B \subseteq q
      <4>1. CASE A = x \cap S /\ B = y \cap S
        BY <1>3, <4>1
      <4>2. CASE A = y \cap S /\ B = x \cap S
        BY <1>3, <4>2
      <4> QED
        BY <1>3, <3>1, <4>1, <4>2
    <3> QED
      BY <3>1
  <2>3. \E A \in As : IsLeftmost(T1, As, A)
    BY <1>4, <2>1, <2>2, LeftmostExists
  <2>4. \E A \in As : \A C \in As \ {A} : \A l \in A, k \in C : Before(T1, l, k)
    BY <2>3 DEF IsLeftmost
  <2> QED
    BY <2>4
<1>5. big # {}
  <2>1. SUFFICES ASSUME big = {} PROVE FALSE
    OBVIOUS
  <2>2. IsFiniteSet(x \cap S) /\ IsFiniteSet(y \cap S)
    BY <1>1, FS_Subset
  <2>3. Cardinality(x \cap S) \in Nat /\ Cardinality(y \cap S) \in Nat
        /\ Cardinality(x \cap S) # 0 /\ Cardinality(y \cap S) # 0
    BY <1>3, <2>2, FS_CardinalityType, FS_EmptySet
  <2>a. x \cap S \in Sides(S) /\ y \cap S \in Sides(S)
    BY <1>3
  <2>b. ~ Cardinality(x \cap S) >= 2 /\ ~ Cardinality(y \cap S) >= 2
    BY <2>1, <2>a
  <2>4. Cardinality(x \cap S) = 1 /\ Cardinality(y \cap S) = 1
    BY <2>3, <2>b
  <2>5. PICK l : x \cap S = {l}
    BY <2>2, <2>4, FS_Singleton
  <2>6. PICK k : y \cap S = {k}
    BY <2>2, <2>4, FS_Singleton
  <2>7. S = {l} \cup {k} /\ l # k
    BY <1>3, <2>5, <2>6
  <2>8. S = {l, k}
    BY <2>7
  <2>9. Cardinality({l, k}) = 2
    BY <2>7, PairHasTwo
  <2> QED
    BY <2>8, <2>9
<1>6. Orient(S) = IF spanning # {} THEN LeftOf(spanning)
                  ELSE IF big # {} THEN LeftOf(big) ELSE LeftOf(Sides(S))
  BY DEF Orient
<1>7. Orient(S) \in big
  <2>1. spanning \in SUBSET big /\ big \in SUBSET Sides(S) /\ spanning \in SUBSET Sides(S)
    OBVIOUS
  <2> HIDE DEF big, spanning, LeftOf
  <2> QED
    BY <1>4, <1>5, <1>6, <2>1
<1>8. Orient(S) \in Sides(S) /\ Cardinality(Orient(S)) >= 2
  BY <1>7
<1>9. CASE Orient(S) = x \cap S
  <2>1. S \ Orient(S) = y \cap S
    BY <1>3, <1>9
  <2>2. /\ Orient(S) = x \cap active /\ S \ Orient(S) = y \cap active
        /\ Orient(S) \subseteq S /\ y \cap active # {}
        /\ Cardinality(x \cap active) >= 2
    BY <1>3, <1>8, <1>9, <2>1
  <2> QED
    BY <1>3, <2>2 DEF OrientsWell
<1>10. CASE Orient(S) = y \cap S
  <2>1. S \ Orient(S) = x \cap S /\ y \cap x = {}
    BY <1>3, <1>10
  <2>2. /\ Orient(S) = y \cap active /\ S \ Orient(S) = x \cap active
        /\ Orient(S) \subseteq S /\ x \cap active # {}
        /\ Cardinality(y \cap active) >= 2
    BY <1>3, <1>8, <1>10, <2>1
  <2> QED
    BY <1>3, <2>1, <2>2 DEF OrientsWell
<1> QED
  BY <1>8, <1>3, <1>9, <1>10

-----------------------------------------------------------------------------
(* Resolving a pair.                                                       *)

\* Some label comes first.
LEMMA FirstLeafIsIn ==
    ASSUME NEW T, NEW U, IsTree(T, U), NEW S \in SUBSET U, S # {}
    PROVE  FirstLeaf(T, S) \in S
<1>1. \E l \in S : \A k \in S \ {l} : InTurn(T, FALSE, l, k)
  BY EndExists
<1>2. \E l \in S : \A k \in S \ {l} : Before(T, k, l)
  BY <1>1 DEF InTurn
<1> QED
  BY <1>2 DEF FirstLeaf

\* The first cherry is one of them, and its leaves are active.
LEMMA FirstCherry ==
    ASSUME NEW T, NEW U, IsTree(T, U), NEW act \in SUBSET U, NEW C,
           NEW pairs \in SUBSET Cherries(T, C, act), pairs # {},
           NEW p, p = FirstOf(T, pairs)
    PROVE  /\ p \in pairs /\ p \subseteq act
           /\ FirstLeaf(T, p) \in p /\ SecondLeaf(T, p) \in p
<1>1. \A q \in pairs : \E l, k \in act : q = {l, k} /\ Cardinality(q) = 2
  BY DEF Cherries
<1>2. UNION pairs \in SUBSET U /\ UNION pairs # {}
  <2>1. PICK q \in pairs : TRUE
    OBVIOUS
  <2>2. PICK l \in act : l \in q
    BY <1>1
  <2> QED
    BY <1>1, <2>1, <2>2
<1>3. FirstLeaf(T, UNION pairs) \in UNION pairs
  BY <1>2, FirstLeafIsIn
<1>4. \E q \in pairs : FirstLeaf(T, UNION pairs) \in q
  BY <1>3
<1>5. p \in pairs
  BY <1>4 DEF FirstOf
<1>6. PICK l \in act, k \in act : p = {l, k} /\ Cardinality(p) = 2
  BY <1>1, <1>5
<1>7. p \in SUBSET U /\ p # {} /\ p \subseteq act
  BY <1>6
<1>8. FirstLeaf(T, p) \in p
  BY <1>7, FirstLeafIsIn
<1>9. l # k
  <2>1. SUFFICES ASSUME l = k PROVE FALSE
    OBVIOUS
  <2>2. p = {l}
    BY <1>6, <2>1
  <2>3. Cardinality({l}) = 1
    BY FS_Singleton
  <2> QED
    BY <1>6, <2>2, <2>3
<1>10. \E j \in p : j # FirstLeaf(T, p)
  BY <1>6, <1>9
<1>11. SecondLeaf(T, p) \in p
  BY <1>10 DEF SecondLeaf
<1> QED
  BY <1>5, <1>7, <1>8, <1>11

\* The labels of the instance.
Taxa == UNION trees[1]

\* What a pass knows of its views: only labels are active, nothing active is
\* below a cut of t1, and what is cut in t2 are nodes.
ViewsFit ==
    /\ active \in SUBSET Taxa
    /\ Avoids(cuts1, active)
    /\ cuts2 \subseteq NodesOrNone(T2)

\* One of the two leaves becomes inactive, and the views still fit.
OneLeft(u, v) ==
    /\ \E x \in {u, v} : active' = active \ {x}
    /\ Avoids(cuts1', active')
    /\ cuts2' \subseteq NodesOrNone(T2)

LEMMA BlockedPair ==
    ASSUME IsTree(T2, Taxa), ViewsFit, NEW u, NEW v, ResolveBlocked(u, v)
    PROVE  OneLeft(u, v)
<1>1. PICK x \in {BlockedSide(u, v)} :
      \E C \in {CutPendant(T2, cuts2, active, x)} :
      \E siblings \in {ActiveSiblings(T2, C, active, {u, v})} :
          /\ cuts1' = IF siblings THEN cuts1 ELSE CutOffLeaf(T1, cuts1, active, x)
          /\ cuts2' = IF siblings THEN C ELSE CutOffLeaf(T2, C, active, x)
          /\ active' = active \ {x}
  BY DEF ResolveBlocked
<1>2. PICK C \in {CutPendant(T2, cuts2, active, x)} :
      \E siblings \in {ActiveSiblings(T2, C, active, {u, v})} :
          /\ cuts1' = IF siblings THEN cuts1 ELSE CutOffLeaf(T1, cuts1, active, x)
          /\ cuts2' = IF siblings THEN C ELSE CutOffLeaf(T2, C, active, x)
          /\ active' = active \ {x}
  BY <1>1
<1>3. /\ cuts1' \in {cuts1, CutOffLeaf(T1, cuts1, active, x)}
      /\ cuts2' \in {C, CutOffLeaf(T2, C, active, x)}
      /\ active' = active \ {x}
  BY <1>2
<1>4. x \in {u, v}
  BY <1>1 DEF BlockedSide
<1>5. Avoids(cuts1', active')
  <2>1. Avoids(cuts1, active) /\ active' \subseteq active \ {x} /\ active' \subseteq active
    BY <1>3 DEF ViewsFit
  <2>2. Avoids(cuts1, active')
    BY <2>1, AvoidsFewer
  <2>3. Avoids(CutOffLeaf(T1, cuts1, active, x), active')
    BY <2>1, CutOffAvoids
  <2> QED
    BY <1>3, <2>2, <2>3
<1>6. cuts2' \subseteq NodesOrNone(T2)
  <2>1. C \subseteq NodesOrNone(T2)
    BY <1>2, CutsAreNodes DEF ViewsFit
  <2>2. CutOffLeaf(T2, C, active, x) \subseteq NodesOrNone(T2)
    BY <2>1, CutsAreNodes
  <2> QED
    BY <1>3, <2>1, <2>2
<1> QED
  BY <1>3, <1>4, <1>5, <1>6 DEF OneLeft

LEMMA ResolvedPair ==
    ASSUME IsTree(T2, Taxa), ViewsFit, NEW u, NEW v, NEW X, ResolvePair(u, v, X)
    PROVE  OneLeft(u, v)
<1>1. CASE ResolveDifferentTrees(u, v, X)
  <2>1. PICK x \in {AwayFromLca(u, v)} :
          /\ cuts1' = CutOffLeaf(T1, cuts1, active, x)
          /\ cuts2' \in {cuts2, CutOffLeaf(T2, cuts2, active, x)}
          /\ active' = active \ {x}
    BY <1>1 DEF ResolveDifferentTrees
  <2>2. x \in {u, v}
    BY <2>1 DEF AwayFromLca
  <2>3. Avoids(cuts1', active')
    <3>1. Avoids(cuts1, active) /\ active' \subseteq active \ {x}
      BY <2>1 DEF ViewsFit
    <3>2. Avoids(CutOffLeaf(T1, cuts1, active, x), active')
      BY <3>1, CutOffAvoids
    <3> QED
      BY <2>1, <3>2
  <2>4. cuts2' \subseteq NodesOrNone(T2)
    <3>1. CutOffLeaf(T2, cuts2, active, x) \subseteq NodesOrNone(T2)
      BY CutsAreNodes DEF ViewsFit
    <3> QED
      BY <2>1, <3>1 DEF ViewsFit
  <2> QED
    BY <2>1, <2>2, <2>3, <2>4 DEF OneLeft
<1>2. CASE ResolveSiblings(u, v)
  <2>1. active' = active \ {u} /\ cuts1' = cuts1 /\ cuts2' = cuts2
    BY <1>2 DEF ResolveSiblings
  <2>2. Avoids(cuts1, active')
    BY <2>1, AvoidsFewer DEF ViewsFit
  <2> QED
    BY <2>1, <2>2 DEF OneLeft, ViewsFit
<1>3. CASE ResolveBlocked(u, v)
  BY <1>3, BlockedPair
<1> QED
  BY <1>1, <1>2, <1>3 DEF ResolvePair

-----------------------------------------------------------------------------
(* The invariant.                                                          *)

\* Both trees of the pass are trees of the instance.
OrderFits ==
    /\ trees \in DualInstances
    /\ order \in (DOMAIN trees) \X (DOMAIN trees)
    /\ order[1] # order[2]

\* Red and blue are the active leaves below two nodes of t1.
Grouped ==
    \E n, m \in T1 : red \cap active = n \cap active /\ blue \cap active = m \cap active

\* The set under work.
ColoursFit ==
    /\ Cardinality(red \cup blue) >= 3
    /\ red \cap blue = {}
    /\ Cardinality(red \cap active) >= 2
    /\ blue \cap active # {}
    /\ Grouped

DInv ==
    /\ OrderFits
    /\ pc # "three" => ViewsFit
    /\ pc = "main" /\ Cardinality(active) >= 2 => ~ Compatible(active)
    /\ pc \in {"resolveSet", "resolveBlue"} => ColoursFit
    /\ pc = "resolveBlue" => Cardinality(red \cap active) = 2

\* The instances are trees.
LEMMA BothAreTrees ==
    ASSUME OrderFits
    PROVE  IsTree(T1, Taxa) /\ IsTree(T2, Taxa)
<1>1. ASSUME NEW i \in DOMAIN trees
      PROVE  IsTree(trees[i], Taxa)
  <2>1. /\ trees[i] \in Forest /\ NullNode \notin trees[i] /\ Laminar(trees[i])
        /\ Roots(trees[i]) = {Taxa}
        /\ \A l \in Taxa : {l} \in trees[i]
        /\ \A n \in trees[i] \ Roots(trees[i]) : Sibling(trees[i], n) \in trees[i]
    BY <1>1, DualInstancesAreTrees DEF OrderFits, Taxa
  <2>2. Taxa \in trees[i]
    BY <2>1 DEF Roots
  <2>3. UNION trees[i] = Taxa
    <3>1. \A n \in trees[i] : n \subseteq Taxa
      BY <2>1, RootAbove
    <3> QED
      BY <2>2, <3>1
  <2> QED
    BY <2>1, <2>2, <2>3 DEF IsTree
<1>2. order[1] \in DOMAIN trees /\ order[2] \in DOMAIN trees
  BY DEF OrderFits
<1> QED
  BY <1>1, <1>2 DEF T1, T2

\* A colour with two active leaves has a cherry.
LEMMA ColourHasCherry ==
    ASSUME IsTree(T1, Taxa), ViewsFit, NEW S, NEW n \in T1,
           S \cap active = n \cap active, Cardinality(S \cap active) >= 2
    PROVE  CherriesIn(S) # {}
<1>1. \E p \in Cherries(T1, cuts1, active) : p \subseteq n
  BY CherryBelow DEF ViewsFit
<1>2. PICK p \in Cherries(T1, cuts1, active) : p \subseteq n
  BY <1>1
<1>3. p \subseteq active
  BY DEF Cherries
<1>4. p \in CherriesIn(S)
  BY <1>2, <1>3 DEF CherriesIn
<1> QED
  BY <1>4

\* Active sets are finite.
LEMMA ActiveIsFinite ==
    ASSUME IsTree(T1, Taxa), ViewsFit, NEW S
    PROVE  IsFiniteSet(S \cap active) /\ Cardinality(S \cap active) \in Nat
<1>1. S \cap active \in SUBSET Labels
  BY DEF ViewsFit, IsTree, Forest, Node
<1> QED
  BY <1>1, LabelsAreTaxa, FS_Subset, FS_CardinalityType

\* It holds of the defensive branches what it has to.
LEMMA InvariantGivesFallbacks ==
    ASSUME DInv
    PROVE  FallbacksUnreached
<1>1. IsTree(T1, Taxa)
  BY BothAreTrees DEF DInv
<1>2. ASSUME pc \in {"resolveSet", "resolveBlue"}
      PROVE  /\ ColoursFit
             /\ Cardinality(red \cap active) \in Nat
             /\ Cardinality(red \cap active) >= 2 => CherriesIn(red) # {}
             /\ Cardinality(blue \cap active) >= 2 => CherriesIn(blue) # {}
  <2>1. ViewsFit /\ ColoursFit
    BY <1>2 DEF DInv
  <2>2. PICK n \in T1, m \in T1 :
           red \cap active = n \cap active /\ blue \cap active = m \cap active
    BY <2>1 DEF ColoursFit, Grouped
  <2> QED
    BY <1>1, <2>1, <2>2, ColourHasCherry, ActiveIsFinite
<1> QED
  BY <1>2 DEF FallbacksUnreached, ColoursFit, DInv

-----------------------------------------------------------------------------
(* The steps of a pass.                                                    *)

SameTrees == UNCHANGED <<trees, order>>

LEMMA SameTreesFit ==
    ASSUME SameTrees
    PROVE  T1' = T1 /\ T2' = T2 /\ Taxa' = Taxa /\ (OrderFits => OrderFits')
BY DEF SameTrees, T1, T2, Taxa, OrderFits

\* The views of a step that cuts off x, or nothing.
LEMMA ViewsStayFit ==
    ASSUME SameTrees, ViewsFit, active' \subseteq active,
           Avoids(cuts1', active'), cuts2' \subseteq NodesOrNone(T2)
    PROVE  ViewsFit'
BY SameTreesFit DEF ViewsFit

\* Views do not change.
LEMMA FewerActiveFit ==
    ASSUME SameTrees, ViewsFit, active' \subseteq active,
           cuts1' = cuts1, cuts2' = cuts2
    PROVE  ViewsFit'
BY SameTreesFit, AvoidsFewer, ViewsStayFit DEF ViewsFit

\* Colours fit as long as the active leaves become fewer and leave enough.
LEMMA ColoursStayFit ==
    ASSUME SameTrees, ColoursFit, red' = red, blue' = blue, active' \subseteq active,
           Cardinality(red \cap active') >= 2, blue \cap active' # {}
    PROVE  ColoursFit'
<1>1. PICK n \in T1, m \in T1 :
         red \cap active = n \cap active /\ blue \cap active = m \cap active
  BY DEF ColoursFit, Grouped
<1>2. red \cap active' = n \cap active' /\ blue \cap active' = m \cap active'
  BY <1>1
<1>3. Grouped'
  BY <1>1, <1>2, SameTreesFit DEF Grouped
<1> QED
  BY <1>3 DEF ColoursFit

\* Finalizing a leaf, of whatever colour.
LEMMA FinalizeFits ==
    ASSUME SameTrees, IsTree(T2, Taxa), ViewsFit, NEW x, Finalize(x)
    PROVE  ViewsFit'
<1>1. /\ cuts1' = CutOffLeaf(T1, cuts1, active, x)
      /\ cuts2' = CutOffLeaf(T2, cuts2, active, x)
      /\ active' = active \ {x}
  BY DEF Finalize
<1>2. Avoids(cuts1', active')
  <2>1. Avoids(cuts1, active) /\ active' \subseteq active \ {x}
    BY <1>1 DEF ViewsFit
  <2> QED
    BY <1>1, <2>1, CutOffAvoids
<1>3. cuts2' \subseteq NodesOrNone(T2)
  BY <1>1, CutsAreNodes DEF ViewsFit
<1> QED
  BY <1>1, <1>2, <1>3, ViewsStayFit

\* Resolving a pair, of whatever colour.
LEMMA OneLeftFits ==
    ASSUME SameTrees, ViewsFit, NEW u, NEW v, OneLeft(u, v)
    PROVE  ViewsFit'
BY ViewsStayFit DEF OneLeft

\* Where no set is under work only the views have to fit.
LEMMA NoSetUnderWork ==
    ASSUME DInv, SameTrees, ViewsFit',
           pc' \notin {"main", "resolveSet", "resolveBlue"}
    PROVE  DInv'
BY SameTreesFit DEF DInv

LEMMA FinalizeNextFits ==
    ASSUME DInv, SameTrees, FinalizeNext
    PROVE  DInv'
<1>1. ViewsFit /\ IsTree(T2, Taxa)
  BY BothAreTrees DEF DInv, FinalizeNext
<1>2. ViewsFit'
  BY <1>1, FinalizeFits DEF FinalizeNext
<1>3. pc' \in {"preprocess", "finalize"}
  BY DEF FinalizeNext
<1> QED
  BY <1>2, <1>3, NoSetUnderWork

LEMMA PreprocessFits ==
    ASSUME DInv, SameTrees, MergeShared \/ FinalizeAlone
    PROVE  DInv'
<1>1. pc = "preprocess" /\ pc' = pc
  BY DEF MergeShared, FinalizeAlone
<1>2. ViewsFit
  BY <1>1 DEF DInv
<1>3. CASE MergeShared
  <2>1. active' \subseteq active /\ cuts1' = cuts1 /\ cuts2' = cuts2
    BY <1>3 DEF MergeShared
  <2> QED
    BY <1>1, <1>2, <2>1, FewerActiveFit, NoSetUnderWork
<1>4. CASE FinalizeAlone
  <2>1. /\ cuts1' = CutOffLeaf(T1, cuts1, active, FirstAlone)
        /\ active' = active \ {FirstAlone} /\ cuts2' = cuts2
    BY <1>4 DEF FinalizeAlone
  <2>2. Avoids(cuts1', active')
    BY <1>2, <2>1, CutOffAvoids DEF ViewsFit
  <2>3. ViewsFit'
    <3>1. active' \subseteq active /\ cuts2' \subseteq NodesOrNone(T2)
      BY <1>2, <2>1 DEF ViewsFit
    <3> QED
      BY <1>2, <2>2, <3>1, ViewsStayFit
  <2> QED
    BY <1>1, <2>3, NoSetUnderWork
<1> QED
  BY <1>3, <1>4

\* Nothing shared and nothing alone: what is left is incompatible.
LEMMA PreprocessedFits ==
    ASSUME DInv, SameTrees, Preprocessed
    PROVE  DInv'
<1>1. /\ pc = "preprocess" /\ pc' = "main" /\ SharedCherries = {} /\ AloneLeaves = {}
      /\ active' = active /\ cuts1' = cuts1 /\ cuts2' = cuts2
  BY DEF Preprocessed, passVars
<1>2. ViewsFit /\ IsTree(T1, Taxa) /\ IsTree(T2, Taxa)
  BY <1>1, BothAreTrees DEF DInv
<1>3. ASSUME Cardinality(active) >= 2
      PROVE  ~ Compatible(active)
  <2>1. SUFFICES ASSUME Compatible(active) PROVE FALSE
    OBVIOUS
  <2>2. active \cap active = active
    OBVIOUS
  <2>3. Cardinality(active) \in Nat /\ IsFiniteSet(active)
    BY <1>2, <2>2, ActiveIsFinite
  <2>4. active # {}
    BY <1>3, FS_EmptySet
  <2>5. AloneLeaves = {l \in active : AloneInTree(T2, cuts2, active, l)}
    BY <1>3, <2>3 DEF AloneLeaves
  <2>6. \A k \in active : ~ AloneInTree(T2, cuts2, active, k)
    BY <1>1, <2>5
  <2>7. Induced(T1, active) = Induced(T2, active)
    BY <2>1 DEF Compatible
  <2>8. active \in SUBSET Taxa /\ Avoids(cuts1, active) /\ cuts2 \subseteq NodesOrNone(T2)
    BY <1>2 DEF ViewsFit
  <2>9. \E p \in Cherries(T1, cuts1, active) : ActiveSiblings(T2, cuts2, active, p)
    BY <1>2, <2>4, <2>6, <2>7, <2>8, CompatibleLeavesShareCherry
  <2> QED
    BY <1>1, <2>9 DEF SharedCherries
<1>4. Compatible(active)' <=> Compatible(active)
  BY <1>1, SameTreesFit DEF Compatible
<1>5. ViewsFit'
  BY <1>1, <1>2, FewerActiveFit
<1>6. OrderFits'
  BY SameTreesFit DEF DInv
<1> QED
  BY <1>1, <1>3, <1>4, <1>5, <1>6 DEF DInv

\* A set is taken into work.
LEMMA ChooseSetFits ==
    ASSUME DInv, SameTrees, ChooseSet
    PROVE  DInv'
<1>1. /\ pc = "main" /\ pc' = "resolveSet" /\ Cardinality(active) >= 2
      /\ red' = Orient(MinIncompat) /\ blue' = MinIncompat \ Orient(MinIncompat)
      /\ active' = active /\ cuts1' = cuts1 /\ cuts2' = cuts2
  BY DEF ChooseSet
<1>2. /\ ViewsFit /\ IsTree(T1, Taxa) /\ IsTree(T2, Taxa)
      /\ ~ Compatible(active) /\ active \in SUBSET Taxa
  BY <1>1, BothAreTrees DEF DInv, ViewsFit
<1>3. PICK n \in T1 : MinIncompat = n \cap active /\ Cardinality(n \cap active) >= 3
  BY <1>2, MinIncompatIsBelow
<1>4. Cardinality(MinIncompat) >= 3
  BY <1>3
<1>5. PICK x \in T1, y \in T1 :
         /\ x \cap y = {}
         /\ red' = x \cap active
         /\ blue' = y \cap active /\ red' \subseteq MinIncompat
         /\ y \cap active # {} /\ Cardinality(x \cap active) >= 2
  <2>1. OrientsWell(MinIncompat)
    BY <1>2, <1>3, <1>4, OrientIsSide
  <2> QED
    BY <1>1, <2>1 DEF OrientsWell
<1>6. red' \cup blue' = MinIncompat
  BY <1>1, <1>5
<1>7. /\ red' \cap blue' = {} /\ red' \cap active = x \cap active
      /\ blue' \cap active = y \cap active
  BY <1>5
<1>8. Grouped'
  BY <1>1, <1>7, SameTreesFit DEF Grouped
<1>9. ColoursFit'
  BY <1>1, <1>4, <1>5, <1>6, <1>7, <1>8 DEF ColoursFit
<1>10. ViewsFit'
  BY <1>1, <1>2, FewerActiveFit
<1>11. OrderFits'
  BY SameTreesFit DEF DInv
<1> QED
  BY <1>1, <1>9, <1>10, <1>11 DEF DInv

\* A cherry of a colour is resolved: one of its leaves becomes inactive.
LEMMA ResolvedCherry ==
    ASSUME OrderFits, ViewsFit, SameTrees,
           NEW S, CherriesIn(S) # {}, ResolveCherryIn(S)
    PROVE  /\ ViewsFit' /\ red' = red /\ blue' = blue /\ pc' = pc
           /\ \E x \in S \cap active : active' = active \ {x}
<1>1. IsTree(T1, Taxa) /\ IsTree(T2, Taxa)
  BY BothAreTrees
<1>2. PICK p \in {FirstOf(T1, CherriesIn(S))} :
         ResolvePair(FirstLeaf(T1, p), SecondLeaf(T1, p), S)
  BY DEF ResolveCherryIn
<1>3. OneLeft(FirstLeaf(T1, p), SecondLeaf(T1, p))
  BY <1>1, <1>2, ResolvedPair
<1>4. CherriesIn(S) \in SUBSET Cherries(T1, cuts1, active)
  BY DEF CherriesIn
<1>5. /\ p \in CherriesIn(S) /\ p \subseteq active
      /\ FirstLeaf(T1, p) \in p /\ SecondLeaf(T1, p) \in p
  BY <1>1, <1>2, <1>4, FirstCherry DEF ViewsFit
<1>6. p \subseteq S
  BY <1>5 DEF CherriesIn
<1>7. ViewsFit'
  BY <1>3, OneLeftFits
<1>8. \E x \in S \cap active : active' = active \ {x}
  BY <1>3, <1>5, <1>6 DEF OneLeft
<1> QED
  BY <1>7, <1>8 DEF ResolveCherryIn

LEMMA ResolveRedPairFits ==
    ASSUME DInv, SameTrees, ResolveRedPair
    PROVE  DInv'
<1>1. /\ pc = "resolveSet" /\ Cardinality(red \cap active) >= 3
      /\ CherriesIn(red) # {} /\ ResolveCherryIn(red)
  BY DEF ResolveRedPair, MoreThanPairIsRed
<1>2. OrderFits /\ ViewsFit /\ ColoursFit /\ IsTree(T1, Taxa)
  BY <1>1, BothAreTrees DEF DInv
<1>3. /\ ViewsFit' /\ red' = red /\ blue' = blue /\ pc' = pc
      /\ \E x \in red \cap active : active' = active \ {x}
  BY <1>1, <1>2, ResolvedCherry
<1>4. PICK x \in red \cap active : active' = active \ {x}
  BY <1>3
<1>5. red \cap active' = (red \cap active) \ {x} /\ blue \cap active' = blue \cap active
  BY <1>2, <1>4 DEF ColoursFit
<1>6. IsFiniteSet(red \cap active) /\ Cardinality(red \cap active) \in Nat
  BY <1>2, ActiveIsFinite
<1>7. Cardinality((red \cap active) \ {x}) = Cardinality(red \cap active) - 1
  BY <1>6, FS_RemoveElement
<1>8. Cardinality(red \cap active') >= 2 /\ blue \cap active' # {}
  <2>1. Cardinality(red \cap active') = Cardinality(red \cap active) - 1
    BY <1>5, <1>7
  <2>2. blue \cap active' # {}
    BY <1>2, <1>5 DEF ColoursFit
  <2> QED
    BY <1>1, <1>6, <2>1, <2>2
<1>9. ColoursFit'
  BY <1>2, <1>3, <1>4, <1>8, ColoursStayFit
<1> QED
  BY <1>1, <1>2, <1>3, <1>9, SameTreesFit DEF DInv

LEMMA ResolveBluePairFits ==
    ASSUME DInv, SameTrees, ResolveBluePair
    PROVE  DInv'
<1>1. /\ pc = "resolveBlue" /\ Cardinality(blue \cap active) >= 2
      /\ CherriesIn(blue) # {} /\ ResolveCherryIn(blue)
  BY DEF ResolveBluePair, MoreThanOneIsBlue
<1>2. /\ OrderFits /\ ViewsFit /\ ColoursFit /\ IsTree(T1, Taxa)
      /\ Cardinality(red \cap active) = 2
  BY <1>1, BothAreTrees DEF DInv
<1>3. /\ ViewsFit' /\ red' = red /\ blue' = blue /\ pc' = pc
      /\ \E x \in blue \cap active : active' = active \ {x}
  BY <1>1, <1>2, ResolvedCherry
<1>4. PICK x \in blue \cap active : active' = active \ {x}
  BY <1>3
<1>5. red \cap active' = red \cap active
  BY <1>2, <1>4 DEF ColoursFit
<1>6. blue \cap active' # {}
  <2>1. IsFiniteSet(blue \cap active)
    BY <1>2, ActiveIsFinite
  <2>2. PICK u \in blue \cap active, v \in blue \cap active : u # v
    BY <1>1, <2>1, MoreThanOne
  <2> QED
    BY <1>4, <2>2
<1>7. ColoursFit'
  BY <1>2, <1>3, <1>4, <1>5, <1>6, ColoursStayFit
<1> QED
  BY <1>1, <1>2, <1>3, <1>5, <1>7, SameTreesFit DEF DInv

\* A pair is resolved, and the leaf left is finalized next.
LEMMA LastPairResolved ==
    ASSUME DInv, SameTrees, pc # "three", NEW u, NEW v, ResolveLastPair(u, v)
    PROVE  DInv'
<1>1. ViewsFit /\ IsTree(T2, Taxa)
  BY BothAreTrees DEF DInv
<1>2. OneLeft(u, v)
  BY <1>1, BlockedPair DEF ResolveLastPair
<1>3. ViewsFit' /\ pc' = "finalize"
  BY <1>1, <1>2, OneLeftFits DEF ResolveLastPair
<1> QED
  BY <1>3, NoSetUnderWork

LEMMA LastRedPairFits ==
    ASSUME DInv, SameTrees, LastRedPair
    PROVE  DInv'
<1>1. /\ pc = "resolveSet" /\ ~ MoreThanPairIsRed
      /\ Cardinality(red \cap active) >= 2
  BY DEF LastRedPair
<1>2. OrderFits /\ ViewsFit /\ ColoursFit /\ IsTree(T1, Taxa)
  BY <1>1, BothAreTrees DEF DInv
<1>3. PICK u, v :
        \/ /\ active' = active \ {u}
           /\ pc' = "preprocess"
           /\ UNCHANGED <<cuts1, cuts2>>
        \/ /\ pc' = "finalize"
           /\ UNCHANGED <<cuts1, cuts2, active>>
        \/ ResolveLastPair(u, v)
        \/ /\ pc' = "resolveBlue"
           /\ UNCHANGED <<cuts1, cuts2, active, red, blue>>
  BY DEF LastRedPair, passVars
<1>4. CASE active' = active \ {u} /\ pc' = "preprocess" /\ UNCHANGED <<cuts1, cuts2>>
  BY <1>2, <1>4, FewerActiveFit, NoSetUnderWork
<1>5. CASE pc' = "finalize" /\ UNCHANGED <<cuts1, cuts2, active>>
  BY <1>2, <1>5, FewerActiveFit, NoSetUnderWork
<1>6. CASE ResolveLastPair(u, v)
  BY <1>1, <1>6, LastPairResolved
<1>7. CASE pc' = "resolveBlue" /\ UNCHANGED <<cuts1, cuts2, active, red, blue>>
  <2>1. Cardinality(red \cap active) \in Nat
    BY <1>2, ActiveIsFinite
  <2>2. Cardinality(red \cap active) = 2
    <3>1. FallbacksUnreached
      BY InvariantGivesFallbacks
    <3>2. ~ Cardinality(red \cap active) >= 3
      BY <1>1, <3>1 DEF FallbacksUnreached, MoreThanPairIsRed
    <3> QED
      BY <1>1, <2>1, <3>2
  <2>3. ViewsFit'
    BY <1>2, <1>7, FewerActiveFit
  <2>4. ColoursFit'
    BY <1>1, <1>2, <1>7, ColoursStayFit DEF ColoursFit
  <2> QED
    BY <1>2, <1>7, <2>2, <2>3, <2>4, SameTreesFit DEF DInv
<1> QED
  BY <1>3, <1>4, <1>5, <1>6, <1>7

LEMMA TripletInOneTreeFits ==
    ASSUME DInv, SameTrees, TripletInOneTree
    PROVE  DInv'
<1>1. ViewsFit /\ IsTree(T2, Taxa)
  BY BothAreTrees DEF DInv, TripletInOneTree
<1>2. PICK b, near, far :
         /\ cuts1' = CutOffLeaf(T1, cuts1, active, far)
         /\ cuts2' = CutOffLeaf(T2, Cut(T2, cuts2, Lca(T2, {near, b})), active, far)
         /\ active' \subseteq active \ {far}
         /\ pc' \in {"preprocess", "finalize"}
  <2>1. PICK b \in blue \cap active, reds \in {InOrder(red \cap active)} :
           \E far \in {IF reds[2] \in Lca(T2, {b, reds[1]}) THEN reds[1] ELSE reds[2]} :
           \E near \in (red \cap active) \ {far} :
           \E C \in {CutOffLeaf(T2, Cut(T2, cuts2, Lca(T2, {near, b})), active, far)} :
           \E siblings \in {ActiveSiblings(T2, C, active \ {far}, {near, b})} :
              /\ cuts1' = CutOffLeaf(T1, cuts1, active, far)
              /\ cuts2' = C
              /\ active' = IF siblings THEN active \ {far, b} ELSE active \ {far}
              /\ dualSum' = IF siblings THEN dualSum + 1 ELSE dualSum
              /\ todo' = IF siblings THEN <<>> ELSE <<near, b>>
              /\ pc' = IF siblings THEN "preprocess" ELSE "finalize"
    BY DEF TripletInOneTree
  <2>2. PICK far \in {IF reds[2] \in Lca(T2, {b, reds[1]}) THEN reds[1] ELSE reds[2]} :
           \E near \in (red \cap active) \ {far} :
           \E C \in {CutOffLeaf(T2, Cut(T2, cuts2, Lca(T2, {near, b})), active, far)} :
           \E siblings \in {ActiveSiblings(T2, C, active \ {far}, {near, b})} :
              /\ cuts1' = CutOffLeaf(T1, cuts1, active, far)
              /\ cuts2' = C
              /\ active' = IF siblings THEN active \ {far, b} ELSE active \ {far}
              /\ pc' = IF siblings THEN "preprocess" ELSE "finalize"
    BY <2>1
  <2>3. PICK near \in (red \cap active) \ {far} :
           \E C \in {CutOffLeaf(T2, Cut(T2, cuts2, Lca(T2, {near, b})), active, far)} :
           \E siblings \in {ActiveSiblings(T2, C, active \ {far}, {near, b})} :
              /\ cuts1' = CutOffLeaf(T1, cuts1, active, far)
              /\ cuts2' = C
              /\ active' = IF siblings THEN active \ {far, b} ELSE active \ {far}
              /\ pc' = IF siblings THEN "preprocess" ELSE "finalize"
    BY <2>2
  <2>4. active \ {far, b} \subseteq active \ {far}
    OBVIOUS
  <2> QED
    BY <2>3, <2>4
<1>3. Avoids(cuts1', active')
  BY <1>1, <1>2, CutOffAvoids DEF ViewsFit
<1>4. cuts2' \subseteq NodesOrNone(T2)
  <2>1. {near, b} # {}
    OBVIOUS
  <2>2. Lca(T2, {near, b}) \in T2
    BY <1>1, <2>1, LcaIsNode
  <2>3. Cut(T2, cuts2, Lca(T2, {near, b})) \subseteq NodesOrNone(T2)
    BY <1>1, <2>2 DEF Cut, NodesOrNone, ViewsFit
  <2> QED
    BY <1>1, <1>2, <2>3, CutsAreNodes
<1>5. ViewsFit'
  <2>1. active' \subseteq active
    BY <1>2
  <2> QED
    BY <1>1, <1>3, <1>4, <2>1, ViewsStayFit
<1> QED
  BY <1>2, <1>5, NoSetUnderWork

LEMMA FinalizeRemainderFits ==
    ASSUME DInv, SameTrees, FinalizeRemainder
    PROVE  DInv'
<1>1. /\ pc = "resolveBlue" /\ pc' \in {"preprocess", "finalize"}
      /\ active' = active /\ cuts1' = cuts1 /\ cuts2' = cuts2
  BY DEF FinalizeRemainder
<1>2. ViewsFit'
  BY <1>1, FewerActiveFit DEF DInv
<1> QED
  BY <1>1, <1>2, NoSetUnderWork

LEMMA TripletInTwoTreesFits ==
    ASSUME DInv, SameTrees, TripletInTwoTrees
    PROVE  DInv'
<1>1. ViewsFit /\ IsTree(T2, Taxa) /\ pc' = "lastPair"
  BY BothAreTrees DEF DInv, TripletInTwoTrees
<1>2. PICK apart : Finalize(apart)
  BY DEF TripletInTwoTrees
<1>3. ViewsFit'
  BY <1>1, <1>2, FinalizeFits
<1> QED
  BY <1>1, <1>3, NoSetUnderWork

LEMMA LastPairFits ==
    ASSUME DInv, SameTrees, LastPair
    PROVE  DInv'
<1>1. pc = "lastPair" /\ ViewsFit
  BY DEF DInv, LastPair
<1>2. PICK u, v :
        \/ \E w \in {u, v} : /\ active' = active \ {w}
                             /\ pc' = "preprocess"
                             /\ cuts1' = cuts1 /\ cuts2' = cuts2
        \/ ResolveLastPair(u, v)
  <2>1. PICK u \in {InTripletOrder[1]}, v \in {InTripletOrder[2]} :
          \/ /\ active' = active \ {IF v \in blue THEN v ELSE u}
             /\ pc' = "preprocess"
             /\ cuts1' = cuts1 /\ cuts2' = cuts2
          \/ ResolveLastPair(u, v)
    BY DEF LastPair
  <2> QED
    BY <2>1
<1>3. CASE \E w \in {u, v} : /\ active' = active \ {w}
                             /\ pc' = "preprocess"
                             /\ cuts1' = cuts1 /\ cuts2' = cuts2
  <2>1. active' \subseteq active
    BY <1>3
  <2> QED
    BY <1>1, <1>3, <2>1, FewerActiveFit, NoSetUnderWork
<1>4. CASE ResolveLastPair(u, v)
  BY <1>1, <1>4, LastPairResolved
<1> QED
  BY <1>2, <1>3, <1>4

\* Every step of a pass.
LEMMA RedBlueFits ==
    ASSUME DInv, RedBlue
    PROVE  DInv'
<1>1. SameTrees
  BY DEF RedBlue, SameTrees
<1> QED
  BY <1>1, FinalizeNextFits, PreprocessFits, PreprocessedFits, ChooseSetFits,
     ResolveRedPairFits, LastRedPairFits, ResolveBluePairFits,
     TripletInOneTreeFits, FinalizeRemainderFits, TripletInTwoTreesFits,
     LastPairFits DEF RedBlue, RedBlueStep

-----------------------------------------------------------------------------
(* The passes.                                                             *)

\* A new pass begins with views that fit.
LEMMA NewPassFits ==
    ASSUME NewPass, trees' = trees
    PROVE  ViewsFit'
BY DEF NewPass, ViewsFit, Taxa, Avoids

\* The orderings go through all pairs of two different trees.
LEMMA NextOrderFits ==
    ASSUME OrderFits, ~ IsLastOrder
    PROVE  /\ NextOrder \in (DOMAIN trees) \X (DOMAIN trees)
           /\ NextOrder[1] # NextOrder[2]
<1>1. PICK n \in Nat : Len(trees) = n /\ DOMAIN trees = 1..n
  BY DualInstancesAreTrees DEF OrderFits
<1>2. PICK i \in 1..n, j \in 1..n : order = <<i, j>> /\ i # j
  BY <1>1 DEF OrderFits
<1>3. order[1] = i /\ order[2] = j /\ i \in Nat /\ j \in Nat
  BY <1>2
<1>4. NextOrder = IF i < j THEN <<j, i>>
                  ELSE IF i < n THEN <<j, i + 1>> ELSE <<j + 1, j + 2>>
  BY <1>1, <1>3 DEF NextOrder
<1>5. CASE i < j
  BY <1>1, <1>4, <1>5
<1>6. CASE j < i /\ i < n
  <2>1. NextOrder = <<j, i + 1>> /\ i + 1 \in 1..n /\ j # i + 1
    BY <1>4, <1>6
  <2> QED
    BY <1>1, <2>1
<1>7. CASE j < i /\ i = n
  <2>1. j # n - 1
    BY <1>1, <1>2, <1>7 DEF IsLastOrder
  <2>2. NextOrder = <<j + 1, j + 2>>
    BY <1>4, <1>7
  <2>3. j + 1 \in 1..n /\ j + 2 \in 1..n /\ j + 1 # j + 2
    BY <1>7, <2>1
  <2> QED
    BY <1>1, <2>2, <2>3
<1>8. i < j \/ (j < i /\ i < n) \/ (j < i /\ i = n)
  BY <1>2
<1> QED
  BY <1>5, <1>6, <1>7, <1>8

LEMMA FinishPassFits ==
    ASSUME DInv, FinishPass
    PROVE  DInv'
<1>1. trees' = trees /\ NewPass /\ pc' \in {"done", "preprocess"}
  BY DEF FinishPass, EndPass
<1>2. ViewsFit'
  BY <1>1, NewPassFits
<1>3. OrderFits'
  <2>1. CASE IsLastOrder
    BY <1>1, <2>1 DEF FinishPass, EndPass, DInv, OrderFits
  <2>2. CASE ~ IsLastOrder
    <3>1. order' = NextOrder
      BY <2>2 DEF FinishPass, EndPass
    <3> QED
      BY <1>1, <2>2, <3>1, NextOrderFits DEF DInv, OrderFits
  <2> QED
    BY <2>1, <2>2
<1> QED
  BY <1>1, <1>2, <1>3 DEF DInv

\* It holds to begin with and is kept by every step.
LEMMA DInvIsInductive ==
    /\ Init => DInv
    /\ DInv /\ [Next]_vars => DInv'
<1>1. ASSUME Init PROVE DInv
  <2>1. /\ trees \in DualInstances /\ order = <<1, 2>> /\ pc \in {"three", "preprocess"}
        /\ cuts1 = {} /\ cuts2 = {} /\ active = Taxa
    BY <1>1 DEF Init, InitPass, Taxa
  <2>2. OrderFits
    <3>1. DOMAIN trees = 1..Len(trees) /\ Len(trees) \in Nat /\ Len(trees) >= 2
      BY <2>1, DualInstancesAreTrees
    <3> QED
      BY <2>1, <3>1 DEF OrderFits
  <2>3. ViewsFit
    BY <2>1 DEF ViewsFit, Avoids
  <2> QED
    BY <2>1, <2>2, <2>3 DEF DInv
<1>2. ASSUME DInv, [Next]_vars PROVE DInv'
  <2>1. CASE ThreeApprox
    <3>1. pc = "three" /\ pc' = pc /\ SameTrees
      BY <2>1 DEF ThreeApprox, ThreeApproxStep, SameTrees
    <3> QED
      BY <1>2, <3>1, SameTreesFit DEF DInv
  <2>2. CASE StartRedBlue
    <3>1. pc' = "preprocess" /\ SameTrees /\ NewPass /\ trees' = trees
      BY <2>2 DEF StartRedBlue, SameTrees
    <3>2. ViewsFit'
      BY <3>1, NewPassFits
    <3> QED
      BY <1>2, <3>1, <3>2, NoSetUnderWork
  <2>3. CASE RedBlue
    BY <1>2, <2>3, RedBlueFits
  <2>4. CASE FinishPass
    BY <1>2, <2>4, FinishPassFits
  <2>5. CASE Abort
    <3>1. pc' = "done" /\ SameTrees /\ NewPass /\ trees' = trees
      BY <2>5 DEF Abort, SameTrees
    <3>2. ViewsFit'
      BY <3>1, NewPassFits
    <3> QED
      BY <1>2, <3>1, <3>2, NoSetUnderWork
  <2>6. CASE UNCHANGED vars
    <3>1. SameTrees /\ UNCHANGED <<cuts1, cuts2, active, red, blue, pc>>
      BY <2>6 DEF vars, SameTrees
    <3>2. /\ Compatible(active)' <=> Compatible(active)
          /\ ViewsFit' <=> ViewsFit
          /\ ColoursFit' <=> ColoursFit
      BY <3>1, SameTreesFit DEF Compatible, ViewsFit, ColoursFit, Grouped
    <3> QED
      BY <1>2, <3>1, <3>2, SameTreesFit DEF DInv
  <2> QED
    BY <1>2, <2>1, <2>2, <2>3, <2>4, <2>5, <2>6 DEF Next, Rest
<1> QED
  BY <1>1, <1>2

\* The defensive branches of the Red-Blue pass are never taken.
THEOREM FallbacksAreUnreached == Spec => []FallbacksUnreached
<1>1. Init => DInv
  BY DInvIsInductive
<1>2. DInv /\ [Next]_vars => DInv'
  BY DInvIsInductive
<1>3. DInv => FallbacksUnreached
  BY InvariantGivesFallbacks
<1> QED
  BY <1>1, <1>2, <1>3, PTL DEF Spec
=============================================================================
