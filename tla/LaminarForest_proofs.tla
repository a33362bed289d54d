------------------------- MODULE LaminarForest_proofs -------------------------
(***************************************************************************)
(* The edits of LaminarForest keep forests well-formed, and the undo of an *)
(* edit gives the edited forest back, whatever the forest and the node.    *)
(* Agreement forests are forests of cut trees: their blocks are told       *)
(* apart, in each tree, by one cut fewer than there are blocks.            *)
(***************************************************************************)
EXTENDS AgreementForest, FiniteSetTheorems, TLAPS

-----------------------------------------------------------------------------
(* Sets of nodes have minimal and maximal members, as labels are finite.   *)

\* Some member of a nonempty set of nodes has no other member inside.
LEMMA InnermostExists ==
    ASSUME NEW M \in SUBSET Node, M # {}
    PROVE  \E x \in M : \A y \in M : y \subseteq x => y = x
<1> DEFINE R == StrictSubsetOrdering(Labels)
<1>1. IsWellFoundedOn(R, FiniteSubsetsOf(Labels))
  BY FS_StrictSubsetOrderingWellFounded
<1>2. FiniteSubsetsOf(Labels) = SUBSET Labels
  BY LabelsAreTaxa, FS_FiniteSubsetsOfFinite
<1>3. M \subseteq FiniteSubsetsOf(Labels)
  BY <1>2 DEF Node
<1> HIDE DEF R
<1>4. PICK x \in M : \A y \in M : ~ (<<y, x>> \in R)
  BY <1>1, <1>3, WFMin
<1>5. \A y \in M : y \subseteq x => y = x
  BY <1>4 DEF R, StrictSubsetOrdering, Node
<1> QED
  BY <1>5

\* Some member of a nonempty set of nodes lies in no other member.
LEMMA OutermostExists ==
    ASSUME NEW M \in SUBSET Node, M # {}
    PROVE  \E x \in M : \A y \in M : x \subseteq y => y = x
<1> DEFINE C == {Labels \ y : y \in M}
<1>a. \A y : y \in C <=> \E x \in M : y = Labels \ x
  OBVIOUS
<1> HIDE DEF C
<1>b. PICK m \in M : TRUE
  OBVIOUS
<1>c. \A y \in C : y \subseteq Labels
  BY <1>a
<1>1. C \in SUBSET Node /\ C # {}
  <2>1. Labels \ m \in C
    BY <1>a, <1>b
  <2> QED
    BY <1>c, <2>1 DEF Node
<1>2. PICK z \in C : \A w \in C : w \subseteq z => w = z
  BY <1>1, InnermostExists
<1>3. PICK x \in M : z = Labels \ x
  BY <1>a, <1>2
<1>4. ASSUME NEW y \in M, x \subseteq y
      PROVE  y = x
  <2>1. Labels \ y \in C /\ Labels \ y \subseteq z
    BY <1>a, <1>3, <1>4
  <2>2. Labels \ y = Labels \ x
    BY <1>2, <1>3, <2>1
  <2> QED
    BY <2>2 DEF Node
<1> QED
  BY <1>4

\* Every node lies in a tree of the forest.
LEMMA RootAbove ==
    ASSUME NEW F \in Forest, NEW m \in F
    PROVE  \E R \in Roots(F) : m \subseteq R
<1> DEFINE M == {n \in F : m \subseteq n}
<1>1. M \in SUBSET Node /\ M # {}
  BY DEF Forest
<1>2. PICK x \in M : \A y \in M : x \subseteq y => y = x
  BY <1>1, OutermostExists
<1>3. x \in Roots(F)
  BY <1>2 DEF Roots
<1> QED
  BY <1>2, <1>3

Above(n, m) == n \subseteq m /\ n # m

\* What a cut of n leaves of the labels of a node m.
Trim(n, m) == IF Above(n, m) THEN m \ n ELSE m

\* A cut trims every node of the forest.
LEMMA CutEdgeTrims ==
    ASSUME NEW F, NEW n
    PROVE  CutEdge(F, n) = {Trim(n, m) : m \in F}
BY DEF CutEdge, Trim, Above

\* The innermost node above n is its parent.
LEMMA ParentIsInnermost ==
    ASSUME NEW F \in Forest, NEW n \in F, n # NullNode,
           NEW q \in F, Above(n, q),
           \A m \in F : Above(n, m) => q \subseteq m
    PROVE  HasParent(F, n) /\ Parent(F, n) = q
<1>1. HasParent(F, n)
  BY DEF HasParent, Above
<1>2. q \subseteq Labels
  BY DEF Forest, Node
<1>3. Parent(F, n) = {k \in Labels : \A m \in F : Above(n, m) => k \in m}
  BY <1>1 DEF Parent, Above
<1>4. Parent(F, n) \subseteq q
  BY <1>3
<1>5. q \subseteq Parent(F, n)
  BY <1>2, <1>3
<1> QED
  BY <1>1, <1>4, <1>5

\* A node, its sibling and its parent.
LEMMA Family ==
    ASSUME NEW F \in Forest, WellFormed(F), NEW n \in F, HasParent(F, n)
    PROVE  /\ Parent(F, n) \in F /\ Sibling(F, n) \in F
           /\ n # {} /\ Sibling(F, n) # {}
           /\ n \subseteq Labels
           /\ n \cap Sibling(F, n) = {}
           /\ Parent(F, n) = n \cup Sibling(F, n)
           /\ Above(n, Parent(F, n))
           /\ \A m \in F : Above(n, m) => Parent(F, n) \subseteq m
<1>1. Parent(F, n) \in F /\ Sibling(F, n) \in F
  BY DEF WellFormed
<1>2. n # {} /\ Sibling(F, n) # {} /\ n \subseteq Labels
  BY <1>1 DEF WellFormed, NullNode, Forest, Node
<1>3. Parent(F, n) = {k \in Labels : \A m \in F : Above(n, m) => k \in m}
  BY DEF Parent, Above
<1>4. n \subseteq Parent(F, n)
  BY <1>2, <1>3 DEF Above
<1>5. Sibling(F, n) = Parent(F, n) \ n
  BY DEF Sibling
<1>6. \A m \in F : Above(n, m) => Parent(F, n) \subseteq m
  BY <1>3
<1>7. Above(n, Parent(F, n))
  BY <1>2, <1>4, <1>5 DEF Above
<1> QED
  BY <1>1, <1>2, <1>4, <1>5, <1>6, <1>7

\* Whatever lies above a sibling lies above the parent.
LEMMA AboveSibling ==
    ASSUME NEW F \in Forest, WellFormed(F), NEW n \in F, HasParent(F, n),
           NEW m \in F, Above(Sibling(F, n), m)
    PROVE  Above(n, m) /\ Parent(F, n) \subseteq m
<1> DEFINE p == Parent(F, n)
           s == Sibling(F, n)
<1> HIDE DEF p, s
<1>1. /\ p \in F /\ s \in F /\ n # {} /\ s # {} /\ n \cap s = {}
      /\ p = n \cup s
      /\ \A x \in F : Above(n, x) => p \subseteq x
  BY Family DEF p, s
<1>2. s \subseteq m /\ s # m
  BY DEF Above, s
<1>3. /\ m \cap n = {} \/ m \subseteq n \/ n \subseteq m
      /\ m \cap p = {} \/ m \subseteq p \/ p \subseteq m
  BY <1>1 DEF WellFormed, Laminar
<1>4. n \subseteq m
  <2>1. CASE m \cap n = {}
    BY <2>1, <1>1, <1>2, <1>3
  <2>2. CASE m \subseteq n
    BY <2>2, <1>1, <1>2
  <2> QED
    BY <2>1, <2>2, <1>3
<1>5. Above(n, m)
  BY <1>1, <1>2, <1>4 DEF Above
<1> QED
  BY <1>1, <1>5 DEF p

\* The sibling is the other child of the parent only.
LEMMA ParentOfSibling ==
    ASSUME NEW F \in Forest, WellFormed(F), NEW n \in F, HasParent(F, n),
           NEW q \in F, Above(n, q), q \ n \in F
    PROVE  q = Parent(F, n) /\ q \ n = Sibling(F, n)
<1> DEFINE p == Parent(F, n)
           s == Sibling(F, n)
           t == q \ n
<1> HIDE DEF p, s
<1>1. /\ p \in F /\ s \in F /\ n # {} /\ s # {} /\ n \cap s = {}
      /\ p = n \cup s /\ p \subseteq q
  BY Family DEF p, s
<1>2. n \subseteq q
  BY DEF Above
<1>3. p \cap t = {} \/ p \subseteq t \/ t \subseteq p
  BY <1>1 DEF WellFormed, Laminar
<1>4. t \subseteq p
  <2>1. CASE p \cap t = {}
    BY <2>1, <1>1
  <2>2. CASE p \subseteq t
    BY <2>2, <1>1
  <2> QED
    BY <2>1, <2>2, <1>3
<1>5. q = p
  BY <1>1, <1>2, <1>4
<1> QED
  BY <1>1, <1>5 DEF p, s

-----------------------------------------------------------------------------
(* DeleteEdgeAction and its undo.                                          *)

\* Undoing a cut with the sibling recorded when it was made gives the forest
\* back: no node but the parent is lost, none is invented.
THEOREM CutIsUndone ==
    ASSUME NEW F \in Forest, WellFormed(F), NEW n \in F, HasParent(F, n)
    PROVE  UncutEdge(CutEdge(F, n), n, Sibling(F, n)) = F
<1> DEFINE p == Parent(F, n)
           s == Sibling(F, n)
           G == CutEdge(F, n)
           Join(x) == IF Above(s, x) THEN x \cup n ELSE x
<1> HIDE DEF p, s
<1>1. /\ p \in F /\ s \in F /\ n # {} /\ s # {} /\ n \cap s = {}
      /\ p = n \cup s /\ Above(n, p)
      /\ \A m \in F : Above(n, m) => p \subseteq m
  BY Family DEF p, s
<1>2. \A m \in F : Above(s, m) => Above(n, m)
  BY AboveSibling DEF s
<1>3. UncutEdge(G, n, s) = {Join(x) : x \in G} \cup {p}
  BY <1>1 DEF UncutEdge, Above
<1>4. \A m \in F : m # p => Join(Trim(n, m)) = m
  <2> SUFFICES ASSUME NEW m \in F, m # p PROVE Join(Trim(n, m)) = m
    OBVIOUS
  <2>1. CASE Above(n, m)
    <3>1. Trim(n, m) = m \ n /\ p \subseteq m
      BY <2>1, <1>1 DEF Trim
    <3>2. Above(s, m \ n)
      BY <3>1, <1>1 DEF Above
    <3>3. (m \ n) \cup n = m
      BY <3>1, <1>1
    <3> QED
      BY <3>1, <3>2, <3>3
  <2>2. CASE ~ Above(n, m)
    BY <2>2, <1>2 DEF Trim
  <2> QED
    BY <2>1, <2>2
<1>5. Join(Trim(n, p)) = s
  <2>1. Trim(n, p) = s
    BY <1>1 DEF Trim
  <2> QED
    BY <2>1 DEF Above
<1>6. {Join(x) : x \in G} = {Join(Trim(n, m)) : m \in F}
  BY CutEdgeTrims
<1>7. {Join(Trim(n, m)) : m \in F} \cup {p} = F
  <2>1. \A x \in F : x # p => x \in {Join(Trim(n, m)) : m \in F}
    BY <1>4
  <2>2. \A m \in F : Join(Trim(n, m)) \in F
    BY <1>1, <1>4, <1>5
  <2>3. {Join(Trim(n, m)) : m \in F} \subseteq F
    BY <2>2
  <2>4. F \subseteq {Join(Trim(n, m)) : m \in F} \cup {p}
    BY <2>1
  <2> QED
    BY <1>1, <2>3, <2>4
<1> QED
  BY <1>3, <1>6, <1>7 DEF s

\* The nodes of a forest in which the edge above n is cut, and who is above
\* whom: a node keeps the nodes above it, less the labels of n.
LEMMA TrimmedNodes ==
    ASSUME NEW F \in Forest, WellFormed(F), NEW n \in F, n # {}
    PROVE  /\ CutEdge(F, n) \in Forest
           /\ NullNode \notin CutEdge(F, n)
           /\ \A m \in F : Above(n, m) => Trim(n, m) = m \ n
           /\ \A m \in F : ~ Above(n, m) => Trim(n, m) = m
           /\ \A m \in F : m \subseteq n => Trim(n, m) = m
           /\ \A m \in F : m \cap n = {} => Trim(n, m) = m
<1>1. \A m \in F : Trim(n, m) \in Node /\ Trim(n, m) # {}
  BY DEF Trim, Above, Forest, Node, WellFormed, NullNode
<1>2. CutEdge(F, n) \in Forest /\ NullNode \notin CutEdge(F, n)
  BY <1>1, CutEdgeTrims DEF Forest, NullNode
<1> QED
  BY <1>2 DEF Trim, Above

\* DeleteEdgeAction leaves a forest.
THEOREM CutKeepsForest ==
    ASSUME NEW F \in Forest, WellFormed(F), NEW n \in F, HasParent(F, n)
    PROVE  CutEdge(F, n) \in Forest /\ WellFormed(CutEdge(F, n))
<1> DEFINE p == Parent(F, n)
           s == Sibling(F, n)
           G == CutEdge(F, n)
<1> HIDE DEF p, s, G
<1>1. /\ p \in F /\ s \in F /\ n # {} /\ s # {} /\ n \cap s = {}
      /\ p = n \cup s /\ Above(n, p) /\ n \subseteq Labels
      /\ \A m \in F : Above(n, m) => p \subseteq m
  BY Family DEF p, s
<1>2. /\ G \in Forest
      /\ NullNode \notin G
      /\ \A m \in F : Above(n, m) => Trim(n, m) = m \ n
      /\ \A m \in F : ~ Above(n, m) => Trim(n, m) = m
      /\ \A m \in F : m \subseteq n => Trim(n, m) = m
      /\ \A m \in F : m \cap n = {} => Trim(n, m) = m
  BY <1>1, TrimmedNodes DEF G
<1>3. G = {Trim(n, m) : m \in F}
  BY CutEdgeTrims DEF G
<1>4. \A m, x \in F : m \cap x = {} \/ m \subseteq x \/ x \subseteq m
  BY DEF WellFormed, Laminar
<1>5. Laminar(G)
  <2>1. SUFFICES ASSUME NEW x \in F, NEW y \in F
                 PROVE  \/ Trim(n, x) \cap Trim(n, y) = {}
                        \/ Trim(n, x) \subseteq Trim(n, y)
                        \/ Trim(n, y) \subseteq Trim(n, x)
    BY <1>3 DEF Laminar
  <2>2. ASSUME NEW v \in F, NEW w \in F, Above(n, v), ~ Above(n, w)
        PROVE  (v \ n) \cap w = {} \/ w \subseteq v \ n
    BY <1>4, <2>2 DEF Above
  <2>3. CASE Above(n, x) /\ Above(n, y)
    BY <1>2, <1>4, <2>3
  <2>4. CASE ~ Above(n, x) /\ ~ Above(n, y)
    BY <1>2, <1>4, <2>4
  <2>5. CASE Above(n, x) /\ ~ Above(n, y)
    BY <1>2, <2>2, <2>5
  <2>6. CASE ~ Above(n, x) /\ Above(n, y)
    BY <1>2, <2>2, <2>6
  <2> QED
    BY <2>3, <2>4, <2>5, <2>6
<1>6. UNION G = Labels
  <2>1. UNION G \subseteq Labels
    BY <1>2 DEF Forest, Node
  <2>2. ASSUME NEW k \in Labels PROVE k \in UNION G
    <3>1. PICK m \in F : k \in m
      BY DEF WellFormed
    <3>2. CASE k \in n
      <4>1. n \in G
        BY <1>2, <1>3
      <4> QED
        BY <3>2, <4>1
    <3>3. CASE k \notin n
      <4>1. k \in Trim(n, m)
        BY <3>1, <3>3 DEF Trim
      <4> QED
        BY <1>3, <4>1
    <3> QED
      BY <3>2, <3>3
  <2> QED
    BY <2>1, <2>2
\* One case for each place a node that is not a root can be in.  The sibling
\* of n is what the cut leaves of the parent.
<1>7. ASSUME NEW m \in F, m # s, HasParent(G, Trim(n, m))
      PROVE  {Parent(G, Trim(n, m)), Sibling(G, Trim(n, m))} \subseteq G
  <2> DEFINE x == Trim(n, m)
             q == Parent(F, m)
             t == Sibling(F, m)
  <2>1. x \in G /\ x # {} /\ m # {}
    BY <1>2, <1>3 DEF NullNode, WellFormed
  <2>2. PICK o \in F : Above(x, Trim(n, o))
    BY <1>3, <1>7 DEF HasParent, Above
  <2>3. ASSUME HasParent(F, m), Above(x, Trim(n, q)),
               \A y \in F : Above(x, Trim(n, y)) => Trim(n, q) \subseteq Trim(n, y),
               Trim(n, q) \ x \in G
        PROVE  {Parent(G, x), Sibling(G, x)} \subseteq G
    <3>1. q \in F
      BY <2>3, Family
    <3>2. Parent(G, x) = Trim(n, q)
      BY <1>2, <1>3, <2>1, <2>3, <3>1, ParentIsInnermost DEF NullNode
    <3> QED
      BY <1>3, <2>3, <3>1, <3>2 DEF Sibling
  <2>4. ASSUME NEW y \in F, Above(m, y)
        PROVE  /\ HasParent(F, m)
               /\ q \in F /\ t \in F /\ t # {} /\ m \cap t = {}
               /\ q = m \cup t /\ Above(m, q)
               /\ \A z \in F : Above(m, z) => q \subseteq z
    <3>1. HasParent(F, m)
      BY <2>1, <2>4 DEF HasParent, Above, NullNode
    <3> QED
      BY <3>1, Family
\* Within n nothing changes.
  <2>5. CASE m \subseteq n
    <3>1. x = m
      BY <1>2, <2>5
    <3>2. \A y \in F : Above(x, Trim(n, y)) => Trim(n, y) = y /\ ~ Above(n, y)
      <4> SUFFICES ASSUME NEW y \in F, Above(x, Trim(n, y))
                   PROVE  Trim(n, y) = y /\ ~ Above(n, y)
        OBVIOUS
      <4>1. CASE Above(n, y)
        BY <1>2, <2>1, <2>5, <3>1, <4>1 DEF Above
      <4> QED
        BY <1>2, <4>1
    <3>3. Above(m, n)
      BY <2>2, <2>5, <3>1, <3>2 DEF Above
    <3>4. /\ HasParent(F, m)
          /\ q \in F /\ t \in F /\ m \cap t = {} /\ q = m \cup t
          /\ Above(m, q) /\ q \subseteq n
          /\ \A z \in F : Above(m, z) => q \subseteq z
      BY <2>4, <3>3
    <3>5. Trim(n, q) = q /\ Trim(n, t) = t
      BY <1>2, <3>4
    <3>6. Trim(n, q) \ x = t
      BY <3>1, <3>4, <3>5
    <3>7. Trim(n, q) \ x \in G
      BY <1>3, <3>4, <3>5, <3>6
    <3>8. \A y \in F : Above(x, Trim(n, y)) => Trim(n, q) \subseteq Trim(n, y)
      BY <3>1, <3>2, <3>4, <3>5
    <3> QED
      BY <2>3, <3>1, <3>4, <3>5, <3>7, <3>8
\* Above n, and for what was its parent, every node loses n.
  <2>6. CASE Above(n, m)
    <3>1. x = m \ n /\ p \subseteq m /\ s \subseteq x
      BY <1>1, <1>2, <2>6
    <3>2. \A y \in F : Above(x, Trim(n, y)) => Above(n, y) /\ Above(m, y)
      <4> SUFFICES ASSUME NEW y \in F, Above(x, Trim(n, y))
                   PROVE  Above(n, y) /\ Above(m, y)
        OBVIOUS
      <4>1. CASE Above(n, y)
        <5>1. Trim(n, y) = y \ n /\ n \subseteq y /\ n \subseteq m
          BY <1>2, <2>6, <4>1 DEF Above
        <5> QED
          BY <3>1, <4>1, <5>1 DEF Above
      <4>2. CASE ~ Above(n, y)
        <5>1. Above(s, y)
          BY <1>2, <3>1, <4>2 DEF Above
        <5> QED
          BY <4>2, <5>1, AboveSibling DEF s
      <4> QED
        BY <4>1, <4>2
    <3>3. /\ HasParent(F, m)
          /\ q \in F /\ t \in F /\ t # {} /\ m \cap t = {} /\ q = m \cup t
          /\ Above(m, q)
          /\ \A z \in F : Above(m, z) => q \subseteq z
      BY <2>2, <2>4, <3>2
    <3>4. Above(n, q) /\ n \cap t = {}
      BY <2>6, <3>3 DEF Above
    <3>5. Trim(n, q) = q \ n /\ Trim(n, t) = t
      BY <1>2, <3>3, <3>4
    <3>6. Trim(n, q) \ x = t
      BY <2>6, <3>1, <3>3, <3>5 DEF Above
    <3>7. Trim(n, q) \ x \in G
      BY <1>3, <3>3, <3>5, <3>6
    <3>8. Above(x, Trim(n, q))
      BY <3>1, <3>3, <3>4, <3>5 DEF Above
    <3>9. \A y \in F : Above(x, Trim(n, y)) => Trim(n, q) \subseteq Trim(n, y)
      BY <1>2, <3>2, <3>3, <3>5
    <3> QED
      BY <2>3, <3>3, <3>7, <3>8, <3>9
\* Beside n: its parent or its sibling may have lost n.
  <2>7. CASE m \cap n = {}
    <3>1. x = m
      BY <1>2, <2>7
    <3>2. \A y \in F : Trim(n, y) \subseteq y
      BY DEF Trim
    <3>3. \A y \in F : Above(x, Trim(n, y)) => Above(m, y)
      BY <3>1, <3>2 DEF Above
    <3>4. /\ HasParent(F, m)
          /\ q \in F /\ t \in F /\ t # {} /\ m \cap t = {} /\ q = m \cup t
          /\ Above(m, q)
          /\ \A z \in F : Above(m, z) => q \subseteq z
      BY <2>2, <2>4, <3>3
    <3>5. CASE Above(n, q)
      <4>1. t # n
        <5>1. SUFFICES ASSUME t = n PROVE FALSE
          OBVIOUS
        <5>2. q \ n = m
          BY <2>7, <3>4, <5>1
        <5>3. q \in F /\ q \ n \in F
          BY <3>4, <5>2
        <5>4. q \ n = s
          BY <3>5, <5>3, ParentOfSibling DEF s
        <5> QED
          BY <1>7, <5>2, <5>4
      <4>2. n \subseteq t
        BY <2>7, <3>4, <3>5 DEF Above
      <4>3. Trim(n, q) = q \ n /\ Trim(n, t) = t \ n
        BY <1>2, <3>4, <3>5, <4>1, <4>2 DEF Above
      <4>4. Trim(n, q) \ x = Trim(n, t)
        BY <2>7, <3>1, <3>4, <4>3
      <4>5. Above(x, Trim(n, q))
        BY <2>7, <3>1, <3>4, <4>1, <4>2, <4>3 DEF Above
      <4>6. \A y \in F : Above(x, Trim(n, y)) => Trim(n, q) \subseteq Trim(n, y)
        BY <3>3, <3>4, <4>3 DEF Trim
      <4>7. Trim(n, q) \ x \in G
        BY <1>3, <3>4, <4>4
      <4> QED
        BY <2>3, <3>4, <4>5, <4>6, <4>7
    <3>6. CASE ~ Above(n, q)
      <4>1. q \cap n = {}
        BY <1>4, <2>1, <2>7, <3>4, <3>6 DEF Above
      <4>2. Trim(n, q) = q /\ Trim(n, t) = t
        BY <1>2, <3>4, <4>1
      <4>3. Trim(n, q) \ x = t
        BY <3>1, <3>4, <4>2
      <4>4. \A y \in F : Above(x, Trim(n, y)) => Trim(n, q) \subseteq Trim(n, y)
        <5> SUFFICES ASSUME NEW y \in F, Above(x, Trim(n, y))
                     PROVE  q \subseteq Trim(n, y)
          BY <4>2
        <5>1. q \subseteq y
          BY <3>3, <3>4
        <5> QED
          BY <4>1, <5>1 DEF Trim
      <4>5. Trim(n, q) \ x \in G
        BY <1>3, <3>4, <4>2, <4>3
      <4> QED
        BY <2>3, <3>1, <3>4, <4>2, <4>4, <4>5
    <3> QED
      BY <3>5, <3>6
  <2> QED
    BY <1>4, <2>5, <2>6, <2>7 DEF Above
<1>8. \A x \in G : HasParent(G, x) => {Parent(G, x), Sibling(G, x)} \subseteq G
  <2> SUFFICES ASSUME NEW x \in G, HasParent(G, x)
               PROVE  {Parent(G, x), Sibling(G, x)} \subseteq G
    OBVIOUS
  <2>1. PICK m \in F : x = Trim(n, m)
    BY <1>3
  <2>2. CASE m # s
    BY <1>7, <2>1, <2>2
  <2>3. CASE m = s
    <3>1. x = Trim(n, p) /\ p # s
      BY <1>1, <1>2, <2>1, <2>3
    <3> QED
      BY <1>1, <1>7, <3>1
  <2> QED
    BY <2>2, <2>3
<1> QED
  BY <1>2, <1>5, <1>6, <1>8 DEF WellFormed, G

-----------------------------------------------------------------------------
(* CollapseSubtreeAction and its undo.                                     *)

\* Undoing a collapse at once puts back what it took away.
LEMMA CollapseIsUndone ==
    ASSUME NEW F \in Forest, NEW n \in F
    PROVE  UncollapseAt(CollapseAt(F, n), Below(F, n)) = F
BY DEF UncollapseAt, CollapseAt, Below

\* CollapseSubtreeAction leaves a forest.
THEOREM CollapseKeepsForest ==
    ASSUME NEW F \in Forest, WellFormed(F), NEW n \in F
    PROVE  CollapseAt(F, n) \in Forest /\ WellFormed(CollapseAt(F, n))
<1> DEFINE G == CollapseAt(F, n)
<1> HIDE DEF G
<1>1. G = {m \in F : ~ (m \subseteq n /\ m # n)}
  BY DEF CollapseAt, Below, G
<1>2. G \in Forest /\ NullNode \notin G /\ Laminar(G)
  BY <1>1 DEF WellFormed, Laminar, Forest
<1>3. UNION G = Labels
  <2>1. UNION G \subseteq Labels
    BY <1>2 DEF Forest, Node
  <2>2. ASSUME NEW k \in Labels PROVE k \in UNION G
    <3>1. PICK m \in F : k \in m
      BY DEF WellFormed
    <3> QED
      BY <1>1, <3>1
  <2> QED
    BY <2>1, <2>2
<1>4. ASSUME NEW x \in G, HasParent(G, x)
      PROVE  {Parent(G, x), Sibling(G, x)} \subseteq G
  <2> DEFINE q == Parent(F, x)
             t == Sibling(F, x)
  <2> HIDE DEF q, t
  <2>1. x \in F /\ HasParent(F, x) /\ x # NullNode
    BY <1>1, <1>4 DEF HasParent
  <2>2. /\ q \in F /\ t \in F /\ x # {} /\ t # {} /\ x \cap t = {}
        /\ q = x \cup t /\ Above(x, q)
        /\ \A m \in F : Above(x, m) => q \subseteq m
    BY <2>1, Family DEF q, t
  <2>3. q \in G
    BY <1>1, <2>2
  <2>4. t \in G
    <3>1. SUFFICES ASSUME t \subseteq n, t # n PROVE FALSE
      BY <1>1, <2>2
    <3>2. /\ n \cap x = {} \/ n \subseteq x \/ x \subseteq n
          /\ n \cap q = {} \/ n \subseteq q \/ q \subseteq n
      BY <2>1, <2>2 DEF WellFormed, Laminar
    <3>3. CASE n \cap x = {}
      BY <2>2, <3>1, <3>2, <3>3
    <3>4. CASE n \subseteq x
      BY <2>2, <3>1, <3>4
    <3>5. CASE x \subseteq n /\ x # n
      BY <1>1, <3>5
    <3> QED
      BY <3>2, <3>3, <3>4, <3>5
  <2>5. Parent(G, x) = q
    <3>1. \A m \in G : Above(x, m) => q \subseteq m
      BY <1>1, <2>2
    <3> QED
      BY <1>2, <1>4, <2>1, <2>2, <2>3, <3>1, ParentIsInnermost
  <2> QED
    BY <2>2, <2>3, <2>4, <2>5 DEF Sibling
<1> QED
  BY <1>2, <1>3, <1>4 DEF WellFormed, G
-----------------------------------------------------------------------------
(* Terminals.                                                              *)

\* The terminals that are not single-vertex trees.
Hanging(F) == {n \in Terminals(F) : HasParent(F, n)}

\* All terminals that are not single-vertex trees are in one tree.
OneTree(F) == \A m, n \in Hanging(F) : \E r \in F : m \cup n \subseteq r

\* A node is nonempty, and a terminal lies inside it or outside.
LEMMA TerminalsAreApart ==
    ASSUME NEW F \in Forest, WellFormed(F), NEW t \in Terminals(F)
    PROVE  /\ t \in F /\ t # {} /\ t \subseteq Labels
           /\ \A m \in F : t \cap m = {} \/ t \subseteq m
           /\ \A m \in F : m \subseteq t => m = t
<1>1. /\ t \in F /\ t # {} /\ t \subseteq Labels
      /\ \A m \in F : m \subseteq t => m = t
  BY DEF Terminals, IsTerminal, WellFormed, NullNode, Forest, Node
<1>2. \A m \in F : t \cap m = {} \/ t \subseteq m
  BY <1>1 DEF WellFormed, Laminar
<1> QED
  BY <1>1, <1>2

\* There is a terminal inside every node.
LEMMA TerminalInside ==
    ASSUME NEW F \in Forest, NEW n \in F
    PROVE  \E t \in Terminals(F) : t \subseteq n
<1> DEFINE M == {m \in F : m \subseteq n}
<1>1. M \in SUBSET Node /\ M # {}
  BY DEF Forest
<1>2. PICK x \in M : \A y \in M : y \subseteq x => y = x
  BY <1>1, InnermostExists
<1>3. x \in Terminals(F)
  BY <1>2 DEF Terminals, IsTerminal
<1> QED
  BY <1>2, <1>3

\* A node that is no terminal is the parent of two.
LEMMA TwoChildren ==
    ASSUME NEW F \in Forest, WellFormed(F), NEW n \in F, ~ IsTerminal(F, n)
    PROVE  \E x \in F : /\ HasParent(F, x) /\ Parent(F, x) = n
                        /\ Sibling(F, x) \in F /\ n = x \cup Sibling(F, x)
<1> DEFINE M == {m \in F : Above(m, n)}
<1>1. M \in SUBSET Node /\ M # {}
  BY DEF Forest, IsTerminal, Above
<1>2. PICK x \in M : \A y \in M : x \subseteq y => y = x
  BY <1>1, OutermostExists
<1>3. x \in F /\ Above(x, n)
  BY <1>2
<1>4. x # NullNode /\ HasParent(F, x)
  BY <1>3 DEF HasParent, Above, WellFormed
<1>5. /\ Parent(F, x) \in F /\ Sibling(F, x) \in F
      /\ Parent(F, x) = x \cup Sibling(F, x)
      /\ Above(x, Parent(F, x)) /\ Parent(F, x) \subseteq n
  BY <1>3, <1>4, Family
<1>6. Parent(F, x) = n
  <2>1. SUFFICES ASSUME Parent(F, x) # n PROVE FALSE
    OBVIOUS
  <2>2. Parent(F, x) \in M
    BY <1>5, <2>1 DEF Above
  <2> QED
    BY <1>2, <1>5, <2>2 DEF Above
<1> QED
  BY <1>3, <1>4, <1>5, <1>6

\* The terminal of a label holds it and lies inside every node that does.
LEMMA TerminalOfLabel ==
    ASSUME NEW F \in Forest, WellFormed(F), NEW l \in Labels
    PROVE  /\ TerminalOf(F, l) \in Terminals(F)
           /\ l \in TerminalOf(F, l)
           /\ \A m \in F : l \in m => TerminalOf(F, l) \subseteq m
<1> DEFINE M == {m \in F : l \in m}
<1>1. M \in SUBSET Node /\ M # {}
  BY DEF Forest, WellFormed
<1>2. PICK x \in M : \A y \in M : y \subseteq x => y = x
  BY <1>1, InnermostExists
<1>3. \A m \in F : l \in m => x \subseteq m
  BY <1>2 DEF WellFormed, Laminar
<1>4. TerminalOf(F, l) = x
  <2>1. x \subseteq TerminalOf(F, l)
    BY <1>2, <1>3 DEF TerminalOf, Forest, Node
  <2>2. TerminalOf(F, l) \subseteq x
    BY <1>2 DEF TerminalOf
  <2> QED
    BY <2>1, <2>2
<1>5. IsTerminal(F, x)
  <2>1. SUFFICES ASSUME ~ IsTerminal(F, x) PROVE FALSE
    OBVIOUS
  <2>2. PICK y \in F : /\ HasParent(F, y) /\ Parent(F, y) = x
                       /\ Sibling(F, y) \in F /\ x = y \cup Sibling(F, y)
    BY <1>2, <2>1, TwoChildren
  <2>3. y # {} /\ Sibling(F, y) # {} /\ y \cap Sibling(F, y) = {}
    BY <2>2, Family
  <2>4. y \in M \/ Sibling(F, y) \in M
    BY <1>2, <2>2
  <2>5. y \in M => y = x
    BY <1>2, <2>2
  <2>6. Sibling(F, y) \in M => Sibling(F, y) = x
    BY <1>2, <2>2
  <2> QED
    BY <2>2, <2>3, <2>4, <2>5, <2>6
<1> QED
  BY <1>2, <1>3, <1>4, <1>5 DEF Terminals

\* It is the only terminal that holds it.
LEMMA TerminalOfIsUnique ==
    ASSUME NEW F \in Forest, WellFormed(F), NEW t \in Terminals(F), NEW l \in t
    PROVE  l \in Labels /\ TerminalOf(F, l) = t
<1>1. l \in Labels /\ t \in F
  BY TerminalsAreApart
<1>2. TerminalOf(F, l) \in F /\ TerminalOf(F, l) \subseteq t
  BY <1>1, TerminalOfLabel, TerminalsAreApart
<1> QED
  BY <1>1, <1>2, TerminalsAreApart

\* Forests with the same terminals map labels to the same terminals.
LEMMA SameTerminals ==
    ASSUME NEW F \in Forest, WellFormed(F), NEW G \in Forest, WellFormed(G),
           Terminals(F) = Terminals(G), NEW l \in Labels
    PROVE  TerminalOf(F, l) = TerminalOf(G, l)
BY TerminalOfLabel, TerminalOfIsUnique

\* Where one terminal hangs there is another one in the same tree.
LEMMA HangingTogether ==
    ASSUME NEW F \in Forest, WellFormed(F), NEW t \in Hanging(F)
    PROVE  \E u \in Hanging(F) : u # t /\ \E r \in F : t \cup u \subseteq r
<1>1. t \in F /\ HasParent(F, t)
  BY DEF Hanging, Terminals
<1>2. /\ Sibling(F, t) \in F /\ Parent(F, t) \in F
      /\ t # {} /\ t \cap Sibling(F, t) = {}
      /\ Parent(F, t) = t \cup Sibling(F, t)
  BY <1>1, Family
<1>3. PICK u \in Terminals(F) : u \subseteq Sibling(F, t)
  BY <1>2, TerminalInside
<1>4. u # {} /\ u # t
  BY <1>2, <1>3, TerminalsAreApart
<1>5. HasParent(F, u)
  BY <1>2, <1>3, <1>4 DEF HasParent, NullNode
<1> QED
  BY <1>2, <1>3, <1>4, <1>5 DEF Hanging

\* Two terminals in one tree both hang.
LEMMA TogetherIsHanging ==
    ASSUME NEW F \in Forest, WellFormed(F), NEW t \in Terminals(F),
           NEW u \in Terminals(F), t # u, NEW r \in F, t \cup u \subseteq r
    PROVE  t \in Hanging(F)
<1>1. t # {} /\ u # {} /\ t \cap u = {}
  BY TerminalsAreApart
<1> QED
  BY <1>1 DEF Hanging, HasParent, NullNode

-----------------------------------------------------------------------------
(* What a cut does to the terminals.                                       *)

\* It leaves them what they are.
LEMMA CutKeepsTerminals ==
    ASSUME NEW F \in Forest, WellFormed(F), NEW n \in F, HasParent(F, n)
    PROVE  Terminals(CutEdge(F, n)) = Terminals(F)
<1> DEFINE p == Parent(F, n)
           s == Sibling(F, n)
           G == CutEdge(F, n)
<1> HIDE DEF p, s, G
<1>1. /\ p \in F /\ s \in F /\ n # {} /\ s # {} /\ n \cap s = {}
      /\ p = n \cup s
      /\ \A m \in F : Above(n, m) => p \subseteq m
  BY Family DEF p, s
<1>2. \A z : z \in G <=> \E m \in F : z = Trim(n, m)
  BY CutEdgeTrims DEF G
<1>3. \A m \in F : ~ Above(n, m) => Trim(n, m) = m
  BY DEF Trim
<1>4. \A m \in F : Above(n, m) => Trim(n, m) = m \ n /\ s \subseteq m \ n
  BY <1>1 DEF Trim
<1>5. s \in G
  BY <1>1, <1>2, <1>3 DEF Above
<1>6. ASSUME NEW t \in Terminals(F)
      PROVE  t \in Terminals(G)
  <2>1. t \in F /\ \A m \in F : m \subseteq t => m = t
    BY DEF Terminals, IsTerminal
  <2>2. t \in G
    BY <1>2, <1>3, <2>1 DEF Above
  <2>3. ASSUME NEW z \in G, z \subseteq t
        PROVE  z = t
    <3>1. PICK m \in F : z = Trim(n, m)
      BY <1>2
    <3>2. CASE Above(n, m)
      <4>1. s = t
        BY <1>1, <1>4, <2>1, <2>3, <3>1, <3>2
      <4> QED
        BY <1>4, <2>3, <3>1, <3>2, <4>1
    <3>3. CASE ~ Above(n, m)
      BY <1>3, <2>1, <2>3, <3>1, <3>3
    <3> QED
      BY <3>2, <3>3
  <2> QED
    BY <2>2, <2>3 DEF Terminals, IsTerminal
<1>7. ASSUME NEW t \in Terminals(G)
      PROVE  t \in Terminals(F)
  <2>1. t \in G /\ \A z \in G : z \subseteq t => z = t
    BY DEF Terminals, IsTerminal
  <2>2. PICK m \in F : t = Trim(n, m)
    BY <1>2, <2>1
  <2>3. t \in F
    <3>1. CASE Above(n, m)
      BY <1>1, <1>4, <1>5, <2>1, <2>2, <3>1
    <3>2. CASE ~ Above(n, m)
      BY <1>3, <2>2, <3>2
    <3> QED
      BY <3>1, <3>2
  <2>4. ASSUME NEW x \in F, x \subseteq t
        PROVE  x = t
    <3>1. Trim(n, x) \in G /\ Trim(n, x) \subseteq x
      BY <1>2 DEF Trim
    <3> QED
      BY <2>1, <2>4, <3>1
  <2> QED
    BY <2>3, <2>4 DEF Terminals, IsTerminal
<1> QED
  BY <1>6, <1>7 DEF G

\* It joins nothing, and the node cut off is a root.
LEMMA CutJoinsNothing ==
    ASSUME NEW F, NEW n
    PROVE  /\ \A x : HasParent(CutEdge(F, n), x) => HasParent(F, x)
           /\ ~ HasParent(CutEdge(F, n), n)
<1>1. \A z : z \in CutEdge(F, n) <=> \E m \in F : z = Trim(n, m)
  BY CutEdgeTrims
<1>2. ASSUME NEW x, HasParent(CutEdge(F, n), x)
      PROVE  HasParent(F, x)
  BY <1>1, <1>2 DEF HasParent, Trim
<1>3. ASSUME HasParent(CutEdge(F, n), n)
      PROVE  FALSE
  BY <1>1, <1>3 DEF HasParent, Trim, Above, NullNode
<1> QED
  BY <1>2, <1>3

\* Cutting a terminal off leaves the others together.
LEMMA CutLeavesTogether ==
    ASSUME NEW F \in Forest, WellFormed(F), NEW n \in Terminals(F),
           NEW t \in Terminals(F) \ {n}, NEW u \in Terminals(F) \ {n},
           NEW r \in F, t \cup u \subseteq r
    PROVE  \E q \in CutEdge(F, n) : t \cup u \subseteq q
<1>1. t \cap n = {} /\ u \cap n = {}
  <2>1. n \in F /\ \A m \in F : m \subseteq n => m = n
    BY TerminalsAreApart
  <2> QED
    BY <2>1, TerminalsAreApart
<1>2. Trim(n, r) \in CutEdge(F, n)
  BY CutEdgeTrims
<1>3. t \cup u \subseteq Trim(n, r)
  BY <1>1 DEF Trim
<1> QED
  BY <1>2, <1>3

-----------------------------------------------------------------------------
(* What collapsing a cherry does to them.                                  *)

\* Of two terminals that are siblings, only these two are below their parent.
LEMMA BelowCherry ==
    ASSUME NEW F \in Forest, WellFormed(F), NEW t \in Terminals(F),
           HasParent(F, t), Sibling(F, t) \in Terminals(F)
    PROVE  Below(F, Parent(F, t)) = {t, Sibling(F, t)}
<1> DEFINE p == Parent(F, t)
           s == Sibling(F, t)
<1> HIDE DEF p, s
<1>1. t \in F /\ \A m \in F : t \cap m = {} \/ t \subseteq m
  BY TerminalsAreApart
<1>2. /\ p \in F /\ s \in F /\ t # {} /\ s # {} /\ t \cap s = {}
      /\ p = t \cup s
      /\ \A m \in F : Above(t, m) => p \subseteq m
  BY <1>1, Family DEF p, s
<1>3. \A m \in F : m \subseteq t => m = t
  BY TerminalsAreApart
<1>4. /\ \A m \in F : s \cap m = {} \/ s \subseteq m
      /\ \A m \in F : m \subseteq s => m = s
  BY TerminalsAreApart DEF s
<1>5. ASSUME NEW m \in F, m \subseteq p, m # p
      PROVE  m = t \/ m = s
  <2>1. CASE t \cap m = {}
    BY <1>2, <1>4, <1>5, <2>1
  <2>2. CASE t \subseteq m
    BY <1>2, <1>5, <2>2 DEF Above
  <2> QED
    BY <1>1, <2>1, <2>2
<1>6. t \subseteq p /\ t # p /\ s \subseteq p /\ s # p
  BY <1>2
<1> QED
  BY <1>1, <1>2, <1>5, <1>6 DEF Below, p, s

\* Their parent takes their place.
LEMMA CollapseMergesTerminals ==
    ASSUME NEW F \in Forest, WellFormed(F), NEW t \in Terminals(F),
           HasParent(F, t), Sibling(F, t) \in Terminals(F)
    PROVE  /\ Terminals(CollapseAt(F, Parent(F, t)))
                 = (Terminals(F) \ {t, Sibling(F, t)}) \cup {Parent(F, t)}
           /\ \A x \in CollapseAt(F, Parent(F, t)) :
                 HasParent(CollapseAt(F, Parent(F, t)), x) <=> HasParent(F, x)
<1> DEFINE p == Parent(F, t)
           s == Sibling(F, t)
           G == CollapseAt(F, p)
<1> HIDE DEF p, s, G
<1>1. t \in F /\ \A m \in F : m \subseteq t => m = t
  BY TerminalsAreApart
<1>2. /\ p \in F /\ s \in F /\ t # {} /\ s # {} /\ t \cap s = {}
      /\ p = t \cup s /\ t \subseteq Labels
  BY <1>1, Family DEF p, s
<1>3. G = F \ {t, s}
  BY BelowCherry DEF G, CollapseAt, p, s
<1>4. p \in G
  BY <1>2, <1>3
<1>5. IsTerminal(G, p)
  <2>1. \A m \in F : m \subseteq p /\ m # p => m \in {t, s}
    BY BelowCherry DEF Below, p, s
  <2> QED
    BY <1>3, <1>4, <2>1 DEF IsTerminal
<1>6. ASSUME NEW x \in G, x # p
      PROVE  IsTerminal(G, x) <=> IsTerminal(F, x)
  <2>1. x \in F
    BY <1>3, <1>6
  <2>2. ASSUME IsTerminal(G, x), NEW m \in F, m \subseteq x
        PROVE  m = x
    <3>1. CASE m \in G
      BY <2>2, <3>1 DEF IsTerminal
    <3>2. CASE m \in {t, s}
      <4>1. p \cap x # {}
        <5>1. m \subseteq p /\ m # {}
          BY <1>2, <3>2
        <5> QED
          BY <2>2, <5>1
      <4>2. p \subseteq x \/ x \subseteq p
        BY <1>2, <2>1, <4>1 DEF WellFormed, Laminar
      <4>3. CASE p \subseteq x
        BY <1>4, <1>6, <2>2, <4>3 DEF IsTerminal
      <4>4. CASE x \subseteq p
        BY <1>5, <1>6, <4>4 DEF IsTerminal
      <4> QED
        BY <4>2, <4>3, <4>4
    <3> QED
      BY <1>3, <2>2, <3>1, <3>2
  <2>3. IsTerminal(G, x) => IsTerminal(F, x)
    BY <2>1, <2>2 DEF IsTerminal
  <2>4. IsTerminal(F, x) => IsTerminal(G, x)
    BY <1>3, <1>6 DEF IsTerminal
  <2> QED
    BY <2>3, <2>4
<1>7. ~ IsTerminal(F, p)
  BY <1>1, <1>2 DEF IsTerminal
<1>8. Terminals(G) = (Terminals(F) \ {t, s}) \cup {p}
  BY <1>3, <1>4, <1>5, <1>6, <1>7 DEF Terminals, IsTerminal
<1>9. ASSUME NEW x \in G
      PROVE  HasParent(G, x) <=> HasParent(F, x)
  <2>1. HasParent(G, x) => HasParent(F, x)
    BY <1>3 DEF HasParent
  <2>2. ASSUME HasParent(F, x)
        PROVE  HasParent(G, x)
    <3>1. PICK m \in F : x \subseteq m /\ x # m
      BY <2>2 DEF HasParent
    <3>2. m # t /\ m # s
      <4>1. x \in F /\ x # {}
        BY <1>3, <1>9, <2>2 DEF HasParent, NullNode
      <4>2. \A y \in F : y \subseteq s => y = s
        BY TerminalsAreApart DEF s
      <4> QED
        BY <1>1, <3>1, <4>1, <4>2
    <3> QED
      BY <1>3, <2>2, <3>1, <3>2 DEF HasParent
  <2> QED
    BY <2>1, <2>2
<1> QED
  BY <1>8, <1>9 DEF G, p, s

\* Among numbers there is a smallest.
LEMMA SmallestExists ==
    ASSUME NEW S \in SUBSET Nat, S # {}
    PROVE  \E k \in S : \A j \in S : k <= j
<1> DEFINE R == StrictSubsetOrdering(Nat)
           M == {1..k : k \in S}
<1>1. IsWellFoundedOn(R, FiniteSubsetsOf(Nat))
  BY FS_StrictSubsetOrderingWellFounded
<1>2. \A x : x \in M <=> \E k \in S : x = 1..k
  OBVIOUS
<1>3. \A k \in S : 1..k \in FiniteSubsetsOf(Nat)
  <2>1. \A k \in S : IsFiniteSet(1..k)
    BY FS_Interval
  <2> QED
    BY <2>1 DEF FiniteSubsetsOf
<1>4. M \subseteq FiniteSubsetsOf(Nat) /\ M # {}
  BY <1>2, <1>3
<1> HIDE DEF R, M
<1>5. PICK x \in M : \A y \in M : ~ (<<y, x>> \in R)
  BY <1>1, <1>4, WFMin
<1>6. PICK k \in S : x = 1..k
  BY <1>2, <1>5
<1>7. ASSUME NEW j \in S, j < k
      PROVE  FALSE
  <2>1. 1..j \in M
    BY <1>2
  <2>2. 1..j \subseteq 1..k /\ k \in 1..k /\ k \notin 1..j
    BY <1>7
  <2>3. <<1..j, 1..k>> \in R
    BY <2>2 DEF R, StrictSubsetOrdering
  <2> QED
    BY <1>5, <1>6, <2>1, <2>3
<1>8. \A j \in S : k <= j
  BY <1>7
<1> QED
  BY <1>8

\* What holds at first and is handed on from each number to the next holds
\* up to d.
LEMMA HandedOn ==
    ASSUME NEW d \in Nat, NEW S, 0 \in S, \A j \in 1..d : j - 1 \in S => j \in S
    PROVE  0..d \subseteq S
<1> SUFFICES ASSUME ~ 0..d \subseteq S PROVE FALSE
  OBVIOUS
<1> DEFINE M == (0..d) \ S
<1>1. M \in SUBSET Nat /\ M # {}
  OBVIOUS
<1>2. PICK k \in M : \A j \in M : k <= j
  BY <1>1, SmallestExists
<1>3. k \in 1..d /\ k - 1 \in 0..d /\ k - 1 < k
  BY <1>2
<1>4. k - 1 \in S
  BY <1>2, <1>3
<1> QED
  BY <1>2, <1>3, <1>4

-----------------------------------------------------------------------------
(* Cherries, and the leaf order in which the first one is found.           *)

\* A set of labels that is not empty has one smallest label.
LEMMA LabelOfExists ==
    ASSUME NEW n \in SUBSET Labels, n # {}
    PROVE  \E l \in n : LabelOf(n) = {l} /\ \A k \in n : l <= k
<1>1. n \in SUBSET Nat
  BY LabelsAreTaxa
<1>2. PICK l \in n : \A k \in n : l <= k
  BY <1>1, SmallestExists
<1>3. \A j \in n : (\A k \in n : j <= k) => j = l
  BY <1>1, <1>2
<1>4. LabelOf(n) = {l}
  BY <1>2, <1>3 DEF LabelOf
<1> QED
  BY <1>2, <1>4

\* A forest in which a terminal hangs has a cherry.
LEMMA CherryExists ==
    ASSUME NEW F \in Forest, WellFormed(F), Hanging(F) # {}
    PROVE  \E t \in Terminals(F) : HasParent(F, t) /\ Sibling(F, t) \in Terminals(F)
<1> DEFINE M == {n \in F : ~ IsTerminal(F, n)}
<1>1. M \in SUBSET Node /\ M # {}
  <2>1. PICK t \in Terminals(F) : HasParent(F, t)
    BY DEF Hanging
  <2>2. PICK m \in F : Above(t, m)
    BY <2>1 DEF HasParent, Above
  <2>3. t \in F /\ ~ IsTerminal(F, m)
    BY <2>1, <2>2 DEF Terminals, IsTerminal, Above
  <2> QED
    BY <2>2, <2>3 DEF Forest
<1>2. PICK n \in M : \A m \in M : m \subseteq n => m = n
  BY <1>1, InnermostExists
<1>3. PICK x \in F : /\ HasParent(F, x) /\ Parent(F, x) = n
                     /\ Sibling(F, x) \in F /\ n = x \cup Sibling(F, x)
  BY <1>2, TwoChildren
<1>4. x # {} /\ Sibling(F, x) # {} /\ x \cap Sibling(F, x) = {}
  BY <1>3, Family
<1>5. x \notin M /\ Sibling(F, x) \notin M
  BY <1>2, <1>3, <1>4
<1> QED
  BY <1>3, <1>5 DEF Terminals

\* The child that holds l, of the lowest node that also holds m.
ChildWith(T, l, m) == UNION {n \in T : l \in n /\ m \notin n}

\* Of two children it is the one with the label.
LEMMA ChildWithIsChild ==
    ASSUME NEW T \in Forest, WellFormed(T), NEW x \in T, HasParent(T, x),
           NEW l \in x, NEW m \in Sibling(T, x)
    PROVE  ChildWith(T, l, m) = x
<1> DEFINE p == Parent(T, x)
           s == Sibling(T, x)
<1> HIDE DEF p, s
<1>1. /\ p \in T /\ x # {} /\ x \cap s = {} /\ p = x \cup s
      /\ \A n \in T : Above(x, n) => p \subseteq n
  BY Family DEF p, s
<1>2. m \in s
  BY DEF s
<1>3. ASSUME NEW n \in T, l \in n, m \notin n
      PROVE  n \subseteq x
  <2>1. n \subseteq x \/ x \subseteq n
    BY <1>3 DEF WellFormed, Laminar
  <2> QED
    BY <1>1, <1>2, <1>3, <2>1 DEF Above
<1>4. m \notin x
  BY <1>1, <1>2
<1> QED
  BY <1>3, <1>4 DEF ChildWith

\* A leaf of the child with the smaller label comes before those of the other.
LEMMA LeftComesFirst ==
    ASSUME NEW T \in Forest, WellFormed(T), NEW x \in T, HasParent(T, x),
           NEW l \in x, NEW m \in Sibling(T, x),
           NEW k \in x, \A j \in Sibling(T, x) : k < j
    PROVE  Before(T, l, m)
<1> DEFINE p == Parent(T, x)
           s == Sibling(T, x)
<1>1. /\ p \in T /\ s \in T /\ x # {} /\ s # {} /\ x \cap s = {} /\ p = x \cup s
      /\ x \subseteq Labels
  BY Family
<1>2. HasParent(T, s) /\ Parent(T, s) = p
  <2>1. Above(s, p)
    BY <1>1 DEF Above
  <2>2. \A n \in T : Above(s, n) => p \subseteq n
    BY AboveSibling
  <2> QED
    BY <1>1, <2>1, <2>2, ParentIsInnermost DEF NullNode
<1>3. Sibling(T, s) = x
  BY <1>1, <1>2 DEF Sibling
<1>4. ChildWith(T, l, m) = x
  BY ChildWithIsChild
<1>5. ChildWith(T, m, l) = s
  BY <1>1, <1>2, <1>3, ChildWithIsChild
<1>6. Before(T, l, m) <=> \E i \in ChildWith(T, l, m) :
                              \A j \in ChildWith(T, m, l) : i < j
  BY DEF Before, ChildWith
<1> QED
  BY <1>4, <1>5, <1>6

\* A tree with a leaf of its own for every label.
IsLabelledTree(T) == Labels \in T /\ \A l \in Labels : {l} \in T

\* The walk from the root towards S, left where it can, ends in the first
\* label of S.
LEMMA FirstExists ==
    ASSUME NEW T \in Forest, WellFormed(T), IsLabelledTree(T),
           NEW S \in SUBSET Labels, S # {}
    PROVE  \E l \in S : \A m \in S \ {l} : Before(T, l, m)
<1> DEFINE Leads(n) == /\ n \cap S # {}
                       /\ \A l \in n \cap S : \A m \in S \ n : Before(T, l, m)
           M == {n \in T : Leads(n)}
<1>1. M \in SUBSET Node /\ M # {}
  <2>1. Labels \in T /\ Leads(Labels)
    BY DEF IsLabelledTree
  <2> HIDE DEF Leads
  <2> QED
    BY <2>1 DEF Forest
<1>2. PICK n \in M : \A y \in M : y \subseteq n => y = n
  BY <1>1, InnermostExists
<1>3. n \in T /\ n \cap S # {}
      /\ \A l \in n \cap S : \A m \in S \ n : Before(T, l, m)
  BY <1>2
<1>4. \A y \in T : Leads(y) /\ y \subseteq n => y = n
  BY <1>2
<1> HIDE DEF M
<1>5. CASE IsTerminal(T, n)
  <2>1. PICK l \in n \cap S : TRUE
    BY <1>3
  <2>2. {l} \in T /\ {l} \subseteq n
    BY <2>1 DEF IsLabelledTree
  <2>3. n = {l}
    BY <1>5, <2>2 DEF IsTerminal
  <2> QED
    BY <1>3, <2>1, <2>3
<1>6. CASE ~ IsTerminal(T, n)
  <2>1. PICK x \in T : /\ HasParent(T, x) /\ Parent(T, x) = n
                       /\ Sibling(T, x) \in T /\ n = x \cup Sibling(T, x)
    BY <1>3, <1>6, TwoChildren
  <2>2. /\ x # {} /\ Sibling(T, x) # {} /\ x \cap Sibling(T, x) = {}
        /\ x \subseteq Labels /\ Sibling(T, x) \subseteq Labels
    BY <2>1, Family DEF Forest, Node
  <2>3. HasParent(T, Sibling(T, x)) /\ Sibling(T, Sibling(T, x)) = x
    <3>1. Above(Sibling(T, x), n) /\ n \in T
      BY <1>3, <2>1, <2>2 DEF Above
    <3>2. \A y \in T : Above(Sibling(T, x), y) => n \subseteq y
      BY <2>1, AboveSibling
    <3>3. HasParent(T, Sibling(T, x)) /\ Parent(T, Sibling(T, x)) = n
      BY <2>1, <2>2, <3>1, <3>2, ParentIsInnermost DEF NullNode
    <3> QED
      BY <2>1, <2>2, <3>3 DEF Sibling
\* The child that goes left, and the other one.
  <2>4. \E y \in T : /\ HasParent(T, y) /\ n = y \cup Sibling(T, y)
                     /\ Sibling(T, y) \in T
                     /\ y # {} /\ Sibling(T, y) # {} /\ y \cap Sibling(T, y) = {}
                     /\ \E k \in y : \A j \in Sibling(T, y) : k < j
    <3>1. PICK a \in x : \A j \in x : a <= j
      BY <2>2, LabelOfExists
    <3>2. PICK b \in Sibling(T, x) : \A j \in Sibling(T, x) : b <= j
      BY <2>2, LabelOfExists
    <3>3. a \in Nat /\ b \in Nat /\ a # b /\ x \subseteq Nat /\ Sibling(T, x) \subseteq Nat
      BY <2>2, LabelsAreTaxa
    <3>4. CASE a < b
      <4>1. \A j \in Sibling(T, x) : a < j
        BY <3>2, <3>3, <3>4
      <4> QED
        BY <2>1, <2>2, <4>1
    <3>5. CASE b < a
      <4>1. \A j \in x : b < j
        BY <3>1, <3>3, <3>5
      <4> QED
        BY <2>1, <2>2, <2>3, <4>1
    <3> QED
      BY <3>3, <3>4, <3>5
  <2>5. PICK y \in T : /\ HasParent(T, y) /\ n = y \cup Sibling(T, y)
                       /\ Sibling(T, y) \in T
                       /\ y # {} /\ Sibling(T, y) # {} /\ y \cap Sibling(T, y) = {}
                       /\ \E k \in y : \A j \in Sibling(T, y) : k < j
    BY <2>4
  <2>6. \A l \in y, m \in Sibling(T, y) : Before(T, l, m)
    BY <2>5, LeftComesFirst
  <2>7. CASE y \cap S # {}
    <3>1. ASSUME NEW l \in y \cap S, NEW m \in S \ y
          PROVE  Before(T, l, m)
      BY <1>3, <2>5, <2>6
    <3>2. Leads(y)
      BY <2>7, <3>1
    <3> HIDE DEF Leads
    <3> QED
      BY <1>4, <2>5, <3>2
  <2>8. CASE y \cap S = {}
    <3>1. Sibling(T, y) \cap S # {} /\ S \ Sibling(T, y) = S \ n
      BY <1>3, <2>5, <2>8
    <3>2. Leads(Sibling(T, y))
      BY <1>3, <2>5, <3>1
    <3> HIDE DEF Leads
    <3> QED
      BY <1>4, <2>5, <3>2
  <2> QED
    BY <2>7, <2>8
<1> QED
  BY <1>5, <1>6

-----------------------------------------------------------------------------
(* The path between two labels of a tree, and what hangs off it.           *)

\* The nodes that hold x and not y.
Chain(F, x, y) == {n \in F : x \in n /\ y \notin n}

\* A forest over finitely many labels has finitely many nodes.
LEMMA NodesAreFinite ==
    ASSUME NEW F \in Forest, NEW S \in SUBSET F
    PROVE  IsFiniteSet(S) /\ Cardinality(S) \in Nat
<1>1. IsFiniteSet(Node)
  BY LabelsAreTaxa, FS_SUBSET DEF Node
<1>2. S \in SUBSET Node
  BY DEF Forest
<1> QED
  BY <1>1, <1>2, FS_Subset, FS_CardinalityType

\* They are nested.
LEMMA ChainIsNested ==
    ASSUME NEW F \in Forest, WellFormed(F), NEW x, NEW y,
           NEW m \in Chain(F, x, y), NEW n \in Chain(F, x, y)
    PROVE  m \subseteq n \/ n \subseteq m
BY DEF Chain, WellFormed, Laminar

\* The sets of C are nested and r numbers them from the innermost one on.
Ranked(C, r, size) ==
    /\ size \in Nat
    /\ \A n \in C : r[n] \in 1..size
    /\ \A m, n \in C : m \subseteq n <=> r[m] <= r[n]
    /\ \A k \in 1..size : \E n \in C : r[n] = k

\* The ranks along a finite chain of sets are the numbers from one on.
LEMMA ChainRanks ==
    ASSUME NEW C, IsFiniteSet(C), NEW size, size = Cardinality(C),
           \A m, n \in C : m \subseteq n \/ n \subseteq m,
           NEW r, r = [n \in C |-> Cardinality({m \in C : m \subseteq n})]
    PROVE  Ranked(C, r, size)
<1> DEFINE within(n) == {m \in C : m \subseteq n}
<1>1. size \in Nat
  BY FS_CardinalityType
<1>2. ASSUME NEW n \in C
      PROVE  /\ IsFiniteSet(within(n)) /\ Cardinality(within(n)) \in Nat
             /\ r[n] = Cardinality(within(n)) /\ n \in within(n)
             /\ Cardinality(within(n)) <= size
             /\ Cardinality(within(n)) # 0
  <2>1. within(n) \in SUBSET C /\ n \in within(n)
    OBVIOUS
  <2>2. IsFiniteSet(within(n)) /\ Cardinality(within(n)) <= Cardinality(C)
    BY <2>1, FS_Subset
  <2>3. Cardinality(within(n)) \in Nat
    BY <2>2, FS_CardinalityType
  <2>4. Cardinality(within(n)) # 0
    BY <2>1, <2>2, FS_EmptySet
  <2>5. r[n] = Cardinality(within(n))
    OBVIOUS
  <2> QED
    BY <2>1, <2>2, <2>3, <2>4, <2>5
<1>3. ASSUME NEW n \in C
      PROVE  r[n] \in Nat /\ r[n] \in 1..size
  <2>1. r[n] \in Nat /\ r[n] <= size /\ r[n] # 0
    BY <1>2
  <2> QED
    BY <1>1, <2>1
<1>4. ASSUME NEW v \in C, NEW w \in C, v \subseteq w
      PROVE  r[v] <= r[w] /\ (r[v] = r[w] => v = w)
  <2>1. within(v) \in SUBSET within(w) /\ v \in within(v) /\ w \in within(w)
    BY <1>4
  <2>2. /\ Cardinality(within(v)) <= Cardinality(within(w))
        /\ Cardinality(within(v)) = Cardinality(within(w)) => within(v) = within(w)
    <3>1. IsFiniteSet(within(w))
      BY <1>2
    <3> QED
      BY <2>1, <3>1, FS_Subset
  <2>3. r[v] = Cardinality(within(v)) /\ r[w] = Cardinality(within(w))
    BY <1>2
  <2>4. within(v) = within(w) => v = w
    BY <1>4, <2>1
  <2> HIDE DEF within
  <2> QED
    BY <2>2, <2>3, <2>4
<1>5. ASSUME NEW m \in C, NEW n \in C
      PROVE  m \subseteq n <=> r[m] <= r[n]
  <2>1. r[m] \in Nat /\ r[n] \in Nat
    BY <1>3
  <2>2. m \subseteq n => r[m] <= r[n]
    BY <1>4
  <2>3. ~ m \subseteq n => ~ r[m] <= r[n]
    <3>1. SUFFICES ASSUME ~ m \subseteq n PROVE ~ r[m] <= r[n]
      OBVIOUS
    <3>2. n \subseteq m
      BY <3>1
    <3>3. r[n] <= r[m] /\ (r[n] = r[m] => n = m)
      BY <3>2, <1>4
    <3>4. n # m
      BY <3>1
    <3> QED
      BY <2>1, <3>3, <3>4
  <2> QED
    BY <2>2, <2>3
<1>6. \A k \in 1..size : \E n \in C : r[n] = k
  <2>1. r \in [C -> 1..size]
    BY <1>3
  <2>2. \A m, n \in C : r[m] = r[n] => m = n
    <3> SUFFICES ASSUME NEW m \in C, NEW n \in C, r[m] = r[n]
                 PROVE  m = n
      OBVIOUS
    <3>1. m \subseteq n \/ n \subseteq m
      OBVIOUS
    <3>2. r[n] = r[m]
      OBVIOUS
    <3> QED
      BY <1>4, <3>1, <3>2
  <2>3. r \in Injection(C, 1..size)
    BY <2>1, <2>2 DEF Injection, IsInjective
  <2>4. IsFiniteSet(1..size) /\ Cardinality(1..size) = size
    <3>1. 1 \in Int /\ size \in Int
      BY <1>1
    <3>2. IsFiniteSet(1..size)
          /\ Cardinality(1..size) = IF 1 > size THEN 0 ELSE size - 1 + 1
      BY <3>1, FS_Interval
    <3> QED
      BY <1>1, <3>2
  <2>5. r \in Surjection(C, 1..size)
    BY <2>3, <2>4, FS_Injection
  <2> QED
    BY <2>5 DEF Surjection
<1> QED
  BY <1>1, <1>3, <1>5, <1>6 DEF Ranked

\* The sets of C in the order of their ranks.
ByRank(C, r, size) == [k \in 1..size |-> UNION {n \in C : r[n] = k}]

\* Listing a chain by rank lists it from the innermost set outwards.
LEMMA RanksList ==
    ASSUME NEW C, NEW size, NEW r, Ranked(C, r, size),
           NEW path, path = ByRank(C, r, size)
    PROVE  /\ path \in Seq(C) /\ DOMAIN path = 1..size
           /\ \A n \in C : \E k \in 1..size : path[k] = n
           /\ \A j, k \in 1..size : path[j] \subseteq path[k] <=> j <= k
<1>0. path = [k \in 1..size |-> UNION {n \in C : r[n] = k}]
  BY DEF ByRank
<1>r. /\ size \in Nat
      /\ \A n \in C : r[n] \in 1..size
      /\ \A m, n \in C : m \subseteq n <=> r[m] <= r[n]
      /\ \A k \in 1..size : \E n \in C : r[n] = k
  BY DEF Ranked
<1>1. ASSUME NEW n \in C
      PROVE  r[n] \in 1..size /\ path[r[n]] = n
  <2>1. ASSUME NEW m \in C, r[m] = r[n]
        PROVE  m = n
    <3>1. r[m] \in 1..size /\ r[n] \in 1..size
      BY <1>r
    <3>2. r[m] <= r[n] /\ r[n] <= r[m]
      BY <1>r, <2>1, <3>1
    <3>3. m \subseteq n /\ n \subseteq m
      BY <1>r, <3>2
    <3> QED
      BY <3>3
  <2>2. {m \in C : r[m] = r[n]} = {n}
    BY <2>1
  <2>3. UNION {m \in C : r[m] = r[n]} = n
    BY <2>2
  <2>4. r[n] \in 1..size
    BY <1>r
  <2> QED
    BY <1>0, <2>3, <2>4
<1>2. ASSUME NEW k \in 1..size
      PROVE  path[k] \in C /\ r[path[k]] = k
  <2>1. PICK n \in C : r[n] = k
    BY <1>r
  <2> QED
    BY <1>1, <2>1
<1>3. path \in Seq(C) /\ DOMAIN path = 1..size
  <2>1. DOMAIN path = 1..size /\ path = [k \in 1..size |-> path[k]]
    BY <1>0
  <2>2. path \in [1..size -> C]
    BY <1>2, <2>1
  <2> QED
    BY <1>r, <2>1, <2>2
<1>4. ASSUME NEW j \in 1..size, NEW k \in 1..size
      PROVE  path[j] \subseteq path[k] <=> j <= k
  <2>1. path[j] \in C /\ path[k] \in C /\ r[path[j]] = j /\ r[path[k]] = k
    BY <1>2
  <2>2. path[j] \subseteq path[k] <=> r[path[j]] <= r[path[k]]
    BY <1>r, <2>1
  <2> QED
    BY <2>1, <2>2
<1> QED
  BY <1>1, <1>3, <1>4

\* The path lists the chain from the terminal of x upwards.
LEMMA PathListsChain ==
    ASSUME NEW F \in Forest, WellFormed(F), NEW x, NEW y
    PROVE  LET path == PathBelowLca(F, x, y) IN
           /\ path \in Seq(Chain(F, x, y))
           /\ \A n \in Chain(F, x, y) : \E k \in DOMAIN path : path[k] = n
           /\ \A j, k \in DOMAIN path : path[j] \subseteq path[k] <=> j <= k
<1> DEFINE C == Chain(F, x, y)
           r == [n \in C |-> Cardinality({m \in C : m \subseteq n})]
           size == Cardinality(C)
           path == PathBelowLca(F, x, y)
<1>1. IsFiniteSet(C) /\ \A m, n \in C : m \subseteq n \/ n \subseteq m
  <2>1. C \in SUBSET F
    BY DEF Chain
  <2> QED
    BY <2>1, NodesAreFinite, ChainIsNested
<1>2. path = ByRank(C, r, size)
  BY DEF PathBelowLca, Chain, ByRank
<1> HIDE DEF C, path
<1>3. Ranked(C, r, size)
  <2> HIDE DEF size
  <2>1. size = Cardinality(C)
    BY DEF size
  <2>2. r = [n \in C |-> Cardinality({m \in C : m \subseteq n})]
    OBVIOUS
  <2> HIDE DEF r
  <2> QED
    BY <1>1, <2>1, <2>2, ChainRanks
<1> HIDE DEF r, size
<1>4. /\ path \in Seq(C) /\ DOMAIN path = 1..size
      /\ \A n \in C : \E k \in 1..size : path[k] = n
      /\ \A j, k \in 1..size : path[j] \subseteq path[k] <=> j <= k
  BY <1>2, <1>3, RanksList
<1> QED
  BY <1>4 DEF path, C

\* Off one side of the path hang nodes that hold neither label, no two of
\* them with a label in common; each has a parent, and whatever lies above
\* it holds x.  With the terminal of x they make up the nodes on the path.
LEMMA PendantsAlongPath ==
    ASSUME NEW F \in Forest, WellFormed(F), NEW x \in Labels, NEW y
    PROVE  LET ps == PendantsAlong(F, x, y) IN
           /\ ps \in Seq(F)
           /\ \A k \in DOMAIN ps :
                 /\ HasParent(F, ps[k]) /\ x \notin ps[k]
                 /\ \A m \in F : Above(ps[k], m) => x \in m
                 /\ \E n \in Chain(F, x, y) : ps[k] \subseteq n
           /\ \A j, k \in DOMAIN ps : j # k => ps[j] \cap ps[k] = {}
           /\ \A n \in Chain(F, x, y) : \A l \in n :
                 l \in TerminalOf(F, x) \/ \E k \in DOMAIN ps : l \in ps[k]
<1> DEFINE path == PathBelowLca(F, x, y)
           C == Chain(F, x, y)
           ps == PendantsAlong(F, x, y)
           last == Len(path) - 1
<1>1. /\ path \in Seq(C)
      /\ \A k \in DOMAIN path : path[k] \in C
      /\ \A n \in C : \E k \in DOMAIN path : path[k] = n
      /\ \A j, k \in DOMAIN path : path[j] \subseteq path[k] <=> j <= k
  BY PathListsChain
<1>2. ps = [k \in 1..last |-> path[k + 1] \ path[k]]
  BY DEF PendantsAlong
<1> HIDE DEF path, ps
<1>3. Len(path) \in Nat /\ DOMAIN path = 1..Len(path) /\ DOMAIN ps = 1..last
  BY <1>1, <1>2
<1>c. \A n \in C : n \in F /\ x \in n /\ y \notin n
  BY DEF Chain
<1>4. ASSUME NEW k \in 1..last
      PROVE  /\ k \in DOMAIN path /\ k + 1 \in DOMAIN path /\ k \in Nat
             /\ path[k] \in F /\ HasParent(F, path[k])
             /\ Parent(F, path[k]) = path[k + 1]
             /\ Sibling(F, path[k]) = ps[k]
  <2>1. k \in DOMAIN path /\ k + 1 \in DOMAIN path /\ k \in Nat /\ ~ k + 1 <= k
    BY <1>3
  <2>2. /\ path[k] \in C /\ path[k + 1] \in C
        /\ path[k] \subseteq path[k + 1] /\ ~ path[k + 1] \subseteq path[k]
    BY <1>1, <2>1
  <2>3. path[k] # NullNode /\ Above(path[k], path[k + 1]) /\ HasParent(F, path[k])
    BY <1>c, <2>2 DEF NullNode, Above, HasParent
  <2>4. /\ Parent(F, path[k]) \in F /\ Above(path[k], Parent(F, path[k]))
        /\ Parent(F, path[k]) \subseteq path[k + 1]
    BY <1>c, <2>2, <2>3, Family
  <2>5. Parent(F, path[k]) \in C
    BY <1>c, <2>2, <2>4 DEF Chain, Above
  <2>6. PICK j \in DOMAIN path : path[j] = Parent(F, path[k])
    BY <1>1, <2>5
  <2>7. path[k] \subseteq path[j] /\ path[j] # path[k] /\ path[j] \subseteq path[k + 1]
    BY <2>4, <2>6 DEF Above
  <2>8. k <= j /\ j <= k + 1 /\ j # k
    BY <1>1, <2>1, <2>6, <2>7
  <2>9. j = k + 1
    BY <1>3, <2>1, <2>8
  <2> QED
    BY <1>2, <1>c, <2>1, <2>2, <2>3, <2>6, <2>9 DEF Sibling
<1>5. ASSUME NEW k \in 1..last
      PROVE  /\ ps[k] \in F /\ HasParent(F, ps[k]) /\ x \notin ps[k]
             /\ \A m \in F : Above(ps[k], m) => x \in m
             /\ \E n \in C : ps[k] \subseteq n
  <2>1. /\ ps[k] \in F /\ path[k] \cap ps[k] = {} /\ ps[k] # {} /\ path[k] # {}
        /\ path[k + 1] = path[k] \cup ps[k] /\ path[k + 1] \in F
        /\ \A m \in F : Above(ps[k], m) => path[k + 1] \subseteq m
    BY <1>4, Family, AboveSibling
  <2>2. x \in path[k] /\ x \in path[k + 1] /\ path[k + 1] \in C
    BY <1>1, <1>4, <1>c
  <2>3. HasParent(F, ps[k])
    BY <2>1 DEF HasParent, NullNode
  <2> QED
    BY <2>1, <2>2, <2>3
<1>6. ASSUME NEW j \in 1..last, NEW k \in 1..last, j < k
      PROVE  ps[j] \cap ps[k] = {}
  <2>1. j + 1 <= k /\ j + 1 \in DOMAIN path /\ k \in DOMAIN path
    BY <1>3, <1>4, <1>6
  <2>2. path[j + 1] \subseteq path[k]
    BY <1>1, <2>1
  <2> QED
    BY <1>2, <2>2
<1>7. \A j, k \in 1..last : j # k => ps[j] \cap ps[k] = {}
  <2> SUFFICES ASSUME NEW j \in 1..last, NEW k \in 1..last, j # k
               PROVE  ps[j] \cap ps[k] = {}
    OBVIOUS
  <2>1. j < k \/ k < j
    BY <1>3
  <2> QED
    BY <1>6, <2>1
<1>8. ASSUME NEW n \in C, NEW l \in n, l \notin TerminalOf(F, x)
      PROVE  \E k \in 1..last : l \in ps[k]
  <2> DEFINE S == {k \in DOMAIN path : l \in path[k]}
  <2>1. S \in SUBSET Nat /\ S # {}
    BY <1>1, <1>3
  <2>2. PICK k \in S : \A j \in S : k <= j
    BY <2>1, SmallestExists
  <2>3. k \in DOMAIN path /\ k \in Nat /\ k >= 1 /\ k <= Len(path)
    BY <1>3, <2>2
  <2>4. k # 1
    <3>1. SUFFICES ASSUME k = 1 PROVE FALSE
      OBVIOUS
    <3>2. TerminalOf(F, x) \in F /\ x \in TerminalOf(F, x)
          /\ \A m \in F : x \in m => TerminalOf(F, x) \subseteq m
      BY TerminalOfLabel, TerminalsAreApart
    <3>3. TerminalOf(F, x) \in C
      <4>1. TerminalOf(F, x) \subseteq n /\ y \notin n
        BY <1>c, <3>2
      <4> QED
        BY <3>2, <4>1 DEF Chain
    <3>4. PICK j \in DOMAIN path : path[j] = TerminalOf(F, x)
      BY <1>1, <3>3
    <3>5. 1 <= j
      BY <1>3
    <3>6. path[1] \subseteq path[j]
      BY <1>1, <2>3, <3>1, <3>4, <3>5
    <3> QED
      BY <1>8, <2>2, <3>1, <3>4, <3>6
  <2>5. k - 1 \in 1..last /\ k - 1 \in DOMAIN path /\ (k - 1) + 1 = k /\ ~ k <= k - 1
    BY <1>3, <2>3, <2>4
  <2>6. l \notin path[k - 1] /\ l \in path[k]
    BY <2>2, <2>5
  <2>7. l \in ps[k - 1]
    BY <1>2, <2>5, <2>6
  <2> QED
    BY <2>5, <2>7
<1>9. ps \in Seq(F)
  <2>1. last \in Nat \/ last = -1
    BY <1>3
  <2>2. \A k \in 1..last : ps[k] \in F
    BY <1>5
  <2>3. CASE last \in Nat
    BY <1>2, <2>2, <2>3
  <2>4. CASE last = -1
    <3>1. 1..last = 1..0
      BY <2>4
    <3> QED
      BY <1>2, <2>2, <3>1
  <2> QED
    BY <2>1, <2>3, <2>4
<1> QED
  BY <1>3, <1>5, <1>7, <1>8, <1>9 DEF ps

-----------------------------------------------------------------------------
(* Pruning: the pendants of the path between a and c are cut.              *)

\* The forest without the labels of D on the path.
Pruned(F, a, c, D) == {IF a \in m \/ c \in m THEN m \ D ELSE m : m \in F}

\* A node beside the path.
IsPendant(F, a, c, b) ==
    /\ b \in F /\ HasParent(F, b) /\ a \notin b /\ c \notin b
    /\ \A m \in F : Above(b, m) => a \in m \/ c \in m

\* Nothing is pruned at first.
LEMMA NothingPruned ==
    ASSUME NEW F, NEW a, NEW c
    PROVE  Pruned(F, a, c, {}) = F
BY DEF Pruned

\* A pendant not cut yet is there, has its parent, and its cut takes its
\* labels off the path.
LEMMA PruneOne ==
    ASSUME NEW F \in Forest, WellFormed(F), NEW a, NEW c,
           NEW D, a \notin D, c \notin D,
           NEW b, IsPendant(F, a, c, b), b \cap D = {}
    PROVE  /\ b \in Pruned(F, a, c, D) /\ HasParent(Pruned(F, a, c, D), b)
           /\ CutEdge(Pruned(F, a, c, D), b) = Pruned(F, a, c, D \cup b)
<1> DEFINE G == Pruned(F, a, c, D)
           Left(m, E) == IF a \in m \/ c \in m THEN m \ E ELSE m
<1>1. /\ b \in F /\ HasParent(F, b) /\ a \notin b /\ c \notin b
      /\ \A m \in F : Above(b, m) => a \in m \/ c \in m
  BY DEF IsPendant
<1>2. \A E : Pruned(F, a, c, E) = {Left(m, E) : m \in F}
  BY DEF Pruned
<1>3. b \in G
  <2>1. Left(b, D) = b
    BY <1>1
  <2> QED
    BY <1>1, <1>2, <2>1
<1>4. HasParent(G, b)
  <2>1. PICK p \in F : Above(b, p) /\ b # NullNode
    BY <1>1 DEF HasParent, Above
  <2>2. (a \in p \/ c \in p) /\ b \subseteq p
    BY <1>1, <2>1 DEF Above
  <2>3. Left(p, D) = p \ D /\ Left(p, D) \in G
    BY <1>2, <2>1, <2>2
  <2>4. b \subseteq p \ D /\ b # p \ D
    BY <1>1, <2>2
  <2> QED
    BY <2>1, <2>3, <2>4 DEF HasParent
<1>5. ASSUME NEW m \in F
      PROVE  Trim(b, Left(m, D)) = Left(m, D \cup b)
  <2>1. CASE a \in m \/ c \in m
    <3>1. b \cap m = {} \/ b \subseteq m
      BY <1>1, <2>1 DEF WellFormed, Laminar
    <3>2. Left(m, D) = m \ D /\ Left(m, D \cup b) = (m \ D) \ b /\ m \ D # b
      BY <1>1, <2>1
    <3>3. CASE b \subseteq m
      <4>1. Above(b, m \ D)
        BY <3>2, <3>3 DEF Above
      <4> QED
        BY <3>2, <4>1 DEF Trim
    <3>4. CASE b \cap m = {}
      BY <3>2, <3>4 DEF Trim, Above
    <3> QED
      BY <3>1, <3>3, <3>4
  <2>2. CASE ~ (a \in m \/ c \in m)
    <3>1. ~ Above(b, m)
      BY <1>1, <2>2
    <3> QED
      BY <2>2, <3>1 DEF Trim
  <2> QED
    BY <2>1, <2>2
<1>6. CutEdge(G, b) = {Trim(b, x) : x \in G}
  BY CutEdgeTrims
<1> HIDE DEF Left
<1>7. CutEdge(G, b) = {Left(m, D \cup b) : m \in F}
  BY <1>2, <1>5, <1>6
<1> QED
  BY <1>2, <1>3, <1>4, <1>7

\* bNodes: the nodes beside the path, on one side and on the other, no two
\* with a label in common.
LEMMA PendantNodesArePendants ==
    ASSUME NEW F \in Forest, WellFormed(F), NEW a \in Labels, NEW c \in Labels
    PROVE  LET bs == PendantNodes(F, a, c) IN
           /\ bs \in Seq(F)
           /\ \A k \in DOMAIN bs : IsPendant(F, a, c, bs[k])
           /\ \A j, k \in DOMAIN bs : j # k => bs[j] \cap bs[k] = {}
<1> DEFINE ps == PendantsAlong(F, a, c)
           qs == PendantsAlong(F, c, a)
           bs == PendantNodes(F, a, c)
<1>1. /\ ps \in Seq(F)
      /\ \A k \in DOMAIN ps :
            /\ HasParent(F, ps[k]) /\ a \notin ps[k]
            /\ \A m \in F : Above(ps[k], m) => a \in m
            /\ \E n \in Chain(F, a, c) : ps[k] \subseteq n
      /\ \A j, k \in DOMAIN ps : j # k => ps[j] \cap ps[k] = {}
  BY PendantsAlongPath
<1>2. /\ qs \in Seq(F)
      /\ \A k \in DOMAIN qs :
            /\ HasParent(F, qs[k]) /\ c \notin qs[k]
            /\ \A m \in F : Above(qs[k], m) => c \in m
            /\ \E n \in Chain(F, c, a) : qs[k] \subseteq n
      /\ \A j, k \in DOMAIN qs : j # k => qs[j] \cap qs[k] = {}
  BY PendantsAlongPath
<1>3. bs = ps \o qs
  BY DEF PendantNodes
<1> HIDE DEF ps, qs, bs
<1>4. /\ DOMAIN ps = 1..Len(ps) /\ DOMAIN qs = 1..Len(qs)
      /\ Len(ps) \in Nat /\ Len(qs) \in Nat
      /\ bs \in Seq(F) /\ DOMAIN bs = 1..(Len(ps) + Len(qs))
  BY <1>1, <1>2, <1>3
<1>5. \A k \in DOMAIN bs :
         \/ k \in DOMAIN ps /\ bs[k] = ps[k]
         \/ k - Len(ps) \in DOMAIN qs /\ bs[k] = qs[k - Len(ps)]
  BY <1>1, <1>2, <1>3, <1>4
<1>6. \A k \in DOMAIN ps : ps[k] \in F /\ c \notin ps[k]
  <2>1. \A n \in Chain(F, a, c) : c \notin n
    BY DEF Chain
  <2> QED
    BY <1>1, <1>4, <2>1
<1>7. \A k \in DOMAIN qs : qs[k] \in F /\ a \notin qs[k]
  <2>1. \A n \in Chain(F, c, a) : a \notin n
    BY DEF Chain
  <2> QED
    BY <1>2, <1>4, <2>1
<1>8. \A j \in DOMAIN ps, k \in DOMAIN qs : ps[j] \cap qs[k] = {}
  <2> SUFFICES ASSUME NEW j \in DOMAIN ps, NEW k \in DOMAIN qs
               PROVE  ps[j] \cap qs[k] = {}
    OBVIOUS
  <2>1. PICK n \in Chain(F, a, c) : ps[j] \subseteq n
    BY <1>1
  <2>2. PICK o \in Chain(F, c, a) : qs[k] \subseteq o
    BY <1>2
  <2>3. n \cap o = {}
    BY DEF Chain, WellFormed, Laminar
  <2> QED
    BY <2>1, <2>2, <2>3
<1>9. \A k \in DOMAIN bs : IsPendant(F, a, c, bs[k])
  BY <1>1, <1>2, <1>5, <1>6, <1>7 DEF IsPendant
<1>10. ASSUME NEW j \in DOMAIN bs, NEW k \in DOMAIN bs, j # k
       PROVE  bs[j] \cap bs[k] = {}
  <2>1. j - Len(ps) # k - Len(ps)
    BY <1>4, <1>10
  <2> QED
    BY <1>1, <1>2, <1>5, <1>8, <1>10, <2>1
<1> QED
  BY <1>4, <1>9, <1>10 DEF bs

\* With every pendant cut, a and c are siblings.
LEMMA PruningMakesCherry ==
    ASSUME NEW F \in Forest, WellFormed(F), NEW a \in Labels, NEW c \in Labels,
           TerminalOf(F, a) # TerminalOf(F, c), Connected(F, a, c),
           NEW D, D = UNION {PendantNodes(F, a, c)[k] :
                                k \in DOMAIN PendantNodes(F, a, c)}
    PROVE  AreSiblings(Pruned(F, a, c, D), a, c)
<1> DEFINE A == TerminalOf(F, a)
           C == TerminalOf(F, c)
           ps == PendantsAlong(F, a, c)
           qs == PendantsAlong(F, c, a)
           bs == PendantNodes(F, a, c)
           G == Pruned(F, a, c, D)
           Left(m) == IF a \in m \/ c \in m THEN m \ D ELSE m
<1>1. /\ A \in Terminals(F) /\ a \in A /\ \A m \in F : a \in m => A \subseteq m
      /\ C \in Terminals(F) /\ c \in C /\ \A m \in F : c \in m => C \subseteq m
  BY TerminalOfLabel
<1>2. /\ A \in F /\ A # {} /\ A \subseteq Labels
      /\ \A m \in F : A \cap m = {} \/ A \subseteq m
      /\ C \in F /\ C # {} /\ C \subseteq Labels
      /\ \A m \in F : C \cap m = {} \/ C \subseteq m
  BY <1>1, TerminalsAreApart
<1>3. A \cap C = {} /\ c \notin A /\ a \notin C
  <2>1. A \subseteq C => A = C
    BY <1>1, <1>2, TerminalsAreApart
  <2> QED
    BY <1>1, <1>2, <2>1
<1>4. /\ bs \in Seq(F)
      /\ \A k \in DOMAIN bs : IsPendant(F, a, c, bs[k])
  BY PendantNodesArePendants
<1>5. D \cap A = {} /\ D \cap C = {}
  <2> SUFFICES ASSUME NEW k \in DOMAIN bs
               PROVE  bs[k] \cap A = {} /\ bs[k] \cap C = {}
    OBVIOUS
  <2>1. bs[k] \in F /\ a \notin bs[k] /\ c \notin bs[k]
    BY <1>4 DEF IsPendant
  <2> QED
    BY <1>1, <1>2, <2>1
<1>6. /\ \A n \in Chain(F, a, c) : \A l \in n : l \in A \/ l \in D
      /\ \A n \in Chain(F, c, a) : \A l \in n : l \in C \/ l \in D
  <2>1. /\ ps \in Seq(F) /\ qs \in Seq(F)
        /\ \A n \in Chain(F, a, c) : \A l \in n :
              l \in A \/ \E k \in DOMAIN ps : l \in ps[k]
        /\ \A n \in Chain(F, c, a) : \A l \in n :
              l \in C \/ \E k \in DOMAIN qs : l \in qs[k]
    BY PendantsAlongPath
  <2>2. bs = ps \o qs
    BY DEF PendantNodes
  <2> HIDE DEF ps, qs
  <2>3. \A k \in DOMAIN ps : k \in DOMAIN bs /\ bs[k] = ps[k]
    BY <2>1, <2>2
  <2>4. \A k \in DOMAIN qs :
           Len(ps) + k \in DOMAIN bs /\ bs[Len(ps) + k] = qs[k]
    BY <2>1, <2>2
  <2>5. \A k \in DOMAIN bs : bs[k] \subseteq D
    OBVIOUS
  <2> HIDE DEF bs
  <2>6. \A k \in DOMAIN ps : ps[k] \subseteq D
    BY <2>3, <2>5
  <2>7. \A k \in DOMAIN qs : qs[k] \subseteq D
    BY <2>4, <2>5
  <2> QED
    BY <2>1, <2>6, <2>7
<1>7. G = {Left(m) : m \in F}
  BY DEF Pruned
<1> HIDE DEF A, C, ps, qs, bs, G
<1>8. PICK q \in F : /\ a \in q /\ c \in q
                     /\ \A m \in F : a \in m /\ c \in m => q \subseteq m
  <2> DEFINE M == {m \in F : a \in m /\ c \in m}
  <2>1. M \in SUBSET Node /\ M # {}
    BY DEF Forest, Connected
  <2>2. PICK x \in M : \A y \in M : y \subseteq x => y = x
    BY <2>1, InnermostExists
  <2>3. \A m \in M : x \subseteq m
    BY <2>2 DEF WellFormed, Laminar
  <2> QED
    BY <2>2, <2>3
<1>9. q \ D = A \cup C
  <2>1. A \cup C \subseteq q \ D
    BY <1>1, <1>5, <1>8
  <2>2. ~ IsTerminal(F, q)
    BY <1>1, <1>2, <1>3, <1>8 DEF IsTerminal
  <2>3. PICK x \in F : /\ HasParent(F, x) /\ Parent(F, x) = q
                       /\ Sibling(F, x) \in F /\ q = x \cup Sibling(F, x)
    BY <2>2, TwoChildren
  <2> DEFINE y == Sibling(F, x)
  <2>4. x \cap y = {} /\ x # {} /\ y # {} /\ y \in F
    BY <2>3, Family
  <2> HIDE DEF y
  <2>5. q = x \cup y
    BY <2>3 DEF y
  <2>6. ~ (a \in x /\ c \in x) /\ ~ (a \in y /\ c \in y)
    <3>1. a \in x /\ c \in x => q \subseteq x
      BY <1>8
    <3>2. a \in y /\ c \in y => q \subseteq y
      BY <1>8, <2>4
    <3> QED
      BY <2>4, <2>5, <3>1, <3>2
  <2>7. \/ x \in Chain(F, a, c) /\ y \in Chain(F, c, a)
        \/ y \in Chain(F, a, c) /\ x \in Chain(F, c, a)
    BY <1>8, <2>4, <2>5, <2>6 DEF Chain
  <2>8. \A l \in q : l \in A \/ l \in C \/ l \in D
    BY <1>6, <2>5, <2>7
  <2> QED
    BY <2>1, <2>8
<1>10. A \in G /\ C \in G /\ A \cup C \in G
  <2>1. Left(A) = A /\ Left(C) = C /\ Left(q) = A \cup C
    BY <1>1, <1>5, <1>8, <1>9
  <2> HIDE DEF Left
  <2> QED
    BY <1>2, <1>7, <1>8, <2>1
<1>11. ASSUME NEW x \in G
       PROVE  /\ a \in x => A \subseteq x
              /\ c \in x => C \subseteq x
              /\ Above(A, x) => A \cup C \subseteq x
  <2>1. PICK m \in F : x = Left(m)
    BY <1>7
  <2>2. CASE ~ (a \in m \/ c \in m)
    BY <1>1, <2>1, <2>2 DEF Above
  <2>3. CASE a \in m \/ c \in m
    <3>1. x = m \ D
      BY <2>1, <2>3
    <3>2. a \in x => A \subseteq x
      BY <1>1, <1>5, <3>1
    <3>3. c \in x => C \subseteq x
      BY <1>1, <1>5, <3>1
    <3>4. ASSUME Above(A, x) PROVE A \cup C \subseteq x
      <4>1. a \in m
        BY <1>1, <3>1, <3>4 DEF Above
      <4>2. c \in m
        <5> SUFFICES ASSUME c \notin m PROVE FALSE
          OBVIOUS
        <5>1. m \in Chain(F, a, c)
          BY <4>1 DEF Chain
        <5>2. x \subseteq A
          BY <1>6, <3>1, <5>1
        <5> QED
          BY <3>4, <5>2 DEF Above
      <4>3. q \subseteq m
        BY <1>8, <4>1, <4>2
      <4> QED
        BY <1>9, <3>1, <4>3
    <3> QED
      BY <3>2, <3>3, <3>4
  <2> QED
    BY <2>2, <2>3
<1> HIDE DEF Left
<1>12. TerminalOf(G, a) = A /\ TerminalOf(G, c) = C
  BY <1>1, <1>2, <1>10, <1>11 DEF TerminalOf
<1>13. Above(A, A \cup C)
  BY <1>2, <1>3 DEF Above
<1>14. HasParent(G, A)
  BY <1>2, <1>10, <1>13 DEF HasParent, Above, NullNode
<1>15. Parent(G, A) = A \cup C
  <2>1. {k \in Labels : \A m \in G : (A \subseteq m /\ A # m) => k \in m} = A \cup C
    BY <1>2, <1>10, <1>11, <1>13 DEF Above
  <2> QED
    BY <1>14, <2>1 DEF Parent
<1>16. Sibling(G, A) = C
  BY <1>3, <1>15 DEF Sibling
<1> QED
  BY <1>12, <1>14, <1>16 DEF AreSiblings, G

\* Siblings have no path between them and nothing hangs off it.
LEMMA SiblingsHaveNoPendants ==
    ASSUME NEW F \in Forest, WellFormed(F), NEW a \in Labels, NEW c \in Labels,
           AreSiblings(F, a, c)
    PROVE  PendantNodes(F, a, c) = <<>>
<1>1. ASSUME NEW x \in Labels, NEW y, NEW t, \A n \in Chain(F, x, y) : n = t
      PROVE  PendantsAlong(F, x, y) = <<>>
  <2> DEFINE path == PathBelowLca(F, x, y)
  <2>1. /\ path \in Seq(Chain(F, x, y))
        /\ \A j, k \in DOMAIN path : path[j] \subseteq path[k] <=> j <= k
    BY PathListsChain
  <2>2. PendantsAlong(F, x, y) = [k \in 1..(Len(path) - 1) |-> path[k + 1] \ path[k]]
    BY DEF PendantsAlong
  <2> HIDE DEF path
  <2>3. Len(path) \in Nat /\ DOMAIN path = 1..Len(path)
    BY <2>1
  <2>4. Len(path) <= 1
    <3> SUFFICES ASSUME Len(path) >= 2 PROVE FALSE
      BY <2>3
    <3>1. 1 \in DOMAIN path /\ 2 \in DOMAIN path
      BY <2>3
    <3>2. path[1] \in Chain(F, x, y) /\ path[2] \in Chain(F, x, y)
      BY <2>1, <3>1
    <3>3. path[1] = t /\ path[2] = t
      BY <1>1, <3>2
    <3>4. path[2] \subseteq path[1] <=> 2 <= 1
      BY <2>1, <3>1
    <3> QED
      BY <3>3, <3>4
  <2>5. 1..(Len(path) - 1) = {}
    BY <2>3, <2>4
  <2>6. PendantsAlong(F, x, y) \in Seq(F) /\ DOMAIN PendantsAlong(F, x, y) = {}
    BY <2>2, <2>5, PendantsAlongPath
  <2> QED
    BY <2>6
<1> DEFINE A == TerminalOf(F, a)
           C == TerminalOf(F, c)
<1>2. /\ A \in Terminals(F) /\ a \in A /\ \A m \in F : a \in m => A \subseteq m
      /\ C \in Terminals(F) /\ c \in C /\ \A m \in F : c \in m => C \subseteq m
  BY TerminalOfLabel
<1>3. HasParent(F, A) /\ Sibling(F, A) = C /\ A \in F /\ C \in F
  BY <1>2 DEF AreSiblings, Terminals
<1>4. /\ Parent(F, A) = A \cup C
      /\ \A m \in F : Above(A, m) => Parent(F, A) \subseteq m
      /\ \A m \in F : Above(C, m) => Parent(F, A) \subseteq m
  BY <1>3, Family, AboveSibling
<1> HIDE DEF A, C
<1>5. \A n \in Chain(F, a, c) : n = A
  BY <1>2, <1>4 DEF Chain, Above
<1>6. \A n \in Chain(F, c, a) : n = C
  BY <1>2, <1>4 DEF Chain, Above
<1>7. PendantsAlong(F, a, c) = <<>> /\ PendantsAlong(F, c, a) = <<>>
  BY <1>1, <1>5, <1>6
<1> QED
  BY <1>7 DEF PendantNodes

-----------------------------------------------------------------------------
(* The top of a block: the lowest node that holds all of it.               *)

IsTop(T, b, n) == b \subseteq n /\ \A m \in T : b \subseteq m => n \subseteq m

Top(T, b) == CHOOSE n \in T : IsTop(T, b, n)

\* A block that some node holds has a top, which lies on its span.
LEMMA TopOfBlock ==
    ASSUME NEW T \in Forest, Laminar(T), NEW b, b # {},
           \E m \in T : b \subseteq m
    PROVE  /\ Top(T, b) \in T /\ IsTop(T, b, Top(T, b))
           /\ Top(T, b) \in Span(T, b)
<1> DEFINE M == {m \in T : b \subseteq m}
<1>1. M \in SUBSET Node /\ M # {}
  BY DEF Forest
<1>2. PICK n \in M : \A y \in M : y \subseteq n => y = n
  BY <1>1, InnermostExists
<1>3. ASSUME NEW m \in T, b \subseteq m
      PROVE  n \subseteq m
  <2>1. n \cap m # {}
    BY <1>2, <1>3
  <2>2. n \subseteq m \/ m \subseteq n
    BY <1>2, <1>3, <2>1 DEF Laminar
  <2> QED
    BY <1>2, <1>3, <2>2
<1>4. Top(T, b) \in T /\ IsTop(T, b, Top(T, b))
  BY <1>2, <1>3 DEF Top, IsTop
<1>5. Top(T, b) \in Span(T, b)
  BY <1>4 DEF Span, IsTop
<1> QED
  BY <1>4, <1>5

-----------------------------------------------------------------------------
(* Cutting above the tops of all blocks but one tells the blocks apart.    *)

\* A cut above n parts the labels x and y.
Parts(n, x, y) == n \cap {x, y} # {} /\ ~ {x, y} \subseteq n

\* A set of cuts tells the blocks of P apart.
TellsApart(S, P) ==
    \A b, c \in P : b # c => \A x \in b, y \in c : \E n \in S : Parts(n, x, y)

SpansAreDisjoint(T, P) ==
    \A b, c \in P : b # c => Span(T, b) \cap Span(T, c) = {}

\* Of two blocks neither top is on the span of the other; so a top that holds
\* a label of the other block lies strictly above the other top.
LEMMA TopHoldsTop ==
    ASSUME NEW T \in Forest, Laminar(T), NEW P,
           \A b \in P : b # {} /\ \E m \in T : b \subseteq m,
           SpansAreDisjoint(T, P),
           NEW b \in P, NEW c \in P, b # c,
           NEW y \in c, y \in Top(T, b)
    PROVE  Top(T, c) \subseteq Top(T, b) /\ Top(T, c) # Top(T, b)
<1> DEFINE tb == Top(T, b)
           tc == Top(T, c)
<1>1. /\ tb \in T /\ IsTop(T, b, tb) /\ tb \in Span(T, b)
      /\ tc \in T /\ IsTop(T, c, tc) /\ tc \in Span(T, c)
  BY TopOfBlock
<1>2. tb # tc
  BY <1>1 DEF SpansAreDisjoint
<1> HIDE DEF tb, tc
<1>3. tb \subseteq tc \/ tc \subseteq tb
  <2>1. y \in tb /\ y \in tc
    BY <1>1 DEF IsTop, tb
  <2> QED
    BY <1>1, <2>1 DEF Laminar
<1>4. ~ tb \subseteq tc
  <2> SUFFICES ASSUME tb \subseteq tc PROVE FALSE
    OBVIOUS
  <2>1. \A m \in T : c \subseteq m => tb \subseteq m
    BY <1>1 DEF IsTop
  <2>2. tb \cap c # {}
    BY DEF tb
  <2>3. tb \in Span(T, c)
    BY <1>1, <2>1, <2>2 DEF Span
  <2> QED
    BY <1>1, <2>3 DEF SpansAreDisjoint
<1> QED
  BY <1>2, <1>3, <1>4 DEF tb, tc

\* A forest over the labels is a partition whose blocks share no node of T.
SpansPartOf(T, P) == IsPartition(P, Labels) /\ SpansAreDisjoint(T, P)

\* An agreement forest of k blocks needs no more than k - 1 cuts: those above
\* the tops of all blocks but an outermost one.
THEOREM SeparatingCutsExist ==
    ASSUME NEW T \in Forest, Laminar(T), Roots(T) = {Labels},
           NEW P, SpansPartOf(T, P), P # {}
    PROVE  /\ IsFiniteSet(P)
           /\ \E S \in SUBSET (T \ Roots(T)) :
                 /\ IsFiniteSet(S)
                 /\ Cardinality(S) + 1 <= Cardinality(P)
                 /\ TellsApart(S, P)
<1> DEFINE top(b) == Top(T, b)
<1>1. Labels \in T
  BY DEF Roots
<1>2. \A b \in P : b # {} /\ b \subseteq Labels
  BY DEF SpansPartOf, IsPartition
<1>3. \A b \in P : /\ top(b) \in T /\ IsTop(T, b, top(b))
                   /\ top(b) \in Span(T, b)
  BY <1>1, <1>2, TopOfBlock
<1>4. SpansAreDisjoint(T, P)
  BY DEF SpansPartOf
<1>5. \A b, c \in P : b # c => top(b) # top(c)
  BY <1>3, <1>4 DEF SpansAreDisjoint
<1>6. \A b, c \in P : b # c => \A y \in c : y \in top(b) =>
          top(c) \subseteq top(b) /\ top(c) # top(b)
  BY <1>1, <1>2, <1>4, TopHoldsTop
<1>7. IsFiniteSet(P)
  <2>1. P \in SUBSET (SUBSET Labels)
    BY <1>2
  <2> QED
    BY <2>1, LabelsAreTaxa, FS_SUBSET, FS_Subset
<1>8. PICK d \in P : \A b \in P : top(d) \subseteq top(b) => top(b) = top(d)
  <2> DEFINE M == {top(b) : b \in P}
  <2>1. M \in SUBSET Node
    BY <1>3 DEF Forest
  <2>2. M # {}
    OBVIOUS
  <2> HIDE DEF top
  <2>3. PICK x \in M : \A y \in M : x \subseteq y => y = x
    BY <2>1, <2>2, OutermostExists
  <2> QED
    BY <2>3
<1> DEFINE S == {top(b) : b \in P \ {d}}
<1>9. S \in SUBSET (T \ Roots(T))
  <2> SUFFICES ASSUME NEW b \in P \ {d}
               PROVE  top(b) \in T /\ top(b) # Labels
    OBVIOUS
  <2>1. top(b) \in T /\ top(d) \in T
    BY <1>3
  <2>2. top(d) \subseteq Labels
    BY <2>1 DEF Forest, Node
  <2> QED
    BY <1>5, <1>8, <2>1, <2>2
<1>10. IsFiniteSet(S) /\ Cardinality(S) + 1 <= Cardinality(P)
  <2> DEFINE Q == P \ {d}
             f == [b \in Q |-> top(b)]
  <2>1. IsFiniteSet(Q) /\ Cardinality(Q) = Cardinality(P) - 1
    BY <1>7, FS_RemoveElement
  <2> HIDE DEF top
  <2>2. f \in Surjection(Q, S)
    BY DEF Surjection
  <2>3. IsFiniteSet(S) /\ Cardinality(S) <= Cardinality(Q)
    BY <2>1, <2>2, FS_Surjection
  <2>4. Cardinality(S) \in Nat /\ Cardinality(P) \in Nat
    BY <1>7, <2>3, FS_CardinalityType
  <2> QED
    BY <2>1, <2>3, <2>4
<1>11. ASSUME NEW b \in P, NEW c \in P, b # c, NEW x \in b, NEW y \in c
       PROVE  \E n \in S : Parts(n, x, y)
  <2>1. x \in top(b) /\ y \in top(c)
    BY <1>3 DEF IsTop
  <2>2. y \notin top(b) \/ x \notin top(c)
    BY <1>6, <1>11
  <2>3. y \notin top(b) => Parts(top(b), x, y)
    BY <2>1 DEF Parts
  <2>4. x \notin top(c) => Parts(top(c), x, y)
    BY <2>1 DEF Parts
  <2>5. CASE b # d /\ c # d
    BY <2>2, <2>3, <2>4, <2>5
  <2>6. CASE b = d
    <3>1. x \notin top(c)
      BY <1>6, <1>8, <1>11, <2>6
    <3> QED
      BY <1>11, <2>4, <2>6, <3>1
  <2>7. CASE c = d
    <3>1. y \notin top(b)
      BY <1>6, <1>8, <1>11, <2>7
    <3> QED
      BY <1>11, <2>3, <2>7, <3>1
  <2> QED
    BY <2>5, <2>6, <2>7
<1>12. TellsApart(S, P)
  BY <1>11 DEF TellsApart
<1> QED
  BY <1>7, <1>9, <1>10, <1>12
-----------------------------------------------------------------------------
(* Forests cut out of a tree.                                              *)

NodesWithin(F, R) == {m \in F : m \subseteq R}

\* Every tree of F is what T induces on its labels, and the trees of F are
\* apart in T: what is left of T when edges are cut one by one.
CutForest(T, F) ==
    /\ F \in Forest /\ WellFormed(F)
    /\ \A R \in Roots(F) : NodesWithin(F, R) = Induced(T, R)
    /\ SpansAreDisjoint(T, Roots(F))

\* What a tree induces on a block.
LEMMA InducedMembers ==
    ASSUME NEW T, NEW b
    PROVE  \A z : z \in Induced(T, b) <=> z # {} /\ \E k \in T : z = k \cap b
BY DEF Induced

\* The root a node lies below, and no other.
LEMMA RootsAreApart ==
    ASSUME NEW F \in Forest, WellFormed(F), NEW R \in Roots(F), NEW Q \in Roots(F),
           R # Q
    PROVE  R \cap Q = {}
BY DEF WellFormed, Laminar, Roots

\* A tree, or a forest, is cut out of itself.
LEMMA UncutTree ==
    ASSUME NEW T \in Forest, WellFormed(T)
    PROVE  CutForest(T, T)
<1>1. ASSUME NEW R \in Roots(T)
      PROVE  NodesWithin(T, R) = Induced(T, R)
  <2>1. \A m \in T : m # {} /\ (m \cap R # {} => m \subseteq R)
    BY DEF WellFormed, Laminar, Roots, NullNode
  <2>2. ASSUME NEW z
        PROVE  z \in Induced(T, R) <=> z \in T /\ z \subseteq R
    <3>1. z \in Induced(T, R) <=> z # {} /\ \E k \in T : z = k \cap R
      BY InducedMembers
    <3>2. \A m \in T : m \subseteq R => m = m \cap R
      OBVIOUS
    <3>3. \A k \in T : k \cap R # {} => k \cap R = k
      BY <2>1
    <3> QED
      BY <2>1, <3>1, <3>2, <3>3
  <2> QED
    BY <2>2 DEF NodesWithin
<1>2. ASSUME NEW R \in Roots(T), NEW Q \in Roots(T), R # Q
      PROVE  Span(T, R) \cap Span(T, Q) = {}
  <2>1. R \cap Q = {}
    BY <1>2, RootsAreApart
  <2>2. \A m \in T : (m \cap R # {} => m \subseteq R) /\ (m \cap Q # {} => m \subseteq Q)
    BY DEF WellFormed, Laminar, Roots
  <2> QED
    BY <2>1, <2>2 DEF Span
<1> QED
  BY <1>1, <1>2 DEF CutForest, SpansAreDisjoint

\* What a node of T leaves of a tree of F is a node of F, and every node of F
\* in that tree is such a rest.
LEMMA RestsAreNodes ==
    ASSUME NEW T, NEW F, CutForest(T, F), NEW R \in Roots(F)
    PROVE  /\ \A k \in T : k \cap R # {} => k \cap R \in F
           /\ \A m \in F : m \cap R # {} =>
                 m \subseteq R /\ \E k \in T : m = k \cap R
<1>1. NodesWithin(F, R) = Induced(T, R)
  BY DEF CutForest
<1>2. \A k \in T : k \cap R # {} => k \cap R \in Induced(T, R)
  BY DEF Induced
<1>3. ASSUME NEW m \in F, m \cap R # {}
      PROVE  m \subseteq R
  BY <1>3 DEF CutForest, WellFormed, Laminar, Roots
<1>4. \A m \in Induced(T, R) : \E k \in T : m = k \cap R
  BY DEF Induced
<1> QED
  BY <1>1, <1>2, <1>3, <1>4 DEF NodesWithin

\* A tree of F agrees with T on every set of its labels.
LEMMA InducedOfCutForest ==
    ASSUME NEW T, NEW F, CutForest(T, F), NEW R \in Roots(F), NEW t \in SUBSET R
    PROVE  Induced(F, t) = Induced(T, t)
<1>1. ASSUME NEW m \in F, m \cap t # {}
      PROVE  \E k \in T : m \cap t = k \cap t
  <2>1. PICK k \in T : m = k \cap R
    BY <1>1, RestsAreNodes
  <2> QED
    BY <2>1
<1>2. ASSUME NEW k \in T, k \cap t # {}
      PROVE  \E m \in F : m \cap t = k \cap t
  <2>1. k \cap R \in F
    BY <1>2, RestsAreNodes
  <2>2. (k \cap R) \cap t = k \cap t
    OBVIOUS
  <2> QED
    BY <2>1, <2>2
<1>3. \A z : z \in Induced(F, t) => z \in Induced(T, t)
  BY <1>1, InducedMembers
<1>4. \A z : z \in Induced(T, t) => z \in Induced(F, t)
  BY <1>2, InducedMembers
<1> QED
  BY <1>3, <1>4

\* A smaller block spans no more.
LEMMA SpanOfPart ==
    ASSUME NEW T, NEW b, NEW c, b \subseteq c
    PROVE  Span(T, b) \subseteq Span(T, c)
BY DEF Span

\* The trees after a cut: the one cut off, the rest of its tree, the others.
LEMMA RootsAfterCut ==
    ASSUME NEW F \in Forest, WellFormed(F), NEW n \in F, HasParent(F, n),
           NEW R \in Roots(F), n \subseteq R, n # R
    PROVE  Roots(CutEdge(F, n)) \subseteq {n, R \ n} \cup (Roots(F) \ {R})
<1> DEFINE G == CutEdge(F, n)
<1>1. G = {Trim(n, m) : m \in F}
  BY CutEdgeTrims
<1>2. n # {}
  BY DEF HasParent, NullNode
<1>3. /\ \A m \in F : Above(n, m) => Trim(n, m) = m \ n
      /\ \A m \in F : ~ Above(n, m) => Trim(n, m) = m
  BY <1>2, TrimmedNodes
<1>4. n \in G /\ R \ n \in G
  <2>1. R \in F /\ Above(n, R) /\ ~ Above(n, n)
    BY DEF Roots, Above
  <2> QED
    BY <1>1, <1>3, <2>1
<1> HIDE DEF G
<1> SUFFICES ASSUME NEW X \in Roots(G)
             PROVE  X \in {n, R \ n} \cup (Roots(F) \ {R})
  BY DEF G
<1>5. PICK m \in F : X = Trim(n, m)
  BY <1>1 DEF Roots
<1>6. PICK Q \in Roots(F) : m \subseteq Q
  BY RootAbove
<1>7. CASE Q # R
  <2>1. Q \cap R = {}
    BY <1>7, RootsAreApart
  <2>2. ~ Above(n, m) /\ ~ Above(n, Q)
    BY <1>2, <1>6, <2>1 DEF Above
  <2>3. X = m /\ Q \in G
    BY <1>1, <1>3, <1>5, <2>2 DEF Roots
  <2>4. X = Q
    BY <1>6, <2>3 DEF Roots
  <2> QED
    BY <1>7, <2>4
<1>8. CASE Q = R
  <2>1. X \subseteq n \/ X \subseteq R \ n
    <3>1. CASE Above(n, m)
      BY <1>3, <1>5, <1>6, <1>8, <3>1
    <3>2. CASE ~ Above(n, m)
      <4>1. X = m
        BY <1>3, <1>5, <3>2
      <4>2. m \subseteq n \/ m \cap n = {}
        BY <3>2 DEF Above, WellFormed, Laminar
      <4> QED
        BY <1>6, <1>8, <4>1, <4>2
    <3> QED
      BY <3>1, <3>2
  <2> QED
    BY <1>4, <2>1 DEF Roots
<1> QED
  BY <1>7, <1>8

\* The two sides of a cut share no node of T: a node of T on both spans would
\* lie strictly above one that already holds the tree cut off.
LEMMA SidesOfCutAreApart ==
    ASSUME NEW T \in Forest, Laminar(T), NEW F, CutForest(T, F),
           NEW n \in F, NEW R \in Roots(F), n \subseteq R, n # {}
    PROVE  Span(T, n) \cap Span(T, R \ n) = {}
<1> SUFFICES ASSUME NEW x \in Span(T, n), x \in Span(T, R \ n)
             PROVE  FALSE
  OBVIOUS
<1>1. /\ x \in T /\ x \cap n # {} /\ x \cap (R \ n) # {}
      /\ ~ \E m \in T : n \subseteq m /\ m \subseteq x /\ m # x
  BY DEF Span
<1>2. PICK k \in T : n = k \cap R
  BY RestsAreNodes
<1>3. x \cap R \in F
  BY <1>1, RestsAreNodes
<1>4. n \subseteq x
  BY <1>1, <1>3 DEF CutForest, WellFormed, Laminar
<1>5. ~ x \subseteq k
  BY <1>1, <1>2
<1>6. k \cap x # {}
  BY <1>1, <1>2
<1>7. k \subseteq x /\ k # x
  BY <1>1, <1>5, <1>6 DEF Laminar
<1> QED
  BY <1>1, <1>2, <1>7

\* The nodes below one side of a cut are what T induces on that side.
LEMMA SideOfCut ==
    ASSUME NEW T, NEW F, CutForest(T, F),
           NEW n \in F, NEW R \in Roots(F), n \subseteq R, n # R, n # {}
    PROVE  /\ NodesWithin(CutEdge(F, n), n) = Induced(T, n)
           /\ NodesWithin(CutEdge(F, n), R \ n) = Induced(T, R \ n)
<1> DEFINE G == CutEdge(F, n)
<1>1. F \in Forest /\ WellFormed(F) /\ Laminar(F)
  BY DEF CutForest, WellFormed
<1>2. G = {Trim(n, m) : m \in F}
  BY CutEdgeTrims
<1>3. /\ \A m \in F : Above(n, m) => Trim(n, m) = m \ n
      /\ \A m \in F : ~ Above(n, m) => Trim(n, m) = m
      /\ {} \notin G
  BY <1>1, TrimmedNodes DEF NullNode
<1>4. /\ \A k \in T : k \cap R # {} => k \cap R \in F
      /\ \A m \in F : m \cap R # {} =>
            m \subseteq R /\ \E k \in T : m = k \cap R
  BY RestsAreNodes
<1>5. \A m \in F : Above(n, m) \/ m \subseteq n \/ m \cap n = {}
  BY <1>1 DEF Above, Laminar
<1> HIDE DEF G
<1>6. \A z : z \in {m \in G : m \subseteq n} => z \in Induced(T, n)
  <2> SUFFICES ASSUME NEW z \in G, z \subseteq n
               PROVE  z # {} /\ \E k \in T : z = k \cap n
    BY InducedMembers
  <2>1. z # {}
    BY <1>3
  <2>2. PICK q \in F : z = Trim(n, q)
    BY <1>2
  <2>3. ~ Above(n, q)
    BY <1>3, <2>1, <2>2
  <2>4. z = q /\ q \cap R # {}
    BY <1>3, <2>1, <2>2, <2>3
  <2>5. PICK k \in T : q = k \cap R
    BY <1>4, <2>4
  <2> QED
    BY <2>1, <2>4, <2>5
<1>7. \A z : z \in Induced(T, n) => z \in {m \in G : m \subseteq n}
  <2> SUFFICES ASSUME NEW k \in T, k \cap n # {}
               PROVE  k \cap n \in G
    BY InducedMembers
  <2>1. k \cap R \in F
    BY <1>4
  <2>2. n \subseteq k \cap R \/ k \cap R \subseteq n
    BY <1>1, <2>1 DEF Laminar
  <2>3. k \cap n \in F
    BY <2>1, <2>2
  <2>4. ~ Above(n, k \cap n)
    BY DEF Above
  <2>5. Trim(n, k \cap n) = k \cap n
    BY <1>3, <2>3, <2>4
  <2> QED
    BY <1>2, <2>3, <2>5
<1>8. \A z : z \in {m \in G : m \subseteq R \ n} => z \in Induced(T, R \ n)
  <2> SUFFICES ASSUME NEW z \in G, z \subseteq R \ n
               PROVE  z # {} /\ \E k \in T : z = k \cap (R \ n)
    BY InducedMembers
  <2>1. z # {}
    BY <1>3
  <2>2. PICK q \in F : z = Trim(n, q)
    BY <1>2
  <2>3. q \cap R # {} /\ z = q \ n
    <3>1. CASE Above(n, q)
      BY <1>3, <2>1, <2>2, <3>1
    <3>2. CASE ~ Above(n, q)
      BY <1>3, <2>1, <2>2, <3>2
    <3> QED
      BY <3>1, <3>2
  <2>4. PICK k \in T : q = k \cap R
    BY <1>4, <2>3
  <2> QED
    BY <2>1, <2>3, <2>4
<1>9. \A z : z \in Induced(T, R \ n) => z \in {m \in G : m \subseteq R \ n}
  <2> SUFFICES ASSUME NEW k \in T, k \cap (R \ n) # {}
               PROVE  k \cap (R \ n) \in G
    BY InducedMembers
  <2>1. k \cap R \in F
    BY <1>4
  <2>2. Trim(n, k \cap R) = k \cap (R \ n)
    <3>1. CASE Above(n, k \cap R)
      BY <1>3, <2>1, <3>1
    <3>2. CASE ~ Above(n, k \cap R)
      BY <1>3, <1>5, <2>1, <3>2
    <3> QED
      BY <3>1, <3>2
  <2> QED
    BY <1>2, <2>1, <2>2
<1>10. NodesWithin(G, n) = Induced(T, n)
  BY <1>6, <1>7 DEF NodesWithin
<1>11. NodesWithin(G, R \ n) = Induced(T, R \ n)
  BY <1>8, <1>9 DEF NodesWithin
<1> QED
  BY <1>10, <1>11 DEF G

\* A cut leaves the other trees as they are.
LEMMA OthersAfterCut ==
    ASSUME NEW F \in Forest, WellFormed(F), NEW n \in F, n # {},
           NEW R \in Roots(F), n \subseteq R, NEW Q \in Roots(F), Q # R
    PROVE  NodesWithin(CutEdge(F, n), Q) = NodesWithin(F, Q)
<1> DEFINE G == CutEdge(F, n)
<1>1. G = {Trim(n, m) : m \in F}
  BY CutEdgeTrims
<1>2. /\ \A m \in F : Above(n, m) => Trim(n, m) = m \ n
      /\ \A m \in F : ~ Above(n, m) => Trim(n, m) = m
      /\ {} \notin G /\ {} \notin F
  BY TrimmedNodes DEF WellFormed, NullNode
<1>3. Q \cap R = {}
  BY RootsAreApart
<1> HIDE DEF G
<1>4. \A z : z \in G /\ z \subseteq Q => z \in F
  <2> SUFFICES ASSUME NEW z \in G, z \subseteq Q PROVE z \in F
    OBVIOUS
  <2>1. PICK q \in F : z = Trim(n, q)
    BY <1>1
  <2>2. CASE Above(n, q)
    <3>1. q \subseteq R
      BY <2>2 DEF Above, WellFormed, Laminar, Roots
    <3>2. z \subseteq R
      BY <1>2, <2>1, <2>2, <3>1
    <3> QED
      BY <1>2, <1>3, <3>2
  <2>3. CASE ~ Above(n, q)
    BY <1>2, <2>1, <2>3
  <2> QED
    BY <2>2, <2>3
<1>5. \A z : z \in F /\ z \subseteq Q => z \in G
  <2> SUFFICES ASSUME NEW z \in F, z \subseteq Q PROVE z \in G
    OBVIOUS
  <2>1. ~ Above(n, z)
    BY <1>3 DEF Above
  <2> QED
    BY <1>1, <1>2, <2>1
<1>6. NodesWithin(G, Q) = NodesWithin(F, Q)
  BY <1>4, <1>5 DEF NodesWithin
<1> QED
  BY <1>6 DEF G

\* Cutting an edge of a forest cut out of T leaves a forest cut out of T.
THEOREM CutKeepsCutForest ==
    ASSUME NEW T \in Forest, Laminar(T), NEW F, CutForest(T, F),
           NEW n \in F, HasParent(F, n)
    PROVE  CutForest(T, CutEdge(F, n))
<1> DEFINE G == CutEdge(F, n)
<1>1. F \in Forest /\ WellFormed(F)
  BY DEF CutForest
<1>2. G \in Forest /\ WellFormed(G)
  BY <1>1, CutKeepsForest
<1>3. n # {}
  BY DEF HasParent, NullNode
<1>4. PICK R \in Roots(F) : n \subseteq R /\ n # R
  <2>1. PICK m \in F : n \subseteq m /\ n # m
    BY DEF HasParent
  <2>2. PICK R \in Roots(F) : m \subseteq R
    BY <1>1, RootAbove
  <2> QED
    BY <2>1, <2>2
<1>5. Roots(G) \subseteq {n, R \ n} \cup (Roots(F) \ {R})
  BY <1>1, <1>4, RootsAfterCut
<1> HIDE DEF G
<1>6. \A Q \in Roots(G) : NodesWithin(G, Q) = Induced(T, Q)
  <2> SUFFICES ASSUME NEW Q \in Roots(G)
               PROVE  NodesWithin(G, Q) = Induced(T, Q)
    OBVIOUS
  <2>1. CASE Q = n \/ Q = R \ n
    <3>1. /\ NodesWithin(CutEdge(F, n), n) = Induced(T, n)
          /\ NodesWithin(CutEdge(F, n), R \ n) = Induced(T, R \ n)
      BY <1>3, <1>4, SideOfCut
    <3> QED
      BY <2>1, <3>1 DEF G
  <2>2. CASE Q \in Roots(F) /\ Q # R
    <3>1. NodesWithin(G, Q) = NodesWithin(F, Q)
      BY <1>1, <1>3, <1>4, <2>2, OthersAfterCut DEF G
    <3>2. NodesWithin(F, Q) = Induced(T, Q)
      BY <2>2 DEF CutForest
    <3> QED
      BY <3>1, <3>2
  <2> QED
    BY <1>5, <2>1, <2>2
<1>7. Span(T, n) \cap Span(T, R \ n) = {}
  BY <1>3, <1>4, SidesOfCutAreApart
<1>8. \A b, c \in Roots(F) : b # c => Span(T, b) \cap Span(T, c) = {}
  BY DEF CutForest, SpansAreDisjoint
<1>9. Span(T, n) \subseteq Span(T, R) /\ Span(T, R \ n) \subseteq Span(T, R)
  BY <1>4, SpanOfPart
<1>10. SpansAreDisjoint(T, Roots(G))
  <2> SUFFICES ASSUME NEW b \in Roots(G), NEW c \in Roots(G), b # c
               PROVE  Span(T, b) \cap Span(T, c) = {}
    BY DEF SpansAreDisjoint
  <2>1. CASE b \in {n, R \ n} /\ c \in {n, R \ n}
    BY <1>7, <2>1
  <2>2. CASE b \in {n, R \ n} /\ c \in Roots(F) \ {R}
    BY <1>8, <1>9, <2>2
  <2>3. CASE c \in {n, R \ n} /\ b \in Roots(F) \ {R}
    BY <1>8, <1>9, <2>3
  <2>4. CASE b \in Roots(F) \ {R} /\ c \in Roots(F) \ {R}
    BY <1>8, <2>4
  <2> QED
    BY <1>5, <2>1, <2>2, <2>3, <2>4
<1> QED
  BY <1>2, <1>6, <1>10 DEF CutForest, G

-----------------------------------------------------------------------------
(* What cutting edges does to the blocks a forest may be divided into.     *)

\* No block of P reaches across two trees of F or divides a terminal, and the
\* subtrees the blocks span in F share no node.
Divides(P, F) ==
    /\ \A b \in P : \E m \in F : b \subseteq m
    /\ \A b \in P : \A t \in Terminals(F) : t \subseteq b \/ t \cap b = {}
    /\ SpansAreDisjoint(F, P)

\* No block has labels on both sides of the edge above n.
KeepsTo(P, n) == \A b \in P : b \subseteq n \/ b \cap n = {}

\* Every block is a nonempty set of labels.
Blocks(P) == \A b \in P : b # {} /\ b \subseteq Labels

\* A cut leaves what it does not divide.
LEMMA InducedAfterCut ==
    ASSUME NEW F \in Forest, WellFormed(F), NEW n \in F, HasParent(F, n),
           NEW b, b \subseteq n \/ b \cap n = {}
    PROVE  Induced(CutEdge(F, n), b) = Induced(F, b)
<1>0. n # {}
  BY Family
<1>1. /\ \A m \in F : Above(n, m) => Trim(n, m) = m \ n
      /\ \A m \in F : ~ Above(n, m) => Trim(n, m) = m
      /\ \A m \in F : m \subseteq n => Trim(n, m) = m
  BY <1>0, TrimmedNodes
<1>2. \A g : g \in CutEdge(F, n) <=> \E m \in F : g = Trim(n, m)
  BY CutEdgeTrims
<1>3. CASE b \cap n = {}
  <2>1. \A m \in F : Trim(n, m) \cap b = m \cap b
    BY <1>1, <1>3
  <2>2. ASSUME NEW z
        PROVE  z \in Induced(CutEdge(F, n), b) <=> z \in Induced(F, b)
    <3>1. z \in Induced(CutEdge(F, n), b)
              <=> z # {} /\ \E m \in F : z = Trim(n, m) \cap b
      BY <1>2, InducedMembers
    <3> QED
      BY <2>1, <3>1, InducedMembers
  <2> QED
    BY <2>2
<1>4. CASE b \subseteq n
  <2>1. \A m \in F : \/ Trim(n, m) \cap b = m \cap b
                     \/ Trim(n, m) \cap b = {} /\ m \cap b = n \cap b
    BY <1>1, <1>4 DEF Above
  <2>2. Trim(n, n) = n
    BY <1>1
  <2>3. \A z : z \in Induced(CutEdge(F, n), b) => z \in Induced(F, b)
    BY <1>2, <2>1, InducedMembers
  <2>4. ASSUME NEW z, z \in Induced(F, b) PROVE z \in Induced(CutEdge(F, n), b)
    <3>1. PICK m \in F : z = m \cap b /\ z # {}
      BY <2>4, InducedMembers
    <3>2. \E k \in F : z = Trim(n, k) \cap b
      BY <2>1, <2>2, <3>1
    <3> QED
      BY <1>2, <3>1, <3>2, InducedMembers
  <2> QED
    BY <2>3, <2>4
<1> QED
  BY <1>3, <1>4

\* The nodes after a cut, seen from one side of it.
LEMMA SidesOfCut ==
    ASSUME NEW F \in Forest, WellFormed(F), NEW n \in F, HasParent(F, n)
    PROVE  /\ \A g \in CutEdge(F, n) : g \subseteq n \/ g \cap n = {}
           /\ \A g : g \subseteq n => (g \in CutEdge(F, n) <=> g \in F)
<1>0. n # {}
  BY Family
<1>1. /\ \A m \in F : Above(n, m) => Trim(n, m) = m \ n
      /\ \A m \in F : ~ Above(n, m) => Trim(n, m) = m
      /\ \A m \in F : m \subseteq n => Trim(n, m) = m
      /\ NullNode \notin CutEdge(F, n)
  BY <1>0, TrimmedNodes
<1>2. \A g : g \in CutEdge(F, n) <=> \E m \in F : g = Trim(n, m)
  BY CutEdgeTrims
<1>3. \A m \in F : Above(n, m) \/ m \subseteq n \/ m \cap n = {}
  BY DEF WellFormed, Laminar, Above
<1>4. \A m \in F : Trim(n, m) \subseteq n \/ Trim(n, m) \cap n = {}
  BY <1>1, <1>3
<1>5. \A m \in F : Trim(n, m) \subseteq n => Trim(n, m) = m \/ Trim(n, m) = {}
  BY <1>1
<1> QED
  BY <1>1, <1>2, <1>4, <1>5 DEF NullNode

\* Blocks cut off are as far apart as before.
LEMMA SpanWithinCut ==
    ASSUME NEW F \in Forest, WellFormed(F), NEW n \in F, HasParent(F, n),
           NEW b, b # {}, b \subseteq n
    PROVE  /\ Span(CutEdge(F, n), b) = Span(F, b)
           /\ \A m \in Span(F, b) : m \subseteq n
<1>1. /\ \A g \in CutEdge(F, n) : g \subseteq n \/ g \cap n = {}
      /\ \A g : g \subseteq n => (g \in CutEdge(F, n) <=> g \in F)
  BY SidesOfCut
<1>2. \A m \in Span(F, b) : m \subseteq n
  BY DEF Span, WellFormed, Laminar
<1>3. \A g \in Span(CutEdge(F, n), b) : g \subseteq n
  BY <1>1 DEF Span
<1>4. ASSUME NEW m, m \in Span(F, b) PROVE m \in Span(CutEdge(F, n), b)
  BY <1>1, <1>2, <1>4 DEF Span
<1>5. ASSUME NEW m, m \in Span(CutEdge(F, n), b) PROVE m \in Span(F, b)
  BY <1>1, <1>3, <1>5 DEF Span
<1> QED
  BY <1>2, <1>4, <1>5

\* What a cut of n leaves of the nodes above it.
LEMMA BesideCut ==
    ASSUME NEW F \in Forest, WellFormed(F), NEW n \in F, HasParent(F, n),
           NEW b, b # {}, b \cap n = {}
    PROVE  /\ \A m \in F : b \subseteq m => b \subseteq Trim(n, m)
           /\ \A m \in F : b \subseteq Trim(n, m) => b \subseteq m /\ ~ m \subseteq n
           /\ \A m \in F : m \cap b # {} => Trim(n, m) \cap b # {} /\ ~ m \subseteq n
           /\ \A m \in F : Trim(n, m) \cap b # {} => m \cap b # {}
<1>0. n # {}
  BY Family
<1>1. /\ \A m \in F : Above(n, m) => Trim(n, m) = m \ n
      /\ \A m \in F : ~ Above(n, m) => Trim(n, m) = m
  BY <1>0, TrimmedNodes
<1>2. \A m \in F : Trim(n, m) \cap b = m \cap b
  BY <1>1
<1>3. \A m \in F : m \cap b # {} => ~ m \subseteq n
  OBVIOUS
<1> QED
  BY <1>2, <1>3

\* Trimming keeps the order of nodes that do not lie below the cut.
LEMMA TrimmedOrder ==
    ASSUME NEW F \in Forest, WellFormed(F), NEW n \in F, HasParent(F, n),
           NEW k \in F, ~ k \subseteq n, NEW m \in F, ~ m \subseteq n
    PROVE  /\ k \subseteq m => Trim(n, k) \subseteq Trim(n, m)
           /\ Trim(n, k) \subseteq Trim(n, m) /\ Trim(n, k) # Trim(n, m)
                  => k \subseteq m /\ k # m
           /\ Trim(n, k) = Trim(n, m) /\ k \subseteq m /\ k # m
                  => k = Sibling(F, n) /\ m = Parent(F, n)
<1>0. n # {}
  BY Family
<1>1. /\ \A x \in F : Above(n, x) => Trim(n, x) = x \ n
      /\ \A x \in F : ~ Above(n, x) => Trim(n, x) = x
  BY <1>0, TrimmedNodes
<1>2. (Above(n, k) \/ k \cap n = {}) /\ (Above(n, m) \/ m \cap n = {})
  BY DEF WellFormed, Laminar, Above
<1>3. Trim(n, k) = k \ n /\ Trim(n, m) = m \ n
  BY <1>1, <1>2
<1>4. k \ n # {} /\ m \ n # {}
  OBVIOUS
<1>5. ASSUME k \ n \subseteq m \ n, k \ n # m \ n
      PROVE  k \subseteq m /\ k # m
  <2>1. k \subseteq m \/ m \subseteq k
    BY <1>4, <1>5 DEF WellFormed, Laminar
  <2> QED
    BY <1>5, <2>1
<1>6. ASSUME k \ n = m \ n, k \subseteq m, k # m
      PROVE  k = Sibling(F, n) /\ m = Parent(F, n)
  <2>1. Above(n, m) /\ k \cap n = {} /\ k = m \ n
    BY <1>2, <1>6 DEF Above
  <2>2. m \ n \in F
    BY <2>1
  <2>3. m = Parent(F, n) /\ m \ n = Sibling(F, n)
    BY <2>1, <2>2, ParentOfSibling
  <2> QED
    BY <2>1, <2>3
<1> QED
  BY <1>3, <1>5, <1>6

\* The nodes a block beside the cut spans are the trimmed ones it spanned; of
\* the parent and the sibling, which coincide then, the sibling is meant.
LEMMA SpanBesideCut ==
    ASSUME NEW F \in Forest, WellFormed(F), NEW n \in F, HasParent(F, n),
           NEW b, b # {}, b \cap n = {}
    PROVE  /\ \A m \in Span(F, b) : Trim(n, m) \in Span(CutEdge(F, n), b)
           /\ \A m \in F : /\ Trim(n, m) \in Span(CutEdge(F, n), b)
                           /\ m # Parent(F, n)
                           => m \in Span(F, b)
<1>1. \A g : g \in CutEdge(F, n) <=> \E m \in F : g = Trim(n, m)
  BY CutEdgeTrims
<1>2. /\ \A m \in F : b \subseteq m => b \subseteq Trim(n, m)
      /\ \A m \in F : b \subseteq Trim(n, m) => b \subseteq m /\ ~ m \subseteq n
      /\ \A m \in F : m \cap b # {} => Trim(n, m) \cap b # {} /\ ~ m \subseteq n
      /\ \A m \in F : Trim(n, m) \cap b # {} => m \cap b # {}
  BY BesideCut
<1>3. ASSUME NEW m \in Span(F, b)
      PROVE  Trim(n, m) \in Span(CutEdge(F, n), b)
  <2>1. m \in F /\ m \cap b # {} /\ ~ \E k \in F : b \subseteq k /\ k \subseteq m /\ k # m
    BY DEF Span
  <2>2. ASSUME NEW k \in F, b \subseteq Trim(n, k), Trim(n, k) \subseteq Trim(n, m),
               Trim(n, k) # Trim(n, m)
        PROVE  FALSE
    <3>1. b \subseteq k /\ ~ k \subseteq n /\ ~ m \subseteq n
      BY <1>2, <2>1, <2>2
    <3>2. k \subseteq m /\ k # m
      BY <2>1, <2>2, <3>1, TrimmedOrder
    <3> QED
      BY <2>1, <3>1, <3>2
  <2> QED
    BY <1>1, <1>2, <2>1, <2>2 DEF Span
<1>4. ASSUME NEW m \in F, Trim(n, m) \in Span(CutEdge(F, n), b), m # Parent(F, n)
      PROVE  m \in Span(F, b)
  <2>1. /\ Trim(n, m) \cap b # {}
        /\ ~ \E g \in CutEdge(F, n) :
               b \subseteq g /\ g \subseteq Trim(n, m) /\ g # Trim(n, m)
    BY <1>4 DEF Span
  <2>2. m \cap b # {} /\ ~ m \subseteq n
    BY <1>2, <2>1
  <2>3. ASSUME NEW k \in F, b \subseteq k, k \subseteq m, k # m
        PROVE  FALSE
    <3>1. b \subseteq Trim(n, k) /\ ~ k \subseteq n
      BY <1>2, <2>3
    <3>2. Trim(n, k) \subseteq Trim(n, m)
      BY <2>2, <2>3, <3>1, TrimmedOrder
    <3>3. Trim(n, k) = Trim(n, m)
      BY <1>1, <2>1, <3>1, <3>2
    <3> QED
      BY <1>4, <2>2, <2>3, <3>1, <3>3, TrimmedOrder
  <2> QED
    BY <2>2, <2>3 DEF Span
<1> QED
  BY <1>3, <1>4

\* A cut that divides no block keeps blocks apart that were apart, and brings
\* none of them apart.
LEMMA SpansAcrossCut ==
    ASSUME NEW F \in Forest, WellFormed(F), NEW n \in F, HasParent(F, n),
           NEW b, b # {}, b \subseteq n \/ b \cap n = {},
           NEW c, c # {}, c \subseteq n \/ c \cap n = {}
    PROVE  Span(CutEdge(F, n), b) \cap Span(CutEdge(F, n), c) = {}
               <=> Span(F, b) \cap Span(F, c) = {}
<1> DEFINE G == CutEdge(F, n)
<1> HIDE DEF G
<1>1. \A g : g \in G <=> \E m \in F : g = Trim(n, m)
  BY CutEdgeTrims DEF G
<1>2. \A g \in G : g \subseteq n \/ g \cap n = {}
  BY SidesOfCut DEF G
<1>3. CASE b \subseteq n /\ c \subseteq n
  BY <1>3, SpanWithinCut
<1>4. ASSUME NEW x, x # {}, x \subseteq n, NEW y, y # {}, y \cap n = {}
      PROVE  Span(G, x) \cap Span(G, y) = {} /\ Span(F, x) \cap Span(F, y) = {}
  <2>1. Span(G, x) = Span(F, x) /\ \A m \in Span(F, x) : m \subseteq n
    BY <1>4, SpanWithinCut DEF G
  <2>2. \A m \in Span(G, y) \cup Span(F, y) : ~ m \subseteq n
    BY <1>4 DEF Span
  <2> QED
    BY <2>1, <2>2
<1>5. CASE b \cap n = {} /\ c \cap n = {}
  <2>1. /\ \A m \in Span(F, b) : Trim(n, m) \in Span(G, b)
        /\ \A m \in F : Trim(n, m) \in Span(G, b) /\ m # Parent(F, n) => m \in Span(F, b)
    BY <1>5, SpanBesideCut DEF G
  <2>2. /\ \A m \in Span(F, c) : Trim(n, m) \in Span(G, c)
        /\ \A m \in F : Trim(n, m) \in Span(G, c) /\ m # Parent(F, n) => m \in Span(F, c)
    BY <1>5, SpanBesideCut DEF G
  <2>3. ASSUME NEW g \in Span(G, b) \cap Span(G, c)
        PROVE  \E m \in F : g = Trim(n, m) /\ m # Parent(F, n)
    <3>1. PICK m \in F : g = Trim(n, m)
      BY <1>1, <2>3 DEF Span
    <3>2. CASE m = Parent(F, n)
      <4>1. /\ Sibling(F, n) \in F /\ Parent(F, n) = n \cup Sibling(F, n)
            /\ n \cap Sibling(F, n) = {} /\ n # {} /\ Above(n, Parent(F, n))
        BY Family
      <4>2. Trim(n, m) = Sibling(F, n) /\ Trim(n, Sibling(F, n)) = Sibling(F, n)
        BY <3>2, <4>1 DEF Trim, Above
      <4>3. Sibling(F, n) # Parent(F, n)
        BY <4>1
      <4> QED
        BY <3>1, <4>1, <4>2, <4>3
    <3> QED
      BY <3>1, <3>2
  <2>4. \A m \in Span(F, b) \cap Span(F, c) : Trim(n, m) \in Span(G, b) \cap Span(G, c)
    BY <2>1, <2>2
  <2>5. \A g \in Span(G, b) \cap Span(G, c) : \E m \in F : m \in Span(F, b) \cap Span(F, c)
    BY <2>1, <2>2, <2>3
  <2> QED
    BY <2>4, <2>5 DEF G
<1> QED
  BY <1>3, <1>4, <1>5 DEF G

\* A forest of blocks that a cut does not divide fits the forest after the cut
\* as well as the one before; and what fits afterwards is not divided by it.
LEMMA CutDivides ==
    ASSUME NEW F \in Forest, WellFormed(F), NEW n \in F, HasParent(F, n),
           NEW P, Blocks(P)
    PROVE  /\ KeepsTo(P, n) => (Divides(P, CutEdge(F, n)) <=> Divides(P, F))
           /\ Divides(P, CutEdge(F, n)) => KeepsTo(P, n)
<1> DEFINE G == CutEdge(F, n)
<1> HIDE DEF G
<1>1. \A g : g \in G <=> \E m \in F : g = Trim(n, m)
  BY CutEdgeTrims DEF G
<1>2. \A g \in G : g \subseteq n \/ g \cap n = {}
  BY SidesOfCut DEF G
<1>3. Terminals(G) = Terminals(F)
  BY CutKeepsTerminals DEF G
<1>4. n \in G
  BY SidesOfCut DEF G
<1>5. ASSUME Divides(P, G) PROVE KeepsTo(P, n)
  BY <1>2, <1>5 DEF Divides, KeepsTo
<1>6. ASSUME KeepsTo(P, n) PROVE Divides(P, G) <=> Divides(P, F)
  <2>1. SpansAreDisjoint(G, P) <=> SpansAreDisjoint(F, P)
    <3>1. \A b, c \in P : Span(G, b) \cap Span(G, c) = {} <=> Span(F, b) \cap Span(F, c) = {}
      BY <1>6, SpansAcrossCut DEF G, KeepsTo, Blocks
    <3> QED
      BY <3>1 DEF SpansAreDisjoint
  <2>2. ASSUME NEW b \in P PROVE (\E m \in F : b \subseteq m) <=> (\E g \in G : b \subseteq g)
    <3>1. CASE b \subseteq n
      BY <1>4, <3>1
    <3>2. CASE b \cap n = {}
      <4>1. b # {}
        BY DEF Blocks
      <4>2. \A m \in F : b \subseteq m <=> b \subseteq Trim(n, m)
        BY <3>2, <4>1, BesideCut
      <4> QED
        BY <1>1, <4>2
    <3> QED
      BY <1>6, <3>1, <3>2 DEF KeepsTo
  <2> QED
    BY <1>3, <2>1, <2>2 DEF Divides
<1> QED
  BY <1>5, <1>6 DEF G

-----------------------------------------------------------------------------
(* What collapsing a cherry does to them.                                  *)

\* No block has a part of n only.
KeepsWhole(P, n) == \A b \in P : n \subseteq b \/ b \cap n = {}

\* A cherry: two terminals and their parent.
IsCherry(F, t, s) ==
    /\ t \in Terminals(F) /\ s \in Terminals(F)
    /\ HasParent(F, t) /\ Sibling(F, t) = s

\* The nodes around a cherry.
AroundCherry(F, t, s) ==
    /\ t \in F /\ s \in F /\ t \cup s \in F /\ Parent(F, t) = t \cup s
    /\ t # {} /\ s # {} /\ t \cap s = {} /\ t \subseteq Labels /\ s \subseteq Labels

\* The nodes of a cherry and what is around them.
LEMMA CherryNodes ==
    ASSUME NEW F \in Forest, WellFormed(F), NEW t, NEW s, IsCherry(F, t, s)
    PROVE  AroundCherry(F, t, s)
<1>1. t \in F /\ HasParent(F, t) /\ Sibling(F, t) = s /\ s \in Terminals(F)
  BY DEF IsCherry, Terminals
<1>2. /\ Parent(F, t) \in F /\ s \in F /\ t # {} /\ s # {} /\ t \subseteq Labels
      /\ t \cap s = {} /\ Parent(F, t) = t \cup s
  BY <1>1, Family
<1>4. s \subseteq Labels
  BY <1>2 DEF Forest, Node
<1> QED
  BY <1>1, <1>2, <1>4 DEF AroundCherry

\* Any other node has all of a cherry or nothing.
LEMMA CherryIsWhole ==
    ASSUME NEW F \in Forest, WellFormed(F), NEW t, NEW s, IsCherry(F, t, s), NEW m \in F
    PROVE  m = t \/ m = s \/ m \cap (t \cup s) = {} \/ t \cup s \subseteq m
<1>1. t \in F /\ HasParent(F, t) /\ Sibling(F, t) = s /\ s \in Terminals(F)
  BY DEF IsCherry, Terminals
<1>2. Parent(F, t) = t \cup s /\ \A k \in F : Above(t, k) => t \cup s \subseteq k
  BY <1>1, Family
<1>3. Above(s, m) => t \cup s \subseteq m
  BY <1>1, <1>2, AboveSibling
<1>5. t \in Terminals(F)
  BY DEF IsCherry
<1>6. ASSUME m # t, m # s, m \cap (t \cup s) # {}
      PROVE  t \cup s \subseteq m
  <2>1. m \cap t # {} => t \subseteq m
    BY <1>5, TerminalsAreApart
  <2>2. m \cap s # {} => s \subseteq m
    BY <1>1, TerminalsAreApart
  <2> QED
    BY <1>2, <1>3, <1>6, <2>1, <2>2 DEF Above
<1> QED
  BY <1>6

\* A cherry is all there is below its parent.
LEMMA CherryIsBelow ==
    ASSUME NEW F \in Forest, WellFormed(F), NEW t, NEW s, IsCherry(F, t, s)
    PROVE  /\ \A m : m \in CollapseAt(F, t \cup s) <=> m \in F /\ m # t /\ m # s
           /\ Terminals(CollapseAt(F, t \cup s)) = (Terminals(F) \ {t, s}) \cup {t \cup s}
<1>0. AroundCherry(F, t, s)
  BY CherryNodes
<1>1. /\ t \in Terminals(F) /\ HasParent(F, t) /\ Sibling(F, t) = s /\ s \in Terminals(F)
      /\ Parent(F, t) = t \cup s
  BY <1>0 DEF IsCherry, AroundCherry
<1>2. Below(F, t \cup s) = {t, s}
  BY <1>1, BelowCherry
<1>3. Terminals(CollapseAt(F, t \cup s)) = (Terminals(F) \ {t, s}) \cup {t \cup s}
  BY <1>1, CollapseMergesTerminals
<1> QED
  BY <1>2, <1>3 DEF CollapseAt

\* A block that has all of a cherry or nothing induces the same after it has
\* been collapsed, but for the two terminals.
LEMMA InducedAfterCollapse ==
    ASSUME NEW F \in Forest, WellFormed(F), NEW t, NEW s, IsCherry(F, t, s),
           NEW b, t \cup s \subseteq b \/ b \cap (t \cup s) = {}
    PROVE  /\ Induced(CollapseAt(F, t \cup s), b) = Induced(F, b) \ {t, s}
           /\ Induced(F, b) = Induced(CollapseAt(F, t \cup s), b)
                                  \cup {x \in {t, s} : x \subseteq b}
<1> DEFINE G == CollapseAt(F, t \cup s)
<1>0. AroundCherry(F, t, s)
  BY CherryNodes
<1>1. /\ t \in F /\ s \in F /\ t \cup s \in F /\ Parent(F, t) = t \cup s
      /\ t # {} /\ s # {} /\ t \cap s = {}
  BY <1>0 DEF AroundCherry
<1>a. \A m \in F : m = t \/ m = s \/ m \cap (t \cup s) = {} \/ t \cup s \subseteq m
  BY CherryIsWhole
<1>2. \A m : m \in G <=> m \in F /\ m # t /\ m # s
  BY CherryIsBelow
<1> HIDE DEF G
<1>3. \A m \in G : m \cap b # t /\ m \cap b # s
  <2>1. \A m \in G : m \cap (t \cup s) = {} \/ t \cup s \subseteq m
    BY <1>a, <1>2
  <2> QED
    BY <1>1, <2>1
<1>4. ASSUME NEW m \in {t, s}
      PROVE  m \cap b = {} \/ (m \cap b = m /\ m \subseteq b)
  OBVIOUS
<1>5. ASSUME NEW z
      PROVE  z \in Induced(G, b) <=> z \in Induced(F, b) /\ z \notin {t, s}
  <2>1. z \in Induced(G, b) <=> z # {} /\ \E m \in G : z = m \cap b
    BY InducedMembers
  <2>2. z \in Induced(F, b) <=> z # {} /\ \E m \in F : z = m \cap b
    BY InducedMembers
  <2> QED
    BY <1>2, <1>3, <1>4, <2>1, <2>2
<1>6. ASSUME NEW z \in {t, s}
      PROVE  z \in Induced(F, b) <=> z \subseteq b
  <2>2. z \in Induced(F, b) <=> z # {} /\ \E m \in F : z = m \cap b
    BY InducedMembers
  <2>3. z \subseteq b => z = z \cap b
    OBVIOUS
  <2> QED
    BY <1>1, <1>6, <2>2, <2>3
<1> QED
  BY <1>5, <1>6 DEF G

\* A collapse of a cherry no block divides keeps blocks apart, and apart only
\* those that were.
LEMMA SpansAcrossCollapse ==
    ASSUME NEW F \in Forest, WellFormed(F), NEW t, NEW s, IsCherry(F, t, s),
           NEW b, t \cup s \subseteq b \/ b \cap (t \cup s) = {},
           NEW c, t \cup s \subseteq c \/ c \cap (t \cup s) = {},
           b # {}, c # {}, b \cap c = {}
    PROVE  Span(CollapseAt(F, t \cup s), b) \cap Span(CollapseAt(F, t \cup s), c) = {}
               <=> Span(F, b) \cap Span(F, c) = {}
<1> DEFINE G == CollapseAt(F, t \cup s)
<1>0. AroundCherry(F, t, s)
  BY CherryNodes
<1>1. /\ t \in F /\ s \in F /\ t \cup s \in F /\ Parent(F, t) = t \cup s
      /\ t # {} /\ s # {} /\ t \cap s = {}
  BY <1>0 DEF AroundCherry
<1>2. \A m : m \in G <=> m \in F /\ m # t /\ m # s
  BY CherryIsBelow
<1> HIDE DEF G
<1>3. ASSUME NEW x, t \cup s \subseteq x \/ x \cap (t \cup s) = {}, x # {},
             NEW m \in G
      PROVE  m \in Span(G, x) <=> m \in Span(F, x)
  <2>1. \A k \in {t, s} : ~ x \subseteq k
    BY <1>1, <1>3
  <2>2. (\E k \in F : x \subseteq k /\ k \subseteq m /\ k # m)
            <=> (\E k \in G : x \subseteq k /\ k \subseteq m /\ k # m)
    BY <1>2, <2>1
  <2> QED
    BY <1>2, <2>2 DEF Span
<1>4. \A m \in {t, s} : ~ (m \cap b # {} /\ m \cap c # {})
  BY <1>1
<1>5. \A m \in {t, s} : m \notin Span(F, b) \cap Span(F, c)
  BY <1>4 DEF Span
<1>6. \A m \in Span(F, b) \cap Span(F, c) : m \in G
  BY <1>2, <1>5 DEF Span
<1>7. \A m \in Span(G, b) \cap Span(G, c) : m \in G
  BY DEF Span
<1>8. \A m \in G : m \in Span(G, b) \cap Span(G, c) <=> m \in Span(F, b) \cap Span(F, c)
  BY <1>3
<1> QED
  BY <1>6, <1>7, <1>8 DEF G

\* A forest of blocks that have all of a cherry or nothing fits the forest
\* with the cherry collapsed as well as the one before.
LEMMA CollapseDivides ==
    ASSUME NEW F \in Forest, WellFormed(F), NEW t, NEW s, IsCherry(F, t, s),
           NEW P, IsPartition(P, Labels)
    PROVE  /\ KeepsWhole(P, t \cup s)
                  => (Divides(P, CollapseAt(F, t \cup s)) <=> Divides(P, F))
           /\ Divides(P, CollapseAt(F, t \cup s)) => KeepsWhole(P, t \cup s)
<1> DEFINE G == CollapseAt(F, t \cup s)
<1>0. AroundCherry(F, t, s)
  BY CherryNodes
<1>1. /\ t \in F /\ s \in F /\ t \cup s \in F /\ Parent(F, t) = t \cup s
      /\ t # {} /\ s # {} /\ t \cap s = {}
  BY <1>0 DEF AroundCherry
<1>2. \A m : m \in G <=> m \in F /\ m # t /\ m # s
  BY CherryIsBelow
<1>3. Terminals(G) = (Terminals(F) \ {t, s}) \cup {t \cup s}
  BY CherryIsBelow
<1> HIDE DEF G
<1>4. /\ \A b \in P : b # {}
      /\ \A b, c \in P : b # c => b \cap c = {}
  BY DEF IsPartition
<1>5. ASSUME Divides(P, G) PROVE KeepsWhole(P, t \cup s)
  BY <1>3, <1>5 DEF Divides, KeepsWhole
<1>6. ASSUME KeepsWhole(P, t \cup s) PROVE Divides(P, G) <=> Divides(P, F)
  <2>1. \A b, c \in P : b # c =>
            (Span(G, b) \cap Span(G, c) = {} <=> Span(F, b) \cap Span(F, c) = {})
    BY <1>4, <1>6, SpansAcrossCollapse DEF KeepsWhole, G
  <2>2. SpansAreDisjoint(G, P) <=> SpansAreDisjoint(F, P)
    BY <2>1 DEF SpansAreDisjoint
  <2>3. \A b \in P : (\E m \in F : b \subseteq m) <=> (\E m \in G : b \subseteq m)
    <3>1. \A m \in F : m \in G \/ (m \subseteq t \cup s /\ t \cup s \in G)
      BY <1>1, <1>2
    <3> QED
      BY <1>2, <3>1
  <2>4. (\A b \in P : \A x \in Terminals(F) : x \subseteq b \/ x \cap b = {})
            <=> (\A b \in P : \A x \in Terminals(G) : x \subseteq b \/ x \cap b = {})
    <3>1. \A b \in P : \A x \in {t, s, t \cup s} : x \subseteq b \/ x \cap b = {}
      BY <1>6 DEF KeepsWhole
    <3>2. \A x : x \in Terminals(F) => x \in Terminals(G) \/ x \in {t, s, t \cup s}
      BY <1>3
    <3>3. \A x : x \in Terminals(G) => x \in Terminals(F) \/ x \in {t, s, t \cup s}
      BY <1>3
    <3> QED
      BY <3>1, <3>2, <3>3
  <2> QED
    BY <2>2, <2>3, <2>4 DEF Divides
<1> QED
  BY <1>5, <1>6 DEF G

-----------------------------------------------------------------------------
(* Splitting a block, and joining two.                                     *)

\* A terminal split off a block is a block of its own.
SplitOff(P, b, t) == (P \ {b}) \cup {t, b \ t}

\* A block joins another one.
JoinedTo(P, t, c) == (P \ {t, c}) \cup {t \cup c}

\* What a block induces says what its parts induce.
LEMMA InducedOfPart ==
    ASSUME NEW F, NEW G, NEW b, NEW c, c \subseteq b, Induced(F, b) = Induced(G, b)
    PROVE  Induced(F, c) = Induced(G, c)
<1>1. ASSUME NEW H, NEW z
      PROVE  z \in Induced(H, c) <=> z # {} /\ \E y \in Induced(H, b) : z = y \cap c
    <2>1. z \in Induced(H, c) <=> z # {} /\ \E k \in H : z = k \cap c
      BY InducedMembers
    <2>2. \A y : y \in Induced(H, b) <=> y # {} /\ \E k \in H : y = k \cap b
      BY InducedMembers
    <2>3. \A k : k \cap c = (k \cap b) \cap c
      OBVIOUS
    <2>4. ASSUME NEW k \in H, z = k \cap c, z # {}
          PROVE  \E y \in Induced(H, b) : z = y \cap c
        <3>1. k \cap b # {} /\ z = (k \cap b) \cap c
          BY <2>3, <2>4
        <3>2. k \cap b \in Induced(H, b)
          BY <2>2, <3>1
        <3> QED
          BY <3>1, <3>2
    <2>5. ASSUME NEW y \in Induced(H, b), z = y \cap c
          PROVE  \E k \in H : z = k \cap c
      BY <2>2, <2>3, <2>5
    <2> QED
      BY <2>1, <2>4, <2>5
<1>2. \A z : z \in Induced(F, c) <=> z \in Induced(G, c)
  BY <1>1
<1> QED
  BY <1>2

\* A terminal spans no node but itself.
LEMMA SpanOfTerminal ==
    ASSUME NEW F \in Forest, WellFormed(F), NEW t \in Terminals(F)
    PROVE  Span(F, t) \subseteq {t}
<1>1. t \in F /\ \A m \in F : t \cap m = {} \/ t \subseteq m
  BY TerminalsAreApart
<1> QED
  BY <1>1 DEF Span

\* A partition stays one when a part of a block is split off.
LEMMA SplitIsPartition ==
    ASSUME NEW P, IsPartition(P, Labels), NEW b \in P, NEW t, t # {}, t \subseteq b, t # b
    PROVE  IsPartition(SplitOff(P, b, t), Labels)
<1>1. /\ UNION P = Labels /\ {} \notin P
      /\ \A c, d \in P : c = d \/ c \cap d = {}
  BY DEF IsPartition
<1>2. b \ t # {} /\ {} \notin SplitOff(P, b, t)
  BY <1>1 DEF SplitOff
<1>3. UNION SplitOff(P, b, t) = Labels
    <2>1. ASSUME NEW l PROVE l \in UNION SplitOff(P, b, t) <=> l \in UNION P
        <3>1. l \in b <=> l \in t \/ l \in b \ t
          OBVIOUS
        <3> QED
          BY <3>1 DEF SplitOff
    <2> QED
      BY <2>1, <1>1
<1>4. ASSUME NEW c \in SplitOff(P, b, t), NEW d \in SplitOff(P, b, t), c # d
      PROVE  c \cap d = {}
    <2>1. \A e \in P \ {b} : e \cap b = {} /\ e \cap t = {} /\ e \cap (b \ t) = {}
      BY <1>1
    <2>2. CASE c \in P /\ c # b /\ d \in P /\ d # b
      BY <2>2, <1>1, <1>4
    <2>3. CASE c \in P /\ c # b /\ d \in {t, b \ t}
      BY <2>3, <2>1
    <2>4. CASE c \in {t, b \ t} /\ d \in P /\ d # b
      BY <2>4, <2>1
    <2>5. CASE c \in {t, b \ t} /\ d \in {t, b \ t}
      BY <2>5, <1>4
    <2> QED
      BY <2>2, <2>3, <2>4, <2>5 DEF SplitOff
<1> QED
  BY <1>2, <1>3, <1>4 DEF IsPartition

\* A terminal can be split off wherever the blocks fit.
LEMMA SplitDivides ==
    ASSUME NEW F \in Forest, WellFormed(F), NEW P, IsPartition(P, Labels), Divides(P, F),
           NEW t \in Terminals(F), NEW b \in P, t \subseteq b, t # b
    PROVE  Divides(SplitOff(P, b, t), F)
<1>1. t \in F /\ t # {} /\ \A m \in F : t \cap m = {} \/ t \subseteq m
  BY TerminalsAreApart
<1>2. /\ \A c \in P : \E m \in F : c \subseteq m
      /\ \A c \in P : \A u \in Terminals(F) : u \subseteq c \/ u \cap c = {}
      /\ SpansAreDisjoint(F, P)
  BY DEF Divides
<1>3. \A c \in SplitOff(P, b, t) : \E d \in P : c \subseteq d
  BY DEF SplitOff
<1>4. \A c \in SplitOff(P, b, t) : \E m \in F : c \subseteq m
  BY <1>2, <1>3
<1>5. ASSUME NEW c \in SplitOff(P, b, t), NEW u \in Terminals(F)
      PROVE  u \subseteq c \/ u \cap c = {}
    <2>1. u \in F /\ (u = t \/ u \cap t = {})
      BY <1>1, TerminalsAreApart
    <2>2. u \subseteq b \/ u \cap b = {}
      BY <1>2
    <2> QED
      BY <1>2, <2>1, <2>2 DEF SplitOff
<1>6. ASSUME NEW c \in SplitOff(P, b, t), NEW d \in SplitOff(P, b, t), c # d
      PROVE  Span(F, c) \cap Span(F, d) = {}
    <2>1. Span(F, t) \subseteq {t} /\ t \notin Span(F, b \ t)
      BY SpanOfTerminal DEF Span
    <2>2. Span(F, t) \subseteq Span(F, b) /\ Span(F, b \ t) \subseteq Span(F, b)
      BY SpanOfPart
    <2>3. \A e \in P \ {b} : Span(F, e) \cap Span(F, b) = {}
      BY <1>2 DEF SpansAreDisjoint
    <2>4. CASE c \in P /\ c # b /\ d \in P /\ d # b
      BY <2>4, <1>2, <1>6 DEF SpansAreDisjoint
    <2>5. CASE c \in P /\ c # b /\ d \in {t, b \ t}
      BY <2>5, <2>2, <2>3
    <2>6. CASE c \in {t, b \ t} /\ d \in P /\ d # b
      BY <2>6, <2>2, <2>3
    <2>7. CASE c \in {t, b \ t} /\ d \in {t, b \ t}
      BY <2>7, <2>1, <1>6
    <2> QED
      BY <2>4, <2>5, <2>6, <2>7 DEF SplitOff
<1>7. SpansAreDisjoint(F, SplitOff(P, b, t))
  BY <1>6 DEF SpansAreDisjoint
<1> QED
  BY <1>4, <1>5, <1>7 DEF Divides

\* Blocks are finitely many.
LEMMA BlocksAreFinite ==
    ASSUME NEW P, IsPartition(P, Labels)
    PROVE  IsFiniteSet(P) /\ Cardinality(P) \in Nat
<1>1. P \subseteq SUBSET Labels
  BY DEF IsPartition
<1>2. IsFiniteSet(SUBSET Labels)
  BY LabelsAreTaxa, FS_SUBSET
<1>3. IsFiniteSet(P)
  BY <1>1, <1>2, FS_Subset
<1> QED
  BY <1>3, FS_CardinalityType

\* Splitting a block makes one block more.
LEMMA SplitCounts ==
    ASSUME NEW P, IsPartition(P, Labels), NEW b \in P, NEW t, t # {}, t \subseteq b, t # b
    PROVE  Cardinality(SplitOff(P, b, t)) = Cardinality(P) + 1
<1>1. IsFiniteSet(P) /\ Cardinality(P) \in Nat
  BY BlocksAreFinite
<1>2. /\ {} \notin P
      /\ \A c, d \in P : c = d \/ c \cap d = {}
  BY DEF IsPartition
<1>3. t \notin P /\ b \ t \notin P /\ t # b \ t /\ b \ t # {}
    <2>1. b \ t # {} /\ b \ t # b /\ (b \ t) \cap b # {} /\ t \cap b # {}
      OBVIOUS
    <2> QED
      BY <1>2, <2>1
<1>4. IsFiniteSet(P \ {b}) /\ Cardinality(P \ {b}) = Cardinality(P) - 1
  BY <1>1, FS_RemoveElement
<1>5. /\ IsFiniteSet((P \ {b}) \cup {t})
      /\ Cardinality((P \ {b}) \cup {t}) = Cardinality(P \ {b}) + 1
  BY <1>3, <1>4, FS_AddElement
<1>6. Cardinality(((P \ {b}) \cup {t}) \cup {b \ t}) = Cardinality((P \ {b}) \cup {t}) + 1
  BY <1>3, <1>5, FS_AddElement
<1>7. SplitOff(P, b, t) = ((P \ {b}) \cup {t}) \cup {b \ t}
  BY DEF SplitOff
<1> QED
  BY <1>1, <1>4, <1>5, <1>6, <1>7

\* Of the two terminals of a cherry that lie in different blocks, one is a block.
LEMMA Separated ==
    ASSUME NEW F \in Forest, WellFormed(F), NEW P, IsPartition(P, Labels), Divides(P, F),
           NEW t, NEW s, IsCherry(F, t, s), NEW b \in P, NEW c \in P, b # c,
           t \subseteq b, s \subseteq c
    PROVE  b = t \/ c = s
<1>1. AroundCherry(F, t, s)
  BY CherryNodes
<1>2. t \cup s \in F /\ t # {} /\ s # {} /\ t \cap s = {}
  BY <1>1 DEF AroundCherry
<1>3. b \cap c = {} /\ Span(F, b) \cap Span(F, c) = {}
  BY DEF IsPartition, Divides, SpansAreDisjoint
<1>4. SUFFICES ASSUME b # t, c # s PROVE FALSE
  OBVIOUS
<1>5. ~ b \subseteq t \cup s /\ ~ c \subseteq t \cup s
  BY <1>3, <1>4
<1>6. t \cup s \in Span(F, b) /\ t \cup s \in Span(F, c)
  BY <1>2, <1>5 DEF Span
<1> QED
  BY <1>3, <1>6

\* A partition stays one when two blocks are joined.
LEMMA JoinIsPartition ==
    ASSUME NEW P, IsPartition(P, Labels), NEW t \in P, NEW c \in P
    PROVE  IsPartition(JoinedTo(P, t, c), Labels)
<1>1. /\ UNION P = Labels /\ {} \notin P
      /\ \A d, e \in P : d = e \/ d \cap e = {}
  BY DEF IsPartition
<1>2. {} \notin JoinedTo(P, t, c)
  BY <1>1 DEF JoinedTo
<1>3. UNION JoinedTo(P, t, c) = Labels
    <2>1. ASSUME NEW l PROVE l \in UNION JoinedTo(P, t, c) <=> l \in UNION P
      BY DEF JoinedTo
    <2> QED
      BY <2>1, <1>1
<1>4. ASSUME NEW d \in JoinedTo(P, t, c), NEW e \in JoinedTo(P, t, c), d # e
      PROVE  d \cap e = {}
    <2>1. \A x \in P \ {t, c} : x \cap (t \cup c) = {}
      BY <1>1
    <2>2. CASE d \in P \ {t, c} /\ e \in P \ {t, c}
      BY <2>2, <1>1, <1>4
    <2>3. CASE d \in P \ {t, c} /\ e = t \cup c
      BY <2>3, <2>1
    <2>4. CASE d = t \cup c /\ e \in P \ {t, c}
      BY <2>4, <2>1
    <2> QED
      BY <2>2, <2>3, <2>4, <1>4 DEF JoinedTo
<1> QED
  BY <1>2, <1>3, <1>4 DEF IsPartition

\* Joining two blocks makes one block less.
LEMMA JoinCounts ==
    ASSUME NEW P, IsPartition(P, Labels), NEW t \in P, NEW c \in P, t # c
    PROVE  Cardinality(JoinedTo(P, t, c)) = Cardinality(P) - 1
<1>1. IsFiniteSet(P) /\ Cardinality(P) \in Nat
  BY BlocksAreFinite
<1>2. /\ {} \notin P
      /\ \A d, e \in P : d = e \/ d \cap e = {}
  BY DEF IsPartition
<1>3. IsFiniteSet(P \ {t}) /\ Cardinality(P \ {t}) = Cardinality(P) - 1
  BY <1>1, FS_RemoveElement
<1>4. /\ IsFiniteSet((P \ {t}) \ {c})
      /\ Cardinality((P \ {t}) \ {c}) = Cardinality(P \ {t}) - 1
  BY <1>3, FS_RemoveElement
<1>5. t \cup c \notin (P \ {t}) \ {c}
    <2>1. t # {} /\ (t \cup c) \cap t # {}
      BY <1>2
    <2> QED
      BY <1>2, <2>1
<1>6. Cardinality(((P \ {t}) \ {c}) \cup {t \cup c}) = Cardinality((P \ {t}) \ {c}) + 1
  BY <1>4, <1>5, FS_AddElement
<1>7. JoinedTo(P, t, c) = ((P \ {t}) \ {c}) \cup {t \cup c}
  BY DEF JoinedTo
<1> QED
  BY <1>1, <1>3, <1>4, <1>6, <1>7

\* A terminal that joins the block of its sibling spans no more than the cherry.
LEMMA SpanOfJoined ==
    ASSUME NEW F \in Forest, WellFormed(F), NEW t, NEW s, IsCherry(F, t, s),
           NEW c, s \subseteq c
    PROVE  Span(F, t \cup c) \subseteq Span(F, c) \cup {t, s, t \cup s}
<1>1. AroundCherry(F, t, s)
  BY CherryNodes
<1>2. t \cup s \in F /\ t # {} /\ s # {} /\ t \cap s = {}
  BY <1>1 DEF AroundCherry
<1>3. \A m \in F : m = t \/ m = s \/ m \cap (t \cup s) = {} \/ t \cup s \subseteq m
  BY CherryIsWhole
<1>4. ASSUME NEW n \in Span(F, t \cup c), n \notin {t, s, t \cup s}
      PROVE  n \in Span(F, c)
    <2>1. /\ n \in F /\ n \cap (t \cup c) # {}
          /\ \A m \in F : t \cup c \subseteq m /\ m \subseteq n => m = n
      BY DEF Span
    <2>2. n \cap (t \cup s) = {} \/ t \cup s \subseteq n
      BY <1>3, <1>4, <2>1
    <2>3. n \cap c # {}
      BY <1>2, <2>1, <2>2
    <2>4. ASSUME NEW m \in F, c \subseteq m, m \subseteq n, m # n
          PROVE  FALSE
        <3>1. t \cup s \subseteq n
          BY <1>2, <2>2, <2>4
        <3>2. m = s \/ t \cup s \subseteq m
          BY <1>2, <1>3, <2>4
        <3>3. CASE m = s
          BY <3>1, <3>3, <1>2, <1>4, <2>1, <2>4
        <3>4. CASE t \cup s \subseteq m
          BY <3>4, <2>1, <2>4
        <3> QED
          BY <3>2, <3>3, <3>4
    <2> QED
      BY <2>1, <2>3, <2>4 DEF Span
<1> QED
  BY <1>4

\* Where the blocks fit, a terminal that is a block fits into the block of its
\* sibling.
LEMMA JoinDivides ==
    ASSUME NEW F \in Forest, WellFormed(F), NEW P, IsPartition(P, Labels), Divides(P, F),
           NEW t, NEW s, IsCherry(F, t, s), t \in P, NEW c \in P, s \subseteq c, c # t
    PROVE  Divides(JoinedTo(P, t, c), F)
<1>1. AroundCherry(F, t, s)
  BY CherryNodes
<1>2. t \cup s \in F /\ t # {} /\ s # {} /\ t \cap s = {}
  BY <1>1 DEF AroundCherry
<1>3. \A m \in F : m = t \/ m = s \/ m \cap (t \cup s) = {} \/ t \cup s \subseteq m
  BY CherryIsWhole
<1>4. /\ \A d \in P : \E m \in F : d \subseteq m
      /\ \A d \in P : \A u \in Terminals(F) : u \subseteq d \/ u \cap d = {}
      /\ \A d, e \in P : d # e => Span(F, d) \cap Span(F, e) = {}
  BY DEF Divides, SpansAreDisjoint
<1>5. \A d, e \in P : d = e \/ d \cap e = {}
  BY DEF IsPartition
<1>6. \E m \in F : t \cup c \subseteq m
    <2>1. PICK m \in F : c \subseteq m
      BY <1>4
    <2>2. m = s \/ t \cup s \subseteq m
      BY <1>2, <1>3, <2>1
    <2>3. CASE m = s
      BY <2>1, <2>3, <1>2
    <2> QED
      BY <2>1, <2>2, <2>3
<1>7. \A d \in JoinedTo(P, t, c) : \E m \in F : d \subseteq m
  BY <1>4, <1>6 DEF JoinedTo
<1>8. ASSUME NEW d \in JoinedTo(P, t, c), NEW u \in Terminals(F)
      PROVE  u \subseteq d \/ u \cap d = {}
    <2>1. (u \subseteq t \/ u \cap t = {}) /\ (u \subseteq c \/ u \cap c = {})
      BY <1>4
    <2>2. u \cap (t \cup c) = (u \cap t) \cup (u \cap c)
      OBVIOUS
    <2> QED
      BY <1>4, <2>1, <2>2 DEF JoinedTo
<1>9. ASSUME NEW d \in P \ {t, c}
      PROVE  Span(F, d) \cap Span(F, t \cup c) = {}
    <2>1. d \cap t = {} /\ d \cap c = {} /\ d \cap (t \cup s) = {}
      BY <1>5
    <2>2. \A n \in Span(F, d) : n \cap d # {}
      BY DEF Span
    <2>3. \A n \in Span(F, d) : n \notin {t, s, t \cup s}
      BY <2>1, <2>2
    <2>4. Span(F, t \cup c) \subseteq Span(F, c) \cup {t, s, t \cup s}
      BY SpanOfJoined
    <2>5. Span(F, d) \cap Span(F, c) = {}
      BY <1>4
    <2> QED
      BY <2>3, <2>4, <2>5
<1>10. SpansAreDisjoint(F, JoinedTo(P, t, c))
  BY <1>4, <1>9 DEF SpansAreDisjoint, JoinedTo
<1> QED
  BY <1>7, <1>8, <1>10 DEF Divides

\* What a block induces together with a terminal whose sibling it holds.
Grown(I, t, s) ==
    {t, s, t \cup s} \cup {z \in I : ~ s \subseteq z} \cup {z \cup t : z \in {y \in I : s \subseteq y}}

\* What a block induces after a terminal has joined it.
LEMMA InducedOfJoined ==
    ASSUME NEW F \in Forest, WellFormed(F), NEW t, NEW s, IsCherry(F, t, s),
           NEW c, s \subseteq c, t \cap c = {}
    PROVE  Induced(F, t \cup c) = Grown(Induced(F, c), t, s)
<1>1. AroundCherry(F, t, s)
  BY CherryNodes
<1>2. t \in F /\ s \in F /\ t \cup s \in F /\ t # {} /\ s # {} /\ t \cap s = {}
  BY <1>1 DEF AroundCherry
<1>3. \A m \in F : m = t \/ m = s \/ m \cap (t \cup s) = {} \/ t \cup s \subseteq m
  BY CherryIsWhole
<1>4. \A z : z \in Induced(F, c) <=> z # {} /\ \E k \in F : z = k \cap c
  BY InducedMembers
<1>5. \A z : z \in Induced(F, t \cup c) <=> z # {} /\ \E k \in F : z = k \cap (t \cup c)
  BY InducedMembers
<1>6. ASSUME NEW z \in Induced(F, t \cup c)
      PROVE  z \in Grown(Induced(F, c), t, s)
    <2>1. PICK k \in F : z = k \cap (t \cup c) /\ z # {}
      BY <1>5
    <2>2. CASE k = t \/ k = s
      BY <2>1, <2>2 DEF Grown
    <2>3. CASE k \cap (t \cup s) = {}
        <3>1. z = k \cap c /\ ~ s \subseteq z
          BY <1>2, <2>1, <2>3
        <3> QED
          BY <1>4, <2>1, <3>1 DEF Grown
    <2>4. CASE t \cup s \subseteq k
        <3>1. z = (k \cap c) \cup t /\ s \subseteq k \cap c /\ k \cap c # {}
          BY <1>2, <2>1, <2>4
        <3>2. k \cap c \in Induced(F, c)
          BY <1>4, <3>1
        <3> QED
          BY <3>1, <3>2 DEF Grown
    <2> QED
      BY <1>3, <2>2, <2>3, <2>4
<1>7. t \in Induced(F, t \cup c) /\ s \in Induced(F, t \cup c) /\ t \cup s \in Induced(F, t \cup c)
    <2>1. t = t \cap (t \cup c) /\ s = s \cap (t \cup c) /\ t \cup s = (t \cup s) \cap (t \cup c)
      OBVIOUS
    <2> QED
      BY <1>2, <1>5, <2>1
<1>8. ASSUME NEW z \in Induced(F, c), ~ s \subseteq z
      PROVE  z \in Induced(F, t \cup c)
    <2>1. PICK k \in F : z = k \cap c /\ z # {}
      BY <1>4
    <2>2. k \cap (t \cup s) = {}
      BY <1>3, <1>8, <2>1
    <2>3. z = k \cap (t \cup c)
      BY <2>1, <2>2
    <2> QED
      BY <1>5, <2>1, <2>3
<1>9. ASSUME NEW z \in Induced(F, c), s \subseteq z
      PROVE  z \cup t \in Induced(F, t \cup c)
    <2>1. PICK k \in F : z = k \cap c /\ z # {}
      BY <1>4
    <2>2. k = s \/ t \cup s \subseteq k
      BY <1>2, <1>3, <1>9, <2>1
    <2>3. CASE k = s
      <3>1. z \cup t = t \cup s
        BY <1>9, <2>1, <2>3
      <3> QED
        BY <3>1, <1>7
    <2>4. CASE t \cup s \subseteq k
      <3>1. z \cup t = k \cap (t \cup c)
        BY <2>1, <2>4
      <3> QED
        BY <1>2, <1>5, <3>1
    <2> QED
      BY <2>2, <2>3, <2>4
<1>10. \A z : z \in Grown(Induced(F, c), t, s) => z \in Induced(F, t \cup c)
  BY <1>7, <1>8, <1>9 DEF Grown
<1> QED
  BY <1>6, <1>10

\* A block that has labels on both ends of a path, and is induced without one
\* of the pendants of the path, keeps every other block on one side of the
\* edge above that pendant.
LEMMA PendantsApart ==
    ASSUME NEW F \in Forest, WellFormed(F), NEW P, IsPartition(P, Labels), Divides(P, F),
           NEW n \in F, HasParent(F, n), NEW a, NEW c,
           NEW d \in P, NEW z \in Induced(F, d), a \in z, c \in z, z \cap n = {},
           \/ a \in Parent(F, n) /\ c \notin Parent(F, n)
           \/ c \in Parent(F, n) /\ a \notin Parent(F, n)
    PROVE  KeepsTo(P, n)
<1>1. /\ Parent(F, n) \in F /\ Above(n, Parent(F, n)) /\ n # {}
      /\ \A m \in F : Above(n, m) => Parent(F, n) \subseteq m
  BY Family
<1>2. PICK q \in F : q = Parent(F, n)
  BY <1>1
<1>3. PICK k \in F : z = k \cap d
  BY InducedMembers
<1>4. q \subseteq k
    <2>1. q \cap k # {} /\ ~ k \subseteq q
      BY <1>2, <1>3
    <2> QED
      BY <2>1 DEF WellFormed, Laminar
<1>5. n \cap d = {}
  BY <1>1, <1>2, <1>3, <1>4 DEF Above
<1>6. q \in Span(F, d)
  BY <1>2, <1>3 DEF Span
<1>7. ASSUME NEW b \in P, b \cap n # {}, ~ b \subseteq n
      PROVE  FALSE
    <2>1. \A m \in F : m \cap n = {} \/ m \subseteq n \/ Above(n, m)
      BY DEF WellFormed, Laminar, Above
    <2>2. ASSUME NEW m \in F, b \subseteq m, m \subseteq q PROVE m = q
      BY <1>1, <1>2, <1>7, <2>1, <2>2
    <2>3. q \cap b # {}
      BY <1>1, <1>2, <1>7 DEF Above
    <2>4. q \in Span(F, b)
      BY <2>2, <2>3 DEF Span
    <2>5. b # d
      BY <1>5, <1>7
    <2>6. Span(F, b) \cap Span(F, d) = {}
      BY <2>5 DEF Divides, SpansAreDisjoint
    <2> QED
      BY <1>6, <2>4, <2>6
<1> QED
  BY <1>7 DEF KeepsTo

\* A block that a terminal is kept to is the terminal.
LEMMA KeptTerminalIsBlock ==
    ASSUME NEW F \in Forest, WellFormed(F), NEW P, IsPartition(P, Labels), Divides(P, F),
           NEW t \in Terminals(F)
    PROVE  /\ KeepsTo(P, t) <=> t \in P
           /\ ~ HasParent(F, t) => t \in P
           /\ \E b \in P : t \subseteq b
<1>1. t \in F /\ t # {} /\ t \subseteq Labels /\ \A m \in F : t \cap m = {} \/ t \subseteq m
  BY TerminalsAreApart
<1>2. /\ UNION P = Labels /\ \A b, c \in P : b = c \/ b \cap c = {}
  BY DEF IsPartition
<1>3. PICK b \in P : b \cap t # {}
  BY <1>1, <1>2
<1>4. t \subseteq b
  BY <1>3 DEF Divides
<1>5. KeepsTo(P, t) => t \in P
  BY <1>3, <1>4 DEF KeepsTo
<1>6. t \in P => KeepsTo(P, t)
  BY <1>2 DEF KeepsTo
<1>7. ~ HasParent(F, t) => t \in P
    <2>1. PICK m \in F : b \subseteq m
      BY DEF Divides
    <2>2. ~ HasParent(F, t) => m = t
      BY <1>1, <1>4, <2>1 DEF HasParent, NullNode
    <2> QED
      BY <1>4, <2>1, <2>2
<1> QED
  BY <1>4, <1>5, <1>6, <1>7

\* Blocks that fit a forest are at least as many as its trees.
LEMMA RootsAreFew ==
    ASSUME NEW F \in Forest, WellFormed(F), NEW P, IsPartition(P, Labels), Divides(P, F)
    PROVE  Cardinality(Roots(F)) <= Cardinality(P)
<1>1. IsFiniteSet(P) /\ Cardinality(P) \in Nat
  BY BlocksAreFinite
<1>2. PICK f : f = [R \in Roots(F) |-> CHOOSE b \in P : b \cap R # {}]
  OBVIOUS
<1>3. ASSUME NEW R \in Roots(F)
      PROVE  f[R] \in P /\ f[R] \cap R # {}
    <2>1. R # {} /\ R \subseteq Labels /\ UNION P = Labels
      BY DEF WellFormed, NullNode, Roots, Forest, Node, IsPartition
    <2>2. \E b \in P : b \cap R # {}
      BY <2>1
    <2> QED
      BY <1>2, <2>2
<1>4. ASSUME NEW R \in Roots(F), NEW Q \in Roots(F), f[R] = f[Q]
      PROVE  R = Q
    <2>1. PICK m \in F : f[R] \subseteq m
      BY <1>3 DEF Divides
    <2>2. m \cap R # {} /\ m \cap Q # {}
      BY <1>3, <1>4, <2>1
    <2>3. m \subseteq R /\ m \subseteq Q
      BY <2>2 DEF WellFormed, Laminar, Roots
    <2> QED
      BY <1>3, <2>1, <2>3, RootsAreApart
<1>5. f \in [Roots(F) -> P]
  BY <1>2, <1>3
<1>6. IsInjective(f)
  BY <1>2, <1>4 DEF IsInjective
<1>7. f \in Injection(Roots(F), P)
  BY <1>5, <1>6 DEF Injection
<1>8. IsFiniteSet(Roots(F)) /\ Cardinality(Roots(F)) <= Cardinality(P)
  BY <1>1, <1>7, FS_Injection DEF ExistsInjection
<1> QED
  BY <1>8
=============================================================================
