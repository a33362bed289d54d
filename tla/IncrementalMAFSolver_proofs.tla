--------------------- MODULE IncrementalMAFSolver_proofs ---------------------
(***************************************************************************)
(* The MaxSAT loop for every pair of trees: its bound never falls and      *)
(* never passes the size of an agreement forest, every cut of a MaxSAT     *)
(* solution can be made when its turn comes, and what it returns is a      *)
(* maximum agreement forest.                                               *)
(*                                                                         *)
(* For the bound and the cuts it plays no part what lazy generation picks  *)
(* from the violated triples and pairs of paths: all that is used of a     *)
(* clause is which edges it holds and that the forest it was found for is  *)
(* cut out of the first tree.  For the answer it matters that the passes   *)
(* of checkMAF, each with its order and its cap, find nothing only where   *)
(* there is nothing.                                                       *)
(***************************************************************************)
EXTENDS IncrementalMAFSolver, LaminarForest_proofs, SequenceTheorems

-----------------------------------------------------------------------------
(* Types.                                                                  *)

\* The two trees of an instance.
LEMMA TreesOfInstance ==
    ASSUME TypeOK
    PROVE  /\ trees \in [{1, 2} -> Forest]
           /\ \A i \in {1, 2} : WellFormed(trees[i]) /\ Roots(trees[i]) = {Labels}
           /\ Labels \in trees[1]
           /\ Cuttable \subseteq trees[1]
<1>1. trees \in SatInstances
  BY DEF TypeOK
<1>2. /\ trees \in [{1, 2} -> Forest]
      /\ \A i \in {1, 2} : WellFormed(trees[i]) /\ Roots(trees[i]) = {Labels}
  BY <1>1, SatInstancesArePairs
<1> QED
  BY <1>2 DEF Roots, Cuttable

\* Sets of nodes are finite.
LEMMA NodeSetsAreFinite ==
    ASSUME NEW S \in SUBSET Node
    PROVE  IsFiniteSet(S) /\ Cardinality(S) \in Nat
<1>1. IsFiniteSet(Node)
  BY LabelsAreTaxa, FS_SUBSET DEF Node
<1> QED
  BY <1>1, FS_Subset, FS_CardinalityType

\* Every clause is a set of nodes of the first tree.
LEMMA ClausesAreSetsOfNodes ==
    ASSUME NEW t, NEW pq
    PROVE  /\ TripleEdges(t) \in SUBSET trees[1]
           /\ PathPairEdges(pq) \in SUBSET trees[1]
BY DEF TripleEdges, PathPairEdges, PathEdges

\* A key is a set of labels.
LEMMA KeysAreSetsOfLabels ==
    ASSUME NEW pq \in PairsOfPairs
    PROVE  Key(pq) \in SUBSET Labels
BY DEF PairsOfPairs, Pairs, Key

\* The cuts of a MaxSAT solution are cuttable nodes, each once.
LEMMA CutsOfSolution ==
    ASSUME TypeOK, NEW S \in OptimalCuts(hard), NEW s \in CutOrders(S)
    PROVE  /\ S \in SUBSET Cuttable /\ S \in SUBSET Node
           /\ Cardinality(S) \in Nat
           /\ s \in Seq(trees[1]) /\ s \in Seq(S) /\ Len(s) = Cardinality(S)
<1>1. S \in SUBSET Cuttable
  BY DEF OptimalCuts
<1>2. S \in SUBSET Node
  BY <1>1, TreesOfInstance DEF Forest
<1>3. Cardinality(S) \in Nat
  BY <1>2, NodeSetsAreFinite
<1>4. s \in [1..Cardinality(S) -> S]
  BY DEF CutOrders
<1>5. S \subseteq trees[1]
  BY <1>1, TreesOfInstance
<1>6. s \in Seq(S) /\ Len(s) = Cardinality(S)
  BY <1>3, <1>4
<1>7. s \in Seq(trees[1])
  BY <1>5, <1>6
<1> QED
  BY <1>1, <1>2, <1>3, <1>6, <1>7

\* The next cap is a natural number of at most ten times the labels.
LEMMA CapStaysInRange ==
    ASSUME NEW max \in Nat, NEW r \in Nat, NEW labels \in Nat
    PROVE  Smaller(10 * labels, (max * r) \div 10) \in 0..(10 * labels)
<1>1. max * r \in Nat
  OBVIOUS
<1> DEFINE x == max * r
<1>2. x \in Nat
  BY <1>1
<1> HIDE DEF x
<1>3. x \div 10 \in Nat
  BY <1>2
<1>4. Smaller(10 * labels, x \div 10) \in 0..(10 * labels)
  BY <1>3 DEF Smaller
<1> QED
  BY <1>4 DEF x

\* The initial state has the right types.
LEMMA InitTyped == Init => TypeOK
<1> SUFFICES ASSUME Init PROVE TypeOK
  OBVIOUS
<1>1. trees[1] \in Forest
  BY SatInstancesArePairs DEF Init
<1>2. Cardinality(Labels) \in Nat
  BY LabelsAreTaxa, FS_CardinalityType
<1> QED
  BY <1>1, <1>2 DEF Init, TypeOK, MinPerRound

\* Every step keeps the types.
LEMMA NextTyped == TypeOK /\ [Next]_vars => TypeOK'
<1> SUFFICES ASSUME TypeOK, [Next]_vars PROVE TypeOK'
  OBVIOUS
<1>1. CASE Solve
  <2>1. InitialClauses \in SUBSET SUBSET trees[1]
    BY ClausesAreSetsOfNodes DEF InitialClauses
  <2>2. {Key(pq) : pq \in InitialPairs} \subseteq SUBSET Labels
    BY KeysAreSetsOfLabels DEF InitialPairs
  <2> QED
    BY <1>1, <2>1, <2>2 DEF Solve, TypeOK
<1>2. CASE TimeOut
  BY <1>2 DEF TimeOut, TypeOK
<1>3. CASE Relax
  <2>1. PICK S \in OptimalCuts(hard) :
            currentLB' = Cardinality(S) + 1 /\ cuts' \in CutOrders(S)
    BY <1>3 DEF Relax
  <2>2. currentLB' \in Nat /\ cuts' \in Seq(trees[1])
    BY <2>1, CutsOfSolution
  <2>3. rounds' \in Nat
    BY <1>3 DEF Relax, TypeOK, Smaller, RoundBound
  <2>4. MinPerRound \in Nat
    BY LabelsAreTaxa, FS_CardinalityType DEF MinPerRound
  <2>5. maxPerRound \in Nat
    BY <2>4 DEF TypeOK
  <2>6. maxPerRound' \in 0..(10 * MinPerRound)
    BY <1>3, <2>3, <2>4, <2>5, CapStaysInRange DEF Relax
  <2> QED
    BY <1>3, <2>2, <2>3, <2>6 DEF Relax, TypeOK
<1>4. CASE CutNext
  <2>1. CutEdge(sol, Head(cuts)) \in Forest
    BY DEF TypeOK, CutEdge, Forest, Node
  <2>2. Tail(cuts) \in Seq(trees[1])
    BY <1>4 DEF CutNext, TypeOK
  <2> QED
    BY <1>4, <2>1, <2>2 DEF CutNext, TypeOK
<1>5. CASE Accept
  BY <1>5 DEF Accept, TypeOK
<1>6. CASE Refine
  <2>1. PICK met : /\ constraints' = constraints \cup NewClauses(sol, met)
                   /\ pairKeys' = pairKeys \cup
                                      {Key(pq) : pq \in FreshPairs(sol, met)}
    BY <1>6 DEF Refine
  <2>2. NewClauses(sol, met) \in SUBSET SUBSET trees[1]
    BY ClausesAreSetsOfNodes DEF NewClauses
  <2>3. {Key(pq) : pq \in FreshPairs(sol, met)} \subseteq SUBSET Labels
    BY KeysAreSetsOfLabels DEF FreshPairs
  <2>4. trees[1] \in Forest
    BY TreesOfInstance
  <2>5. /\ hard' = constraints' /\ sol' = trees[1] /\ pc' = "loop"
        /\ UNCHANGED <<trees, currentLB, rounds, maxPerRound, cuts, timeouts>>
    BY <1>6 DEF Refine
  <2>6. constraints' \subseteq SUBSET trees'[1]
    BY <2>1, <2>2, <2>5 DEF TypeOK
  <2>7. pairKeys' \subseteq SUBSET Labels
    BY <2>1, <2>3 DEF TypeOK
  <2> QED
    BY <2>4, <2>5, <2>6, <2>7 DEF TypeOK, MinPerRound
<1>7. CASE Rest \/ UNCHANGED vars
  BY <1>7 DEF Rest, vars, TypeOK, MinPerRound
<1> QED
  BY <1>1, <1>2, <1>3, <1>4, <1>5, <1>6, <1>7 DEF Next

\* The variables keep their types, whatever the trees.
THEOREM TypesHold == Spec => []TypeOK
BY InitTyped, NextTyped, PTL DEF Spec

-----------------------------------------------------------------------------
(* The bound never falls: it is the least number of cuts that meet some of *)
(* the clauses kept, and clauses are never dropped.                        *)

\* Meeting every clause takes at least as many cuts as the bound was built
\* from, and while solve() runs the MaxSAT solver has all the clauses kept.
BoundIsEarned ==
    /\ pc # "idle" => hard = constraints
    /\ \A S \in SUBSET Cuttable :
          Meets(S, constraints) => currentLB <= Cardinality(S) + 1

BoundInv == TypeOK /\ BoundIsEarned

\* More clauses are not easier to meet.
LEMMA MoreClauses ==
    ASSUME BoundIsEarned, constraints \subseteq constraints',
           UNCHANGED <<trees, currentLB>>
    PROVE  \A S \in SUBSET Cuttable' :
              Meets(S, constraints') => currentLB' <= Cardinality(S) + 1
<1> SUFFICES ASSUME NEW S \in SUBSET Cuttable', Meets(S, constraints')
             PROVE  currentLB' <= Cardinality(S) + 1
  OBVIOUS
<1>1. S \in SUBSET Cuttable
  BY DEF Cuttable
<1>2. Meets(S, constraints)
  BY DEF Meets
<1> QED
  BY <1>1, <1>2 DEF BoundIsEarned

\* A new MaxSAT solution gives a bound that is earned, and not a lower one.
LEMMA RelaxRaisesBound ==
    ASSUME BoundInv, Relax
    PROVE  BoundIsEarned' /\ currentLB' >= currentLB
<1>1. PICK S \in OptimalCuts(hard) : currentLB' = Cardinality(S) + 1
  BY DEF Relax
<1>2. /\ UNCHANGED <<trees, constraints, hard>>
      /\ hard = constraints
  BY DEF Relax, BoundInv, BoundIsEarned
<1>3. S \in SUBSET Cuttable /\ Meets(S, constraints)
  BY <1>2 DEF OptimalCuts
<1>4. \A R \in SUBSET Cuttable :
          Meets(R, constraints) => Cardinality(S) <= Cardinality(R)
  BY <1>2 DEF OptimalCuts
<1>5. \A R \in SUBSET Cuttable : Cardinality(R) \in Nat
  BY TreesOfInstance, NodeSetsAreFinite DEF BoundInv, Forest
<1>6. currentLB <= Cardinality(S) + 1
  BY <1>3 DEF BoundInv, BoundIsEarned
<1>7. currentLB \in Nat
  BY DEF BoundInv, TypeOK
<1>8. currentLB' >= currentLB
  BY <1>1, <1>3, <1>5, <1>6, <1>7
<1>9. \A R \in SUBSET Cuttable' :
          Meets(R, constraints') => currentLB' <= Cardinality(R) + 1
  <2> SUFFICES ASSUME NEW R \in SUBSET Cuttable', Meets(R, constraints')
               PROVE  currentLB' <= Cardinality(R) + 1
    OBVIOUS
  <2>1. R \in SUBSET Cuttable /\ Meets(R, constraints)
    BY <1>2 DEF Cuttable
  <2> QED
    BY <1>1, <1>3, <1>4, <1>5, <2>1
<1> QED
  BY <1>2, <1>8, <1>9 DEF BoundIsEarned

\* At first there is no bound and no clause.
LEMMA InitBound == Init => BoundInv
<1> SUFFICES ASSUME Init PROVE BoundInv
  OBVIOUS
<1>1. TypeOK
  BY InitTyped
<1>2. \A S \in SUBSET Cuttable : Cardinality(S) \in Nat
  BY <1>1, TreesOfInstance, NodeSetsAreFinite DEF Forest
<1> QED
  BY <1>1, <1>2 DEF Init, BoundInv, BoundIsEarned

\* Every step keeps the bound earned and never lowers it.
LEMMA NextBound ==
    ASSUME BoundInv, [Next]_vars
    PROVE  BoundInv' /\ currentLB' >= currentLB
<1>1. TypeOK' /\ currentLB \in Nat
  BY NextTyped DEF BoundInv, TypeOK
<1>2. BoundIsEarned
  BY DEF BoundInv
<1>3. CASE Solve
  <2>1. constraints \subseteq constraints' /\ hard' = constraints'
    BY <1>3 DEF Solve
  <2>2. UNCHANGED <<trees, currentLB>>
    BY <1>3 DEF Solve
  <2>3. BoundIsEarned'
    BY <1>2, <2>1, <2>2, MoreClauses DEF BoundIsEarned
  <2> QED
    BY <1>1, <2>2, <2>3 DEF BoundInv
<1>4. CASE Refine
  <2>1. constraints \subseteq constraints' /\ hard' = constraints'
    BY <1>4 DEF Refine
  <2>2. UNCHANGED <<trees, currentLB>>
    BY <1>4 DEF Refine
  <2>3. BoundIsEarned'
    BY <1>2, <2>1, <2>2, MoreClauses DEF BoundIsEarned
  <2> QED
    BY <1>1, <2>2, <2>3 DEF BoundInv
<1>5. CASE Relax
  BY <1>1, <1>5, RelaxRaisesBound DEF BoundInv
<1>6. CASE TimeOut \/ CutNext \/ Accept \/ Rest \/ UNCHANGED vars
  <2>1. /\ UNCHANGED <<trees, constraints, hard, currentLB>>
        /\ pc' # "idle" => pc # "idle"
    BY <1>6 DEF TimeOut, CutNext, Accept, Rest, vars
  <2>2. constraints \subseteq constraints'
    BY <2>1
  <2>3. BoundIsEarned'
    BY <1>2, <2>1, <2>2, MoreClauses DEF BoundIsEarned
  <2> QED
    BY <1>1, <2>1, <2>3 DEF BoundInv
<1> QED
  BY <1>3, <1>4, <1>5, <1>6 DEF Next

\* A bound handed out before a timeout is never taken back.
THEOREM BoundNeverFallsHolds == Spec => BoundNeverFalls
<1>1. Init => BoundInv
  BY InitBound
<1>2. BoundInv /\ [Next]_vars => BoundInv'
  BY NextBound
<1>3. BoundInv /\ [Next]_vars => [currentLB' >= currentLB]_vars
  BY NextBound
<1> QED
  BY <1>1, <1>2, <1>3, PTL DEF Spec, BoundNeverFalls

-----------------------------------------------------------------------------
(* The bound is sound: the cuts that tell the blocks of an agreement       *)
(* forest apart meet every clause.                                         *)

\* P is an agreement forest of the instance.
Agrees(P) == IsAgreementForest(P, trees)

\* What is used of an agreement forest.
LEMMA AgreementUnfolded ==
    ASSUME TypeOK, NEW P, Agrees(P)
    PROVE  /\ UNION trees[1] = Labels
           /\ IsPartition(P, Labels)
           /\ \A b \in P : Induced(trees[2], b) = Induced(trees[1], b)
           /\ \A i \in {1, 2} : SpansAreDisjoint(trees[i], P)
<1>1. trees \in [{1, 2} -> Forest] /\ UNION trees[1] = Labels
  BY TreesOfInstance DEF WellFormed
<1>2. DOMAIN trees = {1, 2}
  BY <1>1
<1> QED
  BY <1>1, <1>2 DEF Agrees, IsAgreementForest, SpansAreDisjoint

\* The clause of labels from different blocks is met.
LEMMA SplitLabelsAreCut ==
    ASSUME NEW T, NEW P, IsPartition(P, Labels), NEW S \in SUBSET T,
           TellsApart(S, P), NEW t \in SUBSET Labels, t # {},
           \A b \in P : ~ t \subseteq b
    PROVE  PathEdges(T, t) \cap S # {}
<1>1. PICK x \in t : TRUE
  OBVIOUS
<1>2. PICK b \in P : x \in b
  BY <1>1 DEF IsPartition
<1>3. PICK y \in t : y \notin b
  BY <1>2
<1>4. PICK c \in P : y \in c
  BY <1>3 DEF IsPartition
<1>5. PICK n \in S : Parts(n, x, y)
  BY <1>2, <1>3, <1>4 DEF TellsApart
<1>6. n \in PathEdges(T, t)
  BY <1>5 DEF Parts, PathEdges
<1> QED
  BY <1>5, <1>6

\* Trees that agree on a block agree on every part of it.
LEMMA AgreeOnParts ==
    ASSUME NEW T, NEW U, NEW b, Induced(U, b) = Induced(T, b), NEW t \in SUBSET b
    PROVE  /\ Induced(U, t) = Induced(T, t)
           /\ \A x \in U : x \cap t # {} => \E k \in T : x \cap b = k \cap b
<1>1. ASSUME NEW A, NEW B, Induced(A, b) = Induced(B, b),
             NEW x \in A, x \cap t # {}
      PROVE  \E k \in B : x \cap b = k \cap b
  <2>1. x \cap b \in Induced(A, b)
    BY <1>1 DEF Induced
  <2> QED
    BY <1>1, <2>1, InducedMembers
<1>2. ASSUME NEW A, NEW B, Induced(A, b) = Induced(B, b)
      PROVE  \A z : z \in Induced(A, t) => z \in Induced(B, t)
  <2> SUFFICES ASSUME NEW x \in A, x \cap t # {}
               PROVE  \E k \in B : x \cap t = k \cap t
    BY InducedMembers
  <2>1. PICK k \in B : x \cap b = k \cap b
    BY <1>1, <1>2
  <2>2. x \cap t = k \cap t
    BY <2>1
  <2> QED
    BY <2>2
<1>3. Induced(U, t) = Induced(T, t)
  <2>1. \A z : z \in Induced(U, t) <=> z \in Induced(T, t)
    BY <1>2
  <2> QED
    BY <2>1
<1>4. \A x \in U : x \cap t # {} => \E k \in T : x \cap b = k \cap b
  BY <1>1
<1> QED
  BY <1>3, <1>4

\* A path within a block stays on its span.
LEMMA PathOnSpan ==
    ASSUME NEW T, NEW b, NEW p \in SUBSET b
    PROVE  PathEdges(T, p) \subseteq Span(T, b)
BY DEF PathEdges, Span

\* The clause of a triple the second tree disagrees on, found in a tree of a
\* forest cut out of the first one, is met.
LEMMA TripleClauseIsMet ==
    ASSUME TypeOK, NEW F, CutForest(trees[1], F), NEW R \in Roots(F),
           NEW t \in BrokenTriples(F, R), NEW P, Agrees(P),
           NEW S \in SUBSET Cuttable, TellsApart(S, P)
    PROVE  TripleEdges(t) \cap S # {}
<1>1. /\ t \subseteq R /\ t \subseteq Labels
      /\ Cherry(F, t) # Cherry(trees[2], t)
  <2>1. R \in Node
    BY DEF Roots, CutForest, Forest
  <2> QED
    BY <2>1 DEF BrokenTriples, Triples, CheckIncompatibleTriple, Node
<1>2. Induced(F, t) = Induced(trees[1], t)
  BY <1>1, InducedOfCutForest
<1>3. t # {}
  <2>1. ASSUME t = {}
        PROVE  Induced(trees[2], t) = {} /\ Induced(trees[1], t) = {}
    BY <2>1 DEF Induced
  <2> QED
    BY <1>1, <1>2, <2>1 DEF Cherry
<1>4. ASSUME NEW b \in P, t \subseteq b
      PROVE  FALSE
  <2>1. Induced(trees[2], b) = Induced(trees[1], b)
    BY AgreementUnfolded
  <2>2. Induced(trees[2], t) = Induced(trees[1], t)
    BY <1>4, <2>1, AgreeOnParts
  <2> QED
    BY <1>1, <1>2, <2>2 DEF Cherry
<1>5. IsPartition(P, Labels) /\ S \subseteq trees[1]
  BY AgreementUnfolded, TreesOfInstance
<1>6. TripleEdges(t) = PathEdges(trees[1], t)
  BY DEF TripleEdges, PathEdges
<1> QED
  BY <1>1, <1>3, <1>4, <1>5, <1>6, SplitLabelsAreCut

\* Two paths within one block that meet in the second tree meet in a forest
\* cut out of the first, when both lie in its trees.
LEMMA PathsOfBlockMeet ==
    ASSUME TypeOK, NEW F, CutForest(trees[1], F), NEW P, Agrees(P), NEW b \in P,
           NEW p \in SUBSET b, NEW q \in SUBSET b,
           NEW m \in F, p \subseteq m, NEW o \in F, q \subseteq o,
           ~ AreTwoPathsDisjoint(trees[2], p, q)
    PROVE  ~ AreTwoPathsDisjoint(F, p, q)
<1>1. Induced(trees[2], b) = Induced(trees[1], b)
  BY AgreementUnfolded
<1>2. PICK x \in trees[2] : /\ x \cap p # {} /\ ~ p \subseteq x
                            /\ x \cap q # {} /\ ~ q \subseteq x
  BY DEF AreTwoPathsDisjoint, PathEdges
<1>3. PICK k \in trees[1] : x \cap b = k \cap b
  BY <1>1, <1>2, AgreeOnParts
<1>4. k \in PathEdges(trees[1], p) /\ k \in PathEdges(trees[1], q)
  <2>1. k \cap p = x \cap p /\ k \cap q = x \cap q
    BY <1>3
  <2> QED
    BY <1>2, <2>1 DEF PathEdges
<1>5. F \in Forest
  BY DEF CutForest
<1>6. PICK R \in Roots(F) : m \subseteq R
  BY <1>5, RootAbove
<1>7. PICK Q \in Roots(F) : o \subseteq Q
  BY <1>5, RootAbove
<1>8. p \subseteq R /\ q \subseteq Q
  BY <1>6, <1>7
<1>9. R = Q
  <2>1. k \in Span(trees[1], R) /\ k \in Span(trees[1], Q)
    BY <1>4, <1>8, PathOnSpan
  <2> QED
    BY <2>1 DEF CutForest, SpansAreDisjoint
<1>10. k \cap R \in F
  <2>1. k \cap R # {}
    BY <1>4, <1>8 DEF PathEdges
  <2> QED
    BY <2>1, RestsAreNodes
<1>11. k \cap R \in PathEdges(F, p) /\ k \cap R \in PathEdges(F, q)
  BY <1>4, <1>8, <1>9, <1>10 DEF PathEdges
<1> QED
  BY <1>11 DEF AreTwoPathsDisjoint

\* The clause of two paths that meet in the second tree only is met.
LEMMA PairClauseIsMet ==
    ASSUME TypeOK, NEW F, CutForest(trees[1], F), NEW p \in SUBSET Labels,
           NEW q \in SUBSET Labels, NEW pq, pq = {p, q}, Overlap(F, p, q),
           \E m \in F : p \subseteq m, \E m \in F : q \subseteq m,
           NEW P, Agrees(P), NEW S \in SUBSET Cuttable, TellsApart(S, P)
    PROVE  PathPairEdges(pq) \cap S # {}
<1>1. /\ AreTwoPathsDisjoint(F, p, q)
      /\ ~ AreTwoPathsDisjoint(trees[2], p, q)
  BY DEF Overlap
<1>2. p # {} /\ q # {}
  BY <1>1 DEF AreTwoPathsDisjoint, PathEdges
<1>3. IsPartition(P, Labels) /\ S \subseteq trees[1]
  BY AgreementUnfolded, TreesOfInstance
<1>4. CASE \A b \in P : ~ p \subseteq b
  <2>1. PathEdges(trees[1], p) \cap S # {}
    BY <1>2, <1>3, <1>4, SplitLabelsAreCut
  <2> QED
    BY <2>1 DEF PathPairEdges
<1>5. CASE \A b \in P : ~ q \subseteq b
  <2>1. PathEdges(trees[1], q) \cap S # {}
    BY <1>2, <1>3, <1>5, SplitLabelsAreCut
  <2> QED
    BY <2>1 DEF PathPairEdges
<1>6. ASSUME NEW b \in P, p \subseteq b, NEW c \in P, q \subseteq c
      PROVE  FALSE
  <2>1. CASE b = c
    BY <1>1, <1>6, <2>1, PathsOfBlockMeet
  <2>2. CASE b # c
    <3>1. Span(trees[2], b) \cap Span(trees[2], c) = {}
      BY <1>6, <2>2, AgreementUnfolded DEF SpansAreDisjoint
    <3>2. /\ PathEdges(trees[2], p) \subseteq Span(trees[2], b)
          /\ PathEdges(trees[2], q) \subseteq Span(trees[2], c)
      BY <1>6, PathOnSpan
    <3> QED
      BY <1>1, <3>1, <3>2 DEF AreTwoPathsDisjoint
  <2> QED
    BY <2>1, <2>2
<1> QED
  BY <1>4, <1>5, <1>6

\* Every clause kept is met by the cuts that tell an agreement forest's blocks
\* apart, and the forest of a round is cut out of the first tree.
ClausesAreSound ==
    /\ CutForest(trees[1], sol)
    /\ \A P : Agrees(P) =>
          \A S \in SUBSET Cuttable : TellsApart(S, P) => Meets(S, constraints)

\* The clauses found for a forest cut out of the first tree are met.
LEMMA NewClausesAreMet ==
    ASSUME TypeOK, CutForest(trees[1], sol), NEW met, NEW P, Agrees(P),
           NEW S \in SUBSET Cuttable, TellsApart(S, P)
    PROVE  Meets(S, NewClauses(sol, met))
<1>1. \A R \in Roots(sol) : \A t \in TriplesFound(sol, R) :
          TripleEdges(t) \cap S # {}
  BY TripleClauseIsMet DEF TriplesFound
<1>2. ASSUME NEW pq \in FreshPairs(sol, met)
      PROVE  PathPairEdges(pq) \cap S # {}
  <2>1. pq \in PairsOfPairs /\ Overlapping(sol, pq)
    BY <1>2 DEF FreshPairs
  <2>2. PICK p \in pq, q \in pq :
            /\ pq = {p, q} /\ Overlap(sol, p, q)
            /\ \E m \in sol : p \subseteq m
            /\ \E m \in sol : q \subseteq m
    BY <2>1 DEF Overlapping
  <2>3. p \in SUBSET Labels /\ q \in SUBSET Labels
    BY <2>1 DEF PairsOfPairs, Pairs
  <2> QED
    BY <2>2, <2>3, PairClauseIsMet
<1>3. ASSUME NEW c \in NewClauses(sol, met)
      PROVE  \/ \E R \in Roots(sol) : \E t \in TriplesFound(sol, R) :
                    c = TripleEdges(t)
             \/ \E pq \in FreshPairs(sol, met) : c = PathPairEdges(pq)
  BY <1>3 DEF NewClauses
<1> QED
  BY <1>1, <1>2, <1>3 DEF Meets

\* So are the clauses a first call starts from.
LEMMA InitialClausesAreMet ==
    ASSUME TypeOK, NEW P, Agrees(P), NEW S \in SUBSET Cuttable, TellsApart(S, P)
    PROVE  Meets(S, InitialClauses)
<1>1. CutForest(trees[1], trees[1]) /\ Labels \in Roots(trees[1])
  BY TreesOfInstance, UncutTree
<1>2. \A t \in InitialTriples : TripleEdges(t) \cap S # {}
  BY <1>1, TripleClauseIsMet DEF InitialTriples
<1>3. ASSUME NEW pq \in InitialPairs
      PROVE  PathPairEdges(pq) \cap S # {}
  <2>1. pq \in PairsOfPairs
    BY <1>3 DEF InitialPairs
  <2>2. \E p, q : pq = {p, q} /\ Overlap(trees[1], p, q)
    BY <1>3 DEF InitialPairs
  <2>3. PICK p, q : pq = {p, q} /\ Overlap(trees[1], p, q)
    BY <2>2
  <2>4. p \in SUBSET Labels /\ q \in SUBSET Labels
    BY <2>1, <2>3 DEF PairsOfPairs, Pairs
  <2>5. Labels \in trees[1]
    BY TreesOfInstance
  <2> QED
    BY <1>1, <2>3, <2>4, <2>5, PairClauseIsMet
<1> QED
  BY <1>2, <1>3 DEF InitialClauses, Meets

\* A step that keeps the trees and adds only clauses that are met, and cuts
\* at most one edge more, keeps the clauses sound.
LEMMA SoundClausesKept ==
    ASSUME ClausesAreSound, trees' = trees, CutForest(trees[1], sol'),
           NEW C, constraints' = constraints \cup C,
           \A P : Agrees(P) => \A S \in SUBSET Cuttable :
                      TellsApart(S, P) => Meets(S, C)
    PROVE  ClausesAreSound'
<1>1. ASSUME NEW P, Agrees(P)', NEW S \in SUBSET Cuttable', TellsApart(S, P)
      PROVE  Meets(S, constraints')
  <2>1. Agrees(P) /\ S \in SUBSET Cuttable
    BY <1>1 DEF Agrees, Cuttable
  <2>2. Meets(S, constraints) /\ Meets(S, C)
    BY <1>1, <2>1 DEF ClausesAreSound
  <2> QED
    BY <2>2 DEF Meets
<1> QED
  BY <1>1 DEF ClausesAreSound

-----------------------------------------------------------------------------
(* Every cut can be made: a smallest set of cuts meets some clause only    *)
(* once with each of its nodes, so some path is cut by that node alone and *)
(* is whole until its turn comes.                                          *)

\* The cuts s still to be made in F are nodes of it, outer ones first, and
\* each is the only one of them on the path of two labels connected in F.
CutsLeft(F, s) ==
    \A k \in 1..Len(s) :
        /\ s[k] \in F
        /\ \A j \in 1..(k - 1) : ~ s[j] \subseteq s[k]
        /\ \E x \in s[k], y \in Labels \ s[k] :
              /\ Connected(F, x, y)
              /\ \A j \in 1..Len(s) : Parts(s[j], x, y) => j = k

\* Each edge of a clause lies on a path all of whose edges are in the clause.
CutsPaths(c) ==
    \A m \in c : \E x \in m, y \in Labels \ m : PathEdges(trees[1], {x, y}) \subseteq c

ClausesCutPaths == \A c \in constraints : CutsPaths(c)

\* The next cut is of a node that has a parent.
LEMMA NextCutIsLegal ==
    ASSUME NEW F \in Forest, WellFormed(F), NEW s \in Seq(Node), s # <<>>,
           CutsLeft(F, s)
    PROVE  Head(s) \in F /\ HasParent(F, Head(s))
<1>1. 1 \in 1..Len(s) /\ Head(s) = s[1]
  OBVIOUS
<1>2. s[1] \in F
  BY <1>1 DEF CutsLeft
<1>3. PICK x \in s[1], y \in Labels \ s[1] : Connected(F, x, y)
  BY <1>1 DEF CutsLeft
<1>4. PICK z \in F : x \in z /\ y \in z
  BY <1>3 DEF Connected
<1>5. s[1] \subseteq z /\ s[1] # z
  BY <1>2, <1>3, <1>4 DEF WellFormed, Laminar
<1> QED
  BY <1>1, <1>2, <1>3, <1>4, <1>5 DEF HasParent, NullNode

\* The cuts after the next one are still to be made when it is.
LEMMA CutsLeftAfterCut ==
    ASSUME NEW F \in Forest, WellFormed(F), NEW s \in Seq(Node), s # <<>>,
           CutsLeft(F, s)
    PROVE  CutsLeft(CutEdge(F, Head(s)), Tail(s))
<1> DEFINE n == Head(s)
           u == Tail(s)
           G == CutEdge(F, n)
<1>1. /\ Len(u) = Len(s) - 1 /\ Len(s) \in Nat
      /\ \A k \in 1..Len(u) : k + 1 \in 1..Len(s) /\ u[k] = s[k + 1]
  OBVIOUS
<1>2. 1 \in 1..Len(s) /\ n = s[1]
  OBVIOUS
<1>3. G = {Trim(n, m) : m \in F}
  BY CutEdgeTrims
<1>4. n \in F /\ n # {}
  BY <1>2 DEF CutsLeft
<1> HIDE DEF n, u, G
<1>5. /\ \A m \in F : Above(n, m) => Trim(n, m) = m \ n
      /\ \A m \in F : ~ Above(n, m) => Trim(n, m) = m
  BY <1>4, TrimmedNodes
<1> SUFFICES ASSUME NEW k \in 1..Len(u)
             PROVE  /\ u[k] \in G
                    /\ \A j \in 1..(k - 1) : ~ u[j] \subseteq u[k]
                    /\ \E x \in u[k], y \in Labels \ u[k] :
                          /\ Connected(G, x, y)
                          /\ \A j \in 1..Len(u) : Parts(u[j], x, y) => j = k
  BY DEF CutsLeft, n, u, G
<1>6. k + 1 \in 1..Len(s) /\ u[k] = s[k + 1] /\ 1 \in 1..((k + 1) - 1)
  BY <1>1
<1>7. s[k + 1] \in F /\ ~ s[1] \subseteq s[k + 1]
  BY <1>6 DEF CutsLeft
<1>8. u[k] \in G
  <2>1. Trim(n, u[k]) = u[k]
    BY <1>2, <1>5, <1>6, <1>7 DEF Above
  <2> QED
    BY <1>3, <1>6, <1>7, <2>1
<1>9. ASSUME NEW j \in 1..(k - 1)
      PROVE  ~ u[j] \subseteq u[k]
  <2>1. j \in 1..Len(u) /\ j + 1 \in 1..((k + 1) - 1)
    BY <1>1
  <2>2. u[j] = s[j + 1]
    BY <1>1, <2>1
  <2> QED
    BY <1>6, <2>1, <2>2 DEF CutsLeft
<1>10. PICK x \in s[k + 1], y \in Labels \ s[k + 1] :
           /\ Connected(F, x, y)
           /\ \A j \in 1..Len(s) : Parts(s[j], x, y) => j = k + 1
  BY <1>6 DEF CutsLeft
<1>11. Connected(G, x, y)
  <2>1. PICK z \in F : x \in z /\ y \in z
    BY <1>10 DEF Connected
  <2>2. ~ Parts(n, x, y)
    <3>1. 1 # k + 1
      BY <1>1
    <3> QED
      BY <1>2, <1>10, <3>1
  <2>3. CASE x \in n /\ y \in n
    <3>1. n \in G
      BY <1>3, <1>4, <1>5 DEF Above
    <3> QED
      BY <2>3, <3>1 DEF Connected
  <2>4. CASE x \notin n /\ y \notin n
    <3>1. x \in Trim(n, z) /\ y \in Trim(n, z)
      BY <2>1, <2>4 DEF Trim
    <3> QED
      BY <1>3, <2>1, <3>1 DEF Connected
  <2> QED
    BY <2>2, <2>3, <2>4 DEF Parts
<1>12. ASSUME NEW j \in 1..Len(u), Parts(u[j], x, y)
       PROVE  j = k
  <2>1. j + 1 \in 1..Len(s) /\ u[j] = s[j + 1]
    BY <1>1
  <2>2. j + 1 = k + 1
    BY <1>10, <1>12, <2>1
  <2> QED
    BY <2>2
<1> QED
  BY <1>6, <1>8, <1>9, <1>10, <1>11, <1>12

\* Each node of a smallest set of cuts is the only one to meet some clause.
LEMMA EachCutIsNeeded ==
    ASSUME TypeOK, NEW S \in OptimalCuts(hard), NEW m \in S
    PROVE  \E c \in hard : c \cap S = {m}
<1>1. S \in SUBSET Cuttable /\ S \in SUBSET Node /\ Meets(S, hard)
  BY TreesOfInstance DEF OptimalCuts, Forest
<1>2. /\ IsFiniteSet(S) /\ Cardinality(S) \in Nat
      /\ Cardinality(S \ {m}) = Cardinality(S) - 1
  BY <1>1, NodeSetsAreFinite, FS_RemoveElement
<1>3. \A R \in SUBSET Cuttable :
          Meets(R, hard) => Cardinality(S) <= Cardinality(R)
  BY DEF OptimalCuts
<1>4. ~ Meets(S \ {m}, hard)
  BY <1>1, <1>2, <1>3
<1>5. PICK c \in hard : c \cap (S \ {m}) = {}
  BY <1>4 DEF Meets
<1>6. c \cap S # {}
  BY <1>1 DEF Meets
<1> QED
  BY <1>5, <1>6

\* The cuts of a MaxSAT solution can all be made in the first tree.
LEMMA CutsOfSolutionAreLeft ==
    ASSUME TypeOK, hard = constraints, ClausesCutPaths,
           NEW S \in OptimalCuts(hard), NEW s \in CutOrders(S)
    PROVE  CutsLeft(trees[1], s)
<1>1. /\ S \in SUBSET Cuttable /\ Cardinality(S) \in Nat
      /\ Len(s) = Cardinality(S) /\ s \in Seq(S)
  BY CutsOfSolution
<1>2. /\ trees[1] \in Forest /\ Labels \in trees[1] /\ {} \notin trees[1]
      /\ S \subseteq trees[1]
  BY <1>1, TreesOfInstance DEF WellFormed, NullNode
<1>3. \A i, j \in 1..Len(s) :
          i < j => s[i] # s[j] /\ IndexBefore(trees[1], s[i], s[j])
  BY <1>1 DEF CutOrders
<1> SUFFICES ASSUME NEW k \in 1..Len(s)
             PROVE  /\ s[k] \in trees[1]
                    /\ \A j \in 1..(k - 1) : ~ s[j] \subseteq s[k]
                    /\ \E x \in s[k], y \in Labels \ s[k] :
                          /\ Connected(trees[1], x, y)
                          /\ \A j \in 1..Len(s) : Parts(s[j], x, y) => j = k
  BY DEF CutsLeft
<1>4. \A j \in 1..Len(s) : s[j] \in S /\ s[j] \in trees[1]
  BY <1>1, <1>2
<1>5. ASSUME NEW j \in 1..(k - 1)
      PROVE  ~ s[j] \subseteq s[k]
  <2>1. j \in 1..Len(s) /\ j < k
    BY <1>1
  <2>2. s[j] # s[k] /\ IndexBefore(trees[1], s[j], s[k])
    BY <1>3, <2>1
  <2>3. s[j] # {}
    BY <1>2, <1>4, <2>1
  <2> QED
    BY <2>2, <2>3 DEF IndexBefore
<1>6. PICK c \in constraints : c \cap S = {s[k]}
  BY <1>4, EachCutIsNeeded
<1>7. PICK x \in s[k], y \in Labels \ s[k] : PathEdges(trees[1], {x, y}) \subseteq c
  <2>1. s[k] \in c
    BY <1>6
  <2>2. CutsPaths(c)
    BY <1>6 DEF ClausesCutPaths
  <2> QED
    BY <2>1, <2>2, Zenon DEF CutsPaths
<1>8. Connected(trees[1], x, y)
  <2>1. x \in Labels
    BY <1>2, <1>4 DEF Forest, Node
  <2> QED
    BY <1>2, <2>1 DEF Connected
<1>9. ASSUME NEW j \in 1..Len(s), Parts(s[j], x, y)
      PROVE  j = k
  <2>1. s[j] \in PathEdges(trees[1], {x, y})
    BY <1>4, <1>9 DEF Parts, PathEdges
  <2>2. s[j] = s[k]
    BY <1>4, <1>6, <1>7, <2>1
  <2>3. ~ j < k /\ ~ k < j
    BY <1>3, <2>2
  <2> QED
    BY <1>1, <2>3
<1> QED
  BY <1>4, <1>5, <1>7, <1>8, <1>9

\* The edges that hold some of a set of labels but not all.
LEMMA PathEdgesCutPaths ==
    ASSUME NEW t \in SUBSET Labels, NEW m \in PathEdges(trees[1], t)
    PROVE  \E x \in m, y \in Labels \ m :
              PathEdges(trees[1], {x, y}) \subseteq PathEdges(trees[1], t)
<1>1. PICK x \in t : x \in m
  BY DEF PathEdges
<1>2. PICK y \in t : y \notin m
  BY DEF PathEdges
<1>3. PathEdges(trees[1], {x, y}) \subseteq PathEdges(trees[1], t)
  BY DEF PathEdges
<1> QED
  BY <1>1, <1>2, <1>3

\* The clause of a triple is such a set of edges,
LEMMA TripleClauseCutsPaths ==
    ASSUME NEW t \in SUBSET Labels
    PROVE  CutsPaths(TripleEdges(t))
<1>1. TripleEdges(t) = PathEdges(trees[1], t)
  BY DEF TripleEdges, PathEdges
<1>2. CutsPaths(PathEdges(trees[1], t))
  BY PathEdgesCutPaths, Zenon DEF CutsPaths
<1> QED
  BY <1>1, <1>2

\* and so is the clause of two paths.
LEMMA PairClauseCutsPaths ==
    ASSUME NEW pq \in PairsOfPairs
    PROVE  CutsPaths(PathPairEdges(pq))
<1>1. ASSUME NEW m \in PathPairEdges(pq)
      PROVE  \E x \in m, y \in Labels \ m :
                PathEdges(trees[1], {x, y}) \subseteq PathPairEdges(pq)
  <2>1. PICK p \in pq : m \in PathEdges(trees[1], p)
    BY <1>1 DEF PathPairEdges
  <2>2. p \in SUBSET Labels
    BY DEF PairsOfPairs, Pairs
  <2>3. PathEdges(trees[1], p) \subseteq PathPairEdges(pq)
    BY DEF PathPairEdges
  <2>4. PICK x \in m, y \in Labels \ m :
            PathEdges(trees[1], {x, y}) \subseteq PathEdges(trees[1], p)
    BY <2>1, <2>2, PathEdgesCutPaths, Zenon
  <2>5. PathEdges(trees[1], {x, y}) \subseteq PathPairEdges(pq)
    BY <2>3, <2>4
  <2> QED
    BY <2>5
<1> QED
  BY <1>1, Zenon DEF CutsPaths

\* So do the clauses of a call and of a round.
LEMMA ClausesFoundCutPaths ==
    ASSUME CutForest(trees[1], sol), NEW met
    PROVE  /\ \A c \in InitialClauses : CutsPaths(c)
           /\ \A c \in NewClauses(sol, met) : CutsPaths(c)
<1>1. \A t \in InitialTriples : t \in SUBSET Labels
  BY DEF InitialTriples, BrokenTriples, Triples
<1>2. \A pq \in InitialPairs : pq \in PairsOfPairs
  BY DEF InitialPairs
<1>3. \A c \in InitialClauses : CutsPaths(c)
  BY <1>1, <1>2, TripleClauseCutsPaths, PairClauseCutsPaths DEF InitialClauses
<1>4. \A R \in Roots(sol) : \A t \in TriplesFound(sol, R) : t \in SUBSET Labels
  BY DEF TriplesFound, BrokenTriples, Triples, Roots, CutForest, Forest, Node
<1>5. \A pq \in FreshPairs(sol, met) : pq \in PairsOfPairs
  BY DEF FreshPairs
<1>6. ASSUME NEW c \in NewClauses(sol, met)
      PROVE  \/ \E R \in Roots(sol) : \E t \in TriplesFound(sol, R) :
                    c = TripleEdges(t)
             \/ \E pq \in FreshPairs(sol, met) : c = PathPairEdges(pq)
  BY <1>6 DEF NewClauses
<1>7. \A c \in NewClauses(sol, met) : CutsPaths(c)
  BY <1>4, <1>5, <1>6, TripleClauseCutsPaths, PairClauseCutsPaths
<1> QED
  BY <1>3, <1>7

-----------------------------------------------------------------------------
(* The inductive invariant.                                                *)

Inv ==
    /\ BoundInv
    /\ ClausesAreSound
    /\ ClausesCutPaths
    /\ pc \in {"idle", "loop"} => sol = trees[1] /\ cuts = <<>>
    /\ CutsLeft(sol, cuts)

\* The invariant holds at first.
LEMMA InitInv == Init => Inv
<1> SUFFICES ASSUME Init PROVE Inv
  OBVIOUS
<1>1. BoundInv
  BY InitBound
<1>2. /\ trees[1] \in Forest /\ WellFormed(trees[1])
      /\ Roots(trees[1]) = {Labels}
  BY <1>1, TreesOfInstance DEF BoundInv
<1>3. sol = trees[1] /\ cuts = <<>> /\ constraints = {}
  BY DEF Init
<1>4. ClausesAreSound
  BY <1>2, <1>3, UncutTree DEF ClausesAreSound, Meets
<1>5. ClausesCutPaths /\ CutsLeft(sol, cuts)
  BY <1>3 DEF ClausesCutPaths, CutsLeft
<1> QED
  BY <1>1, <1>3, <1>4, <1>5 DEF Inv

\* A step that adds the clauses C to those kept.
LEMMA MoreClausesKeepInv ==
    ASSUME Inv, BoundInv', trees' = trees, CutForest(trees[1], sol'),
           NEW C, constraints' = constraints \cup C,
           \A P : Agrees(P) => \A S \in SUBSET Cuttable :
                      TellsApart(S, P) => Meets(S, C),
           \A c \in C : CutsPaths(c),
           pc' \in {"idle", "loop"} => sol' = trees[1] /\ cuts' = <<>>,
           CutsLeft(sol', cuts')
    PROVE  Inv'
<1>1. ClausesAreSound'
  BY SoundClausesKept DEF Inv
<1>2. ClausesCutPaths'
  <2>1. \A c \in constraints' : CutsPaths(c)
    BY DEF Inv, ClausesCutPaths
  <2>2. \A c : CutsPaths(c)' <=> CutsPaths(c)
    BY DEF CutsPaths
  <2> QED
    BY <2>1, <2>2 DEF ClausesCutPaths
<1> QED
  BY <1>1, <1>2 DEF Inv

\* A step that adds no clause.
LEMMA SameClausesKeepInv ==
    ASSUME Inv, BoundInv', trees' = trees, CutForest(trees[1], sol'),
           constraints' = constraints,
           pc' \in {"idle", "loop"} => sol' = trees[1] /\ cuts' = <<>>,
           CutsLeft(sol', cuts')
    PROVE  Inv'
<1> DEFINE C == {}
<1>1. \A P : Agrees(P) => \A S \in SUBSET Cuttable :
          TellsApart(S, P) => Meets(S, C)
  BY DEF Meets
<1>2. \A c \in C : CutsPaths(c)
  OBVIOUS
<1>3. constraints' = constraints \cup C
  OBVIOUS
<1> HIDE DEF C
<1> QED
  BY <1>1, <1>2, <1>3, MoreClausesKeepInv

\* Every step keeps the invariant.
LEMMA NextInv == Inv /\ [Next]_vars => Inv'
<1> SUFFICES ASSUME Inv, [Next]_vars PROVE Inv'
  OBVIOUS
<1>1. BoundInv' /\ BoundInv /\ TypeOK
  BY NextBound DEF Inv, BoundInv
<1>2. /\ CutForest(trees[1], sol) /\ CutsLeft(sol, cuts)
      /\ pc \in {"idle", "loop"} => sol = trees[1] /\ cuts = <<>>
  BY DEF Inv, ClausesAreSound
<1>3. sol \in Forest /\ WellFormed(sol) /\ cuts \in Seq(Node)
  <2>1. trees[1] \subseteq Node
    BY <1>1, TreesOfInstance DEF Forest
  <2>2. cuts \in Seq(trees[1])
    BY <1>1 DEF TypeOK
  <2>3. cuts \in Seq(Node)
    BY <2>1, <2>2
  <2> QED
    BY <1>2, <2>3 DEF CutForest
<1>4. CASE Solve
  <2>1. /\ UNCHANGED <<trees, cuts, sol>> /\ pc = "idle"
        /\ \/ constraints' = constraints
           \/ constraints' = InitialClauses /\ constraints = {}
    BY <1>4 DEF Solve
  <2>2. CASE constraints' = constraints
    BY <1>1, <1>2, <2>1, <2>2, SameClausesKeepInv
  <2>3. CASE constraints' = InitialClauses /\ constraints = {}
    <3>1. constraints' = constraints \cup InitialClauses
      BY <2>3
    <3>2. \A P : Agrees(P) => \A S \in SUBSET Cuttable :
              TellsApart(S, P) => Meets(S, InitialClauses)
      BY <1>1, InitialClausesAreMet
    <3>3. \A c \in InitialClauses : CutsPaths(c)
      BY <1>2, ClausesFoundCutPaths
    <3> QED
      BY <1>1, <1>2, <2>1, <3>1, <3>2, <3>3, MoreClausesKeepInv
  <2> QED
    BY <2>1, <2>2, <2>3
<1>5. CASE Relax
  <2>1. /\ UNCHANGED <<trees, constraints, sol>> /\ pc' = "cutting"
        /\ sol = trees[1] /\ hard = constraints
    BY <1>1, <1>2, <1>5 DEF Relax, BoundInv, BoundIsEarned
  <2>2. PICK S \in OptimalCuts(hard) : cuts' \in CutOrders(S)
    BY <1>5 DEF Relax
  <2>3. CutsLeft(trees[1], cuts')
    BY <1>1, <2>1, <2>2, CutsOfSolutionAreLeft DEF Inv
  <2> QED
    BY <1>1, <1>2, <2>1, <2>3, SameClausesKeepInv
<1>6. CASE CutNext
  <2>1. /\ cuts # <<>> /\ pc' = "cutting" /\ UNCHANGED <<trees, constraints>>
        /\ sol' = CutEdge(sol, Head(cuts)) /\ cuts' = Tail(cuts)
    BY <1>6 DEF CutNext
  <2>2. Head(cuts) \in sol /\ HasParent(sol, Head(cuts))
    BY <1>2, <1>3, <2>1, NextCutIsLegal
  <2>3. trees[1] \in Forest /\ Laminar(trees[1])
    BY <1>1, TreesOfInstance DEF WellFormed
  <2>4. CutForest(trees[1], sol')
    BY <1>2, <2>1, <2>2, <2>3, CutKeepsCutForest
  <2>5. CutsLeft(sol', cuts')
    BY <1>2, <1>3, <2>1, CutsLeftAfterCut
  <2> QED
    BY <1>1, <2>1, <2>4, <2>5, SameClausesKeepInv
<1>7. CASE Refine
  <2>1. PICK met : constraints' = constraints \cup NewClauses(sol, met)
    BY <1>7 DEF Refine
  <2>2. /\ UNCHANGED <<trees, cuts>> /\ sol' = trees[1] /\ cuts = <<>>
    BY <1>7 DEF Refine
  <2>3. CutForest(trees[1], sol')
    BY <1>1, <2>2, TreesOfInstance, UncutTree
  <2>4. CutsLeft(sol', cuts')
    BY <2>2 DEF CutsLeft
  <2>5. \A P : Agrees(P) => \A S \in SUBSET Cuttable :
            TellsApart(S, P) => Meets(S, NewClauses(sol, met))
    BY <1>1, <1>2, NewClausesAreMet
  <2>6. \A c \in NewClauses(sol, met) : CutsPaths(c)
    BY <1>2, ClausesFoundCutPaths
  <2> QED
    BY <1>1, <2>1, <2>2, <2>3, <2>4, <2>5, <2>6, MoreClausesKeepInv
<1>8. CASE TimeOut \/ Accept \/ Rest \/ UNCHANGED vars
  <2>1. /\ UNCHANGED <<trees, constraints, sol, cuts>>
        /\ pc' \in {"idle", "loop"} => pc \in {"idle", "loop"}
    BY <1>8 DEF TimeOut, Accept, Rest, vars
  <2> QED
    BY <1>1, <1>2, <2>1, SameClausesKeepInv
<1> QED
  BY <1>4, <1>5, <1>6, <1>7, <1>8 DEF Next

\* The cuts that tell an agreement forest apart are as many as its blocks but
\* one, and the bound asks for no more.
LEMMA InvGivesSoundBound ==
    ASSUME Inv, NEW P, Agrees(P)
    PROVE  currentLB <= Cardinality(P)
<1>1. TypeOK /\ BoundIsEarned /\ ClausesAreSound
  BY DEF Inv, BoundInv
<1>2. /\ trees[1] \in Forest /\ Laminar(trees[1])
      /\ Roots(trees[1]) = {Labels} /\ Labels \in trees[1] /\ {} \notin trees[1]
  BY <1>1, TreesOfInstance DEF WellFormed, NullNode
<1>3. SpansPartOf(trees[1], P)
  BY <1>1, AgreementUnfolded DEF SpansPartOf
<1>4. P # {}
  BY <1>2, <1>3 DEF SpansPartOf, IsPartition
<1>5. PICK S \in SUBSET (trees[1] \ Roots(trees[1])) :
          /\ Cardinality(S) + 1 <= Cardinality(P)
          /\ TellsApart(S, P)
  BY <1>2, <1>3, <1>4, SeparatingCutsExist
<1>6. IsFiniteSet(P)
  BY <1>2, <1>3, <1>4, SeparatingCutsExist
<1>7. S \in SUBSET Cuttable
  BY DEF Cuttable
<1>8. currentLB <= Cardinality(S) + 1
  BY <1>1, <1>5, <1>7 DEF ClausesAreSound, BoundIsEarned
<1>9. S \in SUBSET Node
  BY <1>2 DEF Forest
<1>10. /\ currentLB \in Nat /\ Cardinality(S) \in Nat /\ Cardinality(P) \in Nat
  BY <1>1, <1>6, <1>9, NodeSetsAreFinite, FS_CardinalityType DEF TypeOK
<1> QED
  BY <1>5, <1>8, <1>10

\* Whatever lazy generation, caps and timeouts leave out, the bound handed
\* out is at most the size of any agreement forest.
THEOREM BoundIsSoundHolds == Spec => []BoundIsSound
<1>1. Inv => BoundIsSound
  <2> SUFFICES ASSUME Inv, NEW P \in PartitionsOf(Labels),
                      Cardinality(P) < currentLB, Agrees(P)
               PROVE  FALSE
    BY DEF BoundIsSound, Agrees
  <2>1. currentLB <= Cardinality(P)
    BY InvGivesSoundBound
  <2>2. IsFiniteSet(P)
    <3>1. P \in SUBSET Node
      BY AgreementUnfolded DEF Inv, BoundInv, IsPartition, Node
    <3> QED
      BY <3>1, NodeSetsAreFinite
  <2>3. currentLB \in Nat /\ Cardinality(P) \in Nat
    BY <2>2, FS_CardinalityType DEF Inv, BoundInv, TypeOK
  <2> QED
    BY <2>1, <2>3
<1> QED
  BY <1>1, InitInv, NextInv, PTL DEF Spec

\* Every cut of a MaxSAT solution can be made: the node with the recorded
\* index is still in the forest, below a root, when its turn comes.
THEOREM CutsAreLegalHolds == Spec => []CutsAreLegal
<1>1. Inv => CutsAreLegal
  <2> SUFFICES ASSUME Inv, cuts # <<>>
               PROVE  Head(cuts) \in sol /\ HasParent(sol, Head(cuts))
    BY DEF CutsAreLegal
  <2>1. sol \in Forest /\ WellFormed(sol) /\ CutsLeft(sol, cuts)
    BY DEF Inv, ClausesAreSound, CutForest
  <2>2. cuts \in Seq(Node)
    <3>1. trees[1] \subseteq Node /\ cuts \in Seq(trees[1])
      BY TreesOfInstance DEF Inv, BoundInv, TypeOK, Forest
    <3> QED
      BY <3>1
  <2> QED
    BY <2>1, <2>2, NextCutIsLegal
<1> QED
  BY <1>1, InitInv, NextInv, PTL DEF Spec

-----------------------------------------------------------------------------
(* Recursive functions.                                                    *)

\* f is defined on D by recursion: to base where it stops, and elsewhere
\* through step from its value at the next argument.
Unrolls(f, D, stop, next, base, step) ==
    f = [x \in D |-> IF x \in stop THEN base ELSE step[x][f[next[x]]]]

\* The next argument is nearer to a stop.
Descends(D, stop, next, measure, bound) ==
    /\ bound \in Nat /\ measure \in [D -> 0..bound]
    /\ stop \subseteq D /\ next \in [D \ stop -> D]
    /\ \A x \in D \ stop : measure[next[x]] < measure[x]

\* There is such a function.
LEMMA RecursionExists ==
    ASSUME NEW D, NEW stop, NEW next, NEW measure, NEW bound,
           Descends(D, stop, next, measure, bound),
           NEW V, NEW base \in V, NEW step \in [D \ stop -> [V -> V]]
    PROVE  \E f \in [D -> V] : Unrolls(f, D, stop, next, base, step)
<1>0. /\ bound \in Nat /\ measure \in [D -> 0..bound]
      /\ stop \subseteq D /\ next \in [D \ stop -> D]
      /\ \A x \in D \ stop : measure[next[x]] < measure[x]
  BY DEF Descends
<1> DEFINE Near(n) == {x \in D : measure[x] < n}
           Value(f, x) == IF x \in stop THEN base ELSE step[x][f[next[x]]]
           Partial(n, f) == \A x \in Near(n) : f[x] = Value(f, x)
           Good == {n \in 0..(bound + 1) : \E f \in [Near(n) -> V] : Partial(n, f)}
<1>1. 0 \in Good
  <2>1. Near(0) = {}
    BY <1>0
  <2>2. [x \in Near(0) |-> base] \in [Near(0) -> V]
    OBVIOUS
  <2>3. Partial(0, [x \in Near(0) |-> base])
    BY <2>1
  <2>4. 0 \in 0..(bound + 1)
    BY <1>0
  <2> HIDE DEF Near, Partial
  <2> QED
    BY <2>2, <2>3, <2>4
<1>2. ASSUME NEW n \in 1..(bound + 1), n - 1 \in Good
      PROVE  n \in Good
  <2>1. PICK f \in [Near(n - 1) -> V] : Partial(n - 1, f)
    BY <1>2
  <2>2. \A x \in Near(n) \ stop : next[x] \in Near(n - 1)
    BY <1>0
  <2>3. \A x \in Near(n) : Value(f, x) \in V
    BY <1>0, <2>2
  <2> DEFINE g == [x \in Near(n) |-> Value(f, x)]
  <2>4. g \in [Near(n) -> V]
    BY <2>3
  <2>5. \A x \in Near(n - 1) : x \in Near(n) /\ g[x] = f[x]
    BY <1>0, <2>1
  <2>6. \A x \in Near(n) : Value(g, x) = Value(f, x)
    BY <2>2, <2>5
  <2>7. Partial(n, g)
    BY <2>6
  <2>8. n \in 0..(bound + 1)
    BY <1>0
  <2> HIDE DEF Near, Partial, g
  <2> QED
    BY <2>4, <2>7, <2>8
<1>3. bound + 1 \in Good
  <2>1. bound + 1 \in Nat
    BY <1>0
  <2> HIDE DEF Good
  <2>2. 0..(bound + 1) \subseteq Good
    BY <1>1, <1>2, <2>1, HandedOn
  <2> QED
    BY <2>1, <2>2
<1>4. Near(bound + 1) = D
  BY <1>0
<1>5. PICK f \in [D -> V] : \A x \in D : f[x] = Value(f, x)
  BY <1>3, <1>4
<1>6. f = [x \in D |-> Value(f, x)]
  BY <1>5
<1> QED
  BY <1>6 DEF Unrolls

\* Where the first argument to miss S is none, all are in S.
LEMMA DescentReaches ==
    ASSUME NEW D, NEW stop, NEW next, NEW measure, NEW bound,
           Descends(D, stop, next, measure, bound),
           NEW S, \A x \in D : (x \in stop \/ next[x] \in S) => x \in S
    PROVE  D \subseteq S
<1>0. /\ bound \in Nat /\ measure \in [D -> 0..bound]
      /\ stop \subseteq D /\ next \in [D \ stop -> D]
      /\ \A x \in D \ stop : measure[next[x]] < measure[x]
  BY DEF Descends
<1> SUFFICES ASSUME NEW x \in D, x \notin S PROVE FALSE
  OBVIOUS
<1> DEFINE M == {measure[y] : y \in D \ S}
<1>1. M \in SUBSET Nat /\ M # {}
  BY <1>0
<1>2. PICK k \in M : \A j \in M : k <= j
  BY <1>1, SmallestExists
<1>3. PICK y \in D \ S : measure[y] = k
  BY <1>2
<1>4. y \notin stop /\ next[y] \in D /\ next[y] \notin S
  BY <1>0, <1>3
<1>5. measure[next[y]] \in M /\ measure[next[y]] < k
  BY <1>0, <1>3, <1>4
<1>6. k \in Nat /\ measure[next[y]] \in Nat
  BY <1>1, <1>5
<1> QED
  BY <1>2, <1>5, <1>6

-----------------------------------------------------------------------------
(* Sorting.                                                                *)

\* Every part of S has an element nothing else comes before.
Sortable(S, before) ==
    \A R \in SUBSET S : R # {} => \E x \in R : \A y \in R : <<y, x>> \notin before

\* s lists the elements of S.
Lists(s, S) == s \in Seq(S) /\ \A x \in S : \E k \in DOMAIN s : s[k] = x

\* f lists the parts of S, the least element first.
Takes(f, S, before) ==
    f = [R \in SUBSET S |->
            IF R = {} THEN <<>>
            ELSE <<Least(R, before)>> \o f[R \ {Least(R, before)}]]

\* A sequence is listed with one element more.
LEMMA ListsOneMore ==
    ASSUME NEW R, NEW x \in R, NEW s, Lists(s, R \ {x})
    PROVE  Lists(<<x>> \o s, R)
<1> DEFINE t == <<x>> \o s
<1>1. s \in Seq(R) /\ <<x>> \in Seq(R)
  BY DEF Lists
<1>2. /\ t \in Seq(R) /\ Len(t) = 1 + Len(s)
      /\ t[1] = x
      /\ \A k \in 1..Len(s) : t[1 + k] = s[k]
  BY <1>1
<1>3. ASSUME NEW y \in R
      PROVE  \E k \in DOMAIN t : t[k] = y
  <2>1. DOMAIN t = 1..(1 + Len(s)) /\ DOMAIN s = 1..Len(s) /\ Len(s) \in Nat
    BY <1>1, <1>2
  <2>2. CASE y = x
    BY <1>2, <2>1, <2>2
  <2>3. CASE y # x
    <3>1. PICK k \in DOMAIN s : s[k] = y
      BY <2>3 DEF Lists
    <3>2. 1 + k \in DOMAIN t /\ t[1 + k] = y
      BY <1>2, <2>1, <3>1
    <3> QED
      BY <3>2
  <2> QED
    BY <2>2, <2>3
<1> QED
  BY <1>2, <1>3 DEF Lists

\* InOrder lists the set it sorts.
LEMMA InOrderLists ==
    ASSUME NEW S, IsFiniteSet(S), NEW before, Sortable(S, before)
    PROVE  Lists(InOrder(S, before), S)
<1> DEFINE D == SUBSET S
           stop == {{}}
           next == [R \in D \ stop |-> R \ {Least(R, before)}]
           measure == [R \in D |-> Cardinality(R)]
           step == [R \in D \ stop |-> [s \in Seq(S) |-> <<Least(R, before)>> \o s]]
<1>1. \A R \in D \ stop : Least(R, before) \in R
  BY DEF Sortable, Least
<1>2. /\ Cardinality(S) \in Nat
      /\ \A R \in D : IsFiniteSet(R) /\ Cardinality(R) \in 0..Cardinality(S)
      /\ \A R \in D : \A x \in R : Cardinality(R \ {x}) = Cardinality(R) - 1
  BY FS_CardinalityType, FS_Subset, FS_RemoveElement
<1>3. Descends(D, stop, next, measure, Cardinality(S))
  <2>1. measure \in [D -> 0..Cardinality(S)]
    BY <1>2
  <2>2. stop \subseteq D /\ next \in [D \ stop -> D]
    OBVIOUS
  <2>3. ASSUME NEW R \in D \ stop PROVE measure[next[R]] < measure[R]
    <3>1. next[R] = R \ {Least(R, before)} /\ next[R] \in D /\ R \in D
      OBVIOUS
    <3>2. measure[next[R]] = Cardinality(R) - 1 /\ measure[R] = Cardinality(R)
      BY <1>1, <1>2, <3>1
    <3> QED
      BY <1>2, <3>1, <3>2
  <2> QED
    BY <1>2, <2>1, <2>2, <2>3 DEF Descends
<1>4. step \in [D \ stop -> [Seq(S) -> Seq(S)]]
  <2>1. ASSUME NEW R \in D \ stop, NEW s \in Seq(S)
        PROVE  <<Least(R, before)>> \o s \in Seq(S)
    <3>1. Least(R, before) \in S
      BY <1>1
    <3> QED
      BY <3>1
  <2> QED
    BY <2>1
<1>5. PICK f \in [D -> Seq(S)] : Unrolls(f, D, stop, next, <<>>, step)
  <2>1. <<>> \in Seq(S)
    OBVIOUS
  <2> HIDE DEF D, stop, next, measure, step
  <2> QED
    BY <1>3, <1>4, <2>1, RecursionExists
<1>6. Takes(f, S, before)
  <2>1. f = [R \in D |-> IF R \in stop THEN <<>> ELSE step[R][f[next[R]]]]
    BY <1>5 DEF Unrolls
  <2>2. ASSUME NEW R \in D
        PROVE  (IF R \in stop THEN <<>> ELSE step[R][f[next[R]]])
                  = (IF R = {} THEN <<>>
                     ELSE <<Least(R, before)>> \o f[R \ {Least(R, before)}])
    <3>1. CASE R = {}
      BY <3>1
    <3>2. CASE R # {}
      <4>1. R \in D \ stop /\ next[R] = R \ {Least(R, before)} /\ next[R] \in D
        BY <3>2
      <4>2. f[next[R]] \in Seq(S)
        BY <1>5, <4>1
      <4> QED
        BY <3>2, <4>1, <4>2
    <3> QED
      BY <3>1, <3>2
  <2> QED
    BY <2>1, <2>2 DEF Takes
<1>7. \E g : Takes(g, S, before) /\ InOrder(S, before) = g[S]
  <2>1. InOrder(S, before) = (CHOOSE g : Takes(g, S, before))[S]
    BY Zenon DEF InOrder, Takes
  <2>2. Takes(CHOOSE g : Takes(g, S, before), S, before)
    BY <1>6, Zenon
  <2> QED
    BY <2>1, <2>2, Zenon
<1>8. PICK g : Takes(g, S, before) /\ InOrder(S, before) = g[S]
  BY <1>7
<1> DEFINE Good == {R \in D : Lists(g[R], R)}
<1>9. ASSUME NEW R \in D, R \in stop \/ next[R] \in Good
      PROVE  R \in Good
  <2>1. g[R] = IF R = {} THEN <<>>
               ELSE <<Least(R, before)>> \o g[R \ {Least(R, before)}]
    BY <1>8 DEF Takes
  <2>2. CASE R = {}
    <3>1. g[R] = <<>>
      BY <2>1, <2>2
    <3>2. <<>> \in Seq({}) /\ Lists(<<>>, {})
      BY DEF Lists
    <3> QED
      BY <2>2, <3>1, <3>2
  <2>3. CASE R # {}
    <3>1. /\ Least(R, before) \in R
          /\ Lists(g[R \ {Least(R, before)}], R \ {Least(R, before)})
      BY <1>1, <1>9, <2>3
    <3> QED
      BY <2>1, <2>3, <3>1, ListsOneMore
  <2> QED
    BY <2>2, <2>3
<1>10. D \subseteq Good
  <2> HIDE DEF D, stop, next, measure, Good
  <2> QED
    BY <1>3, <1>9, DescentReaches
<1> QED
  BY <1>8, <1>10

\* A transitive order nothing precedes itself in sorts every finite set.
LEMMA OrdersSort ==
    ASSUME NEW S, IsFiniteSet(S), NEW before,
           \A x \in S : <<x, x>> \notin before,
           \A x, y, z \in S : <<x, y>> \in before /\ <<y, z>> \in before
                                  => <<x, z>> \in before
    PROVE  Sortable(S, before)
<1> SUFFICES ASSUME NEW R \in SUBSET S, R # {}
             PROVE  \E x \in R : \A y \in R : <<y, x>> \notin before
  BY DEF Sortable
<1> DEFINE earlier(x) == {y \in R : <<y, x>> \in before}
           N == {Cardinality(earlier(x)) : x \in R}
<1>1. IsFiniteSet(R)
  BY FS_Subset
<1>2. \A x \in R : IsFiniteSet(earlier(x)) /\ Cardinality(earlier(x)) \in Nat
  BY <1>1, FS_Subset, FS_CardinalityType
<1>3. N \in SUBSET Nat /\ N # {}
  <2> HIDE DEF earlier
  <2>1. PICK x : x \in R
    OBVIOUS
  <2>2. Cardinality(earlier(x)) \in N
    BY <2>1
  <2>3. \A k \in N : k \in Nat
    <3>1. \A k \in N : \E y \in R : k = Cardinality(earlier(y))
      OBVIOUS
    <3> QED
      BY <1>2, <3>1
  <2> QED
    BY <2>2, <2>3
<1>4. PICK k \in N : \A j \in N : k <= j
  BY <1>3, SmallestExists
<1>5. PICK x \in R : k = Cardinality(earlier(x))
  BY <1>4
<1>6. ASSUME NEW y \in R, <<y, x>> \in before
      PROVE  FALSE
  <2>1. earlier(y) \subseteq earlier(x) /\ y \in earlier(x) /\ y \notin earlier(y)
    BY <1>6
  <2>2. Cardinality(earlier(y)) < Cardinality(earlier(x))
    <3>1. earlier(y) # earlier(x)
      BY <2>1
    <3> HIDE DEF earlier
    <3> QED
      BY <1>2, <1>5, <1>6, <2>1, <3>1, FS_Subset
  <2>3. Cardinality(earlier(y)) \in N
    BY <1>6
  <2>4. k <= Cardinality(earlier(y)) /\ k \in Nat /\ Cardinality(earlier(y)) \in Nat
    BY <1>3, <1>4, <2>3
  <2> HIDE DEF earlier, N
  <2> QED
    BY <1>5, <2>2, <2>4
<1> QED
  BY <1>6

\* Sorted lists a finite set of numbers,
LEMMA SortedLists ==
    ASSUME NEW S \in SUBSET Int, IsFiniteSet(S)
    PROVE  Lists(Sorted(S), S)
<1> DEFINE before == {x \in S \X S : x[1] < x[2]}
<1>1. \A x, y \in S : <<x, y>> \in before <=> x < y
  OBVIOUS
<1> HIDE DEF before
<1>2. Sortable(S, before)
  <2>1. \A x \in S : <<x, x>> \notin before
    BY <1>1
  <2>2. \A x, y, z \in S : <<x, y>> \in before /\ <<y, z>> \in before
                              => <<x, z>> \in before
    BY <1>1
  <2> QED
    BY <2>1, <2>2, OrdersSort
<1> QED
  BY <1>2, InOrderLists DEF Sorted, before

\* and LoopOrder one of pairs of numbers.
LEMMA LoopOrderLists ==
    ASSUME NEW S \in SUBSET (Int \X Int), IsFiniteSet(S)
    PROVE  Lists(LoopOrder(S), S)
<1> DEFINE before == {x \in S \X S : PositionBefore(x[1], x[2])}
<1>1. \A x, y \in S : <<x, y>> \in before <=> PositionBefore(x, y)
  OBVIOUS
<1> HIDE DEF before
<1>2. \A x \in S : x[1] \in Int /\ x[2] \in Int
  OBVIOUS
<1>3. Sortable(S, before)
  <2>1. \A x \in S : <<x, x>> \notin before
    BY <1>1, <1>2 DEF PositionBefore
  <2>2. ASSUME NEW x \in S, NEW y \in S, NEW z \in S,
               <<x, y>> \in before, <<y, z>> \in before
        PROVE  <<x, z>> \in before
    BY <1>1, <1>2, <2>2 DEF PositionBefore
  <2> QED
    BY <2>1, <2>2, OrdersSort
<1> QED
  BY <1>3, InOrderLists DEF LoopOrder, before

\* The first label by which two sets of labels differ orders them.
LEMMA LexIsTransitive ==
    ASSUME NEW s \in SUBSET Int, NEW t \in SUBSET Int, NEW u \in SUBSET Int,
           LexBefore(s, t), LexBefore(t, u)
    PROVE  LexBefore(s, u)
<1>1. PICK x \in s \ t : \A y \in t \ s : x < y
  BY DEF LexBefore
<1>2. PICK y \in t \ u : \A z \in u \ t : y < z
  BY DEF LexBefore
<1>3. x # y /\ x \in Int /\ y \in Int
  BY <1>1, <1>2
<1>4. CASE x < y
  <2>1. x \in s \ u
    BY <1>1, <1>2, <1>3, <1>4
  <2>2. ASSUME NEW w \in u \ s PROVE x < w
    <3>1. CASE w \in t
      BY <1>1, <2>2, <3>1
    <3>2. CASE w \notin t
      BY <1>2, <1>3, <1>4, <2>2, <3>2
    <3> QED
      BY <3>1, <3>2
  <2> QED
    BY <2>1, <2>2 DEF LexBefore
<1>5. CASE y < x
  <2>1. y \in s \ u
    BY <1>1, <1>2, <1>3, <1>5
  <2>2. ASSUME NEW w \in u \ s PROVE y < w
    <3>1. CASE w \in t
      BY <1>1, <1>3, <1>5, <2>2, <3>1
    <3>2. CASE w \notin t
      BY <1>2, <2>2, <3>2
    <3> QED
      BY <3>1, <3>2
  <2> QED
    BY <2>1, <2>2 DEF LexBefore
<1> QED
  BY <1>3, <1>4, <1>5

\* AllTriples lists the triples it is given.
LEMMA AllTriplesLists ==
    ASSUME NEW S \in SUBSET SUBSET Int, IsFiniteSet(S)
    PROVE  Lists(AllTriples(S), S)
<1> DEFINE before == {x \in S \X S : LexBefore(x[1], x[2])}
<1>1. \A x, y \in S : <<x, y>> \in before <=> LexBefore(x, y)
  OBVIOUS
<1> HIDE DEF before
<1>2. Sortable(S, before)
  <2>1. \A x \in S : <<x, x>> \notin before
    BY <1>1 DEF LexBefore
  <2>2. \A x, y, z \in S : <<x, y>> \in before /\ <<y, z>> \in before
                              => <<x, z>> \in before
    BY <1>1, LexIsTransitive
  <2> QED
    BY <2>1, <2>2, OrdersSort
<1> QED
  BY <1>2, InOrderLists DEF AllTriples, before

-----------------------------------------------------------------------------
(* The leaf order.                                                         *)

\* Two labels that meet below the third see it alike.
LEMMA SeenAlike ==
    ASSUME NEW F, Laminar(F), NEW x, NEW y, NEW z,
           NEW m \in F, x \in m, y \in m, z \notin m
    PROVE  /\ ChildWith(F, x, z) = ChildWith(F, y, z)
           /\ ChildWith(F, z, x) = ChildWith(F, z, y)
<1>1. ASSUME NEW u \in {x, y}, NEW n \in F, u \in n
      PROVE  n \subseteq m \/ m \subseteq n
  BY <1>1 DEF Laminar
<1>2. ASSUME NEW n \in F, z \in n
      PROVE  x \in n <=> y \in n
  BY <1>1, <1>2
<1>3. {n \in F : z \in n /\ x \notin n} = {n \in F : z \in n /\ y \notin n}
  BY <1>2
<1>4. \A l : l \in ChildWith(F, x, z) <=> l \in ChildWith(F, y, z)
  <2>1. \A u, l : l \in ChildWith(F, u, z) <=> \E n \in F : u \in n /\ z \notin n /\ l \in n
    BY DEF ChildWith
  <2>2. ASSUME NEW u \in {x, y}, NEW v \in {x, y}, NEW l,
               NEW n \in F, u \in n, z \notin n, l \in n
        PROVE  \E k \in F : v \in k /\ z \notin k /\ l \in k
    <3>1. CASE n \subseteq m
      BY <2>2, <3>1
    <3>2. CASE m \subseteq n
      BY <2>2, <3>2
    <3> QED
      BY <1>1, <2>2, <3>1, <3>2
  <2> QED
    BY <2>1, <2>2
<1> QED
  BY <1>3, <1>4 DEF ChildWith

\* The leaf order is transitive.
LEMMA BeforeIsTransitive ==
    ASSUME NEW F \in Forest, Laminar(F), NEW x, NEW y, NEW z,
           Before(F, x, y), Before(F, y, z)
    PROVE  Before(F, x, z)
<1>1. \A u, v : Before(F, u, v) <=>
          \E k \in ChildWith(F, u, v) : \A j \in ChildWith(F, v, u) : k < j
  BY DEF Before, ChildWith
<1>n. \A u, v : ChildWith(F, u, v) \in SUBSET Int
  <2>1. \A n \in F : \A k \in n : k \in Int
    BY LabelsAreTaxa DEF Forest, Node
  <2> QED
    BY <2>1 DEF ChildWith
<1>2. CASE \E m \in F : x \in m /\ y \in m /\ z \notin m
  <2>1. /\ ChildWith(F, x, z) = ChildWith(F, y, z)
        /\ ChildWith(F, z, x) = ChildWith(F, z, y)
    BY <1>2, SeenAlike
  <2> QED
    BY <1>1, <2>1
<1>3. CASE \E m \in F : y \in m /\ z \in m /\ x \notin m
  <2>1. /\ ChildWith(F, y, x) = ChildWith(F, z, x)
        /\ ChildWith(F, x, y) = ChildWith(F, x, z)
    BY <1>3, SeenAlike
  <2> QED
    BY <1>1, <2>1
<1>4. CASE \E m \in F : x \in m /\ z \in m /\ y \notin m
  <2>1. /\ ChildWith(F, x, y) = ChildWith(F, z, y)
        /\ ChildWith(F, y, x) = ChildWith(F, y, z)
    BY <1>4, SeenAlike
  <2>2. PICK k \in ChildWith(F, x, y) : \A j \in ChildWith(F, y, x) : k < j
    BY <1>1
  <2>3. PICK j \in ChildWith(F, y, x) : \A i \in ChildWith(F, x, y) : j < i
    BY <1>1, <2>1
  <2>4. k < j /\ j < k /\ k \in Int /\ j \in Int
    BY <1>n, <2>2, <2>3
  <2> QED
    BY <2>4
<1>5. CASE \A m \in F : /\ x \in m /\ y \in m => z \in m
                        /\ y \in m /\ z \in m => x \in m
                        /\ x \in m /\ z \in m => y \in m
  <2>1. /\ ChildWith(F, x, z) = ChildWith(F, x, y)
        /\ ChildWith(F, y, z) = ChildWith(F, y, x)
        /\ ChildWith(F, z, x) = ChildWith(F, z, y)
    BY <1>5 DEF ChildWith
  <2>2. PICK k \in ChildWith(F, x, y) : \A j \in ChildWith(F, y, x) : k < j
    BY <1>1
  <2>3. PICK j \in ChildWith(F, y, x) : \A i \in ChildWith(F, z, y) : j < i
    BY <1>1, <2>1
  <2>4. \A i \in ChildWith(F, z, x) : k < i
    BY <1>n, <2>1, <2>2, <2>3
  <2> QED
    BY <1>1, <2>1, <2>2, <2>4
<1> QED
  BY <1>2, <1>3, <1>4, <1>5

\* The leaves are listed.
LEMMA LeavesAreListed ==
    ASSUME NEW F \in Forest, Laminar(F)
    PROVE  Lists(InOrder(Labels, {x \in Labels \X Labels : Before(F, x[1], x[2])}), Labels)
<1> DEFINE before == {x \in Labels \X Labels : Before(F, x[1], x[2])}
<1>1. \A x, y \in Labels : <<x, y>> \in before <=> Before(F, x, y)
  OBVIOUS
<1> HIDE DEF before
<1>2. Sortable(Labels, before)
  <2>1. \A x \in Labels : <<x, x>> \notin before
    BY <1>1 DEF Before
  <2>2. \A x, y, z \in Labels : <<x, y>> \in before /\ <<y, z>> \in before
                                  => <<x, z>> \in before
    BY <1>1, BeforeIsTransitive
  <2> QED
    BY <2>1, <2>2, LabelsAreTaxa, OrdersSort
<1> QED
  BY <1>2, LabelsAreTaxa, InOrderLists DEF before

-----------------------------------------------------------------------------
(* The coverage passes.                                                    *)

\* A loop that takes the item at i with the first index within its reach and
\* goes on behind that one.
Hops(f, reach, item) ==
    f = [i \in Nat \ {0} |-> IF reach[i] = {} THEN <<>>
                       ELSE <<item[i]>> \o f[First(reach[i]) + 1]]

\* First is the smallest.
LEMMA FirstIsSmallest ==
    ASSUME NEW A \in SUBSET Nat, A # {}
    PROVE  First(A) \in A
BY SmallestExists DEF First

\* Such a loop ends, and lists items.
LEMMA HopsEnd ==
    ASSUME NEW n \in Nat,
           NEW reach, \A i \in Nat \ {0} : reach[i] \subseteq (i + 1)..n,
           NEW X, NEW item, \A i \in Nat \ {0} : reach[i] # {} => item[i] \in X
    PROVE  /\ \E f : Hops(f, reach, item)
           /\ \A f : Hops(f, reach, item) => f[1] \in Seq(X)
<1> DEFINE D == Nat \ {0}
           stop == {i \in D : reach[i] = {}}
           next == [i \in D \ stop |-> First(reach[i]) + 1]
           measure == [i \in D |-> IF i <= n THEN n + 1 - i ELSE 0]
           step == [i \in D \ stop |-> [s \in Seq(X) |-> <<item[i]>> \o s]]
<1>1. \A i \in D \ stop : First(reach[i]) \in (i + 1)..n /\ reach[i] # {}
  <2> SUFFICES ASSUME NEW i \in D \ stop
               PROVE  First(reach[i]) \in (i + 1)..n /\ reach[i] # {}
    OBVIOUS
  <2>1. reach[i] \in SUBSET Nat /\ reach[i] # {} /\ reach[i] \subseteq (i + 1)..n
    OBVIOUS
  <2> QED
    BY <2>1, FirstIsSmallest
<1>a. \A i \in D \ stop : next[i] = First(reach[i]) + 1 /\ next[i] \in D
  BY <1>1
<1>2. Descends(D, stop, next, measure, n + 1)
  <2>1. measure \in [D -> 0..(n + 1)] /\ n + 1 \in Nat
    OBVIOUS
  <2>2. next \in [D \ stop -> D]
    BY <1>1
  <2>3. ASSUME NEW i \in D \ stop
        PROVE  measure[next[i]] < measure[i]
    <3>1. next[i] = First(reach[i]) + 1 /\ next[i] \in D /\ i \in Nat
      BY <2>2
    <3>2. next[i] > i + 1 /\ i < n
      BY <1>1, <3>1
    <3> HIDE DEF next, stop
    <3> QED
      BY <3>1, <3>2
  <2> QED
    BY <2>1, <2>2, <2>3 DEF Descends
<1>3. step \in [D \ stop -> [Seq(X) -> Seq(X)]]
  <2>1. ASSUME NEW i \in D \ stop, NEW s \in Seq(X)
        PROVE  <<item[i]>> \o s \in Seq(X)
    <3>1. item[i] \in X
      OBVIOUS
    <3> QED
      BY <3>1
  <2> QED
    BY <2>1
<1>4. PICK f \in [D -> Seq(X)] : Unrolls(f, D, stop, next, <<>>, step)
  <2>1. <<>> \in Seq(X)
    OBVIOUS
  <2> HIDE DEF D, stop, next, measure, step
  <2> QED
    BY <1>2, <1>3, <2>1, RecursionExists
<1>5. Hops(f, reach, item)
  <2>1. f = [i \in D |-> IF i \in stop THEN <<>> ELSE step[i][f[next[i]]]]
    BY <1>4 DEF Unrolls
  <2>2. ASSUME NEW i \in D
        PROVE  (IF i \in stop THEN <<>> ELSE step[i][f[next[i]]])
                  = (IF reach[i] = {} THEN <<>>
                     ELSE <<item[i]>> \o f[First(reach[i]) + 1])
    <3>1. CASE i \in stop
      BY <3>1
    <3>2. CASE i \notin stop
      <4>1. i \in D \ stop /\ next[i] = First(reach[i]) + 1 /\ next[i] \in D
            /\ reach[i] # {}
        BY <1>a, <3>2
      <4>2. f[next[i]] \in Seq(X)
        BY <1>4, <4>1
      <4> QED
        BY <3>2, <4>1, <4>2
    <3> QED
      BY <3>1, <3>2
  <2> QED
    BY <2>1, <2>2 DEF Hops
<1>6. ASSUME NEW g, Hops(g, reach, item)
      PROVE  g[1] \in Seq(X)
  <2> DEFINE Good == {i \in D : g[i] \in Seq(X)}
  <2>1. ASSUME NEW i \in D, i \in stop \/ next[i] \in Good
        PROVE  i \in Good
    <3>1. g[i] = IF reach[i] = {} THEN <<>>
                 ELSE <<item[i]>> \o g[First(reach[i]) + 1]
      BY <1>6 DEF Hops
    <3>2. CASE reach[i] = {}
      <4>1. g[i] = <<>> /\ <<>> \in Seq(X)
        BY <3>1, <3>2
      <4> QED
        BY <4>1
    <3>3. CASE reach[i] # {}
      <4>1. i \in D \ stop
        BY <3>3
      <4>2. g[First(reach[i]) + 1] \in Seq(X) /\ item[i] \in X
        BY <1>a, <2>1, <4>1
      <4>3. g[i] = <<item[i]>> \o g[First(reach[i]) + 1]
        BY <3>1, <3>3
      <4>4. g[i] \in Seq(X)
        BY <4>2, <4>3
      <4> QED
        BY <4>4
    <3> QED
      BY <3>2, <3>3
  <2>2. D \subseteq Good
    <3> HIDE DEF D, stop, next, measure, Good
    <3> QED
      BY <1>2, <2>1, DescentReaches
  <2> QED
    BY <2>2
<1> QED
  BY <1>5, <1>6

-----------------------------------------------------------------------------
(* What checkMAF looks at.                                                 *)

\* Sets of labels are finite sets of numbers.
LEMMA LabelSetsAreFinite ==
    ASSUME NEW S \in SUBSET Labels
    PROVE  S \in SUBSET Int /\ IsFiniteSet(S) /\ Cardinality(S) \in Nat
<1>1. IsFiniteSet(S)
  BY LabelsAreTaxa, FS_Subset
<1> QED
  BY <1>1, LabelsAreTaxa, FS_CardinalityType

\* An empty list lists the empty set.
LEMMA NothingListed ==
    ASSUME NEW S, NEW s, Lists(s, S), s = <<>> \/ Len(s) = 0
    PROVE  S = {}
<1>1. s \in Seq(S)
  BY DEF Lists
<1>2. DOMAIN s = 1..Len(s) /\ Len(s) = 0
  BY <1>1
<1> QED
  BY <1>2 DEF Lists

\* Positions of a sequence come in finitely many pairs of numbers.
LEMMA PositionsAreFinite ==
    ASSUME NEW X, NEW s \in Seq(X), NEW A \in SUBSET ((DOMAIN s) \X (DOMAIN s))
    PROVE  A \in SUBSET (Int \X Int) /\ IsFiniteSet(A)
<1>1. DOMAIN s = 1..Len(s) /\ Len(s) \in Nat
  OBVIOUS
<1>2. IsFiniteSet((DOMAIN s) \X (DOMAIN s))
  <2>1. IsFiniteSet(DOMAIN s)
    BY <1>1, FS_Interval
  <2> QED
    BY <2>1, FS_Product
<1>3. A \in SUBSET (Int \X Int)
  BY <1>1
<1> QED
  BY <1>2, <1>3, FS_Subset

\* The leaf pairs are all pairs of labels of one component.
LEMMA LeafPairsListed ==
    ASSUME NEW F \in Forest, Laminar(F)
    PROVE  /\ LeafPairs(F) \in Seq(SUBSET Labels)
           /\ \A x, y \in Labels : x # y /\ Connected(F, x, y) =>
                 \E k \in DOMAIN LeafPairs(F) : LeafPairs(F)[k] = {x, y}
<1> DEFINE leaves == InOrder(Labels, {x \in Labels \X Labels : Before(F, x[1], x[2])})
           A == {x \in (DOMAIN leaves) \X (DOMAIN leaves) :
                    /\ x[1] < x[2]
                    /\ Connected(F, leaves[x[1]], leaves[x[2]])}
           at == LoopOrder(A)
           ps == LeafPairs(F)
<1>1. ps = [k \in DOMAIN at |-> {leaves[at[k][1]], leaves[at[k][2]]}]
  BY DEF LeafPairs, ItemsAt
<1>2. Lists(leaves, Labels)
  BY LeavesAreListed
<1> HIDE DEF leaves
<1>3. leaves \in Seq(Labels) /\ DOMAIN leaves = 1..Len(leaves) /\ Len(leaves) \in Nat
  BY <1>2 DEF Lists
<1>4. A \in SUBSET (Int \X Int) /\ IsFiniteSet(A)
  BY <1>3, PositionsAreFinite
<1>5. Lists(at, A)
  BY <1>4, LoopOrderLists
<1>a. \A i, j \in DOMAIN leaves :
          <<i, j>> \in A <=> i < j /\ Connected(F, leaves[i], leaves[j])
  OBVIOUS
<1>b. \A a \in A : a[1] \in DOMAIN leaves /\ a[2] \in DOMAIN leaves
  OBVIOUS
<1> HIDE DEF A, at, ps
<1>6. at \in Seq(A) /\ DOMAIN at = 1..Len(at) /\ Len(at) \in Nat
  BY <1>5 DEF Lists
<1>7. \A k \in DOMAIN at : {leaves[at[k][1]], leaves[at[k][2]]} \in SUBSET Labels
  <2>1. \A k \in DOMAIN at : at[k] \in A
    BY <1>6
  <2>2. \A i \in DOMAIN leaves : leaves[i] \in Labels
    BY <1>3
  <2> QED
    BY <1>b, <2>1, <2>2
<1>8. ps \in Seq(SUBSET Labels)
  BY <1>1, <1>6, <1>7
<1>9. ASSUME NEW x \in Labels, NEW y \in Labels, x # y, Connected(F, x, y)
      PROVE  \E k \in DOMAIN ps : ps[k] = {x, y}
  <2>1. PICK i \in DOMAIN leaves, j \in DOMAIN leaves : leaves[i] = x /\ leaves[j] = y
    BY <1>2 DEF Lists
  <2>2. i # j /\ i \in Nat /\ j \in Nat /\ Connected(F, y, x)
    BY <1>3, <1>9, <2>1 DEF Connected
  <2>3. \E a \in A : {leaves[a[1]], leaves[a[2]]} = {x, y}
    <3>1. CASE i < j
      <4>1. <<i, j>> \in A
        BY <1>9, <1>a, <2>1, <3>1
      <4> QED
        BY <2>1, <4>1
    <3>2. CASE j < i
      <4>1. <<j, i>> \in A
        BY <1>a, <2>1, <2>2, <3>2
      <4> QED
        BY <2>1, <4>1
    <3> QED
      BY <2>2, <3>1, <3>2
  <2>4. PICK a \in A : {leaves[a[1]], leaves[a[2]]} = {x, y}
    BY <2>3
  <2>5. PICK k \in DOMAIN at : at[k] = a
    BY <1>5 DEF Lists
  <2> QED
    BY <1>1, <2>4, <2>5
<1> QED
  BY <1>8, <1>9 DEF ps

\* The first pass over the leaf pairs lists pairs of pairs,
LEMMA LinearPairsTyped ==
    ASSUME NEW F, NEW ps \in Seq(SUBSET Labels)
    PROVE  LinearPairs(F, ps) \in Seq(SUBSET SUBSET Labels)
<1> DEFINE odd == {i \in 1..(Len(ps) - 1) : i % 2 = 1 /\ Overlap(F, ps[i], ps[i + 1])}
           at == Sorted(odd)
<1>1. LinearPairs(F, ps) = [k \in DOMAIN at |-> {ps[at[k]], ps[at[k] + 1]}]
  BY DEF LinearPairs, ItemsAt
<1>2. Len(ps) \in Nat /\ DOMAIN ps = 1..Len(ps)
  OBVIOUS
<1>3. odd \in SUBSET Int /\ IsFiniteSet(odd)
  <2>1. odd \subseteq 1..Len(ps)
    BY <1>2
  <2>2. IsFiniteSet(1..Len(ps))
    BY <1>2, FS_Interval
  <2> QED
    BY <1>2, <2>1, <2>2, FS_Subset
<1>4. Lists(at, odd)
  BY <1>3, SortedLists
<1>5. at \in Seq(odd) /\ DOMAIN at = 1..Len(at) /\ Len(at) \in Nat
  <2> HIDE DEF at, odd
  <2> QED
    BY <1>4 DEF Lists
<1>6. \A i \in odd : i \in DOMAIN ps /\ i + 1 \in DOMAIN ps
  <2>1. \A i \in odd : i \in 1..(Len(ps) - 1)
    OBVIOUS
  <2> HIDE DEF odd
  <2> QED
    BY <1>2, <2>1
<1> HIDE DEF at, odd
<1>7. \A k \in DOMAIN at : {ps[at[k]], ps[at[k] + 1]} \in SUBSET SUBSET Labels
  <2>1. \A k \in DOMAIN at : at[k] \in odd
    BY <1>5
  <2>2. \A i \in DOMAIN ps : ps[i] \in SUBSET Labels
    OBVIOUS
  <2> QED
    BY <1>6, <2>1, <2>2
<1> QED
  BY <1>1, <1>5, <1>7

\* the second one as well,
LEMMA CoveragePairsTyped ==
    ASSUME NEW F, NEW ps \in Seq(SUBSET Labels)
    PROVE  CoveragePairs(F, ps) \in Seq(SUBSET SUBSET Labels)
<1> DEFINE seconds(i) == {j \in (i + 1)..Len(ps) : Overlap(F, ps[i], ps[j])}
           Takes2(f) == f = [i \in Nat \ {0} |->
                                IF seconds(i) = {} THEN <<>>
                                ELSE <<{ps[i], ps[First(seconds(i))]}>>
                                         \o f[First(seconds(i)) + 1]]
           reach == [i \in Nat \ {0} |-> seconds(i)]
           item == [i \in Nat \ {0} |-> {ps[i], ps[First(seconds(i))]}]
<1>1. CoveragePairs(F, ps) = (CHOOSE f : Takes2(f))[1]
  BY Zenon DEF CoveragePairs
<1>2. \A f : Takes2(f) <=> Hops(f, reach, item)
  <2> SUFFICES ASSUME NEW f PROVE Takes2(f) <=> Hops(f, reach, item)
    OBVIOUS
  <2>1. \A i \in Nat \ {0} : /\ reach[i] = seconds(i)
                             /\ item[i] = {ps[i], ps[First(seconds(i))]}
    OBVIOUS
  <2> HIDE DEF reach, item, seconds
  <2> QED
    BY <2>1 DEF Hops
<1>3. Len(ps) \in Nat /\ DOMAIN ps = 1..Len(ps)
  OBVIOUS
<1>4. \A i \in Nat \ {0} : reach[i] \subseteq (i + 1)..Len(ps)
  OBVIOUS
<1>5. ASSUME NEW i \in Nat \ {0}, reach[i] # {}
      PROVE  item[i] \in SUBSET SUBSET Labels
  <2>1. seconds(i) \in SUBSET Nat /\ seconds(i) # {} /\ seconds(i) \subseteq (i + 1)..Len(ps)
    BY <1>5
  <2>2. First(seconds(i)) \in (i + 1)..Len(ps)
    BY <2>1, FirstIsSmallest
  <2>3. i \in DOMAIN ps /\ First(seconds(i)) \in DOMAIN ps
    BY <1>3, <2>2
  <2>4. \A j \in DOMAIN ps : ps[j] \in SUBSET Labels
    OBVIOUS
  <2> QED
    BY <2>3, <2>4
<1> HIDE DEF reach, item, Takes2
<1>6. /\ \E f : Takes2(f)
      /\ \A f : Takes2(f) => f[1] \in Seq(SUBSET SUBSET Labels)
  BY <1>2, <1>3, <1>4, <1>5, HopsEnd
<1>7. Takes2(CHOOSE f : Takes2(f))
  BY <1>6, Zenon
<1> QED
  BY <1>1, <1>6, <1>7

\* and the third one lists every two that overlap in the second tree only.
LEMMA AllPairsListed ==
    ASSUME NEW F, NEW ps \in Seq(SUBSET Labels)
    PROVE  /\ AllPairs(F, ps) \in Seq(SUBSET SUBSET Labels)
           /\ AllPairs(F, ps) = <<>> =>
                 \A i, j \in DOMAIN ps : i < j => ~ Overlap(F, ps[i], ps[j])
<1> DEFINE A == {x \in (DOMAIN ps) \X (DOMAIN ps) :
                    x[1] < x[2] /\ Overlap(F, ps[x[1]], ps[x[2]])}
           at == LoopOrder(A)
<1>1. AllPairs(F, ps) = [k \in DOMAIN at |-> {ps[at[k][1]], ps[at[k][2]]}]
  BY DEF AllPairs, ItemsAt
<1>2. A \in SUBSET (Int \X Int) /\ IsFiniteSet(A)
  BY PositionsAreFinite
<1>3. Lists(at, A)
  BY <1>2, LoopOrderLists
<1>4. \A a \in A : ps[a[1]] \in SUBSET Labels /\ ps[a[2]] \in SUBSET Labels
  OBVIOUS
<1>5. \A i, j \in DOMAIN ps :
          i < j /\ Overlap(F, ps[i], ps[j]) => <<i, j>> \in A
  OBVIOUS
<1> HIDE DEF at, A
<1>6. at \in Seq(A) /\ DOMAIN at = 1..Len(at) /\ Len(at) \in Nat
  BY <1>3 DEF Lists
<1>7. \A k \in DOMAIN at : {ps[at[k][1]], ps[at[k][2]]} \in SUBSET SUBSET Labels
  <2>1. \A k \in DOMAIN at : at[k] \in A
    BY <1>6
  <2> QED
    BY <1>4, <2>1
<1>8. ASSUME AllPairs(F, ps) = <<>>
      PROVE  A = {}
  <2>1. DOMAIN at = {}
    BY <1>1, <1>8
  <2> QED
    BY <1>3, <2>1 DEF Lists
<1>9. AllPairs(F, ps) \in Seq(SUBSET SUBSET Labels)
  BY <1>1, <1>6, <1>7
<1> QED
  BY <1>5, <1>8, <1>9

\* The first pass over the triples lists triples.
LEMMA CoverageTriplesTyped ==
    ASSUME NEW broken, NEW S \in SUBSET Labels
    PROVE  CoverageTriples(broken, S) \in Seq(broken)
<1> DEFINE l == Sorted(S)
           thirds(i) == {k \in (i + 2)..Len(l) : {l[i], l[i + 1], l[k]} \in broken}
           Takes3(f) == f = [i \in Nat \ {0} |->
                                IF thirds(i) = {} THEN <<>>
                                ELSE <<{l[i], l[i + 1], l[First(thirds(i))]}>>
                                         \o f[First(thirds(i)) + 1]]
           reach == [i \in Nat \ {0} |-> thirds(i)]
           item == [i \in Nat \ {0} |-> {l[i], l[i + 1], l[First(thirds(i))]}]
<1>1. CoverageTriples(broken, S) = (CHOOSE f : Takes3(f))[1]
  BY Zenon DEF CoverageTriples
<1>2. Len(l) \in Nat
  <2>1. S \in SUBSET Int /\ IsFiniteSet(S)
    BY LabelSetsAreFinite
  <2>2. Lists(l, S)
    BY <2>1, SortedLists
  <2> HIDE DEF l
  <2> QED
    BY <2>2 DEF Lists
<1> HIDE DEF l
<1>3. \A f : Takes3(f) <=> Hops(f, reach, item)
  <2> SUFFICES ASSUME NEW f PROVE Takes3(f) <=> Hops(f, reach, item)
    OBVIOUS
  <2>1. \A i \in Nat \ {0} :
            /\ reach[i] = thirds(i)
            /\ item[i] = {l[i], l[i + 1], l[First(thirds(i))]}
    OBVIOUS
  <2> HIDE DEF reach, item, thirds
  <2> QED
    BY <2>1 DEF Hops
<1>4. \A i \in Nat \ {0} : reach[i] \subseteq (i + 1)..Len(l)
  BY <1>2
<1>5. ASSUME NEW i \in Nat \ {0}, reach[i] # {}
      PROVE  item[i] \in broken
  <2>1. thirds(i) \in SUBSET Nat /\ thirds(i) # {}
    <3>1. reach[i] = thirds(i) /\ \A k \in thirds(i) : k \in (i + 2)..Len(l)
      OBVIOUS
    <3> HIDE DEF reach, thirds
    <3> QED
      BY <1>2, <1>5, <3>1
  <2>2. First(thirds(i)) \in thirds(i)
    BY <2>1, FirstIsSmallest
  <2> QED
    BY <2>2
<1> HIDE DEF reach, item, Takes3
<1>6. /\ \E f : Takes3(f)
      /\ \A f : Takes3(f) => f[1] \in Seq(broken)
  BY <1>2, <1>3, <1>4, <1>5, HopsEnd
<1>7. Takes3(CHOOSE f : Takes3(f))
  BY <1>6, Zenon
<1> QED
  BY <1>1, <1>6, <1>7

\* A component in which no triple is counted has none the second tree
\* disagrees on.
LEMMA NoTripleCounted ==
    ASSUME TypeOK, Labels # {}, NEW F, NEW S \in SUBSET Labels
    PROVE  /\ TripleCount(F, S) \in Nat
           /\ TripleCount(F, S) = 0 => BrokenTriples(F, S) = {}
<1> DEFINE broken == BrokenTriples(F, S)
           met == TriplesMet(F, S)
           cap == SubtreeCap(S)
<1>1. broken \in SUBSET SUBSET Int /\ IsFiniteSet(broken)
  <2>1. broken \in SUBSET SUBSET Labels
    BY DEF BrokenTriples, Triples
  <2>2. IsFiniteSet(SUBSET Labels)
    BY LabelsAreTaxa, FS_SUBSET
  <2>3. \A t \in broken : \A x \in t : x \in Int
    <3>1. \A t \in broken : t \in SUBSET Int
      BY <2>1, LabelSetsAreFinite
    <3> QED
      BY <3>1
  <2> QED
    BY <2>1, <2>2, <2>3, FS_Subset
<1>2. cap \in Nat /\ cap >= 1
  <2>1. MinPerRound \in Nat /\ MinPerRound > 0
    BY LabelsAreTaxa, FS_CardinalityType, FS_EmptySet DEF MinPerRound
  <2>2. maxPerRound \in Nat /\ Cardinality(S) \in Nat
    BY <2>1, LabelSetsAreFinite DEF TypeOK
  <2> DEFINE x == maxPerRound * Cardinality(S)
  <2>3. x \in Nat
    BY <2>2
  <2> HIDE DEF x
  <2>4. x \div MinPerRound \in Nat
    BY <2>1, <2>3
  <2> QED
    BY <2>4 DEF SubtreeCap, Larger, x
<1>3. /\ met = CoverageTriples(broken, S) \o AllTriples(broken) \o AllTriples(broken)
      /\ TripleCount(F, S) = IF Capped(met, 0, cap) THEN cap ELSE Len(met)
  BY DEF TriplesMet, TripleCount
<1> HIDE DEF broken, met, cap
<1>4. CoverageTriples(broken, S) \in Seq(broken)
  BY CoverageTriplesTyped
<1>5. Lists(AllTriples(broken), broken) /\ AllTriples(broken) \in Seq(broken)
  BY <1>1, AllTriplesLists DEF Lists
<1>6. /\ Len(met) \in Nat
      /\ Len(met) = Len(CoverageTriples(broken, S)) + Len(AllTriples(broken))
                        + Len(AllTriples(broken))
      /\ Len(CoverageTriples(broken, S)) \in Nat /\ Len(AllTriples(broken)) \in Nat
  BY <1>3, <1>4, <1>5
<1>7. ASSUME TripleCount(F, S) = 0
      PROVE  broken = {}
  <2>1. Len(AllTriples(broken)) = 0
    BY <1>2, <1>3, <1>6, <1>7
  <2> QED
    BY <1>5, <2>1, NothingListed
<1> QED
  BY <1>2, <1>3, <1>6, <1>7 DEF broken

\* The component counted next.
AnyOf(R) == CHOOSE r \in R : TRUE

\* f counts the triples of the components in R, one component at a time.
Counts(f, F) ==
    f = [R \in SUBSET Roots(F) |->
            IF R = {} THEN 0
            ELSE TripleCount(F, AnyOf(R)) + f[R \ {AnyOf(R)}]]

\* Where no triple is counted no component has one.
LEMMA NothingCounted ==
    ASSUME TypeOK, Labels # {}, NEW F \in Forest, TotalTripleCount(F) = 0
    PROVE  \A R \in Roots(F) : BrokenTriples(F, R) = {}
<1> DEFINE D == SUBSET Roots(F)
           stop == {{}}
           next == [R \in D \ stop |-> R \ {AnyOf(R)}]
           measure == [R \in D |-> Cardinality(R)]
           step == [R \in D \ stop |->
                       [k \in Nat |-> TripleCount(F, AnyOf(R)) + k]]
<1>1. \A R \in D \ stop : AnyOf(R) \in R
  BY DEF AnyOf
<1>2. \A R \in Roots(F) : TripleCount(F, R) \in Nat
  <2>1. \A R \in Roots(F) : R \in SUBSET Labels
    BY DEF Roots, Forest, Node
  <2> QED
    BY <2>1, NoTripleCounted
<1>3. /\ IsFiniteSet(Roots(F)) /\ Cardinality(Roots(F)) \in Nat
      /\ \A R \in D : IsFiniteSet(R) /\ Cardinality(R) \in 0..Cardinality(Roots(F))
      /\ \A R \in D : \A x \in R : Cardinality(R \ {x}) = Cardinality(R) - 1
  <2>1. Roots(F) \in SUBSET Node
    BY DEF Roots, Forest
  <2>2. IsFiniteSet(Roots(F))
    BY <2>1, NodeSetsAreFinite
  <2> QED
    BY <2>2, FS_CardinalityType, FS_Subset, FS_RemoveElement
<1>4. Descends(D, stop, next, measure, Cardinality(Roots(F)))
  <2>1. measure \in [D -> 0..Cardinality(Roots(F))]
    BY <1>3
  <2>2. stop \subseteq D /\ next \in [D \ stop -> D]
    OBVIOUS
  <2>3. ASSUME NEW R \in D \ stop PROVE measure[next[R]] < measure[R]
    <3>1. next[R] = R \ {AnyOf(R)} /\ next[R] \in D /\ R \in D
      OBVIOUS
    <3>2. measure[next[R]] = Cardinality(R) - 1 /\ measure[R] = Cardinality(R)
      BY <1>1, <1>3, <3>1
    <3> QED
      BY <1>3, <3>1, <3>2
  <2> QED
    BY <1>3, <2>1, <2>2, <2>3 DEF Descends
<1>5. step \in [D \ stop -> [Nat -> Nat]]
  <2>1. \A R \in D \ stop : TripleCount(F, AnyOf(R)) \in Nat
    BY <1>1, <1>2
  <2> QED
    BY <2>1
<1>6. PICK f \in [D -> Nat] : Unrolls(f, D, stop, next, 0, step)
  <2>1. 0 \in Nat
    OBVIOUS
  <2> HIDE DEF D, stop, next, measure, step
  <2> QED
    BY <1>4, <1>5, <2>1, RecursionExists, Zenon
<1>7. Counts(f, F)
  <2>1. f = [R \in D |-> IF R \in stop THEN 0 ELSE step[R][f[next[R]]]]
    BY <1>6 DEF Unrolls
  <2>2. ASSUME NEW R \in D
        PROVE  (IF R \in stop THEN 0 ELSE step[R][f[next[R]]])
                  = (IF R = {} THEN 0
                     ELSE TripleCount(F, AnyOf(R)) + f[R \ {AnyOf(R)}])
    <3>1. CASE R = {}
      BY <3>1
    <3>2. CASE R # {}
      <4>1. R \in D \ stop /\ next[R] = R \ {AnyOf(R)} /\ next[R] \in D
        BY <3>2
      <4>2. f[next[R]] \in Nat
        BY <1>6, <4>1
      <4> QED
        BY <3>2, <4>1, <4>2
    <3> QED
      BY <3>1, <3>2
  <2> QED
    BY <2>1, <2>2 DEF Counts
<1>8. \E g : Counts(g, F) /\ TotalTripleCount(F) = g[Roots(F)]
  <2>1. TotalTripleCount(F) = (CHOOSE g : Counts(g, F))[Roots(F)]
    BY Zenon DEF TotalTripleCount, Counts, AnyOf
  <2>2. Counts(CHOOSE g : Counts(g, F), F)
    BY <1>7, Zenon
  <2> QED
    BY <2>1, <2>2, Zenon
<1>9. PICK g : Counts(g, F) /\ TotalTripleCount(F) = g[Roots(F)]
  BY <1>8
<1> DEFINE Good == {R \in D : /\ g[R] \in Nat
                              /\ g[R] = 0 => \A r \in R : TripleCount(F, r) = 0}
<1>10. ASSUME NEW R \in D, R \in stop \/ next[R] \in Good
       PROVE  R \in Good
  <2>1. g[R] = IF R = {} THEN 0
               ELSE TripleCount(F, AnyOf(R)) + g[R \ {AnyOf(R)}]
    BY <1>9 DEF Counts
  <2>2. CASE R = {}
    BY <2>1, <2>2
  <2>3. CASE R # {}
    <3> DEFINE x == AnyOf(R)
               Q == R \ {x}
    <3>1. /\ g[Q] \in Nat
          /\ g[Q] = 0 => \A r \in Q : TripleCount(F, r) = 0
      BY <1>10, <2>3
    <3>2. x \in R /\ TripleCount(F, x) \in Nat
      BY <1>1, <1>2, <2>3
    <3>3. g[R] = TripleCount(F, x) + g[Q]
      BY <2>1, <2>3
    <3>4. \A r \in R : r = x \/ r \in Q
      OBVIOUS
    <3> HIDE DEF x, Q
    <3>5. g[R] \in Nat /\ (g[R] = 0 => TripleCount(F, x) = 0 /\ g[Q] = 0)
      BY <3>1, <3>2, <3>3
    <3> QED
      BY <3>1, <3>4, <3>5
  <2> QED
    BY <2>2, <2>3
<1>11. D \subseteq Good
  <2> HIDE DEF D, stop, next, measure, Good
  <2> QED
    BY <1>4, <1>10, DescentReaches
<1>12. ASSUME NEW R \in Roots(F)
       PROVE  BrokenTriples(F, R) = {}
  <2>1. TripleCount(F, R) = 0
    BY <1>9, <1>11
  <2>2. R \in SUBSET Labels
    BY DEF Roots, Forest, Node
  <2> QED
    BY <2>1, <2>2, NoTripleCounted
<1> QED
  BY <1>12

\* Of a list that is not empty, something is taken.
LEMMA SomethingTaken ==
    ASSUME NEW X, NEW met \in Seq(X), met # <<>>, NEW n \in Int, NEW cap \in Int
    PROVE  Prefix(met, Taken(met, n, cap)) # <<>>
<1>1. Len(met) \in Nat /\ Len(met) >= 1
  OBVIOUS
<1>2. Taken(met, n, cap) \in 1..Len(met)
  BY <1>1 DEF Taken, Smaller, Larger
<1> DEFINE k == Taken(met, n, cap)
<1> HIDE DEF k
<1>3. k \in 1..Len(met)
  BY <1>2 DEF k
<1>4. Prefix(met, k) = SubSeq(met, 1, k) /\ Len(SubSeq(met, 1, k)) = k
  BY <1>1, <1>3 DEF Prefix
<1> QED
  BY <1>3, <1>4 DEF k

\* Where the three passes list nothing no two connected pairs of labels
\* overlap in the second tree only.
LEMMA NothingMet ==
    ASSUME TypeOK, Labels # {}, NEW F \in Forest, Laminar(F), PairsMet(F, 0) = <<>>
    PROVE  \A x, y, u, v \in Labels :
              /\ x # y /\ Connected(F, x, y)
              /\ u # v /\ Connected(F, u, v)
              => ~ Overlap(F, {x, y}, {u, v})
<1> DEFINE ps == LeafPairs(F)
           first == LinearPairs(F, ps)
           second == CoveragePairs(F, ps)
           third == AllPairs(F, ps)
           over(met, k) == Capped(met, k, maxPerRound) \/ k + Len(met) > MinPerRound
           pass(met, k) == Prefix(met, Taken(met, k, maxPerRound))
           n2 == 0 + Len(first)
           n3 == n2 + Len(second)
<1>1. PairsMet(F, 0) = IF 0 >= MinPerRound THEN <<>>
                       ELSE IF over(first, 0) THEN pass(first, 0)
                       ELSE IF over(second, n2) THEN first \o pass(second, n2)
                       ELSE first \o second \o pass(third, n3)
  BY DEF PairsMet
<1>2. MinPerRound \in Nat /\ MinPerRound > 0 /\ maxPerRound \in Nat
  <2>1. MinPerRound \in Nat /\ MinPerRound > 0
    BY LabelsAreTaxa, FS_CardinalityType, FS_EmptySet DEF MinPerRound
  <2> QED
    BY <2>1 DEF TypeOK
<1>3. ps \in Seq(SUBSET Labels)
  BY LeafPairsListed
<1> HIDE DEF ps
<1>4. /\ first \in Seq(SUBSET SUBSET Labels)
      /\ second \in Seq(SUBSET SUBSET Labels)
      /\ third \in Seq(SUBSET SUBSET Labels)
  BY <1>3, LinearPairsTyped, CoveragePairsTyped, AllPairsListed
<1>5. third = <<>> => \A i, j \in DOMAIN ps : i < j => ~ Overlap(F, ps[i], ps[j])
  BY <1>3, AllPairsListed
<1>6. \A x, y \in Labels : x # y /\ Connected(F, x, y) =>
          \E k \in DOMAIN ps : ps[k] = {x, y}
  BY LeafPairsListed DEF ps
<1> HIDE DEF first, second, third
<1>7. \A met \in Seq(SUBSET SUBSET Labels), k \in Nat :
          /\ met # <<>> => pass(met, k) # <<>>
          /\ pass(met, k) \in Seq(SUBSET SUBSET Labels)
          /\ Len(met) \in Nat
          /\ met = <<>> => Len(met) = 0
  <2> SUFFICES ASSUME NEW met \in Seq(SUBSET SUBSET Labels), NEW k \in Nat
               PROVE  /\ met # <<>> => pass(met, k) # <<>>
                      /\ pass(met, k) \in Seq(SUBSET SUBSET Labels)
                      /\ Len(met) \in Nat
                      /\ met = <<>> => Len(met) = 0
    BY Zenon
  <2>1. met # <<>> => pass(met, k) # <<>>
    BY <1>2, SomethingTaken
  <2>2. Len(met) \in Nat /\ (met = <<>> => Len(met) = 0)
    OBVIOUS
  <2>3. Taken(met, k, maxPerRound) \in 0..Len(met)
    BY <1>2, <2>2 DEF Taken, Smaller, Larger
  <2>4. pass(met, k) \in Seq(SUBSET SUBSET Labels)
    BY <2>3 DEF Prefix
  <2> QED
    BY <2>1, <2>2, <2>4
<1>8. third = <<>>
  <2>1. ~ 0 >= MinPerRound
    BY <1>2
  <2>2. \A met, k : over(met, k) /\ met \in Seq(SUBSET SUBSET Labels)
                        /\ k \in Nat /\ k = 0 => met # <<>>
    BY <1>2 DEF Capped
  <2> DEFINE p1 == pass(first, 0)
             p2 == pass(second, n2)
             p3 == pass(third, n3)
  <2>3. n2 \in Nat /\ n3 \in Nat
    BY <1>4
  <2>4. /\ p1 \in Seq(SUBSET SUBSET Labels) /\ p2 \in Seq(SUBSET SUBSET Labels)
        /\ p3 \in Seq(SUBSET SUBSET Labels)
        /\ first # <<>> => p1 # <<>>
        /\ second # <<>> => p2 # <<>>
        /\ third # <<>> => p3 # <<>>
    BY <1>4, <1>7, <2>3
  <2>5. ~ over(first, 0)
    BY <1>1, <1>4, <2>1, <2>2, <2>4
  <2>6. CASE over(second, n2)
    <3>1. first \o p2 = <<>>
      BY <1>1, <2>1, <2>5, <2>6
    <3>2. first = <<>> /\ p2 = <<>>
      BY <1>4, <2>4, <3>1
    <3>3. n2 = 0
      BY <3>2
    <3>4. second # <<>>
      BY <1>4, <2>2, <2>6, <3>3
    <3> QED
      BY <2>4, <3>2, <3>4
  <2>7. CASE ~ over(second, n2)
    <3>1. first \o second \o p3 = <<>>
      BY <1>1, <2>1, <2>5, <2>7
    <3>2. p3 = <<>>
      BY <1>4, <2>4, <3>1
    <3> QED
      BY <2>4, <3>2
  <2> QED
    BY <2>6, <2>7
<1> SUFFICES ASSUME NEW x \in Labels, NEW y \in Labels, NEW u \in Labels,
                    NEW v \in Labels, x # y, Connected(F, x, y),
                    u # v, Connected(F, u, v), Overlap(F, {x, y}, {u, v})
             PROVE  FALSE
  OBVIOUS
<1>9. PICK i \in DOMAIN ps : ps[i] = {x, y}
  BY <1>6
<1>10. PICK j \in DOMAIN ps : ps[j] = {u, v}
  BY <1>6
<1>11. Overlap(F, {u, v}, {x, y})
  BY DEF Overlap, AreTwoPathsDisjoint
<1>12. i # j
  BY <1>9, <1>10 DEF Overlap
<1>13. i < j \/ j < i
  BY <1>3, <1>12
<1> QED
  BY <1>5, <1>8, <1>9, <1>10, <1>11, <1>13

-----------------------------------------------------------------------------
(* What comparing triples shows.                                           *)

\* Sets of two and of three labels.
LEMMA TwoAndThree ==
    ASSUME NEW x, NEW y, NEW z, x # y, x # z, y # z
    PROVE  Cardinality({x, y}) = 2 /\ Cardinality({x, y, z}) = 3
<1>1. IsFiniteSet({x}) /\ Cardinality({x}) = 1
  BY FS_Singleton
<1>2. {x, y} = {x} \cup {y} /\ {x, y, z} = {x, y} \cup {z}
  OBVIOUS
<1>3. IsFiniteSet({x, y}) /\ Cardinality({x, y}) = 2
  BY <1>1, <1>2, FS_AddElement
<1>4. Cardinality({x, y, z}) = 3
  BY <1>2, <1>3, FS_AddElement
<1> QED
  BY <1>3, <1>4

\* Some node holds x and y but not z.
MeetFirst(T, x, y, z) == \E n \in T : x \in n /\ y \in n /\ z \notin n

\* Trees with the same cherries on a triple agree which two meet first.
LEMMA CherriesTell ==
    ASSUME NEW T, NEW U, NEW x, NEW y, NEW z, x # y, x # z, y # z,
           Cherry(T, {x, y, z}) = Cherry(U, {x, y, z}), MeetFirst(T, x, y, z)
    PROVE  MeetFirst(U, x, y, z)
<1> DEFINE t == {x, y, z}
<1>1. PICK n \in T : x \in n /\ y \in n /\ z \notin n
  BY DEF MeetFirst
<1>2. n \cap t = {x, y} /\ {x, y} # {}
  BY <1>1
<1>3. {x, y} \in Induced(T, t)
  BY <1>2 DEF Induced
<1>4. {x, y} \in Cherry(U, t)
  BY <1>3, TwoAndThree DEF Cherry
<1>5. PICK m \in U : {x, y} = m \cap t
  BY <1>4 DEF Cherry, Induced
<1> QED
  BY <1>5 DEF MeetFirst

\* What T leaves of R, U leaves as well, if any two labels of R that meet
\* before a third in T do so in U: the outermost node of U that holds one
\* label of such a rest and not a given other one holds all of it.
LEMMA MeetingsDetermine ==
    ASSUME NEW T, NEW U \in Forest, Laminar(U),
           NEW R, \E m \in U : R \subseteq m, \A x \in R : {x} \in U,
           \A x, y, z \in R : x # y /\ x # z /\ y # z /\ MeetFirst(T, x, y, z)
                                  => MeetFirst(U, x, y, z)
    PROVE  Induced(T, R) \subseteq Induced(U, R)
<1> SUFFICES ASSUME NEW n \in T, n \cap R # {}
             PROVE  \E m \in U : n \cap R = m \cap R
  BY DEF Induced
<1> DEFINE b == n \cap R
           top == Top(U, b)
<1>1. b # {} /\ \E m \in U : b \subseteq m
  OBVIOUS
<1>2. top \in U /\ IsTop(U, b, top)
  BY <1>1, TopOfBlock
<1>3. b \subseteq top /\ \A m \in U : b \subseteq m => top \subseteq m
  BY <1>2 DEF IsTop
<1> HIDE DEF b, top
<1>4. ASSUME NEW z \in top, z \in R, z \notin b
      PROVE  FALSE
  <2>1. PICK x \in b : TRUE
    BY <1>1
  <2>2. x \in R /\ x \in n /\ z \notin n /\ x # z
    BY <1>4 DEF b
  <2> DEFINE M == {m \in U : x \in m /\ z \notin m}
  <2>3. {x} \in M
    BY <2>2
  <2>4. M \in SUBSET Node /\ M # {}
    BY <2>3 DEF Forest
  <2>5. PICK k \in M : \A m \in M : k \subseteq m => m = k
    BY <2>4, OutermostExists
  <2>6. ASSUME NEW y \in b
        PROVE  y \in k
    <3>1. CASE y = x
      BY <2>5, <3>1
    <3>2. CASE y # x
      <4>1. y \in R /\ y \in n /\ y # z
        BY <1>4 DEF b
      <4>2. MeetFirst(T, x, y, z)
        BY <2>2, <4>1 DEF MeetFirst
      <4>3. PICK m \in U : x \in m /\ y \in m /\ z \notin m
        BY <1>4, <2>2, <3>2, <4>1, <4>2 DEF MeetFirst
      <4>4. m \in M /\ (m \subseteq k \/ k \subseteq m)
        BY <2>5, <4>3 DEF Laminar
      <4> QED
        BY <2>5, <4>3, <4>4
    <3> QED
      BY <3>1, <3>2
  <2>7. b \subseteq k /\ k \in U /\ z \notin k
    BY <2>5, <2>6
  <2> QED
    BY <1>3, <1>4, <2>7
<1>5. b = top \cap R
  BY <1>3, <1>4 DEF b
<1> QED
  BY <1>2, <1>5 DEF b

\* Trees of labelled leaves with the same cherries on every triple of R are
\* the same on R.
LEMMA TriplesDetermine ==
    ASSUME NEW T \in Forest, Laminar(T), NEW U \in Forest, Laminar(U),
           Roots(T) = {Labels}, Roots(U) = {Labels},
           NEW R \in SUBSET Labels, \A x \in R : {x} \in T /\ {x} \in U,
           \A t \in Triples(R) : Cherry(T, t) = Cherry(U, t)
    PROVE  Induced(T, R) = Induced(U, R)
<1>1. Labels \in T /\ Labels \in U
  BY DEF Roots
<1>2. \A x, y, z \in R : x # y /\ x # z /\ y # z =>
          Cherry(T, {x, y, z}) = Cherry(U, {x, y, z})
  BY TwoAndThree DEF Triples
<1>3. \A x, y, z \in R : x # y /\ x # z /\ y # z /\ MeetFirst(T, x, y, z)
                             => MeetFirst(U, x, y, z)
  BY <1>2, CherriesTell
<1>4. \A x, y, z \in R : x # y /\ x # z /\ y # z /\ MeetFirst(U, x, y, z)
                             => MeetFirst(T, x, y, z)
  BY <1>2, CherriesTell
<1>5. Induced(T, R) \subseteq Induced(U, R)
  BY <1>1, <1>3, MeetingsDetermine
<1>6. Induced(U, R) \subseteq Induced(T, R)
  BY <1>1, <1>4, MeetingsDetermine
<1> QED
  BY <1>5, <1>6

-----------------------------------------------------------------------------
(* What comparing paths shows.                                             *)

\* No path between two labels of b shares an edge with one of c.
PathsAreApart(T, b, c) ==
    \A x, y \in b, u, v \in c :
        x # y /\ u # v => AreTwoPathsDisjoint(T, {x, y}, {u, v})

\* Then no node on both spans holds all of b: it would have a child that
\* holds some of either block and all of none.
LEMMA NoSharedTop ==
    ASSUME NEW T \in Forest, WellFormed(T),
           NEW b, NEW c, b # {}, b \cap c = {}, \A x \in b : {x} \in T,
           PathsAreApart(T, b, c),
           NEW n \in Span(T, b), n \in Span(T, c), b \subseteq n
    PROVE  FALSE
<1>1. /\ n \in T /\ n \cap c # {}
      /\ \A m \in T : b \subseteq m /\ m \subseteq n => m = n
      /\ \A m \in T : c \subseteq m /\ m \subseteq n => m = n
  BY DEF Span
<1>2. PICK x \in b : TRUE
  OBVIOUS
<1>3. PICK u \in c : u \in n
  BY <1>1
<1>4. {x} \in T /\ {x} \subseteq n /\ {x} # n
  BY <1>2, <1>3
<1>5. ~ IsTerminal(T, n)
  BY <1>4 DEF IsTerminal
<1>6. PICK k \in T : /\ HasParent(T, k) /\ Parent(T, k) = n
                     /\ Sibling(T, k) \in T /\ n = k \cup Sibling(T, k)
  BY <1>1, <1>5, TwoChildren
<1>7. PICK s \in T : n = k \cup s /\ k \cap s = {} /\ k # {} /\ s # {}
  BY <1>6, Family
<1>8. \A m \in {k, s} : m \in T /\ m \subseteq n /\ m # n
  BY <1>7
<1>9. PICK m \in {k, s} : u \in m
  BY <1>3, <1>7
<1>10. ~ b \subseteq k /\ ~ b \subseteq s /\ ~ b \subseteq m /\ ~ c \subseteq m
  BY <1>1, <1>8
<1>11. PICK y \in b : y \notin m
  BY <1>10
<1>12. PICK z \in b : z \in m
  BY <1>7, <1>9, <1>10
<1>13. PICK v \in c : v \notin m
  BY <1>10
<1>14. m \in PathEdges(T, {z, y}) /\ m \in PathEdges(T, {u, v})
  BY <1>8, <1>9, <1>11, <1>12, <1>13 DEF PathEdges
<1>15. z # y /\ u # v
  BY <1>9, <1>11, <1>12, <1>13
<1> QED
  BY <1>14, <1>15 DEF PathsAreApart, AreTwoPathsDisjoint

\* Blocks whose paths share no edge share no node.
LEMMA PathsTellSpans ==
    ASSUME NEW T \in Forest, WellFormed(T),
           NEW b, NEW c, b # {}, c # {}, b \cap c = {},
           \A x \in b \cup c : {x} \in T,
           PathsAreApart(T, b, c)
    PROVE  Span(T, b) \cap Span(T, c) = {}
<1> SUFFICES ASSUME NEW n \in Span(T, b), n \in Span(T, c)
             PROVE  FALSE
  OBVIOUS
<1>1. PathsAreApart(T, c, b)
  BY DEF PathsAreApart, AreTwoPathsDisjoint
<1>2. CASE b \subseteq n
  BY <1>2, NoSharedTop
<1>3. CASE c \subseteq n
  BY <1>1, <1>3, NoSharedTop
<1>4. CASE ~ b \subseteq n /\ ~ c \subseteq n
  <2>1. n \in T /\ n \cap b # {} /\ n \cap c # {}
    BY DEF Span
  <2>2. PICK x \in b : x \in n
    BY <2>1
  <2>3. PICK y \in b : y \notin n
    BY <1>4
  <2>4. PICK u \in c : u \in n
    BY <2>1
  <2>5. PICK v \in c : v \notin n
    BY <1>4
  <2>6. n \in PathEdges(T, {x, y}) /\ n \in PathEdges(T, {u, v})
    BY <2>1, <2>2, <2>3, <2>4, <2>5 DEF PathEdges
  <2>7. x # y /\ u # v
    BY <2>2, <2>3, <2>4, <2>5
  <2> QED
    BY <2>6, <2>7 DEF PathsAreApart, AreTwoPathsDisjoint
<1> QED
  BY <1>2, <1>3, <1>4

-----------------------------------------------------------------------------
(* What checkMAF accepts.                                                  *)

\* The trees of a forest share the labels out among them.
LEMMA RootsPartition ==
    ASSUME NEW F \in Forest, WellFormed(F)
    PROVE  IsPartition(Roots(F), Labels)
<1>1. UNION Roots(F) = Labels
  <2>1. \A x \in Labels : \E m \in F : x \in m
    BY DEF WellFormed
  <2>2. \A x \in Labels : \E R \in Roots(F) : x \in R
    BY <2>1, RootAbove
  <2>3. \A R \in Roots(F) : R \subseteq Labels
    BY DEF Roots, Forest, Node
  <2> QED
    BY <2>2, <2>3
<1>2. {} \notin Roots(F)
  BY DEF WellFormed, NullNode, Roots
<1> QED
  BY <1>1, <1>2, RootsAreApart DEF IsPartition

\* The leaves of the trees of an instance are labelled.
LEMMA LeavesAreLabelled ==
    ASSUME TypeOK
    PROVE  \A i \in {1, 2} : \A l \in Labels : {l} \in trees[i]
BY SatInstancesAreLabelled DEF TypeOK

\* The paths of two trees of an accepted forest are apart in the second tree.
LEMMA AcceptedPathsAreApart ==
    ASSUME TypeOK, NEW F \in Forest, WellFormed(F), Labels # {},
           PairsMet(F, 0) = <<>>,
           NEW b \in Roots(F), NEW c \in Roots(F), b # c
    PROVE  PathsAreApart(trees[2], b, c)
<1>1. b \cap c = {} /\ b \in F /\ c \in F /\ Laminar(F)
  BY RootsAreApart DEF Roots, WellFormed
<1>2. \A m \in F : ~ (m \cap b # {} /\ m \cap c # {})
  <2> SUFFICES ASSUME NEW m \in F, m \cap b # {}, m \cap c # {} PROVE FALSE
    OBVIOUS
  <2>1. PICK R \in Roots(F) : m \subseteq R
    BY RootAbove
  <2>2. R = b /\ R = c
    BY <2>1, RootsAreApart
  <2> QED
    BY <2>2
<1> SUFFICES ASSUME NEW x \in b, NEW y \in b, NEW u \in c, NEW v \in c,
                    x # y, u # v
             PROVE  AreTwoPathsDisjoint(trees[2], {x, y}, {u, v})
  BY DEF PathsAreApart
<1>3. x \in Labels /\ y \in Labels /\ u \in Labels /\ v \in Labels
  BY <1>1 DEF Forest, Node
<1>4. Connected(F, x, y) /\ Connected(F, u, v)
  BY <1>1 DEF Connected
<1>5. ~ Overlap(F, {x, y}, {u, v})
  BY <1>1, <1>3, <1>4, NothingMet
<1>6. {x, y} \cap {u, v} = {}
  BY <1>1
<1>7. AreTwoPathsDisjoint(F, {x, y}, {u, v})
  BY <1>2 DEF AreTwoPathsDisjoint, PathEdges
<1> QED
  BY <1>5, <1>6, <1>7 DEF Overlap

\* An accepted forest is an agreement forest.
LEMMA AcceptedAgrees ==
    ASSUME TypeOK, NEW F, CutForest(trees[1], F), AcceptedBy(F)
    PROVE  Agrees(Roots(F))
<1>1. /\ trees \in [{1, 2} -> Forest]
      /\ WellFormed(trees[1]) /\ WellFormed(trees[2])
      /\ Roots(trees[1]) = {Labels} /\ Roots(trees[2]) = {Labels}
  BY TreesOfInstance
<1>2. Laminar(trees[1]) /\ Laminar(trees[2]) /\ UNION trees[1] = Labels
  BY <1>1 DEF WellFormed
<1>3. Labels # {}
  <2>1. Labels \in trees[1]
    BY TreesOfInstance
  <2> QED
    BY <1>1, <2>1 DEF WellFormed, NullNode
<1>4. /\ F \in Forest /\ WellFormed(F) /\ Laminar(F)
      /\ SpansAreDisjoint(trees[1], Roots(F))
  BY DEF CutForest, WellFormed
<1>5. IsPartition(Roots(F), Labels)
  BY <1>4, RootsPartition
<1>6. \A R \in Roots(F) : R \in SUBSET Labels /\ R # {}
  BY <1>5 DEF IsPartition
<1>7. ASSUME NEW R \in Roots(F)
      PROVE  Induced(trees[2], R) = Induced(trees[1], R)
  <2>1. BrokenTriples(F, R) = {}
    BY <1>3, <1>4, NothingCounted DEF AcceptedBy
  <2>2. ASSUME NEW t \in Triples(R)
        PROVE  Cherry(trees[1], t) = Cherry(trees[2], t)
    <3>1. Cherry(F, t) = Cherry(trees[2], t)
      BY <2>1 DEF BrokenTriples, CheckIncompatibleTriple
    <3>2. Induced(F, t) = Induced(trees[1], t)
      <4>1. t \in SUBSET R
        BY DEF Triples
      <4> QED
        BY <4>1, InducedOfCutForest
    <3> QED
      BY <3>1, <3>2 DEF Cherry
  <2>3. trees[1] \in Forest /\ trees[2] \in Forest
    BY <1>1
  <2>4. \A x \in R : {x} \in trees[1] /\ {x} \in trees[2]
    BY <1>6, LeavesAreLabelled
  <2> QED
    BY <1>1, <1>2, <1>6, <2>2, <2>3, <2>4, TriplesDetermine
<1>8. ASSUME NEW b \in Roots(F), NEW c \in Roots(F), b # c
      PROVE  Span(trees[2], b) \cap Span(trees[2], c) = {}
  <2>1. PathsAreApart(trees[2], b, c)
    BY <1>3, <1>4, <1>8, AcceptedPathsAreApart DEF AcceptedBy
  <2>2. b \cap c = {} /\ b # {} /\ c # {}
    BY <1>4, <1>6, <1>8, RootsAreApart
  <2>3. \A x \in b \cup c : {x} \in trees[2]
    BY <1>6, LeavesAreLabelled
  <2>4. trees[2] \in Forest
    BY <1>1
  <2> QED
    BY <1>1, <2>1, <2>2, <2>3, <2>4, PathsTellSpans
<1>9. DOMAIN trees = {1, 2}
  BY <1>1
<1>10. \A i \in DOMAIN trees : \A b \in Roots(F) :
           Induced(trees[i], b) = Induced(trees[1], b)
  BY <1>7, <1>9
<1>11. \A i \in DOMAIN trees : \A b, c \in Roots(F) :
           b # c => Span(trees[i], b) \cap Span(trees[i], c) = {}
  BY <1>4, <1>8, <1>9 DEF SpansAreDisjoint
<1> QED
  BY <1>2, <1>5, <1>10, <1>11 DEF Agrees, IsAgreementForest

-----------------------------------------------------------------------------
(* A cut makes one tree more.                                              *)

\* The roots after a cut are the node cut off, the rest of its tree and the
\* other roots.
LEMMA CutAddsRoot ==
    ASSUME NEW F \in Forest, WellFormed(F), NEW n \in F, HasParent(F, n)
    PROVE  /\ Cardinality(Roots(CutEdge(F, n))) = Cardinality(Roots(F)) + 1
           /\ Cardinality(Roots(F)) \in Nat
<1> DEFINE G == CutEdge(F, n)
<1>1. G \in Forest /\ WellFormed(G)
  BY CutKeepsForest
<1>2. n # {} /\ n \subseteq Labels
  BY Family
<1>3. PICK p \in F : n \subseteq p /\ n # p
  BY DEF HasParent
<1>4. PICK R \in Roots(F) : p \subseteq R
  BY RootAbove
<1>5. n \subseteq R /\ n # R /\ R \in F
  BY <1>3, <1>4 DEF Roots
<1> DEFINE Q == Roots(F) \ {R}
<1>6. Roots(G) \subseteq {n, R \ n} \cup Q
  BY <1>5, RootsAfterCut
<1>7. IsPartition(Roots(F), Labels) /\ IsPartition(Roots(G), Labels)
  BY <1>1, RootsPartition
<1> HIDE DEF G
<1>8. {n, R \ n} \cup Q \subseteq Roots(G)
  <2>1. /\ \A Z \in Q : Z # {} /\ Z \subseteq Labels /\ Z \cap R = {}
        /\ \A Y, Z \in Q : Y = Z \/ Y \cap Z = {}
    <3>1. /\ {} \notin Roots(F) /\ \A Z \in Roots(F) : Z \subseteq Labels
          /\ \A Y, Z \in Roots(F) : Y = Z \/ Y \cap Z = {}
      BY <1>7 DEF IsPartition
    <3> QED
      BY <3>1
  <2> HIDE DEF Q
  <2>2. R \ n # {} /\ R \subseteq Labels
    BY <1>5 DEF Forest, Node
  <2>3. \A Z \in {n, R \ n} \cup Q : Z # {} /\ Z \subseteq Labels
    BY <1>2, <2>1, <2>2
  <2>4. ASSUME NEW Y \in {n, R \ n} \cup Q, NEW Z \in {n, R \ n} \cup Q
        PROVE  Y = Z \/ Y \cap Z = {}
    <3>1. CASE Y \in Q /\ Z \in Q
      BY <2>1, <3>1
    <3>2. CASE Y \in Q /\ Z \notin Q
      BY <1>5, <2>1, <3>2
    <3>3. CASE Y \notin Q /\ Z \in Q
      BY <1>5, <2>1, <3>3
    <3>4. CASE Y \notin Q /\ Z \notin Q
      BY <3>4
    <3> QED
      BY <3>1, <3>2, <3>3, <3>4
  <2> SUFFICES ASSUME NEW X \in {n, R \ n} \cup Q
               PROVE  X \in Roots(G)
    OBVIOUS
  <2>5. PICK x \in X : x \in Labels
    BY <2>3
  <2>6. PICK Y \in Roots(G) : x \in Y
    BY <1>7, <2>5 DEF IsPartition
  <2>7. Y \in {n, R \ n} \cup Q
    BY <1>6, <2>6
  <2>8. Y = X
    BY <2>4, <2>5, <2>6, <2>7
  <2> QED
    BY <2>6, <2>8
<1>9. Roots(G) = (Q \cup {n}) \cup {R \ n}
  BY <1>6, <1>8
<1>10. IsFiniteSet(Roots(F)) /\ Cardinality(Roots(F)) \in Nat
  <2>1. Roots(F) \in SUBSET Node
    BY DEF Roots, Forest
  <2> QED
    BY <2>1, NodeSetsAreFinite
<1>11. IsFiniteSet(Q) /\ Cardinality(Q) = Cardinality(Roots(F)) - 1
  BY <1>10, FS_RemoveElement
<1>12. n \notin Q /\ R \ n \notin Q /\ R \ n # n
  BY <1>2, <1>5, <1>7 DEF IsPartition
<1>13. R \ n \notin Q \cup {n}
  BY <1>12
<1> HIDE DEF Q
<1>14. IsFiniteSet(Q \cup {n}) /\ Cardinality(Q \cup {n}) = Cardinality(Roots(F))
  <2>1. IsFiniteSet(Q \cup {n}) /\ Cardinality(Q \cup {n}) = Cardinality(Q) + 1
    BY <1>11, <1>12, FS_AddElement
  <2> QED
    BY <1>10, <1>11, <2>1
<1>15. Cardinality(Roots(G)) = Cardinality(Roots(F)) + 1
  BY <1>9, <1>13, <1>14, FS_AddElement
<1> QED
  BY <1>10, <1>15 DEF G

\* The cuts made and those still to be made are those of the solution.
CutsAreCounted ==
    pc = "cutting" => Cardinality(Roots(sol)) + Len(cuts) = currentLB

\* What an answer rests on.
SolvedInv == Inv /\ CutsAreCounted /\ SolvedIsOptimal

\* Every step keeps the count, and a forest accepted is an agreement forest
\* of as many trees as the bound.
LEMMA NextSolved == SolvedInv /\ [Next]_vars => SolvedInv'
<1> SUFFICES ASSUME SolvedInv, [Next]_vars PROVE SolvedInv'
  OBVIOUS
<1>1. Inv /\ Inv' /\ TypeOK
  BY NextInv DEF SolvedInv, Inv, BoundInv
<1>2. /\ CutForest(trees[1], sol) /\ CutsLeft(sol, cuts)
      /\ pc \in {"idle", "loop"} => sol = trees[1] /\ cuts = <<>>
  BY <1>1 DEF Inv, ClausesAreSound
<1>3. CASE Relax
  <2>1. sol = trees[1] /\ sol' = sol /\ pc' = "cutting"
    BY <1>2, <1>3 DEF Relax
  <2>2. PICK S \in OptimalCuts(hard) :
            currentLB' = Cardinality(S) + 1 /\ cuts' \in CutOrders(S)
    BY <1>3 DEF Relax
  <2>3. Len(cuts') = Cardinality(S) /\ Cardinality(S) \in Nat
    BY <1>1, <2>2, CutsOfSolution
  <2>4. Roots(sol') = {Labels}
    BY <1>1, <2>1, TreesOfInstance
  <2>5. Cardinality(Roots(sol')) = 1
    BY <2>4, FS_Singleton
  <2>6. Cardinality(Roots(sol')) + Len(cuts') = currentLB'
    BY <2>2, <2>3, <2>5
  <2> QED
    BY <1>1, <2>1, <2>6 DEF SolvedInv, CutsAreCounted, SolvedIsOptimal
<1>4. CASE CutNext
  <2>1. /\ pc = "cutting" /\ pc' = "cutting" /\ cuts # <<>>
        /\ sol' = CutEdge(sol, Head(cuts)) /\ cuts' = Tail(cuts)
        /\ currentLB' = currentLB /\ HasParent(sol, Head(cuts))
    BY <1>4 DEF CutNext
  <2>2. cuts \in Seq(trees[1])
    BY <1>1 DEF TypeOK
  <2>3. sol \in Forest /\ WellFormed(sol)
    BY <1>2 DEF CutForest
  <2>4. Head(cuts) \in sol
    <3>1. 1 \in 1..Len(cuts) /\ Head(cuts) = cuts[1]
      BY <2>1, <2>2
    <3> QED
      BY <1>2, <3>1 DEF CutsLeft
  <2>5. /\ Cardinality(Roots(sol')) = Cardinality(Roots(sol)) + 1
        /\ Cardinality(Roots(sol)) \in Nat
    BY <2>1, <2>3, <2>4, CutAddsRoot
  <2>6. Len(cuts') = Len(cuts) - 1 /\ Len(cuts) \in Nat
    BY <2>1, <2>2
  <2>7. Cardinality(Roots(sol)) + Len(cuts) = currentLB
    BY <2>1 DEF SolvedInv, CutsAreCounted
  <2>8. Cardinality(Roots(sol')) + Len(cuts') = currentLB'
    BY <2>1, <2>5, <2>6, <2>7
  <2> QED
    BY <1>1, <2>1, <2>8 DEF SolvedInv, CutsAreCounted, SolvedIsOptimal
<1>5. CASE Accept
  <2>1. /\ pc = "cutting" /\ pc' = "solved" /\ cuts = <<>> /\ AcceptedBy(sol)
        /\ UNCHANGED <<trees, currentLB, sol>>
    BY <1>5 DEF Accept
  <2>2. Agrees(Roots(sol))
    BY <1>1, <1>2, <2>1, AcceptedAgrees
  <2>3. Cardinality(Roots(sol)) = currentLB
    <3>1. Cardinality(Roots(sol)) + Len(cuts) = currentLB /\ Len(cuts) = 0
      BY <2>1 DEF SolvedInv, CutsAreCounted
    <3>2. Cardinality(Roots(sol)) \in Nat
      <4>1. Roots(sol) \in SUBSET Node
        BY <1>2 DEF CutForest, Roots, Forest
      <4> QED
        BY <4>1, NodeSetsAreFinite
    <3> QED
      BY <3>1, <3>2
  <2>4. SolvedIsOptimal'
    BY <2>1, <2>2, <2>3 DEF SolvedIsOptimal, Agrees
  <2> QED
    BY <1>1, <2>1, <2>4 DEF SolvedInv, CutsAreCounted
<1>6. CASE Solve \/ TimeOut \/ Refine
  <2>1. pc' \in {"loop", "idle"}
    BY <1>6 DEF Solve, TimeOut, Refine
  <2> QED
    BY <1>1, <2>1 DEF SolvedInv, CutsAreCounted, SolvedIsOptimal
<1>7. CASE Rest \/ UNCHANGED vars
  <2>1. UNCHANGED <<trees, currentLB, sol, cuts, pc>>
    BY <1>7 DEF Rest, vars
  <2> QED
    BY <1>1, <2>1 DEF SolvedInv, CutsAreCounted, SolvedIsOptimal
<1> QED
  BY <1>3, <1>4, <1>5, <1>6, <1>7 DEF Next

\* true is only returned with an agreement forest made and its size as the
\* bound.
THEOREM SolvedIsOptimalHolds == Spec => []SolvedIsOptimal
<1>1. Init => SolvedInv
  BY InitInv DEF Init, SolvedInv, CutsAreCounted, SolvedIsOptimal
<1>2. SolvedInv => SolvedIsOptimal
  BY DEF SolvedInv
<1> QED
  BY <1>1, <1>2, NextSolved, PTL DEF Spec

\* true is only returned with a maximum agreement forest: no agreement forest
\* has fewer trees than the one made.
THEOREM SolvedIsMaximum ==
    Spec => [](pc = "solved" =>
                  \A P : Agrees(P) => Cardinality(Roots(sol)) <= Cardinality(P))
<1>1. Init => SolvedInv
  BY InitInv DEF Init, SolvedInv, CutsAreCounted, SolvedIsOptimal
<1>2. SolvedInv => (pc = "solved" =>
          \A P : Agrees(P) => Cardinality(Roots(sol)) <= Cardinality(P))
  BY InvGivesSoundBound DEF SolvedInv, SolvedIsOptimal
<1> QED
  BY <1>1, <1>2, NextSolved, PTL DEF Spec
=============================================================================
