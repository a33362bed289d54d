------------------------- MODULE IncrementalMAFSolver -------------------------
(***************************************************************************)
(* solver::IncrementalMAFSolver, the MaxSAT side of the lower-bound track: *)
(* lazy generation of hard clauses for a MaxSAT solver, over calls of      *)
(* solve() that may end by their timeout and are resumed from the clauses  *)
(* kept.                                                                   *)
(*                                                                         *)
(* A variable of the MaxSAT problem is a node of the first tree and means  *)
(* that the edge above it is cut; every clause is a set of such nodes, one *)
(* of which has to be cut.  MaxSAT itself is external: it answers with any *)
(* smallest set of nodes that meets every clause (OptimalCuts).            *)
(*                                                                         *)
(* pc is the place in solve():                                             *)
(*   idle      not called yet, or returned false                           *)
(*   loop      head of the loop                                            *)
(*   cutting   inside reconstructMAF                                       *)
(*   solved    returned true                                               *)
(***************************************************************************)
EXTENDS AgreementForest

CONSTANTS
    SatInstances,   \* the pairs of trees to solve
    MaxTimeouts     \* bound: how many calls end by their timeout

ASSUME SatInstancesArePairs ==
    /\ SatInstances \subseteq [{1, 2} -> Forest]
    /\ \A ts \in SatInstances : \A i \in {1, 2} :
          WellFormed(ts[i]) /\ Roots(ts[i]) = {Labels}
\* What the Newick reader builds: every label has a leaf of its own.
ASSUME SatInstancesAreLabelled ==
    \A ts \in SatInstances : \A i \in {1, 2} : \A l \in Labels : {l} \in ts[i]
ASSUME MaxTimeoutsIsNatural == MaxTimeouts \in Nat

VARIABLES
    trees,        \* forestData_1 and forestData_2
    constraints,  \* the clauses kept for the next solver
    pairKeys,     \* addedPathPairConstraints
    hard,         \* the clauses of the current MaxSAT solver
    currentLB,
    rounds,       \* cnt_rounds
    maxPerRound,  \* MAX_CONSTRAINTS_PER_ROUND
    cuts,         \* the cuts of the last MaxSAT solution still to be made
    sol,          \* mafSolution: the first tree as cut so far in this round
    timeouts,     \* how many calls ended by their timeout
    pc

vars == <<trees, constraints, pairKeys, hard, currentLB, rounds, maxPerRound,
          cuts, sol, timeouts, pc>>

\* MIN_CONSTRAINTS_PER_ROUND, which nothing changes.
MinPerRound == Cardinality(Labels)

\* Bound: rounds are not counted further; the cap per round is 0 by then.
RoundBound == 5

Smaller(x, y) == IF x <= y THEN x ELSE y
Larger(x, y) == IF x <= y THEN y ELSE x

-----------------------------------------------------------------------------
(* TreeUtils.                                                              *)

Cuttable == trees[1] \ Roots(trees[1])

\* getPath: the nodes whose upper edge lies between two leaves.
PathEdges(T, p) == {n \in T : n \cap p # {} /\ ~ p \subseteq n}

AreTwoPathsDisjoint(T, p, q) == PathEdges(T, p) \cap PathEdges(T, q) = {}

\* What the three lowest common ancestors of a triple are compared for: the
\* two leaves that meet first.
Cherry(T, triple) == {c \in Induced(T, triple) : Cardinality(c) = 2}

CheckIncompatibleTriple(T, U, triple) == Cherry(T, triple) # Cherry(U, triple)

\* nodeToIndex: a left-first preorder.
IndexBefore(T, n, m) ==
    \/ m \subseteq n
    \/ n \cap m = {} /\ \E l \in n, k \in m : Before(T, l, k)

-----------------------------------------------------------------------------
(* Clauses.                                                                *)

TripleEdges(triple) == {n \in trees[1] : n \cap triple # {} /\ ~ triple \subseteq n}

\* Mutant: only one of the two paths may be cut.
PathPairEdgesOfOne(pq) == PathEdges(trees[1], CHOOSE p \in pq : TRUE)

\* A pair of pairs is the set {p, q}.
PathPairEdges(pq) == UNION {PathEdges(trees[1], p) : p \in pq}

\* Mutant: only the smallest label goes into the key.
KeyOfSmallest(pq) == LabelOf(UNION pq)

Key(pq) == UNION pq

Triples(S) == {t \in SUBSET S : Cardinality(t) = 3}

Pairs(S) == {p \in SUBSET S : Cardinality(p) = 2}

PairsOfPairs == {{p, q} : p, q \in Pairs(Labels)}

\* Triples of one component, or of a tree, the second tree disagrees on.
BrokenTriples(F, S) ==
    {t \in Triples(S) : CheckIncompatibleTriple(F, trees[2], t)}

Overlap(F, p, q) ==
    /\ p \cap q = {}
    /\ AreTwoPathsDisjoint(F, p, q)
    /\ ~ AreTwoPathsDisjoint(trees[2], p, q)

\* Two paths, each in a component of F, that meet in the second tree only.
Overlapping(F, pq) ==
    \E p, q \in pq :
        /\ pq = {p, q}
        /\ Overlap(F, p, q)
        /\ \E m \in F : p \subseteq m
        /\ \E m \in F : q \subseteq m

\* generatePathPairConstraint drops what has the key of an earlier one.
FreshPairs(F, met) ==
    {pq \in PairsOfPairs :
        /\ \E k \in DOMAIN met :
              /\ met[k] = pq
              /\ Key(pq) \notin pairKeys
              /\ \A i \in 1..(k - 1) : Key(met[i]) # Key(pq)
        /\ Overlapping(F, pq)}

-----------------------------------------------------------------------------
(* The order in which candidates are met.                                  *)

\* An element nothing else in R comes before.
Least(R, before) == CHOOSE x \in R : \A y \in R : <<y, x>> \notin before

\* The elements of S as the order lists them.
InOrder(S, before) ==
    LET from[R \in SUBSET S] ==
            IF R = {} THEN <<>>
            ELSE <<Least(R, before)>> \o from[R \ {Least(R, before)}]
    IN  from[S]

Sorted(S) == InOrder(S, {x \in S \X S : x[1] < x[2]})

\* The items found at these positions, one after the other.
ItemsAt(at, item(_)) == [k \in DOMAIN at |-> item(at[k])]

LexBefore(s, t) ==
    \E x \in s \ t : \A y \in t \ s : x < y

\* Loops over i < j < k.
AllTriples(broken) ==
    InOrder(broken, {x \in broken \X broken : LexBefore(x[1], x[2])})

\* The first index a loop finds in A.
First(A) == CHOOSE k \in A : \A j \in A : k <= j

\* Coverage: the first two unused labels with the first third that fits.
CoverageTriples(broken, S) ==
    LET l == Sorted(S)
        thirds(i) == {k \in (i + 2)..Len(l) : {l[i], l[i + 1], l[k]} \in broken}
        from[i \in Nat \ {0}] ==
            IF thirds(i) = {} THEN <<>>
            ELSE <<{l[i], l[i + 1], l[First(thirds(i))]}>>
                     \o from[First(thirds(i)) + 1]
    IN  from[1]

PositionBefore(x, y) == x[1] < y[1] \/ (x[1] = y[1] /\ x[2] < y[2])

\* Positions as two nested loops come to them.
LoopOrder(at) == InOrder(at, {x \in at \X at : PositionBefore(x[1], x[2])})

\* generateLeafPairs: component by component, each in its leaf order.
LeafPairs(F) ==
    LET leaves == InOrder(Labels, {x \in Labels \X Labels : Before(F, x[1], x[2])})
        at == LoopOrder({x \in (DOMAIN leaves) \X (DOMAIN leaves) :
                            /\ x[1] < x[2]
                            /\ Connected(F, leaves[x[1]], leaves[x[2]])})
    IN  ItemsAt(at, LAMBDA x : {leaves[x[1]], leaves[x[2]]})

LinearPairs(F, ps) ==
    LET odd == {i \in 1..(Len(ps) - 1) :
                   i % 2 = 1 /\ Overlap(F, ps[i], ps[i + 1])}
        at == Sorted(odd)
    IN  ItemsAt(at, LAMBDA i : {ps[i], ps[i + 1]})

CoveragePairs(F, ps) ==
    LET seconds(i) == {j \in (i + 1)..Len(ps) : Overlap(F, ps[i], ps[j])}
        from[i \in Nat \ {0}] ==
            IF seconds(i) = {} THEN <<>>
            ELSE <<{ps[i], ps[First(seconds(i))]}>> \o from[First(seconds(i)) + 1]
    IN  from[1]

AllPairs(F, ps) ==
    LET at == LoopOrder({x \in (DOMAIN ps) \X (DOMAIN ps) :
                            x[1] < x[2] /\ Overlap(F, ps[x[1]], ps[x[2]])})
    IN  ItemsAt(at, LAMBDA x : {ps[x[1]], ps[x[2]]})

-----------------------------------------------------------------------------
(* The caps of a round.                                                    *)

\* A loop that generates the constraints it meets, from the n-th on, and
\* returns -1 when the cap is reached: how many it generates,
Taken(matches, n, cap) ==
    IF matches = <<>> THEN 0 ELSE Smaller(Len(matches), Larger(1, cap - n))

\* and whether it returns -1.
Capped(matches, n, cap) == matches # <<>> /\ n + Len(matches) >= cap

Prefix(matches, k) == SubSeq(matches, 1, k)

\* MAX_CONSTRAINTS_PER_ROUND_PER_SUBTREE
SubtreeCap(S) == Larger(1, (maxPerRound * Cardinality(S)) \div MinPerRound)

-----------------------------------------------------------------------------
(* checkMAF.                                                               *)

\* The triple constraints found in one component.  The Coverage case falls
\* through into All, and All is then called once more.
TriplesMet(F, S) ==
    LET broken == BrokenTriples(F, S)
    IN  CoverageTriples(broken, S) \o AllTriples(broken) \o AllTriples(broken)

TriplesFound(F, S) ==
    LET met == TriplesMet(F, S)
    IN  {t \in BrokenTriples(F, S) :
            \E k \in 1..Taken(met, 0, SubtreeCap(S)) : met[k] = t}

TripleCount(F, S) ==
    LET met == TriplesMet(F, S)
    IN  IF Capped(met, 0, SubtreeCap(S)) THEN SubtreeCap(S) ELSE Len(met)

TotalTripleCount(F) ==
    LET counted[R \in SUBSET Roots(F)] ==
            IF R = {} THEN 0
            ELSE LET r == CHOOSE r \in R : TRUE
                 IN  TripleCount(F, r) + counted[R \ {r}]
    IN  counted[Roots(F)]

\* The three passes over the leaf pairs, each going on from the n constraints
\* of the one before, until one is capped or there are more than enough.
PairsMet(F, n) ==
    LET ps == LeafPairs(F)
        first == LinearPairs(F, ps)
        second == CoveragePairs(F, ps)
        third == AllPairs(F, ps)
        over(met, k) == Capped(met, k, maxPerRound) \/ k + Len(met) > MinPerRound
        pass(met, k) == Prefix(met, Taken(met, k, maxPerRound))
        n2 == n + Len(first)
        n3 == n2 + Len(second)
    IN  IF n >= MinPerRound THEN <<>>
        ELSE IF over(first, n) THEN pass(first, n)
        ELSE IF over(second, n2) THEN first \o pass(second, n2)
        ELSE first \o second \o pass(third, n3)

\* What checkMAF adds for the forest F.
NewClauses(F, met) ==
    {TripleEdges(t) : t \in UNION {TriplesFound(F, r) : r \in Roots(F)}}
        \cup {PathPairEdges(pq) : pq \in FreshPairs(F, met)}

-----------------------------------------------------------------------------
(* addInitialConstraints: consecutive triples and quadruples of labels.    *)

InitialTriples ==
    LET l == Sorted(Labels)
    IN  {t \in BrokenTriples(trees[1], Labels) :
            \E i \in 1..(Len(l) - 2) :
                i % 3 = 1 /\ t = {l[i], l[i + 1], l[i + 2]}}

InitialPairs ==
    LET l == Sorted(Labels)
    IN  {pq \in PairsOfPairs :
            \E i \in 1..(Len(l) - 3) :
                LET p == {l[i], l[i + 1]}
                    q == {l[i + 2], l[i + 3]}
                IN  i % 4 = 1 /\ pq = {p, q} /\ Overlap(trees[1], p, q)}

InitialClauses ==
    {TripleEdges(t) : t \in InitialTriples}
        \cup {PathPairEdges(pq) : pq \in InitialPairs}

-----------------------------------------------------------------------------
(* IncrUWrMaxSATSolver::solve, external: one unit soft clause per node     *)
(* against cutting it, and the root may not be cut.                        *)

Meets(S, clauses) == \A c \in clauses : c \cap S # {}

OptimalCuts(clauses) ==
    LET feasible == {S \in SUBSET Cuttable : Meets(S, clauses)}
        sizes == {Cardinality(S) : S \in feasible}
    IN  {S \in feasible : \A k \in sizes : Cardinality(S) <= k}

-----------------------------------------------------------------------------
(* solve().                                                                *)

Init ==
    /\ trees \in SatInstances
    /\ constraints = {}
    /\ pairKeys = {}
    /\ hard = {}
    /\ currentLB = 0
    /\ rounds = 1
    /\ maxPerRound = Cardinality(Labels)
    /\ cuts = <<>>
    /\ sol = trees[1]
    /\ timeouts = 0
    /\ pc = "idle"

\* Mutant: a resumed call starts from the initial clauses.
SolveAfresh ==
    /\ pc = "idle"
    /\ rounds' = 1
    /\ pc' = "loop"
    /\ hard' = InitialClauses
    /\ constraints' = InitialClauses
    /\ pairKeys' = {Key(pq) : pq \in InitialPairs}
    /\ UNCHANGED <<trees, currentLB, maxPerRound, cuts, sol, timeouts>>

\* The call, up to the head of the loop.
Solve ==
    /\ pc = "idle"
    /\ rounds' = 1
    /\ pc' = "loop"
    /\ \/ /\ constraints # {}
          /\ hard' = constraints
          /\ UNCHANGED <<constraints, pairKeys>>
       \/ /\ constraints = {}
          /\ hard' = InitialClauses
          /\ constraints' = InitialClauses
          /\ pairKeys' = pairKeys \cup {Key(pq) : pq \in InitialPairs}
    /\ UNCHANGED <<trees, currentLB, maxPerRound, cuts, sol, timeouts>>

\* The timeout is looked at nowhere else.
TimeOut ==
    /\ pc = "loop"
    /\ timeouts < MaxTimeouts
    /\ timeouts' = timeouts + 1
    /\ pc' = "idle"
    /\ UNCHANGED <<trees, constraints, pairKeys, hard, currentLB, rounds,
                   maxPerRound, cuts, sol>>

\* Mutant: cuts are made from the leaves up.
CutOrdersFromLeaves(S) ==
    {s \in [1..Cardinality(S) -> S] :
        \A i, j \in 1..Cardinality(S) :
            i < j => s[i] # s[j] /\ IndexBefore(trees[1], s[j], s[i])}

\* The nodes of S by their index; there is only one such order.
CutOrders(S) ==
    {s \in [1..Cardinality(S) -> S] :
        \A i, j \in 1..Cardinality(S) :
            i < j => s[i] # s[j] /\ IndexBefore(trees[1], s[i], s[j])}

\* Mutant: the cap grows without a limit.
RelaxUncapped ==
    /\ pc = "loop"
    /\ \E S \in OptimalCuts(hard) :
          /\ currentLB' = Cardinality(S) + 1
          /\ cuts' \in CutOrders(S)
    /\ rounds' = Smaller(rounds + 1, RoundBound)
    /\ maxPerRound' = maxPerRound * rounds'
    /\ pc' = "cutting"
    /\ UNCHANGED <<trees, constraints, pairKeys, hard, sol, timeouts>>

\* One MaxSAT solution, its bound, and the next cap.
Relax ==
    /\ pc = "loop"
    /\ \E S \in OptimalCuts(hard) :
          /\ currentLB' = Cardinality(S) + 1
          /\ cuts' \in CutOrders(S)
    /\ rounds' = Smaller(rounds + 1, RoundBound)
    /\ maxPerRound' = Smaller(10 * MinPerRound,
                              (maxPerRound * rounds') \div 10)
    /\ pc' = "cutting"
    /\ UNCHANGED <<trees, constraints, pairKeys, hard, sol, timeouts>>

\* DeleteEdgeAction on the next node; it throws when the node is a root.
CutNext ==
    /\ pc = "cutting"
    /\ cuts # <<>>
    /\ HasParent(sol, Head(cuts))
    /\ sol' = CutEdge(sol, Head(cuts))
    /\ cuts' = Tail(cuts)
    /\ UNCHANGED <<trees, constraints, pairKeys, hard, currentLB, rounds,
                   maxPerRound, timeouts, pc>>

\* Mutant: paths are not compared once all triples agree.
AcceptedByTriples(F) == TotalTripleCount(F) = 0

AcceptedBy(F) ==
    TotalTripleCount(F) = 0 /\ PairsMet(F, 0) = <<>>

\* checkMAF finds nothing; the cuts are made in the instance too.
Accept ==
    /\ pc = "cutting"
    /\ cuts = <<>>
    /\ AcceptedBy(sol)
    /\ pc' = "solved"
    /\ UNCHANGED <<trees, constraints, pairKeys, hard, currentLB, rounds,
                   maxPerRound, cuts, sol, timeouts>>

\* checkMAF adds constraints and a new MaxSAT solver is built from all.
Refine ==
    /\ pc = "cutting"
    /\ cuts = <<>>
    /\ ~ AcceptedBy(sol)
    /\ LET met == PairsMet(sol, TotalTripleCount(sol))
       IN  /\ constraints' = constraints \cup NewClauses(sol, met)
           /\ pairKeys' = pairKeys \cup {Key(pq) : pq \in FreshPairs(sol, met)}
    /\ hard' = constraints'
    /\ sol' = trees[1]
    /\ pc' = "loop"
    /\ UNCHANGED <<trees, currentLB, rounds, maxPerRound, cuts, timeouts>>

\* Nobody calls solve() again once it has returned true.
Rest == pc = "solved" /\ UNCHANGED vars

Next == Solve \/ TimeOut \/ Relax \/ CutNext \/ Accept \/ Refine \/ Rest

\* One thread: a step is taken again and again until solve() has returned
\* true or thrown, which is weak fairness on Step, written out.  No fairness
\* on timeouts, which are finitely many.
Step == Solve \/ Relax \/ CutNext \/ Accept \/ Refine

NoStepLeft == pc = "solved" \/ (cuts # <<>> /\ ~ HasParent(sol, Head(cuts)))

Fairness == []<>NoStepLeft \/ []<><<Step>>_vars

Spec == Init /\ [][Next]_vars /\ Fairness

-----------------------------------------------------------------------------
(* Properties.                                                             *)

\* The variables keep their types.
TypeOK ==
    /\ trees \in SatInstances
    /\ {constraints, hard} \subseteq SUBSET SUBSET trees[1]
    /\ pairKeys \subseteq SUBSET Labels
    /\ {currentLB, rounds, timeouts} \subseteq Nat
    /\ maxPerRound \in 0..(10 * MinPerRound)
    /\ cuts \in Seq(trees[1])
    /\ sol \in Forest
    /\ pc \in {"idle", "loop", "cutting", "solved"}

\* getCurrentLowerBound(), read between the calls, is at most the size of any
\* agreement forest: each of them meets every clause that lazy generation,
\* caps and timeouts may have left in the solver.
BoundIsSound ==
    pc \in {"idle", "solved"} =>
        \A P \in PartitionsOf(Labels) :
            Cardinality(P) < currentLB => ~ IsAgreementForest(P, trees)

\* A bound handed out before a timeout is never taken back.
BoundNeverFalls == [][currentLB' >= currentLB]_vars

\* true is only returned with an agreement forest made and its size as the
\* bound, hence a maximum one: what a lazily generated, capped set of
\* constraints leaves unchecked never lets a wrong forest pass.
SolvedIsOptimal ==
    pc = "solved" =>
        /\ IsAgreementForest(Roots(sol), trees)
        /\ currentLB = Cardinality(Roots(sol))

\* reconstructMAF cuts nodes by the indices they had before any cut: each is
\* still in the forest, and not a root, when its turn comes.
CutsAreLegal ==
    cuts # <<>> => Head(cuts) \in sol /\ HasParent(sol, Head(cuts))

\* Every rejected forest adds a clause it violates, whatever the caps and
\* the keys leave out, so the loop ends with true once calls have time.
EventuallySolved == <>(pc = "solved")
=============================================================================
