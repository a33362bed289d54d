--------------------------- MODULE ReductionPipeline ---------------------------
(***************************************************************************)
(* The solvers startSolver runs around the search, and their undoing:      *)
(*                                                                         *)
(*   ReductionSolver  collapses common subtrees and shortens common chains *)
(*                    until neither rule applies                           *)
(*   ClusterSolver    decouples the subtrees over label sets common to all *)
(*                    trees into instances of their own, which are solved  *)
(*                    children first                                       *)
(*   unapplyReductions of both, newest first, on the solved forest         *)
(*                                                                         *)
(* A node is the set of its labels (LaminarForest); a cluster has two      *)
(* labels of its own, numbered above those of the instance: one for the    *)
(* terminal that stands for it in its parent, one for the terminal beside  *)
(* its root.  The search itself is one step here: it answers with any      *)
(* forest its contract allows, a maximum agreement forest or, stopped by   *)
(* SIGTERM, one no larger than the seed may be (BranchingSolver).  Only    *)
(* the first forest is followed after that, since nothing reads the        *)
(* others.                                                                 *)
(***************************************************************************)
EXTENDS MaximumForests

CONSTANT Calls   \* of startSolver: the trees and two switches of the config

ASSUME CallsAreOfForests ==
    \A call \in Calls :
        /\ call.clustered \in BOOLEAN
        /\ call.sigtermArmed \in BOOLEAN
        /\ \A i \in DOMAIN call.trees :
              call.trees[i] \in Forest /\ Laminar(call.trees[i])

VARIABLES
    trees,        \* the input
    clustered,    \* config.solverPipeline holds Cluster
    sigtermArmed, \* config.enableSigterm: a search may be stopped
    forests,      \* the instance, while it is being reduced
    applied,      \* appliedRules of the ReductionSolver
    progress,     \* the flag of its loop
    clusters,     \* the points decoupled, children first, the whole tree last
    order,        \* the clusters still to solve, in the order of sortClusters
    cutRoots,     \* cuttedClusterRoots
    forest,       \* the first forest, as solved so far
    pc

\* What a call gives and no step changes.
input == <<trees, clustered, sigtermArmed>>

vars == <<input, forests, applied, progress, clusters, order, cutRoots, forest,
          pc>>

Init ==
    /\ \E call \in Calls :
          /\ trees = call.trees
          /\ clustered = call.clustered
          /\ sigtermArmed = call.sigtermArmed
    /\ forests = trees
    /\ applied = <<>>
    /\ progress = FALSE
    /\ clusters = <<>>
    /\ order = <<>>
    /\ cutRoots = {}
    /\ forest = {}
    /\ pc = "subtrees"

-----------------------------------------------------------------------------
(* SubtreeReductionRule.                                                   *)

CommonSubtrees(fs) ==
    {n \in fs[1] : \A i \in DOMAIN fs :
        n \in fs[i] /\ Below(fs[i], n) = Below(fs[1], n)}

MaximalSubtrees(fs) ==
    {n \in CommonSubtrees(fs) :
        /\ ~ IsTerminal(fs[1], n)
        /\ \A m \in CommonSubtrees(fs) : n \subseteq m => m = n}

ApplySubtreeRule ==
    /\ pc = "subtrees"
    /\ LET tops == MaximalSubtrees(forests)
           below(f) == UNION {Below(f, n) : n \in tops}
       IN  IF tops = {} THEN UNCHANGED <<forests, applied, progress>>
           ELSE /\ forests' = [i \in DOMAIN forests |->
                                  forests[i] \ below(forests[i])]
                /\ applied' = Append(applied, [rule |-> "subtrees",
                                               nodes |-> below(forests[1])])
                /\ progress' = TRUE
    /\ pc' = "chains"
    /\ UNCHANGED <<input, clusters, order, cutRoots, forest>>

-----------------------------------------------------------------------------
(* ChainReductionRule.  A chain is a sequence of terminals, lowest first.  *)

\* y follows x: the uncle of x everywhere, and its parent is no root.
Follows(fs, x, y) ==
    \A i \in DOMAIN fs :
        /\ HasParent(fs[i], Parent(fs[i], Parent(fs[i], x)))
        /\ Uncle(fs[i], x) = y
        /\ IsTerminal(fs[i], y)

\* A terminal with a terminal for its sibling starts no chain.
MayStart(fs, x) ==
    \A i \in DOMAIN fs : ~ IsTerminal(fs[i], Sibling(fs[i], x))

Chains(fs) ==
    LET from[x \in Terminals(fs[1])] ==
            LET next == {y \in Terminals(fs[1]) : Follows(fs, x, y)}
            IN  <<x>> \o IF next = {} THEN <<>> ELSE from[UNION next]
        starts == {x \in Terminals(fs[1]) : MayStart(fs, x)}
        heads == {x \in starts : ~ \E w \in starts : Follows(fs, w, x)}
    IN  {from[x] : x \in heads}

\* Mutant: one element fewer is kept.
ReducedChainOfTrees(fs) == Len(fs)

LengthReducedChain(fs) == Len(fs) + 1

\* What ShortenChainAction takes out: lower stays, the rest above it goes.
Shortening(chain, kept) ==
    [lower |-> chain[kept], removed |-> SubSeq(chain, kept + 1, Len(chain))]

Shortenings(fs) ==
    {Shortening(c, LengthReducedChain(fs)) :
        c \in {d \in Chains(fs) : Len(d) > LengthReducedChain(fs)}}

Removed(s) == UNION ToSet(s.removed)

ApplyChainRule ==
    /\ pc = "chains"
    /\ LET cuts == Shortenings(forests)
           gone == UNION {Removed(s) : s \in cuts}
       IN  IF cuts = {}
           THEN /\ pc' = IF progress THEN "subtrees" ELSE "reduced"
                /\ progress' = FALSE
                /\ UNCHANGED <<forests, applied>>
           ELSE /\ forests' = [i \in DOMAIN forests |->
                                  {n \ gone : n \in forests[i]} \ {{}}]
                /\ \E list \in SetToSeqs(cuts) :
                      applied' = Append(applied, [rule |-> "chains",
                                                  nodes |-> list])
                /\ progress' = FALSE
                /\ pc' = "subtrees"
    /\ UNCHANGED <<input, clusters, order, cutRoots, forest>>

-----------------------------------------------------------------------------
(* ClusterSolver: points, labels and the instances of the clusters.        *)

Whole == UNION forests[1]

\* The inner nodes of the first tree whose twins hold the same labels.
ClusterPoints ==
    {n \in forests[1] : /\ HasParent(forests[1], n)
                        /\ ~ IsTerminal(forests[1], n)
                        /\ \A i \in DOMAIN forests : n \in forests[i]}

\* Post-order: a subtree is finished before its top, and before another one.
ChildrenFirst(S) ==
    {s \in SetToSeqs(S) :
        /\ \A i, j \in DOMAIN s : i < j => ~ s[j] \subseteq s[i]
        /\ \A i, j, k \in DOMAIN s :
              (i < j /\ j < k /\ s[i] \subseteq s[k]) => s[j] \subseteq s[k]}

\* Decoupling k introduces the labels maxLabel + 1 and maxLabel + 2.
MaxLabel == CHOOSE l \in Whole : \A k \in Whole : k <= l

IndexOf(p) == CHOOSE k \in DOMAIN clusters : clusters[k] = p

TerminalLabel(p) == MaxLabel + 2 * IndexOf(p) - 1

RootLabel(p) == MaxLabel + 2 * IndexOf(p)

\* The clusters decoupled directly from a node: they stand as terminals in it.
Children(p) ==
    LET inside == {q \in ToSet(clusters) : q \subseteq p /\ q # p}
    IN  {q \in inside : \A r \in inside : q \subseteq r => r = q}

Contract(n, children) ==
    (n \ UNION children)
        \cup {TerminalLabel(q) : q \in {r \in children : r \subseteq n}}

\* buildSingleCluster: the tree of cluster p in one forest.
ClusterTree(f, p) ==
    LET inner == {n \in f : /\ n \subseteq p
                            /\ \A q \in Children(p) : n \subseteq q => n = q}
        tree == {Contract(n, Children(p)) : n \in inner}
    IN  IF p = Whole THEN tree
        ELSE tree \cup {{RootLabel(p)}, UNION tree \cup {RootLabel(p)}}

Decouple ==
    /\ pc = "reduced"
    /\ clusters' = IF clustered
                   THEN (CHOOSE s \in ChildrenFirst(ClusterPoints) : TRUE)
                            \o <<Whole>>
                   ELSE <<Whole>>
    /\ order' \in ChildrenFirst(ToSet(clusters'))
    /\ pc' = "solving"
    /\ UNCHANGED <<input, forests, applied, progress, cutRoots, forest>>

-----------------------------------------------------------------------------
(* Solving one cluster after the other (ClusterRange).                     *)

\* Mutant: the cut of a root is not passed on to the parent.
CutNoTerminals(p) == {}

\* cutClusterTerminals: the labels cut before cluster p is solved, because
\* the root beside a child was cut off.
CutTerminals(p) ==
    {TerminalLabel(q) : q \in {r \in Children(p) : RootLabel(r) \in cutRoots}}

WithoutTerminals(tree, labels) == {n \ labels : n \in tree} \ {{}}

\* Mutant: the root beside the cluster carries no weight.
PreferAny(found, root) == found

\* Context::weightFunction: half a component less when the root beside the
\* cluster is alone.
Preferred(found, root) ==
    LET alone == {P \in found : {root} \in P}
    IN  IF alone # {} THEN alone ELSE found

\* The forests the search may hold when it ends.  Stopped early it holds the
\* seed or an improvement: at most three times the optimum.
SolutionCandidates(fs, root) ==
    LET found == MaximumAgreementForests(fs)
    IN  IF sigtermArmed
        THEN AgreementForestsWithin(fs,
                 3 * Cardinality(CHOOSE P \in found : TRUE))
        ELSE IF root = 0 THEN found ELSE Preferred(found, root)

\* A terminal collapsed from several labels counts as its smallest one.
Thin(f, terminals) ==
    {UNION {LabelOf(t) : t \in {u \in terminals : u \subseteq n}} : n \in f}

Thick(block, terminals) ==
    UNION {t \in terminals : LabelOf(t) \subseteq block}

\* What the search may answer: the blocks of the first forest.
Answers(p) ==
    LET cut == CutTerminals(p)
        terminals == Terminals(ClusterTree(forests[1], p))
        thin == [i \in DOMAIN forests |->
                    WithoutTerminals(
                        Thin(ClusterTree(forests[i], p), terminals), cut)]
        root == IF p = Whole THEN 0 ELSE RootLabel(p)
    IN  {{Thick(b, terminals) : b \in P} \cup {{l} : l \in cut} :
            P \in SolutionCandidates(thin, root)}

SolveCluster ==
    /\ pc = "solving"
    /\ order # <<>>
    /\ LET p == Head(order)
       IN  \E P \in Answers(p) :
            /\ forest' = forest \cup
                  UNION {Induced(ClusterTree(forests[1], p), b) : b \in P}
            /\ cutRoots' = IF p # Whole /\ {RootLabel(p)} \in P
                           THEN cutRoots \cup {RootLabel(p)} ELSE cutRoots
    /\ order' = Tail(order)
    /\ UNCHANGED <<input, forests, applied, progress, clusters, pc>>

Merge ==
    /\ pc = "solving"
    /\ order = <<>>
    /\ clusters' = Front(clusters)
    /\ pc' = "coupling"
    /\ UNCHANGED <<input, forests, applied, progress, order, cutRoots, forest>>

-----------------------------------------------------------------------------
(* DecoupleSubtreeAction::undoAction, on the first forest, newest first.   *)

\* The root beside the cluster is alone: its terminal is cut off as well, and
\* both are forgotten.
UndoWithoutRoot(F, t, r) == CutEdge(F, {t}) \ {{t}, {r}}

\* The tree beside the root takes the place of the terminal.
UndoWithRoot(F, t, r) ==
    LET part == Sibling(F, {r})
    IN  {IF t \in n THEN (n \ {t}) \cup part ELSE n :
            n \in F \ {{r}, part \cup {r}, {t}}}

Couple ==
    /\ pc = "coupling"
    /\ clusters # <<>>
    /\ LET t == TerminalLabel(Last(clusters))
           r == RootLabel(Last(clusters))
       IN  forest' = IF HasParent(forest, {r}) THEN UndoWithRoot(forest, t, r)
                     ELSE UndoWithoutRoot(forest, t, r)
    /\ clusters' = Front(clusters)
    /\ UNCHANGED <<input, forests, applied, progress, order, cutRoots, pc>>

Coupled ==
    /\ pc = "coupling"
    /\ clusters = <<>>
    /\ pc' = "restoring"
    /\ UNCHANGED <<input, forests, applied, progress, clusters, order,
                   cutRoots, forest>>

-----------------------------------------------------------------------------
(* ReductionSolver::unapplyReductions.                                     *)

\* Mutant: the chain always becomes a tree of its own.
LengthenAlone(F, s) ==
    LET base == s.lower
        upTo(k) == UNION {s.removed[j] : j \in 1..k}
    IN  F \cup ToSet(s.removed)
          \cup {base \cup upTo(k) : k \in DOMAIN s.removed}

\* ShortenChainAction::undoAction: the chain goes above the parent of lower,
\* or above lower when it has none.
Lengthen(F, s) ==
    LET base == IF HasParent(F, s.lower) THEN Parent(F, s.lower) ELSE s.lower
        upTo(k) == UNION {s.removed[j] : j \in 1..k}
    IN  {IF base \subseteq n /\ n # base THEN n \cup Removed(s) ELSE n :
            n \in F}
          \cup ToSet(s.removed)
          \cup {base \cup upTo(k) : k \in DOMAIN s.removed}

Restored(F, a) ==
    IF a.rule = "subtrees" THEN F \cup a.nodes
    ELSE FoldRight(LAMBDA s, G : Lengthen(G, s), a.nodes, F)

Restore ==
    /\ pc = "restoring"
    /\ applied # <<>>
    /\ forest' = Restored(forest, Last(applied))
    /\ applied' = Front(applied)
    /\ UNCHANGED <<input, forests, progress, clusters, order, cutRoots, pc>>

Write ==
    /\ pc = "restoring"
    /\ applied = <<>>
    /\ pc' = "written"
    /\ UNCHANGED <<input, forests, applied, progress, clusters, order,
                   cutRoots, forest>>

Next ==
    \/ ApplySubtreeRule
    \/ ApplyChainRule
    \/ Decouple
    \/ SolveCluster
    \/ Merge
    \/ Couple
    \/ Coupled
    \/ Restore
    \/ Write

Spec == Init /\ [][Next]_vars

-----------------------------------------------------------------------------
(* What the pipeline promises.                                             *)

\* The nodes of a forest are those its blocks induce in every tree, and the
\* blocks meet nowhere.
IsAgreementForestOf(F, fs) ==
    /\ F # {}
    /\ IsAgreementForest(Roots(F), fs)
    /\ F = UNION {Induced(fs[1], b) : b \in Roots(F)}

\* The clusters, each solved on its own with the cuts of its children passed
\* on, make a maximum agreement forest of the reduced instance
\* (ClusterSolver, SolverConfig::exactTrack).
CoupledIsMaximum ==
    (pc = "coupling" /\ clusters = <<>> /\ ~ sigtermArmed)
        => LET terminals == Terminals(forests[1])
               thin == [i \in DOMAIN forests |-> Thin(forests[i], terminals)]
           IN  /\ IsAgreementForestOf(forest, forests)
               /\ AgreementForestsWithin(thin, Cardinality(Roots(forest)) - 1)
                    = {}

\* What is written is an agreement forest of the input, with the collapsed
\* subtrees and the chains put back, also when SIGTERM stopped the search
\* (ReductionSolver::unapplyReductions).
OutputIsAgreementForest == pc = "written" => IsAgreementForestOf(forest, trees)

\* And no agreement forest of the input is smaller, if nothing stopped it
\* (SolverConfig::exactTrack).
OutputIsMaximum ==
    (pc = "written" /\ ~ sigtermArmed) =>
        AgreementForestsWithin(trees, Cardinality(Roots(forest)) - 1) = {}
=============================================================================
