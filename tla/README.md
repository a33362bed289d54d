# Verification of the PACE 2026 maximum-agreement-forest solver

The program reads two or more rooted binary phylogenetic trees over the same
labels and writes a maximum agreement forest: the smallest set of components
obtained by cutting the same components out of every tree.  `k*` is their
number.  On the lower-bound track the input carries a line `#a a b` and a
forest of `U` components is accepted when `U <= floor(a * k*) + b`.

This directory holds TLA+ models of its core, the TLC configurations that check
them on small instances, and proofs TLAPS checks for all instances.
Paths below are relative to the repository.

## 1. Inventory

| component | state | operations | interacts with |
|---|---|---|---|
| Branching search, `src/Solver/BranchingSolver.cpp` | `appliedRules`, `applyNext`, `solutionBranch`, the shared instance, pause deadline, timeout flag | `advanceSearch`, `rollBackBranch`, `unwindAppliedRules`, `checkSolutionCandidate`, `finalize`, `seedSolution`, `unapplySolutionBranch`, `unapplyReductions` | calls rules; called by startSolver and the coordinator; SIGTERM raises its flag |
| Context, `src/Solver/Context.hpp` | incumbent weight, depth bound, protected edges, certified threshold, `a`, `b` | read and written by all of these | shared by solver, rules, coordinator |
| Rules, `src/Solver/Rule` | branch counter, stack of actions, protections, stored nodes | `isApplicable`, `apply`, `unapply`, `clone` | edit the forests through actions |
| Actions and graph, `src/Solver/Action`, `src/Graph` | nodes, root vector, two label maps | `DeleteEdgeAction`, `CollapseSubtreeAction`, `ShortenChainAction`, `DecoupleSubtreeAction`, each with its undo | |
| Approximation seeding, `src/startSolver.cpp` | one more `BranchingSolver` on the same instance | `seedFromApproximation` | hands rules and size to the search |
| Lower-bound coordinator, `src/Solver/LowerBoundSolver.cpp` | `currentL`, schedule, clock | `solve`, `adoptLowerBound` | alternates search and MaxSAT |
| MaxSAT loop, `src/Solver/ILP` | clauses and keys kept, bound, caps per round | `solve`, `checkMAF`, `reconstructMAF` | asks UWrMaxSat; the coordinator resumes it and reads its bound |
| Dual bounds, `src/Solver/Approximation` | cuts made, active leaves, red and blue set, dual sum | `computeDual3ApproxLowerBound`, `RedBlue2`, `computeCertifiedLowerBound` | the coordinator adopts the bound before its first slice |
| Reductions, `src/Solver/ReductionSolver.cpp` | applied reductions | `solve`, `unapplyReductions` | runs before the search, undone after it |
| Clusters, `src/Solver/Cluster` | decoupled points, sub-instances, cut cluster roots | `solve`, `Clusters`, `unapplyReductions` | one pipeline per cluster, children first |
| Pipeline, `src/startSolver.cpp` | the instance, the solvers of the preset | the order of the stages and of their undoing | all of the above |
| Input, output, plugins, command line, TrivialSolver | | | |

What is hard:

- *Undo.* One instance is edited in place.  A rule cuts edges and collapses
  cherries in every forest; the undo of a cut relies on the neighbours it
  recorded.  A rule that meets a protected edge stops half-way.
- *Replay.* The best solution is kept as clones of the applied rules and applied
  again at the very end, on an instance that must be the input.
- *Interruption.* SIGTERM raises a flag at any moment; the lower-bound track
  pauses the search at its loop head, half-way down a branch, raises the
  threshold and resumes it, or ends it there.
- *Pruning.* Incumbent, threshold, protected edges and cutting rules that do not
  branch all remove parts of the search space.
- *Time.* A deadline in the past must not stop progress; the budget may run out
  anywhere; MaxSAT and the dual bounds are cut off and resumed, or left as they
  are.
- *Laziness.* The MaxSAT clauses are generated from the forests it answers with,
  under caps and with a key against duplicates: a wrong forest must not pass,
  and no round may add nothing.
- *Tight bounds.* A lower bound that is one too high makes a wrong answer
  "certified", and shows only where the bound is tight.
- *Recombination.* A cluster is solved alone, and whether its root is cut off
  decides what its parent may do; reductions are put back on a forest that the
  search has cut up.

What makes each part right: the search returns a maximum agreement forest when
it says so, and an agreement forest always; undone rules leave the input; a
protection has one owner; preconditions of edits hold when they are made; a
paused search ends.  The coordinator emits only valid forests, withholds only
what it cannot certify, and ends.  Both kinds of lower bound are at most `k*`
and never taken back.  Clusters recombine to a maximum agreement forest, and
what is written is one of the input.

## 2. Modules

    LaminarForest ── BranchingRules ── BranchingSolver ─┐
          └───────── AgreementForest ───────────────────┴─ BranchingSolverCorrectness ── MCBranchingSolver
    SearchContract   (instantiated by BranchingSolverCorrectness as what it implements,
                      and by LowerBoundCoordinator as what it relies on)
    LowerBoundCoordinator ── MCLowerBoundCoordinator
    LaminarForest ── ForestEdits   (instantiated by PointerForest as what it implements)
          └───────── PointerForest ── MCPointerForest
    AgreementForest ── IncrementalMAFSolver ── MCIncrementalMAFSolver
          ├── ActiveForest ── ThreeApproxDual ── RedBlueDual ── DualLowerBound ── MCDualLowerBound
          └── MaximumForests ── ReductionPipeline ── MCReductionPipeline
    BinaryTrees ── SmallTrees   (the trees the MC modules choose from)

    proofs:  LaminarForest_proofs, BranchingRules_proofs ── BranchingSolver_proofs
             LaminarForest_proofs ── IncrementalMAFSolver_proofs
             LaminarForest_proofs ── PointerForest_proofs
             BranchingSolver_proofs ── BranchingSolverOptimality_proofs
             LaminarForest_proofs ── DualLowerBound_proofs
             LowerBoundCoordinator_proofs

**LaminarForest** sees a forest as the family of the label sets of its nodes,
which is what `Node::subtreeTerminals` stores.  Parent, sibling, root and
terminal are relations of that family.  `CutEdge` is `DeleteEdgeAction` (the
labels leave every ancestor, the parent is spliced out by coinciding with the
sibling), `UncutEdge` its undo from the recorded sibling, `CollapseAt` and
`UncollapseAt` are `CollapseSubtreeAction`.

**BranchingRules** has one constructor per rule class and the dispatcher
`SiblingRuleFactory::allRules`.  A rule is its `apply` loop unrolled into a
*plan*: for each branch and forest, the sequence of edits.  An edit names a
label, resolved when it is executed, or the node the code stored at selection.
Iteration over an `unordered_set` is any order (`PropagationRules`).

**BranchingSolver** executes plans.  `pc` is the place in the code; each edit of
one forest and each undo of one edit is a step, so SIGTERM, which the code reads
only at two places, can arrive anywhere between.  `stage` tells the approximation
run from the search it seeds; both are the same class with different rule lists.
`CONSTANTS` switch the modes of the tracks:

| track | Seeded | SigtermArmed | PauseArmed | CertifiedEarlyExit | Bounded |
|---|---|---|---|---|---|
| exact | yes | no | no | no | no |
| heuristic, pipeline | yes | yes | no | no | no |
| lower bound | yes | no | yes | yes | no |
| tests of the search alone | no | no | no | no | either |

The exact runs leave the seed out because that explores more: with the incumbent
at infinity nothing is pruned at first.

**BranchingSolverCorrectness** holds the properties; **AgreementForest** the
definition of a maximum agreement forest they are stated against, which uses
none of the solver's operations.

**SearchContract** is what the coordinator may expect of a search: the incumbent
never beats `k*`, Solved means it meets the threshold, Exhausted that it is
`k*`, and a search that could answer does not pause.

**LowerBoundCoordinator** is `LowerBoundSolver::solve` over that contract, with
the MaxSAT solver as any source of bounds at most `k*`.  That these bounds are
such is `BoundIsSound` of IncrementalMAFSolver and of DualLowerBound.  `a` is in
hundredths, and `CertifiedCeiling` is exact: the double arithmetic with its
nudge is not modelled.

**ForestEdits** is what the two actions promise: a stack of cuts and collapses
on label sets, undone newest first, or with the collapses alone undone under
the cuts (`unapplyReductions`).  **PointerForest** is how they do it: parent,
sibling and child pointers, `subtreeTerminals` in words, the root vector with
`std::lower_bound` and remembered positions, `labelToTerminal` and
`terminalToLabel`.  A node is named by the label set it was read with; its
`subtreeTerminals` change, its name does not.  `DeleteEdge`
and `CollapseSubtree` are whole `doAction`s; `UndoLast` and `UndoLastCollapse`
are the `undoAction`s, in the order of an unwinding and of
`unapplyReductions`.  `ImplementsForestEdits` is the refinement.

**IncrementalMAFSolver** is the loop of clause generation.  `Solve` enters a
call with the clauses kept, `TimeOut` leaves it at the loop head, the only place
where the code looks at the clock, `Relax` asks UWrMaxSat, modelled as any
smallest set of edges that meets the clauses, `CutNext` is one cut of
`reconstructMAF`, and `Accept` and `Refine` are the two outcomes of `checkMAF`
with its two passes, their orders, the caps and the keys.  A variable of the
MaxSAT problem is the node below the edge.

**ActiveForest** is what both dual passes do to a tree: cuts, active leaves,
and which leaves are siblings or a cherry then.  **ThreeApproxDual**,
**RedBlueDual** and **DualLowerBound** are the 3-approximation, one Red-Blue
pass, and the sequence of passes with the deadline at any loop head.  A step is
one iteration of a loop of the code.

**ReductionPipeline** is what startSolver runs around a search: the subtree and
chain rules until neither applies, clusters decoupled and solved children
first, the cuts of their roots passed on, merging, coupling, and the undoing of
the reductions.  The search on one instance is one step: any answer it may give,
which **MaximumForests** enumerates.  Uninterrupted that is any maximum
agreement forest, preferring one in which the cluster root is alone (the `-0.5`
of `Context::weightFunction`); stopped by SIGTERM it is any agreement forest with
at most three times as many components.  After the search only the first forest is
followed, since nothing reads the others.

Choices worth knowing:

- In BranchingSolver `Context::weightFunction` is the component count; the
  `-0.5` of an isolated cluster root only occurs inside clusters and is in
  ReductionPipeline.
- `ForcedCherryCutRule` looks at three protections before its first cut.  It
  only runs in the approximation, where nothing is ever protected.
- The approximation has its own `Context`, so its own `protectedEdges`; as that
  set is always empty one variable serves both.
- Where the code throws or dereferences null, the model has no step;
  `NothingThrows` shows these states out of reach, and TLC's deadlock check
  would find the others.
- `DebugAssertFalseRule` returns `ImidateReturn`, which ends the search as
  Exhausted.  The model does the same; `SomeRuleAlwaysApplies` shows the rule is
  never reached.
- `rollBackBranch` reports Exhausted also when SIGTERM ended it
  (`BranchingSolver.cpp:103`), although `BranchingSolver.hpp:118` reserves that
  for a fully explored tree.  No caller that arms SIGTERM looks at the
  difference, and the properties about Exhausted leave interrupted searches out
  or are checked where SIGTERM is not armed.
- `hasSmallestTerminal` takes `__builtin_ctzll` of the first words that differ,
  one of which may be 0 from 65 labels on.  That is undefined; the run takes
  the value of the `tzcnt` instruction, the word size, with which the order is
  right.  With 0 in its place, which the language allows too, `IsValid` fails:
  the order of the roots depends on the target.  The theorems about pointers have
  `ZeroWordsAreHarmless` as a hypothesis: the value is at least the word size, or
  there is only one word, in which case no zero is counted and any value will do.
- MaxSAT: the floating-point `MAX * (0.1 * r)` agrees with the exact quotient
  for the values that occur.  Below ten labels the cap shrinks to 0 within
  a few rounds, which is harmless: the first clause of a pass is added before the
  count is looked at.  The key of a path-pair clause is the set of its four
  labels, which is enough: only one pairing of four leaves has disjoint paths in
  the first tree.  An infeasible answer of UWrMaxSat (lines 77-78) has no action:
  all edges cut meet every clause, and leaving the call there, before the bound
  is set, changes no more than `TimeOut`.  `getCurrentLowerBound` is only read
  between calls.
- The MaxSAT solver does not know `clusterRootLabel`.  Behind a ClusterSolver,
  in a pipeline no preset has, it would not prefer a cut cluster root; that is
  the mutant of `CoupledIsMaximum`.
- Dual bounds: `compatibleFast` and `lcaFast` are taken as the tests they
  compute from tables.  The 3-approximation returns 1 unless there are two trees.
- A cluster's own labels are numbered above those of the instance and may
  coincide with labels of chains taken out before; this is harmless, since those
  come back after the clusters are gone.  In the model they are distinct.

## 3. Runs

In the runs of the search, first trees are a caterpillar, its reverse and a
balanced tree; the second (and third) tree is every rooted binary tree over the
labels.  The position of the labels in the first tree decides the order in which
cherries are looked at, so symmetry would be unsound and is not used.

| run | instances | shows |
|---|---|---|
| ExactTwoTrees | 3 x 105 pairs, five labels | `ExhaustedIsOptimal` and everything about undo, replay and preconditions, without a seed |
| LowerBoundTrack | 2 x 15 pairs, four labels, thresholds none, 2, 3 | pauses after every rule, bounds raised between slices, `KeepsSearchContract` (refinement of SearchContract), `EventuallyOutput` |
| HeuristicTrack | 3 x 105 pairs, five labels | SIGTERM between any two edits, the 3-approximation |
| BoundedDepth | 2 x 15 x 15 triples, four labels | iterative deepening, and cherries that two trees split differently |
| LowerBoundCoordinator | `k*` up to 5, three values of `a`, two of `b`, two schedules, budget 4 | validity of what is emitted, nothing certified withheld |
| PointerForests | all 105 trees over five labels, words of two bits | every sequence of cuts, collapses and undos keeps a valid forest, gives back every pointer, and does to the label sets what ForestEdits says |
| IncrementalMaxSat | six pairs over five labels, one timeout | the bound is sound after every call and never falls, cuts can be made, the loop ends with a maximum agreement forest |
| DualLowerBounds | a balanced tree against all 945 over six labels, triples, chosen pairs up to eight labels, `redblue_unsound01` and `02` | the bound is at most the size of any agreement forest, the defensive branches are never taken, the passes end |
| ReductionPipeline | pairs with a chain of four, with a cluster, with a cluster in a cluster; triples with a cluster; with and without ClusterSolver, and interrupted where there is no chain | clusters recombine to a maximum agreement forest, the output is an agreement forest of the input, and a maximum one |
| TwoSplittingLabels | violation | see findings |
| ShortenedChainRestored | violation | see findings |
| InterruptedChainRestored | violation | see findings |

Why these bounds say something.

*Search.*  Five labels are the least at which every rule of `allRules` fires, an
ABC branch has several b-nodes on both sides, protected edges block a rule
half-way and replays contain every kind of rule; a pair needs up to four
components there.  Three trees on four labels let two forests disagree with the
first in different ways.  The thresholds 2 and 3 lie below, at and above the
optimum of some pair.

*Coordinator.*  The budget cuts slices of the schedule short, may end inside
either schedule or after it, and both a zero-length slice and one longer than
the budget occur.

*Pointers.*  Five labels in words of two bits make three words, so that two
terminal sets may differ first in any of them and be empty there; stacks of
edits reach the depth at which nothing is left to cut, and root positions
shift in both directions.

*MaxSAT.*  The second trees cross the two cherries of the first: both passes of
`checkMAF` add clauses, several optimal answers exist, and all of them are
followed.  One timeout may come at every loop head.

*Dual bounds.*  The extra credit for the last component, which the code once
gave, is harmless on every pair of six labels; the repository's two regression
instances with twelve and thirteen labels are there for it, and the chosen pairs
for branches of `resolvePair` six labels do not reach.  The comparators are all
partitions of the six labels, and on larger instances one maximum agreement
forest each.

*Pipeline.*  A chain must have more elements than are kept: four on two trees.
It hangs on every place of every tree with four labels.  Clusters of three and
four labels have optima with and without the root cut off.  Interrupted calls are
left to instances without a chain, as those with one fail (findings 2 and 3);
so in the passing run `OutputIsAgreementForest` speaks of chains in
uninterrupted calls on these pairs alone, and it does not hold in general.
Deadlock is not checked there because the program ends with writing.

Every action and every disjunct of the next-state relations is taken in the
passing runs.

What a property catches is shown by a mutant of the code for each property of
each run (the operators commented `Mutant:`), which PROJECT.json lists.

### Fairness

`BranchingSolver`: one thread, nothing blocks, so weak fairness on the solver's
steps.  The choice among rules is split off: `FirstApplicable` always has an
answer, so `SelectsRule` is the enabling condition of `ApplyActiveRule` and the
second conjunct of `Fairness` is weak fairness written out.  A caller that
resumes a paused search belongs to the solver's steps; that it does until the
budget ends is what the coordinator's model shows.  No fairness on SIGTERM or on
bounds being adopted.  Pauses may occur at every loop head after one rule: the
throttled clock of `pauseReached` only makes them rarer.

`LowerBoundCoordinator`: weak fairness on the coordinator's steps.  The number
of improvements is bounded by the incumbent, a pause is only returned past its
deadline, and the last slice's deadline is the end of the budget.

`IncrementalMAFSolver` and `DualLowerBound`: one thread in a loop, so weak
fairness on the steps that are not timeouts, written out like above: again and
again no step is left, or one is taken.  No fairness on timeouts and deadlines.
Timeouts of the MaxSAT loop are finitely many (`MaxTimeouts`): a caller that
cut every call off at once would get nowhere, and the coordinator's last
slice goes to the search.

`PointerForest` and `ReductionPipeline` have safety properties only: the first
does what its caller asks, the second runs through its stages.

## 4. Findings

1. *TwoSplittingLabels.*  With three or more trees `allRules` accepts a BRule
   when each conflicting tree splits the cherry `(a, c)` by one terminal, and up
   to two different ones, `b1` and `b2`
   (`SiblingRuleFactory.cpp:337`).  `BRule::apply` isolates both in every forest
   without branching.  On the six-label instance of the run the search ends
   Exhausted with 4 components; 3 are enough.  `BranchingSolver.hpp:118` and
   `LowerBoundSolver.cpp:86` say Exhausted is the true optimum.
2. *ShortenedChainRestored.*  ChainReductionRule keeps `t + 1` elements of a
   chain common to `t` trees.  On an instance shortened that way an optimal
   forest may leave all kept elements single while one component passes the
   chain in the first tree and another in the second.
   `ShortenChainAction::undoAction` then finds that the lowest element is a
   single-vertex tree and hangs the removed ones on it alone
   (`ShortenChainAction.cpp:234`), across a component.  The forest has the right
   size and is no agreement forest, against `startSolver.cpp:108` and
   `ShortenChainAction.hpp:18`.  Eleven labels, exact track, no interruption.
   Whether it happens depends on which maximum agreement forest the search
   returns; the model allows any.
3. *InterruptedChainRestored.*  The heuristic preset runs ReductionSolver before
   a search that SIGTERM may stop.  The forest held then need not be
   optimal, and the component of the lowest kept element may hold labels from
   above the chain only; the removed elements go above the parent of that
   element all the same (`ShortenChainAction.cpp:214`), so above labels that lie
   higher in the trees.  Against `startSolver.cpp:107` and
   `SolverConfig.hpp:137`.  Nine labels, the signal set before the search; the
   compiled solver writes the same forest.  Among random small instances with a
   chain, between three and thirteen in a hundred fail when the signal is set
   that early.

Seen while reading, without a run: the comment at `LowerBoundSolver.cpp:52` says
the incumbent is still infinite there, while `startSolver.cpp:153` has seeded
it, so the adoption whose result is discarded may already certify; the next
branch slice finds out at its loop head.

## 5. Proofs

All theorems hold for every value of the constants under the named assumptions
of the modules they extend, which TLC evaluates in the runs.

### The lower-bound coordinator (`LowerBoundCoordinator_proofs`)

| theorem | says |
|---|---|
| `EmitsOnlyValid` | what is emitted is within `floor(a * k*) + b` |
| `ThresholdStaysProven` | the threshold is the ceiling of the best bound adopted |
| `WithholdsOnlyUncertified` | nothing is emitted only with the budget spent and nothing certified |
| `BoundsOnlyTighten` | bound and threshold never fall, the incumbent never rises |
| `TypeCorrect` | types; the deadline never passes the budget |

Validity of what is emitted is not inductive by itself: a solver may emit
because the incumbent meets the threshold, which is right only if the threshold
is the ceiling of a bound (`ThresholdIsProven`) and the bound is at most `k*`
and the incumbent at least (`BoundsAreSound`); and it may emit after MaxSAT is
optimal or the search exhausted, which stays right only if no slice is running
once `solve` has concluded (`ConcludedIsAtRest`).  `IInv` is the conjunction.
Its arithmetic is in two lemmas on `CertifiedCeiling`: it is monotone
(`CeilingIsMonotone`), so a bound at most the optimum gives a ceiling at most
that of the optimum, and it is at least its argument (`CeilingIsAtLeast`), so
the optimum always certifies.  Assumed:
`a >= 1.00`, natural `b`, `SearchContract` of the search (which
`SearchKeepsContract` below proves on pairs of trees, and the LowerBoundTrack
run shows on instances), and MaxSAT bounds at most `k*` (which
`BoundIsSoundHolds` below proves on pairs of trees).  On two trees, then, no
link between the modules of the lower-bound track is left to instances.

### The MaxSAT loop (`IncrementalMAFSolver_proofs`, and `LaminarForest_proofs` on cuts)

| theorem | says |
|---|---|
| `SeparatingCutsExist` | the blocks of an agreement forest of `k` blocks are told apart, in each of its trees, by at most `k - 1` cuts |
| `CutKeepsCutForest` | cutting an edge of a forest cut out of a tree leaves one |
| `TypesHold` | types |
| `BoundNeverFallsHolds` | no step lowers the bound |
| `BoundIsSoundHolds` | between calls the bound is at most the size of any agreement forest |
| `CutsAreLegalHolds` | each node of a MaxSAT answer is still in the forest, and not a root, when `reconstructMAF` comes to it |
| `SolvedIsOptimalHolds` | true is only returned with an agreement forest made, of as many components as the bound |
| `SolvedIsMaximum` | no agreement forest has fewer components than that one |

They hold for every finite set of labels, every set of pairs of trees, any
number of timeouts, and any choice among optimal MaxSAT answers, orders and
caps.  The argument has three sides.

*The bound.*  `BoundIsEarned`: no set of fewer than `currentLB - 1` edges meets
all clauses kept, and the solver has exactly these.  The statement is about the
clauses, so it survives a timeout that throws the solver away, and more
clauses are not easier to meet (`MoreClauses`): the next answer is no smaller,
which gives `BoundNeverFallsHolds`.  It is sound because every clause is met by any cuts
that tell the blocks of an agreement forest apart (`ClausesAreSound`): a triple
on which the trees disagree cannot be in one block, and of two paths that meet in
one tree only, the ends are not all in their blocks; in each case a cut
lies on a path of the clause (`TripleClauseIsMet`, `PairClauseIsMet`).  With
`SeparatingCutsExist`, `k - 1` cuts meet every clause, so the least number is at
most `k - 1`.

*The cuts.*  While `reconstructMAF` works, the forest is a cut forest of
the first tree: each of its trees is what the tree induces on its labels, and their
spans share no node (`CutKeepsCutForest`).  A node of the answer could
only be gone if an earlier cut had made it coincide with its sibling or its
parent.  The answer is optimal, so each of its nodes alone meets some clause
(`EachCutIsNeeded`), and each clause is made of paths between labels
(`ClausesCutPaths`); that path is still whole when the node's turn comes, so
there are labels on both sides, and the node has a parent (`NextCutIsLegal`).

*The answer.*  `checkMAF` accepts where its passes, each in its own order and
stopped by its own cap, find nothing.  First, nothing found means nothing there:
the loops over all triples and over all pairs of paths list every candidate
(`AllTriplesLists`, `LeafPairsListed`, `AllPairsListed`), the passes before them
end and list candidates only (`HopsEnd`), and a cap always lets one candidate
through, since it is looked at after the constraint is added
(`NoTripleCounted`, `SomethingTaken`).  Second, triples are enough: trees with
the same cherry on every triple of a component induce the same tree on it,
because the outermost node of one tree that holds one label of a subtree of the
other and not a given label outside it holds the whole subtree
(`MeetingsDetermine`).  Third, paths are enough: a node that two components
share in the second tree, or a child of it, is an edge of a path of either
(`PathsTellSpans`).  The size is that of the bound because every cut makes
exactly one tree more (`CutAddsRoot`), so the trees made and the cuts to be
made are one more than the nodes of the answer (`CutsAreCounted`).

The loops that generate candidates are functions defined by recursion.  That
they have values at all is proved once, for any recursion with a measure that
falls (`RecursionExists`, `DescentReaches`), by induction on a set of numbers
instead of on a predicate.

`Inv` is the conjunction of the first two sides with what holds of the solution
outside `reconstructMAF`; `SolvedInv` adds the count and the answer.  Assumed:
`LabelsAreTaxa`, `SatInstancesArePairs`, `MaxTimeoutsIsNatural`, and for the
answer `SatInstancesAreLabelled`: every label has a leaf of its own, as the
Newick reader builds it; two labels on one leaf are in no triple.

### The search (`BranchingSolver_proofs`, and the lemmas it stands on)

| theorem | says |
|---|---|
| `UnwindingRestores` | whenever no rule is applied, the forests are the input and nothing is protected |
| `ProtectionsHaveOwners` | `protectedEdges` is the disjoint union of what the applied rules put there |
| `TypeCorrect` | types and the shape of the undo records |
| `CutIsUndone`, `CutKeepsForest` | `DeleteEdgeAction` and its undo on a well-formed forest |
| `CollapseKeepsForest` | `CollapseSubtreeAction` on a well-formed forest |

They hold for any finite set of labels, any number of trees, with and without
seed, depth bound, SIGTERM and pauses.  The argument:

1. `Shape` strengthens the types: which program points have a rule in hand, and
   that an applied branching rule is in one of its branches.
2. `Stack`, the applied rules followed by the one in hand, changes in one of six
   ways in every step (`StackSteps`): it rests, a rule without edits is pushed,
   the last rule records an edit, takes its last edit back or leaves with none
   left, or `unapplyReductions` takes back an edit further down.  Everything
   below is proved per way, not per action.
3. `ShieldsAreOwned`: an edit protects only what is not protected yet, so owners
   stay disjoint and undoing one rule cannot lift the protection of another.
4. `HasHistory`: there is a function `h` with `h[k][j]` the forests as they were
   when rule `k` had `j` edits, each well formed, the first the input, the last
   the forests now, and each the previous one reverted.  That the forests are
   the input when the stack is empty says nothing about a stack of two; the
   history does.  An edit extends it by `CutIsUndone` and
   `CutKeepsForest` (or the collapse), for which the forests must be well formed,
   which is why it carries that too.
   It ends with `unapplyReductions`: that undoes the rules of kind Reduction
   and leaves the cutting ones in place, so the forests then are none the search
   went through, and the stack does not empty again.

### What is written (`BranchingSolver_proofs`)

| theorem | says |
|---|---|
| `OutputIsCut` | every forest written is cut out of its input tree: each component is what the tree induces on its labels, no two share a node |

`unapplyReductions` undoes the collapses and leaves the cuts applied, among them
cuts that came later and in nodes above.  No stage of the history is reached
that way, so the exact undo above does not help.  What is followed instead is
the forest the cuts alone would have left: a forest is *short of* the nodes that
the collapses on the stack have swallowed if it is cut out of its tree once these
are put back, and none of its nodes lies inside one of them (`ShortOf`).  A cut
does not tell whether swallowed nodes are there, for no node it removes labels
from lies in or under one of them (`CutStaysShort`); a collapse moves nodes from
one part to the other (`CollapseSwallows`).  The invariant, `Lineage`, says this
of the forests now and of every stage of the history: a change that is undone
takes the stack and the forests back to an earlier stage together.  From
`unapplyReductions` on the history is gone, and the weaker half is kept: with the
swallowed nodes put back the forest is cut out of its tree, whichever collapse is
undone next (`InsideKeepsLineage`).  At the output no reduction has a change left
(`Cleared`), and no other rule ever collapses, so nothing is swallowed.

Assumed: `LabelsAreTaxa`, `NumTreesIsPositive`, `InstancesAreForests`,
`SwitchesAreBoolean`, `ThresholdsAreIntegers`.

### The rules, the replay and the output (`BranchingRules_proofs`, `BranchingSolver_proofs`)

| theorem | says |
|---|---|
| `OutputAgrees` | `OutputIsAgreementForest`: what is written is an agreement forest of the input, the same for every tree, of as many components as the incumbent counts |
| `ReplayIsUnhindered` | `ReplayMeetsNoProtection`: `finalize` applies every clone in full |
| `NothingIsThrown` | `NothingThrows`: the places where the code would throw or follow a stale pointer are not reached |
| `MergesAreCherries` | `MergeIsCherry`: only siblings are collapsed, in every forest |
| `RuleIsAlwaysFound` | `SomeRuleAlwaysApplies`: `DebugAssertFalseRule` is never applied |
| `SelectedRuleFits` | a rule that either list selects finds the forests it expects |
| `NextEditFits` | when the turn of an edit comes, its node is there, has a parent where the code does not look, and is a cherry if it is collapsed |
| `RuleSettles` | a branch of a rule applied in full leads from settled forests to settled ones |

These hold for any finite set of labels, any number of trees, in every track.
Since the model has no step where the code throws, every theorem about the
search rests on `NothingIsThrown`.

*Between two rules.*  Forests are `Settled` when they are well formed and have
the same terminals, when those of the first forest that are not single-vertex
trees yet hang in one tree, and when there are none in any other forest once
there are none in the first.  `Fits(r, fs)` is what the constructor of the
rule saw and its `apply` relies on: the cherry, the narrow path, the b-nodes,
the loose label.
`SelectedRuleFits` goes through both lists of rules, `RuleSettles` through
the plans.

*While a rule is applied.*  `Does` is what one edit of a plan does to one
forest and to what is protected in it, and `Ran` what a prefix of the plan does.
It is a function of the start (`DoesIsDeterministic`), which is what makes a
replay follow what it replays.  The b-nodes of ABC were stored at the selection,
are pairwise disjoint, and hang beside the path between the labels; a cut of one
leaves the others in the forest with a parent, and after the last the two labels
are siblings (`NextEditFits`, `RuleSettles`).

*The stack.*  `Stages` adds to the history that the forests at the start of
each rule on the stack are settled and that the rule fits them; and that every
rule but the last has led, in full, to where the next one starts.  The trees
agree on every terminal: a collapse of a cherry in all forests makes a label set
on which all trees induce the same subtree (`Agree`).  `Reached` says where the
forests are with respect to the last stage, for each place of the code.

*The search without a solution.*  A rule left in `applyNext` must still fit when
it is taken out, and the first descent must not run into a protected edge or
roll back past its start, for `finalize` would then have nothing to replay.
`Queue`, `Deepening` and `Unsolved` say why: until the first solution no rule
has protected anything, no branch is cut, and all that is ever queued is the
merge after an ABC branch; a bounded search stops in its solution and keeps none.

*The replay.*  `solutionBranch` holds clones, taken when the stack was the
solution's.  `Replayable` keeps, besides the history, the stages of the stack at
that time: the solution leads from the input through them to single vertices, as
many as the incumbent counts, each clone entering the branch its original was in.
It is established by `CandidateIsReplayable`, stays true while the search goes
on changing its stack, and guides the replay (`Replays`): when a clone
starts, forests and protected edges are those its original found, so the
original's plan, which met no protection then, meets none now.

*The output.*  At the end of `finalize` only single vertices are left, so the
roots are the terminals, on which the trees agree (`FinishedIsMatched`).
`unapplyReductions` changes no root (`EndingKeepsMatched`), and with `OutputIsCut`
the forests of all trees are the subtrees their trees induce on the same roots.
This is the output of the search; what the pipeline makes of it when it puts
chains back is findings 2 and 3.

The inductive invariant is `Course`.  `ReplayMeetsNoProtection` speaks of nodes
with an edge above them only: a rule that comes to a root passes it over without
looking at what is protected, so a root may well be one whose edge was.

Assumed besides: `InfinityIsBeyond` (`INFINITY` exceeds every weight and
threshold), `InstancesAreTrees` (what the Newick reader builds has one root
and a leaf for every label) and `SeedsAreUnbounded` (no preset seeds a bounded
search).

### What an answer is worth (`BranchingSolverOptimality_proofs`, on `BranchingRules_proofs` and `LaminarForest_proofs`)

| theorem | says, of at most two trees |
|---|---|
| `SelectedRulesAreLossless` | whichever rule `allRules` selects, a partition as good as any obeys one of its branches |
| `ExhaustedMeansExhausted` | `ExhaustedIsOptimal`, with no SIGTERM armed |
| `ExhaustedUnlessToldToStop` | the same with SIGTERM armed, until the signal is seen |
| `DeepeningIsOptimal` | `FirstBoundedSolutionIsOptimal`: iterative deepening stops with a maximum agreement forest |
| `EmittedIsWorthIt` | `EmittedIsCertifiedOrOptimal`: what is written meets the threshold in force or is optimal |
| `SearchKeepsContract` | `KeepsSearchContract`: the search implements SearchContract |

The hypotheses say where the code has these properties.

- `NumTrees <= 2`: with three trees `ExhaustedIsOptimal` is false, which is the
  finding TwoSplittingLabels.  Two rules need it.  `BRule` isolates, without a
  branch, the labels that split a cherry in any tree, and only with one such
  tree is that a single label (`OneBLabel`).  The exchange for `TwoBRule`
  (`TwoBCompletes`) uses that one tree splits the cherry; whether the rule loses
  anything on more is left open.  The lemmas on all other rules are for
  any number of trees.
- No signal, or `timeout` as a way out: `rollBackBranch` answers Exhausted to
  SIGTERM as well, and then nothing is promised.
- For the contract: no bound on the depth and the certified early exit switched
  on, the settings of the lower-bound track.

The argument has four layers.

*Partitions.*  `AgreesOn(fs, P)` says that `P` is still within reach of the
forests `fs`: its blocks lie in trees of every forest, divide no terminal, span
disjoint subtrees, and induce the same in all.  On the input this is an
agreement forest (`AgreesOnInput`); on single vertices only one is left.  A cut
keeps exactly the partitions that have no block on both sides of the edge, an
isolation those in which the label is a block, a merge those in which the two
labels share one (`Obeys`).  A plan carried out in full therefore keeps exactly
the partitions that obey it, with the same number of blocks.

*Rules.*  A rule is `Lossless` if each partition within reach has one of no more
blocks that obeys one of its branches (`Completes`), and if an edge is protected
only where an earlier branch isolates the label below it (`Backed`).  The
exchange arguments are those of the papers the rules are named after: two
siblings in every forest may be joined into one block; of a cherry `(a, c)`, a
partition isolates `a`, isolates `c`, or keeps both in one block and then cuts
what hangs on the path between them in the other tree; if what hangs there is
one label, isolating it costs no more than isolating `a` or `c`
(`BRule`, `ReverseBRule`).

*The stack.*  `Claims` says of each rule applied, at the forests it was entered
with, that it is lossless and that each branch left behind is `Fruitless`: no
partition smaller than `Limit` obeys it.  `Limit` is the incumbent, or one more
than the depth bound.  A branch is done with (`Spent`) by a solution of its own,
by the weight reaching the incumbent, by an edit that meets a
protected edge, since such a partition obeys the earlier branch that protected
it (`Earned`), or because the rule above has no branch left; a lossless rule all
of whose branches are fruitless leaves nothing in the forests it was entered with
(`NoBranchLeft`).  A rule that waits in `applyNext` keeps its own promise
(`Promised`).  When the stack is empty the input itself is `Hopeless` below the
`Limit`.  The forests that belong to a rule are those of the history `h` of
`HasHistory`: the same one, which is why `Searched` says `\E h : Track(h) /\
Found(h)`.

*The answer.*  `Attained` says that the incumbent is the size of an agreement
forest, for any number of trees and also when it came from the seed; with
`Hopeless` it is the optimum (`UnbeatenIsOptimal`).  `Verdict` follows the
answer from `stopped` through `finalize` to `output`: a threshold that rises
keeps what was certified, and `Exhausted` in a call after others counts for all
of them, since a pause loses no claim.  In a bounded search `maxSize` rises only
with the input hopeless at the depth before.  `Searched` is the conjunction, on
top of `Course`.  For the refinement, `AnswerFits` adds that a call that is
running has returned nothing final, and each step of the search is one of the
contract or leaves its variables alone (`NextKeepsContract`).

TLC checks the four properties the theorems name, in the runs of the search.  It
cannot check `Searched` itself, which quantifies over histories.

### The pointers (`PointerForest_proofs`)

| theorem | says |
|---|---|
| `PointersStayValid` | `IsValid` after any sequence of actions and undone actions |
| `UndoRestoresHolds` | `UndoRestores`: the undo of the newest action gives every pointer, set, root position and label entry back |
| `PointersImplementEdits` | `ImplementsForestEdits`: what the pointers reach changes as ForestEdits changes label sets |
| `ForestInvariant` | the invariant the three rest on |

These hold for any labels, any tree and any word size, under `ZeroWordsAreHarmless`
(up to 64 labels it is true; beyond, see 3) and `FirstForestsAreTrees`, that a parsed line is one tree with a leaf
for each label.

*What is reached.*  `Reached` follows pointers for as many steps as there are
nodes.  `ReachedFrom` and the lemmas before it show that this is enough and that
in a linked forest the nodes reached are exactly those the invariant speaks of.

*Collapsed nodes.*  A collapse closes a node and leaves everything below it
linked, for its undo.  `IsValid` is therefore not inductive: it says nothing of
what lies hidden.  The invariant (`Good`) opens every collapse: there is a
set of nodes `M` with child functions `lx`, `rx` that are linked as a forest,
and the child pointers are those with the collapsed nodes closed; the nodes
reached are the ones of `M` below no collapsed node (`Visible`).  Cuts and
collapses move in the visible part and leave the hidden part as it is
(`Frozen`), so each record still holds what was true when it was written
(`Recollected`), also where `unapplyReductions` takes collapses out from under
cuts that stay.

*The order of children and roots.*  `ComparesSmallest` shows that comparing
words by their trailing zeros compares smallest labels; a cut swaps children on
the way up exactly where the smallest label was in the subtree that left, and
`std::lower_bound` finds the place that keeps the roots ascending.

*The undo.*  For each action on the stack, `Rewindable` says that its undo leads
from the pointers after it to those before, and likewise on label sets.  It is
given up when `unapplyReductions` starts, from where only `Good` is needed.
Sorting on the way back up gives the old order since a strict order leaves one
(`Sorted`, `InChildOrder`).

TLC cannot evaluate `Good`, which quantifies over functions on all nodes; its
three consequences are what the run checks.

### The dual bounds (`DualLowerBound_proofs`)

| theorem | says |
|---|---|
| `FallbacksAreUnreached` | `FallbacksUnreached`: the defensive branches of `RedBlue2` are never taken |

It holds for any number of trees over any labels, in every pass and wherever the
deadline cuts it off, under `DualInstancesAreTrees`, that the Newick reader
builds binary trees with a leaf for every label.  `RedBlue2` has branches for a
set without a cherry of its colour, a red side of one leaf or none, a triplet
without its leaves; the model leaves out what the code would do there, so that
every statement about the passes rests on this one.

*Leaves and cherries.*  As a tree is binary, a node with two active leaves has
one below it with exactly two (`LowestPair`).  In t1 every cut takes one active
leaf away and the leaf is deactivated with it, so nothing active is ever below a
cut (`Avoids`, `CutOffAvoids`), and such a node is a cherry whatever was cut
(`CherryBelow`).  In t2 pendants with active leaves are cut too; there only
nodes are cut (`CutsAreNodes`), so that the pieces hang at nodes.

*The incompatible set.*  The main loop looks for one without asking whether there
is any.  If the trees agreed on the active leaves, the lowest piece of t2 with
two of them would be a pair, since no leaf is alone in its piece after
`preprocess`, and the pair would be a cherry of both trees, which `preprocess`
merges (`CompatibleLeavesShareCherry`).  Trees agree on any two labels
(`SmallSetsAgree`), so a minimal incompatible set has three leaves or more and one
of its sides has two (`MinIncompatIsBelow`, `OrientIsSide`).  The sets and sides
to choose from lie below disjoint nodes, which the leaf order does not mix
(`NodesAreOrdered`): one of them does come first (`LeftmostExists`).

*The invariant.*  `FallbacksUnreached` is not inductive: it does not say that the
two colours are apart, nor what lies below a node of t1.  `DInv` adds that red and
blue are, among the active leaves, all there is below two nodes of t1
(`Grouped`), that what is active in the main loop is incompatible, and that the
views fit (`ViewsFit`).  Resolving a pair deactivates one leaf of it, of one
colour (`OneLeft`), which keeps both groups and leaves each a leaf.

### What stays with TLC

- Liveness (`EventuallyOutput`, `EventuallyConcludes`, `EventuallySolved`,
  `EventuallyDone`): fairness and `ENABLED` are out of the prover's reach.
- Optimality on three trees and more, where `ExhaustedIsOptimal` is false
  (finding TwoSplittingLabels) and BoundedDepth shows `FirstBoundedSolutionIsOptimal`
  on its instances only.
- `SeedIsThreeApproximation`: the analysis of an approximation algorithm, which
  charges the cuts of a whole descent to those of an optimal forest.
- `BoundIsSound` of the dual bounds: the analysis of an approximation algorithm,
  whose dual variables are feasible for a linear program the code never writes
  down.
- The pipeline: its answers are folded over clusters and chains of any number,
  and what a fold computes for every input takes an induction over data.

## 6. Not modelled

- Vendored UWrMaxSat (with its SAT solvers, under `src/lib`), which is by far the
  larger part of the repository: third-party code, modelled from how
  `IncrementalMAFSolver` uses it, as an oracle for a smallest set of edges that
  meets the clauses.  The share of all source lines the modules translate is
  small for this reason; the solver's own code is about 13 000 lines, tests and
  tools included.
- Parsing and printing of Newick: text, of which only the trees matter here.
- Plugins: observers that count and print and change nothing.
- TrivialSolver, the command line, tests and CI scripts; rules that only
  `main.cpp` or tests list (`basicRules`, `EqualForestsRule`, and the
  `isApplicable` of rules that `allRules` constructs itself).
- The floating-point evaluation of `certifiedCeiling` with its nudge: whether it
  equals the exact floor is a question about IEEE arithmetic.
- That the MaxSAT solver works on a copy of the instance: both models give it
  trees of its own, and what a shared instance would do to it is not shown.
- `isValid`, the check the tests call on a forest: `IsValid` of PointerForest
  states what the code relies on instead, as the code's own version does not fit
  forests with more than 64 labels or collapsed nodes.
- The search inside a cluster as steps: it is one step of ReductionPipeline,
  since BranchingSolver shows what a search answers.  The `-0.5` of a cluster's
  root is a choice among answers there, not a weight in the pruning of the
  search.
