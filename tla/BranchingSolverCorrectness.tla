---------------------- MODULE BranchingSolverCorrectness ----------------------
(***************************************************************************)
(* What the branching solver has to guarantee.                             *)
(***************************************************************************)
EXTENDS BranchingSolver, AgreementForest

-----------------------------------------------------------------------------
(* Answers.                                                                *)

\* RunResult::Exhausted: "search tree fully explored; incumbent is the true
\* optimum" (BranchingSolver.hpp).
ExhaustedIsOptimal ==
    (pc = "stopped" /\ result = "Exhausted" /\ Searching)
        => best = Optimum(trees)

\* A bounded-depth search deepens by one until a solution fits, so the first
\* one it finds is a maximum agreement forest, in place in the instance.
FirstBoundedSolutionIsOptimal ==
    (pc = "stopped" /\ result = "Solved" /\ Bounded)
        => Weight = Optimum(trees)

\* The sharp Whidden-Zeh cut of ForcedCherryCutRule: on two trees the seed
\* needs at most three times the cuts of a maximum agreement forest
\* (BranchingSolverConfiguration::approximationRules).
SeedIsThreeApproximation ==
    (pc = "reseeding" /\ applied = <<>> /\ NumTrees = 2)
        => best - 1 <= 3 * (Optimum(trees) - 1)

\* Whatever ended the search, with pauses and adopted bounds in between: what
\* is written meets the threshold in force or is a maximum agreement forest.
EmittedIsCertifiedOrOptimal ==
    (pc = "output" /\ ~ Bounded /\ ~ timeout)
        => best <= threshold \/ best = Optimum(trees)

\* What reaches the output block: every forest has the same components, they
\* are an agreement forest of the input, restored to full subtrees of the
\* input, and there are as many as bestSolutionWeight says.  Covers the
\* replay of the clones in finalize and the out-of-order unapplyReductions.
OutputIsAgreementForest ==
    pc = "output" =>
        /\ IsAgreementForest(Roots(forests[1]), trees)
        /\ \A i \in TreeIds :
              forests[i] = UNION {Induced(trees[i], b) : b \in Roots(forests[1])}
        /\ ~ Bounded => NumComponents(forests[1]) = best

\* On the lower-bound track the search keeps what the coordinator relies on:
\* SearchContract, seen through stage, pc and result.
Answer ==
    IF stage = "approximation" \/ pc = "idle" THEN "Idle"
    ELSE IF result \in {"Solved", "Exhausted"} THEN result
    ELSE IF pc = "stopped" THEN "Paused"
    ELSE "Running"

Contract == INSTANCE SearchContract
    WITH problem <- trees, OptimumOf <- Optimum, incumbent <- best,
         answer <- Answer

KeepsSearchContract == Contract!Spec

-----------------------------------------------------------------------------
(* Undo.                                                                   *)

\* Wherever every applied rule has been undone, while backtracking to the
\* root, unwinding for a timeout or after the approximation, the forests are
\* the input again and no edge is protected.
UnwoundIsPristine ==
    (applied = <<>> /\ current = <<>>) => forests = trees /\ protected = {}

\* context->protectedEdges is exactly what the rules now applied have put
\* there, each edge by one of them, so that undoing one rule never lifts the
\* protection another one relies on.
ProtectionsAreOwned ==
    LET rules == applied \o current
    IN  /\ protected = UNION {rules[k].shields : k \in DOMAIN rules}
        /\ \A j, k \in DOMAIN rules :
              j # k => rules[j].shields \cap rules[k].shields = {}

\* finalize ignores the return codes of the rules it replays: none of them
\* meets a protected edge, so every one is applied in full.  A root has no
\* edge above it, and is passed over whatever is protected.
ReplayMeetsNoProtection ==
    (Replaying /\ EditsLeft /\ IsCut /\ HasParent(ThisForest, EditTarget))
        => <<ThisTree, EditTarget>> \notin protected

-----------------------------------------------------------------------------
(* Preconditions.                                                          *)

\* EqualPairReductionRule collapses a and c only where they are siblings,
\* in every forest, also when ABCBranchingRule suggested it.
MergeIsCherry ==
    (EditsLeft /\ ~ IsCut) => AreSiblings(ThisForest, ThisEdit.label,
                                          ThisEdit.mate)

\* The exceptions, null and stale pointers of the code are out of reach: an
\* exhausted branching rule applied again, DeleteEdgeAction on a root, a
\* b-node that is no longer in the forest, the missing sibling in
\* ForcedCherryCutRule.
NothingThrows ==
    /\ (pc = "top" /\ applyNext # <<>>) => Enterable(Head(applyNext))
    /\ (pc = "replaying" /\ index <= Len(solution))
            => Enterable(solution[index])
    /\ EditsLeft => EditTarget \in ThisForest
    /\ (EditsLeft /\ IsCut /\ ~ ToleratesRoot)
            => HasParent(ThisForest, EditTarget)

\* DebugAssertFalseRule, last in the list, would end the search and report it
\* exhausted: some other rule always applies.
SomeRuleAlwaysApplies ==
    current # <<>> => Rule0.name # "DebugAssertFalse"

-----------------------------------------------------------------------------
(* Progress.                                                               *)

\* However often the search is paused, calling advanceSearch again gets it
\* done: a slice whose deadline has passed already still makes a step.
EventuallyOutput == <>(pc = "output")

=============================================================================
