--------------------------- MODULE BranchingSolver ---------------------------
(***************************************************************************)
(* The branch-and-bound search of solver::BranchingSolver, together with   *)
(* the approximation run that seeds it (startSolver, seedFromApproximation)*)
(* and the unapplyReductions call that ends it.                            *)
(*                                                                         *)
(* The grain of atomicity is one edit of one forest: applying a rule and   *)
(* undoing it both take several steps, and SIGTERM may arrive between any  *)
(* two of them.  pc is the place in the code:                              *)
(*                                                                         *)
(*   idle          before a call of advanceSearch                          *)
(*   top           head of its loop                                        *)
(*   applying      inside current->apply()                                 *)
(*   endOfBranch   entry of rollBackBranch                                 *)
(*   backtracking  its loop                                                *)
(*   abandoning    unwindAppliedRules, called because of a timeout         *)
(*   stopped       advanceSearch has returned result                       *)
(*   unwinding     finalize, unwindAppliedRules                            *)
(*   replaying     finalize, between two rules of solutionBranch           *)
(*   finished      finalize has returned                                   *)
(*   reseeding     unapplySolutionBranch after the approximation           *)
(*   restoring     unapplyReductions                                       *)
(*   output        the forests are ready to be written                     *)
(***************************************************************************)
EXTENDS BranchingRules

CONSTANTS
    Instances,          \* the tree tuples to solve
    Seeded,             \* run the approximation first
    Bounded,            \* boundedDephtSearch
    SigtermArmed,       \* a timeout flag is registered and may be raised
    PauseArmed,         \* the caller sets pause deadlines
    CertifiedEarlyExit, \* config.certifiedEarlyExit
    Thresholds,         \* values certifiedThreshold may be given
    Infinity            \* bestSolutionWeight = INFINITY

ASSUME InstancesAreForests ==
    /\ Instances \subseteq [TreeIds -> Forest]
    /\ \A ts \in Instances : \A i \in TreeIds : WellFormed(ts[i])
\* What the Newick reader builds: one tree with a leaf for every label.
ASSUME InstancesAreTrees ==
    \A ts \in Instances : \A i \in TreeIds :
        Labels \in ts[i] /\ \A l \in Labels : {l} \in ts[i]
ASSUME SwitchesAreBoolean ==
    {Seeded, Bounded, SigtermArmed, PauseArmed, CertifiedEarlyExit}
        \subseteq BOOLEAN
ASSUME SeedsAreUnbounded == Seeded => ~ Bounded
ASSUME ThresholdsAreIntegers == Thresholds \subseteq Int
\* A weight never exceeds the label count.
ASSUME InfinityIsBeyond ==
    /\ Infinity \in Nat
    /\ Infinity > Cardinality(Labels)
    /\ \A t \in Thresholds : Infinity > t

NoThreshold == -1

VARIABLES
    trees,       \* the input
    forests,     \* the instance as edited
    stage,       \* which solver runs: "approximation" or "search"
    applied,     \* appliedRules
    applyNext,   \* the queue of rules to apply before any other
    solution,    \* solutionBranch
    best,        \* context->bestSolutionWeight
    maxSize,     \* context->maxSolutionSize
    protected,   \* context->protectedEdges
    threshold,   \* context->certifiedThreshold
    timeout,     \* *timeoutFlag
    pc,
    result,      \* what advanceSearch returned last
    progressed,  \* madeProgressThisCall
    current,     \* the rule being applied, as <<rule>>, or <<>>
    cursor,      \* the next edit of its plan, <<tree, position>>
    index        \* the loop position of finalize and unapplyReductions

vars == <<trees, forests, stage, applied, applyNext, solution, best, maxSize,
          protected, threshold, timeout, pc, result, progressed, current,
          cursor, index>>

search == <<trees, stage, solution, best, maxSize, threshold, timeout>>

PcValues == {"idle", "top", "applying", "endOfBranch", "backtracking",
             "abandoning", "stopped", "unwinding", "replaying", "finished",
             "reseeding", "restoring", "output"}

RunResults == {"None", "Solved", "Paused", "Exhausted"}

\* The variables keep their types.
TypeOK ==
    /\ trees \in Instances
    /\ forests \in [TreeIds -> Forest]
    /\ stage \in {"approximation", "search"}
    /\ {applied, applyNext, solution, current} \subseteq Seq(Rule)
    /\ {best, maxSize, index} \subseteq Nat
    /\ protected \subseteq ProtectedEdge
    /\ threshold \in Int
    /\ {timeout, progressed} \subseteq BOOLEAN
    /\ pc \in PcValues
    /\ result \in RunResults
    /\ cursor \in Nat \X Nat

Init ==
    /\ trees \in Instances
    /\ forests = trees
    /\ stage = IF Seeded THEN "approximation" ELSE "search"
    /\ applied = <<>>
    /\ applyNext = <<>>
    /\ solution = <<>>
    /\ best = Infinity
    /\ maxSize = 1
    /\ protected = {}
    /\ threshold \in {NoThreshold} \cup Thresholds
    /\ timeout = FALSE
    /\ pc = "idle"
    /\ result = "None"
    /\ progressed = FALSE
    /\ current = <<>>
    /\ cursor = <<0, 0>>
    /\ index = 0

-----------------------------------------------------------------------------
(* advanceSearch: the head of the loop.                                    *)

Searching == stage = "search"

Weight == NumComponents(forests[1])

\* Mutant: an incumbent as good as the threshold is not good enough.
CertifiedStrictly ==
    /\ Searching /\ CertifiedEarlyExit
    /\ solution # <<>>
    /\ best < threshold

Certified ==
    /\ Searching /\ CertifiedEarlyExit
    /\ solution # <<>>
    /\ best <= threshold

TimedOut == Searching /\ timeout /\ solution # <<>>

IncumbentCertifies == best # Infinity /\ best <= threshold

\* A call, the first one or one that resumes a paused search.
CallAdvanceSearch ==
    /\ pc = "idle" \/ (pc = "stopped" /\ result = "Paused")
    /\ pc' = "top"
    /\ progressed' = FALSE
    /\ UNCHANGED <<search, forests, applied, applyNext, protected, result,
                   current, cursor, index>>

ReturnSolved ==
    /\ pc = "top"
    /\ Certified \/ TimedOut
    /\ pc' = "stopped"
    /\ result' = "Solved"
    /\ UNCHANGED <<search, forests, applied, applyNext, protected, progressed,
                   current, cursor, index>>

\* Mutant: a slice may pause before it has made a step.
ReturnPausedAtOnce ==
    /\ pc = "top"
    /\ ~ Certified /\ ~ TimedOut
    /\ Searching /\ PauseArmed
    /\ pc' = "stopped"
    /\ result' = "Paused"
    /\ UNCHANGED <<search, forests, applied, applyNext, protected, progressed,
                   current, cursor, index>>

\* pauseReached(): the clock may have passed the deadline, or not.
ReturnPaused ==
    /\ pc = "top"
    /\ ~ Certified /\ ~ TimedOut
    /\ Searching /\ PauseArmed /\ progressed
    /\ pc' = "stopped"
    /\ result' = "Paused"
    /\ UNCHANGED <<search, forests, applied, applyNext, protected, progressed,
                   current, cursor, index>>

\* Mutant: prunes a branch that could still improve by one.
TooLargeByOne ==
    \E i \in TreeIds :
        IF Bounded THEN NumComponents(forests[i]) > maxSize
                   ELSE NumComponents(forests[i]) + 1 >= best

TooLarge ==
    \E i \in TreeIds :
        IF Bounded THEN NumComponents(forests[i]) > maxSize
                   ELSE NumComponents(forests[i]) >= best

ActiveRules ==
    IF Searching
    THEN FirstApplicable(forests, TooLarge, AllRules(trees[1], forests))
    ELSE FirstApplicable(forests, FALSE, ApproximationRules(trees[1], forests))

\* AbstractBranchingRule::apply throws when all branches were taken.
Enterable(r) == ~ (IsBranching(r) /\ IsFullyExplored(r))

\* apply() up to its first edit.
EnterRule(r) ==
    LET entered == IF IsBranching(r) THEN [r EXCEPT !.branch = @ + 1] ELSE r
    IN  /\ Enterable(r)
        /\ current' = <<entered>>
        /\ cursor' = <<1, 1>>
        /\ pc' = "applying"

ApplyQueuedRule ==
    /\ pc = "top"
    /\ ~ Certified /\ ~ TimedOut
    /\ applyNext # <<>>
    /\ EnterRule(Head(applyNext))
    /\ applyNext' = Tail(applyNext)
    /\ UNCHANGED <<search, forests, applied, protected, result, progressed,
                   index>>

SelectsRule ==
    /\ pc = "top"
    /\ ~ Certified /\ ~ TimedOut
    /\ applyNext = <<>>

ApplyActiveRule ==
    /\ SelectsRule
    /\ \E r \in ActiveRules : EnterRule(r)
    /\ UNCHANGED <<search, forests, applied, applyNext, protected, result,
                   progressed, index>>

-----------------------------------------------------------------------------
(* Inside apply(): one edit at a time.                                     *)

InApply == pc = "applying"

Rule0 == current[1]
ThisTree == cursor[1]
ThisForest == forests[ThisTree]
InForestLoop == InApply /\ ThisTree \in TreeIds
EditsHere == PlanOf(Rule0)[ThisTree]
EditsLeft == InForestLoop /\ cursor[2] <= Len(EditsHere)
ThisEdit == EditsHere[cursor[2]]

\* The node an edit is about, looked up when the edit is executed.
EditTarget ==
    CASE ThisEdit.kind = "isolate" -> TerminalOf(ThisForest, ThisEdit.label)
      [] ThisEdit.kind \in {"prune", "detach"} -> ThisEdit.node
      [] ThisEdit.kind = "merge" ->
             Parent(ThisForest, TerminalOf(ThisForest, ThisEdit.label))

IsCut == ThisEdit.kind # "merge"
ToleratesRoot == ThisEdit.kind \in {"isolate", "detach"}

\* The replay of finalize, in which return codes are ignored.
Replaying == index > 0

GoToNextEdit == cursor' = <<ThisTree, cursor[2] + 1>>

NextForest ==
    /\ InForestLoop
    /\ ~ EditsLeft
    /\ cursor' = <<ThisTree + 1, 1>>
    /\ UNCHANGED <<search, forests, applied, applyNext, protected, pc, result,
                   progressed, current, index>>

SkipEdit ==
    /\ EditsLeft /\ IsCut /\ ToleratesRoot
    /\ ~ HasParent(ThisForest, EditTarget)
    /\ GoToNextEdit
    /\ UNCHANGED <<search, forests, applied, applyNext, protected, pc, result,
                   progressed, current, index>>

\* Mutant: claims an edge another rule protects already.
NewShieldsUnchecked ==
    IF ThisEdit.kind = "isolate" /\ ThisEdit.mate # NoLabel
    THEN {<<ThisTree, TerminalOf(ThisForest, ThisEdit.mate)>>}
    ELSE {}

NewShields ==
    IF ThisEdit.kind = "isolate" /\ ThisEdit.mate # NoLabel
    THEN {<<ThisTree, TerminalOf(ThisForest, ThisEdit.mate)>>} \ protected
    ELSE {}

CutNode ==
    /\ EditsLeft /\ IsCut
    /\ EditTarget \in ThisForest
    /\ HasParent(ThisForest, EditTarget)
    /\ <<ThisTree, EditTarget>> \notin protected
    /\ forests' = [forests EXCEPT ![ThisTree] = CutEdge(@, EditTarget)]
    /\ current' = <<[Rule0 EXCEPT
           !.changes = Append(@,
               [kind |-> "cut", tree |-> ThisTree, node |-> EditTarget,
                sibling |-> Sibling(ThisForest, EditTarget), kids |-> {}]),
           !.shields = @ \cup NewShields]>>
    /\ protected' = protected \cup NewShields
    /\ GoToNextEdit
    /\ UNCHANGED <<search, applied, applyNext, pc, result, progressed, index>>

CollapseNode ==
    /\ EditsLeft /\ ~ IsCut
    /\ EditTarget \in ThisForest
    /\ forests' = [forests EXCEPT ![ThisTree] = CollapseAt(@, EditTarget)]
    /\ current' = <<[Rule0 EXCEPT
           !.changes = Append(@,
               [kind |-> "collapse", tree |-> ThisTree, node |-> EditTarget,
                sibling |-> NullNode,
                kids |-> Below(ThisForest, EditTarget)])]>>
    /\ GoToNextEdit
    /\ UNCHANGED <<search, applied, applyNext, protected, pc, result,
                   progressed, index>>

-----------------------------------------------------------------------------
(* The return of apply() and its return code.                              *)

LeaveApply ==
    /\ applied' = Append(applied, Rule0)
    /\ current' = <<>>
    /\ cursor' = <<0, 0>>

ReturnToReplay ==
    /\ pc' = "replaying"
    /\ index' = index + 1
    /\ UNCHANGED <<search, forests, applyNext, protected, result, progressed>>

\* A protected edge is in the way: CutBranch, with the edits made so far.
ApplyBlocked ==
    /\ EditsLeft /\ IsCut
    /\ <<ThisTree, EditTarget>> \in protected
    /\ ToleratesRoot => HasParent(ThisForest, EditTarget)
    /\ LeaveApply
    /\ IF Replaying THEN ReturnToReplay
       ELSE /\ pc' = "endOfBranch"
            /\ progressed' = TRUE
            /\ UNCHANGED <<search, forests, applyNext, protected, result,
                           index>>

ApplyDone == InApply /\ ~ InForestLoop

ReplayedRule == ApplyDone /\ Replaying /\ LeaveApply /\ ReturnToReplay

Returns(codes) ==
    /\ ApplyDone /\ ~ Replaying
    /\ Rule0.name \in codes
    /\ LeaveApply
    /\ progressed' = TRUE
    /\ UNCHANGED <<forests, protected, index>>

\* Mutant: the depth grows by two.
SearchSpaceDoneByTwo ==
    IF Bounded
    THEN maxSize' = maxSize + 2 /\ pc' = "top" /\ UNCHANGED result
    ELSE pc' = "stopped" /\ result' = "Exhausted" /\ UNCHANGED maxSize

\* calculationFinished
SearchSpaceDone ==
    IF Bounded
    THEN maxSize' = maxSize + 1 /\ pc' = "top" /\ UNCHANGED result
    ELSE pc' = "stopped" /\ result' = "Exhausted" /\ UNCHANGED maxSize

Suggestions ==
    IF Rule0.name = "ABC" /\ Rule0.branch = 1
    THEN <<EqualPairRule(Rule0.a, Rule0.c)>> ELSE <<>>

ReturnContinue ==
    /\ Returns(RuleNames \ {"CheckSingleVertexTrees", "CutBranch",
                            "DebugAssertFalse"})
    /\ applyNext' = applyNext \o Suggestions
    /\ pc' = "top"
    /\ UNCHANGED <<search, result>>

\* CutBranch ends the branch, ImidateReturn the whole search.
ReturnCutBranch ==
    /\ Returns({"CutBranch", "DebugAssertFalse"})
    /\ IF Rule0.name = "CutBranch"
       THEN pc' = "endOfBranch" /\ UNCHANGED <<maxSize, result>>
       ELSE SearchSpaceDone
    /\ UNCHANGED <<trees, stage, solution, best, threshold, timeout,
                   applyNext>>

\* EndBranchWithSolutionCandidate in a bounded-depth search.
ReturnBoundedSolution ==
    /\ Returns({"CheckSingleVertexTrees"})
    /\ Bounded
    /\ pc' = "stopped"
    /\ result' = "Solved"
    /\ UNCHANGED <<search, applyNext>>

\* checkSolutionCandidate
ReturnSolutionCandidate ==
    /\ Returns({"CheckSingleVertexTrees"})
    /\ ~ Bounded
    /\ IF best > Weight
       THEN /\ best' = Weight
            /\ solution' = [k \in DOMAIN applied' |-> Clone(applied'[k])]
       ELSE UNCHANGED <<best, solution>>
    /\ pc' = "endOfBranch"
    /\ UNCHANGED <<trees, stage, maxSize, threshold, timeout, applyNext,
                   result>>

-----------------------------------------------------------------------------
(* unapply(): one recorded change at a time, newest first.                 *)

LastRule == applied[Len(applied)]

Undone(F, change) ==
    IF change.kind = "cut" THEN UncutEdge(F, change.node, change.sibling)
    ELSE UncollapseAt(F, change.kids)

Unapplying == {"backtracking", "abandoning", "unwinding", "reseeding"}

\* Mutant: the changes of a rule are undone oldest first.
UndoOldestChange ==
    /\ pc \in Unapplying
    /\ applied # <<>>
    /\ LastRule.changes # <<>>
    /\ LET change == Head(LastRule.changes)
       IN  forests' = [forests EXCEPT ![change.tree] = Undone(@, change)]
    /\ applied' = [applied EXCEPT ![Len(applied)].changes = Tail(@)]
    /\ UNCHANGED <<search, applyNext, protected, pc, result, progressed,
                   current, cursor, index>>

UndoChange ==
    /\ pc \in Unapplying
    /\ applied # <<>>
    /\ LastRule.changes # <<>>
    /\ LET change == Last(LastRule.changes)
       IN  forests' = [forests EXCEPT ![change.tree] = Undone(@, change)]
    /\ applied' = [applied EXCEPT ![Len(applied)].changes = Front(@)]
    /\ UNCHANGED <<search, applyNext, protected, pc, result, progressed,
                   current, cursor, index>>

\* Mutant: unapply() leaves its protections behind.
PopRuleKeepingShields ==
    /\ applied # <<>>
    /\ LastRule.changes = <<>>
    /\ protected' = protected
    /\ applied' = Front(applied)

\* The end of unapply() and the pop from appliedRules.
PopRule ==
    /\ applied # <<>>
    /\ LastRule.changes = <<>>
    /\ protected' = protected \ LastRule.shields
    /\ applied' = Front(applied)

DiscardRule ==
    /\ pc \in Unapplying
    /\ PopRule
    /\ pc = "backtracking" =>
           ~ IsBranching(LastRule) \/ IsFullyExplored(LastRule)
    /\ UNCHANGED <<search, forests, applyNext, pc, result, progressed,
                   current, cursor, index>>

-----------------------------------------------------------------------------
(* rollBackBranch.                                                         *)

AbandonBranch ==
    /\ pc = "endOfBranch"
    /\ TimedOut
    /\ applyNext' = <<>>
    /\ pc' = "abandoning"
    /\ UNCHANGED <<search, forests, applied, protected, result, progressed,
                   current, cursor, index>>

RollBackBranch ==
    /\ pc = "endOfBranch"
    /\ ~ TimedOut
    /\ applyNext' = <<>>
    /\ pc' = "backtracking"
    /\ UNCHANGED <<search, forests, applied, protected, result, progressed,
                   current, cursor, index>>

\* A branching rule with a branch left is queued to be applied again.
EnterNextBranch ==
    /\ pc = "backtracking"
    /\ PopRule
    /\ IsBranching(LastRule)
    /\ ~ IsFullyExplored(LastRule)
    /\ applyNext' = <<[LastRule EXCEPT !.shields = {}]>>
    /\ pc' = "top"
    /\ UNCHANGED <<search, forests, result, progressed, current, cursor,
                   index>>

NothingLeft ==
    /\ pc \in {"backtracking", "abandoning"}
    /\ applied = <<>>
    /\ SearchSpaceDone
    /\ UNCHANGED <<trees, stage, solution, best, threshold, timeout, forests,
                   applied, applyNext, protected, progressed, current, cursor,
                   index>>

-----------------------------------------------------------------------------
(* finalize, unapplySolutionBranch and unapplyReductions.                  *)

\* Mutant: a paused search is finalized whatever its incumbent is worth.
FinalizeUncertified ==
    /\ pc = "stopped"
    /\ IF Bounded
       THEN pc' = "finished" /\ UNCHANGED applyNext
       ELSE pc' = "unwinding" /\ applyNext' = <<>>
    /\ UNCHANGED <<search, forests, applied, protected, result, progressed,
                   current, cursor, index>>

Finalize ==
    /\ pc = "stopped"
    /\ result = "Paused" => IncumbentCertifies
    /\ IF Bounded
       THEN pc' = "finished" /\ UNCHANGED applyNext
       ELSE pc' = "unwinding" /\ applyNext' = <<>>
    /\ UNCHANGED <<search, forests, applied, protected, result, progressed,
                   current, cursor, index>>

StartReplay ==
    /\ pc = "unwinding"
    /\ applied = <<>>
    /\ pc' = "replaying"
    /\ index' = 1
    /\ UNCHANGED <<search, forests, applied, applyNext, protected, result,
                   progressed, current, cursor>>

ReplayRule ==
    /\ pc = "replaying"
    /\ index <= Len(solution)
    /\ EnterRule(solution[index])
    /\ UNCHANGED <<search, forests, applied, applyNext, protected, result,
                   progressed, index>>

EndReplay ==
    /\ pc = "replaying"
    /\ index > Len(solution)
    /\ pc' = "finished"
    /\ index' = 0
    /\ UNCHANGED <<search, forests, applied, applyNext, protected, result,
                   progressed, current, cursor>>

\* seedFromApproximation takes the size and rolls the branch back.
TakeSeed ==
    /\ pc = "finished"
    /\ ~ Searching
    /\ best' = Weight
    /\ pc' = "reseeding"
    /\ UNCHANGED <<trees, stage, solution, maxSize, threshold, timeout,
                   forests, applied, applyNext, protected, result, progressed,
                   current, cursor, index>>

\* Mutant: the branch is read after unapplySolutionBranch has cleared it.
SeedSearchWithoutBranch ==
    /\ pc = "reseeding"
    /\ applied = <<>>
    /\ stage' = "search"
    /\ pc' = "idle"
    /\ result' = "None"
    /\ progressed' = FALSE
    /\ solution' = <<>>
    /\ UNCHANGED <<trees, best, maxSize, threshold, timeout, forests, applied,
                   applyNext, protected, current, cursor, index>>

\* seedSolution on the solver of the search.
SeedSearch ==
    /\ pc = "reseeding"
    /\ applied = <<>>
    /\ stage' = "search"
    /\ pc' = "idle"
    /\ result' = "None"
    /\ progressed' = FALSE
    /\ UNCHANGED <<trees, solution, best, maxSize, threshold, timeout,
                   forests, applied, applyNext, protected, current, cursor,
                   index>>

UnapplyReductions ==
    /\ pc = "finished"
    /\ Searching
    /\ pc' = "restoring"
    /\ index' = Len(applied)
    /\ UNCHANGED <<search, forests, applied, applyNext, protected, result,
                   progressed, current, cursor>>

\* Mutant: the first rule is not looked at.
PendingReductionButFirst ==
    /\ index > 1
    /\ IsReduction(applied[index])
    /\ applied[index].changes # <<>>

PendingReduction ==
    /\ index > 0
    /\ IsReduction(applied[index])
    /\ applied[index].changes # <<>>

UndoReductionChange ==
    /\ pc = "restoring"
    /\ PendingReduction
    /\ LET change == Last(applied[index].changes)
       IN  forests' = [forests EXCEPT ![change.tree] = Undone(@, change)]
    /\ applied' = [applied EXCEPT ![index].changes = Front(@)]
    /\ UNCHANGED <<search, applyNext, protected, pc, result, progressed,
                   current, cursor, index>>

NextReduction ==
    /\ pc = "restoring"
    /\ ~ PendingReduction
    /\ IF index > 0 THEN index' = index - 1 /\ UNCHANGED pc
       ELSE pc' = "output" /\ UNCHANGED index
    /\ UNCHANGED <<search, forests, applied, applyNext, protected, result,
                   progressed, current, cursor>>

-----------------------------------------------------------------------------
(* The environment.                                                        *)

Sigterm ==
    /\ SigtermArmed
    /\ ~ timeout
    /\ pc # "output"
    /\ timeout' = TRUE
    /\ UNCHANGED <<trees, forests, stage, applied, applyNext, solution, best,
                   maxSize, protected, threshold, pc, result, progressed,
                   current, cursor, index>>

\* Between two calls the coordinator may adopt a better lower bound.
RaiseThreshold ==
    /\ pc = "stopped"
    /\ result = "Paused"
    /\ \E bound \in Thresholds : bound > threshold /\ threshold' = bound
    /\ UNCHANGED <<trees, forests, stage, applied, applyNext, solution, best,
                   maxSize, protected, timeout, pc, result, progressed,
                   current, cursor, index>>

\* The program ends after the output.
Terminated == pc = "output" /\ UNCHANGED vars

-----------------------------------------------------------------------------
AdvanceSearch ==
    \/ CallAdvanceSearch \/ ReturnSolved \/ ReturnPaused
    \/ ApplyQueuedRule

Apply ==
    \/ NextForest \/ SkipEdit \/ CutNode \/ CollapseNode
    \/ ApplyBlocked \/ ReplayedRule
    \/ ReturnContinue \/ ReturnCutBranch
    \/ ReturnBoundedSolution \/ ReturnSolutionCandidate

RollBack ==
    \/ UndoChange \/ DiscardRule
    \/ AbandonBranch \/ RollBackBranch \/ EnterNextBranch \/ NothingLeft

Finish ==
    \/ Finalize \/ StartReplay \/ ReplayRule \/ EndReplay
    \/ TakeSeed \/ SeedSearch
    \/ UnapplyReductions \/ UndoReductionChange \/ NextReduction

OtherStep == AdvanceSearch \/ Apply \/ RollBack \/ Finish

SolverStep == ApplyActiveRule \/ OtherStep

Next == SolverStep \/ Sigterm \/ RaiseThreshold \/ Terminated

\* One thread runs the solver; its caller resumes a paused search until the
\* budget ends, which is left to the coordinator.  FirstApplicable is never
\* empty, so SelectsRule is what enables ApplyActiveRule: the second conjunct
\* is weak fairness with that predicate in the place of ENABLED.
Fairness ==
    /\ WF_vars(OtherStep)
    /\ []<><<ApplyActiveRule>>_vars \/ []<>(~ SelectsRule)

Spec == Init /\ [][Next]_vars /\ Fairness
=============================================================================
