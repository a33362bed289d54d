------------------------ MODULE BranchingSolver_proofs ------------------------
(***************************************************************************)
(* For every set of trees and every mode of the search: the variables keep *)
(* their types, every protection has one owner, and undone rules leave the *)
(* input.                                                                  *)
(*                                                                         *)
(* What the solver writes is cut out of the input: when unapplyReductions  *)
(* has undone the collapses, and only them, every forest is what the cuts  *)
(* still applied leave of its tree, whatever was collapsed between them.   *)
(* While nodes are collapsed the forest is short of them.  The argument    *)
(* follows the forest the cuts alone would have left: the one in the       *)
(* instance with the swallowed nodes, those recorded by the collapses on   *)
(* the stack, put back.                                                    *)
(*                                                                         *)
(* What the solver meets on its way, and what it writes: every rule fits   *)
(* the forests it is applied to, the clones finalize replays lead where    *)
(* the rules they were cloned from led, and the components of the output   *)
(* are the same in every forest.                                           *)
(***************************************************************************)
EXTENDS BranchingSolverCorrectness, LaminarForest_proofs,
        BranchingRules_proofs, SequenceTheorems

-----------------------------------------------------------------------------
(* The shape of the rules the solver holds.                                *)

\* A rule that may be handed to apply(): new, cloned, or queued again.
Ready(r) ==
    /\ r \in Rule
    /\ r.plans # <<>>
    /\ PlansFit(r.name, r.plans)
    /\ r.changes = <<>>
    /\ r.shields = {}

\* A reduction has recorded collapses only, any other rule cuts only.
Recorded(r) ==
    \A q \in DOMAIN r.changes :
        IF IsReduction(r) THEN r.changes[q].kind = "collapse"
        ELSE r.changes[q].kind = "cut" /\ r.changes[q].kids = {}

\* A rule apply() was called on: a branching one is in one of its branches.
Entered(r) ==
    /\ r \in Rule
    /\ r.plans # <<>>
    /\ PlansFit(r.name, r.plans)
    /\ Recorded(r)
    /\ IsBranching(r) => r.branch \in 1..Len(r.plans)

Shape ==
    /\ TypeOK
    /\ IF pc = "applying" THEN Len(current) = 1 ELSE current = <<>>
    /\ \A k \in DOMAIN applied : Entered(applied[k])
    /\ \A k \in DOMAIN current : Entered(current[k])
    /\ \A k \in DOMAIN applyNext : Ready(applyNext[k])
    /\ \A k \in DOMAIN solution : Ready(solution[k])
    /\ pc = "applying" => cursor \in (Nat \ {0}) \X (Nat \ {0})
    /\ pc = "replaying" => index > 0
    /\ pc = "restoring" => index \in 0..Len(applied)

Entering(r) == IF IsBranching(r) THEN [r EXCEPT !.branch = @ + 1] ELSE r

\* A new rule may be applied.
LEMMA FreshIsReady == ASSUME NEW r, Fresh(r) PROVE Ready(r)
BY DEF Fresh, Ready

\* apply() on a rule that may be applied enters one of its branches, with
\* nothing edited and nothing protected so far.
LEMMA EnteringEnters ==
    ASSUME NEW r, Ready(r), Enterable(r)
    PROVE  /\ Entered(Entering(r))
           /\ Entering(r).changes = <<>> /\ Entering(r).shields = {}
<1>1. CASE IsBranching(r)
  <2>1. r.branch \in Nat /\ Len(r.plans) \in Nat /\ r.branch < Len(r.plans)
    BY <1>1 DEF Ready, Rule, Enterable, IsFullyExplored
  <2>2. Entering(r) = [r EXCEPT !.branch = @ + 1]
    BY <1>1 DEF Entering
  <2> QED
    BY <2>1, <2>2 DEF Ready, Rule, Entered, Recorded, IsBranching
<1>2. CASE ~ IsBranching(r)
  BY <1>2 DEF Entering, Ready, Entered, Recorded
<1> QED
  BY <1>1, <1>2

\* clone() of an applied rule may be applied, in the same branch.
LEMMA CloneIsReady ==
    ASSUME NEW r, Entered(r)
    PROVE  Ready(Clone(r))
<1> DEFINE b == IF IsBranching(r) THEN r.branch - 1 ELSE r.branch
<1>1. b \in Nat
  BY DEF Entered, Rule
<1>2. <<>> \in Seq(Change) /\ {} \in SUBSET ProtectedEdge
  OBVIOUS
<1>3. Clone(r) = [r EXCEPT !.branch = b, !.changes = <<>>, !.shields = {}]
  BY DEF Clone
<1> HIDE DEF b
<1>4. r \in Rule /\ r.plans # <<>> /\ PlansFit(r.name, r.plans)
  BY DEF Entered
<1>5. Clone(r) \in Rule
  BY <1>1, <1>2, <1>3, <1>4 DEF Rule
<1>6. /\ Clone(r).name = r.name
      /\ Clone(r).plans = r.plans /\ Clone(r).changes = <<>>
      /\ Clone(r).shields = {}
  BY <1>3, <1>4 DEF Rule
<1> QED
  BY <1>4, <1>5, <1>6 DEF Ready

\* A rule that records a change of the kind its plans are of is still entered,
\* whatever it protects.
LEMMA RecordingEnters ==
    ASSUME NEW r, Entered(r), NEW change \in Change,
           NEW shields \in SUBSET ProtectedEdge,
           IF IsReduction(r) THEN change.kind = "collapse"
           ELSE change.kind = "cut" /\ change.kids = {}
    PROVE  /\ Entered([r EXCEPT !.changes = Append(@, change), !.shields = shields])
           /\ Entered([r EXCEPT !.changes = Append(@, change)])
<1> DEFINE changes == Append(r.changes, change)
<1>1. r \in Rule /\ r.plans # <<>> /\ PlansFit(r.name, r.plans) /\ Recorded(r)
  BY DEF Entered
<1>2. /\ changes \in Seq(Change)
      /\ \A q \in DOMAIN changes : q \in DOMAIN r.changes \/ changes[q] = change
      /\ \A q \in DOMAIN r.changes : changes[q] = r.changes[q]
  BY <1>1 DEF Rule
<1> HIDE DEF changes
<1>3. ASSUME NEW rule \in Rule, rule.name = r.name, rule.plans = r.plans,
             rule.branch = r.branch, rule.changes = changes
      PROVE  Entered(rule)
  <2>1. Recorded(rule)
    BY <1>1, <1>2, <1>3 DEF Recorded, IsReduction
  <2> QED
    BY <1>1, <1>3, <2>1 DEF Entered, IsBranching
<1>4. /\ [r EXCEPT !.changes = changes, !.shields = shields] \in Rule
      /\ [r EXCEPT !.changes = changes] \in Rule
  BY <1>1, <1>2 DEF Rule
<1>5. /\ Entered([r EXCEPT !.changes = changes, !.shields = shields])
      /\ Entered([r EXCEPT !.changes = changes])
  BY <1>1, <1>3, <1>4 DEF Rule
<1> QED
  BY <1>5 DEF changes

\* So is a rule that forgets the last change it recorded.
LEMMA ForgettingEnters ==
    ASSUME NEW r, Entered(r), r.changes # <<>>
    PROVE  Entered([r EXCEPT !.changes = Front(@)])
<1> DEFINE changes == Front(r.changes)
           rule == [r EXCEPT !.changes = changes]
<1>1. r \in Rule /\ r.plans # <<>> /\ PlansFit(r.name, r.plans) /\ Recorded(r)
  BY DEF Entered
<1>2. /\ changes \in Seq(Change)
      /\ \A q \in DOMAIN changes : q \in DOMAIN r.changes /\ changes[q] = r.changes[q]
  BY <1>1 DEF Rule, Front
<1> HIDE DEF changes
<1>3. /\ rule \in Rule /\ rule.name = r.name /\ rule.plans = r.plans
      /\ rule.branch = r.branch /\ rule.changes = changes
  BY <1>1, <1>2 DEF Rule
<1> HIDE DEF rule
<1>4. Recorded(rule)
  BY <1>1, <1>2, <1>3 DEF Recorded, IsReduction
<1>5. Entered(rule)
  BY <1>1, <1>3, <1>4 DEF Entered, IsBranching
<1> QED
  BY <1>5 DEF rule, changes

\* Undoing a change gives sets of labels.
LEMMA UndoneIsForest ==
    ASSUME NEW F \in Forest, NEW change \in Change
    PROVE  Undone(F, change) \in Forest
BY DEF Undone, UncutEdge, UncollapseAt, Change, Forest, Node

\* The edit apply() is about to make.
LEMMA EditIsTyped ==
    ASSUME Shape, EditsLeft
    PROVE  /\ current = <<Rule0>> /\ Entered(Rule0)
           /\ ThisTree \in TreeIds /\ ThisForest \in Forest
           /\ cursor[2] \in Nat
           /\ ThisEdit \in Edit
           /\ IsReduction(Rule0) <=> ~ IsCut
<1>1. current \in Seq(Rule) /\ Len(current) = 1 /\ pc = "applying"
  BY DEF Shape, TypeOK, EditsLeft, InForestLoop, InApply
<1>2. current = <<Rule0>> /\ Entered(Rule0)
  BY <1>1 DEF Rule0, Shape
<1>3. ThisTree \in TreeIds /\ ThisForest \in Forest
  BY DEF Shape, TypeOK, EditsLeft, InForestLoop, ThisTree, ThisForest
<1>4. PlanOf(Rule0) \in Plan
  BY <1>2 DEF Entered, PlanOf, Rule
<1>5. EditsHere \in Seq(Edit)
  BY <1>3, <1>4 DEF EditsHere, Plan
<1>6. cursor[2] \in Nat /\ cursor[2] >= 1
  BY <1>1 DEF Shape
<1>7. ThisEdit \in Edit /\ cursor[2] \in DOMAIN EditsHere
  BY <1>5, <1>6 DEF EditsLeft, ThisEdit
<1>8. IsReduction(Rule0) <=> ~ IsCut
  <2>1. \E p \in DOMAIN Rule0.plans : PlanOf(Rule0) = Rule0.plans[p]
    BY <1>2 DEF Entered, PlanOf, Rule
  <2>2. IF Rule0.name = "EqualPair" THEN Merging(PlanOf(Rule0))
        ELSE Cutting(PlanOf(Rule0))
    BY <1>2, <2>1 DEF Entered, PlansFit
  <2> QED
    BY <1>3, <1>7, <2>2
       DEF Merging, Cutting, EditsHere, ThisEdit, IsCut, IsReduction
<1> QED
  BY <1>2, <1>3, <1>6, <1>7, <1>8

-----------------------------------------------------------------------------
(* Type correctness.  TypeOK is not inductive: apply() may only index the  *)
(* plan of the branch it is in, and unapplyReductions only rules that are  *)
(* there.                                                                  *)

\* The initial states have the shape.
LEMMA InitHasShape == Init => Shape
<1> SUFFICES ASSUME Init PROVE Shape
  OBVIOUS
<1>1. Infinity \in Nat
  BY InfinityIsBeyond
<1>2. threshold \in Int
  BY ThresholdsAreIntegers DEF Init, NoThreshold
<1>3. forests \in [TreeIds -> Forest]
  BY InstancesAreForests DEF Init
<1>4. {applied, applyNext, solution, current} \subseteq Seq(Rule)
  BY DEF Init
<1>5. trees \in Instances /\ cursor \in Nat \X Nat /\ protected \subseteq ProtectedEdge
  BY DEF Init
<1>6. {best, maxSize, index} \subseteq Nat
  BY <1>1 DEF Init
<1>7. /\ stage \in {"approximation", "search"} /\ pc \in PcValues
      /\ result \in RunResults
  BY DEF Init, PcValues, RunResults
<1>8. {timeout, progressed} \subseteq BOOLEAN
  BY Zenon DEF Init
<1>9. TypeOK
  BY <1>2, <1>3, <1>4, <1>5, <1>6, <1>7, <1>8 DEF TypeOK
<1> QED
  BY <1>9 DEF Init, Shape

\* A step of apply() or of its callers that enters a rule.
LEMMA EnteringKeepsShape ==
    ASSUME Shape, pc # "applying", NEW r, Ready(r), EnterRule(r),
           UNCHANGED <<search, forests, applied, protected, result,
                       progressed, index>>,
           \/ UNCHANGED applyNext
           \/ applyNext # <<>> /\ applyNext' = Tail(applyNext)
    PROVE  Shape'
<1>1. /\ current' = <<Entering(r)>> /\ cursor' = <<1, 1>> /\ pc' = "applying"
      /\ Enterable(r)
  BY DEF EnterRule, Entering
<1>2. Entered(Entering(r)) /\ Entering(r) \in Rule
  BY <1>1, EnteringEnters DEF Entered
<1>3. /\ applyNext' \in Seq(Rule)
      /\ \A k \in DOMAIN applyNext' : Ready(applyNext'[k])
  <2>1. /\ applyNext \in Seq(Rule)
        /\ \A k \in DOMAIN applyNext : Ready(applyNext[k])
    BY DEF Shape, TypeOK
  <2>2. CASE UNCHANGED applyNext
    BY <2>1, <2>2
  <2>3. CASE applyNext # <<>> /\ applyNext' = Tail(applyNext)
    <3>1. /\ applyNext' \in Seq(Rule)
          /\ \A k \in DOMAIN applyNext' :
                /\ k + 1 \in DOMAIN applyNext
                /\ applyNext'[k] = applyNext[k + 1]
      BY <2>1, <2>3
    <3> QED
      BY <2>1, <3>1
  <2> QED
    BY <2>2, <2>3
<1>4. TypeOK'
  BY <1>1, <1>2, <1>3 DEF Shape, TypeOK, search, PcValues
<1> QED
  BY <1>1, <1>2, <1>3, <1>4 DEF Shape, search

\* The return of apply(), wherever it leads.
LEMMA LeavingKeepsShape ==
    ASSUME Shape, pc = "applying", LeaveApply
    PROVE  /\ applied' \in Seq(Rule) /\ current' = <<>> /\ current' \in Seq(Rule)
           /\ cursor' \in Nat \X Nat
           /\ \A k \in DOMAIN applied' : Entered(applied'[k])
           /\ \A k \in DOMAIN current' : Entered(current'[k])
<1>1. current = <<Rule0>> /\ Entered(Rule0) /\ Rule0 \in Rule
  BY DEF Shape, TypeOK, Rule0, Entered
<1>2. applied' = Append(applied, Rule0) /\ current' = <<>> /\ cursor' = <<0, 0>>
  BY DEF LeaveApply
<1> QED
  BY <1>1, <1>2 DEF Shape, TypeOK

\* The rule activeRules selects may be applied.
LEMMA SelectedIsReady ==
    ASSUME Shape, NEW r \in ActiveRules
    PROVE  Ready(r)
<1>1. forests \in [TreeIds -> Forest] /\ TooLarge \in BOOLEAN
  BY DEF Shape, TypeOK, TooLarge
<1>2. Fresh(r)
  BY <1>1, SelectedRuleIsFresh DEF ActiveRules
<1> QED
  BY <1>2, FreshIsReady

\* The rule ABCBranchingRule suggests next carries the labels it was given.
LEMMA SuggestionsAreReady ==
    ASSUME Shape, pc = "applying"
    PROVE  /\ Suggestions \in Seq(Rule)
           /\ \A k \in DOMAIN Suggestions : Ready(Suggestions[k])
<1>1. current \in Seq(Rule) /\ Len(current) = 1
  BY DEF Shape, TypeOK
<1>2. Rule0 \in Rule
  BY <1>1 DEF Rule0
<1>3. Ready(EqualPairRule(Rule0.a, Rule0.c))
  BY <1>2, RulesAreFresh, FreshIsReady DEF Rule
<1>4. Suggestions \in {<<>>, <<EqualPairRule(Rule0.a, Rule0.c)>>}
  BY DEF Suggestions
<1>5. CASE Suggestions = <<>>
  BY <1>5
<1>6. CASE Suggestions = <<EqualPairRule(Rule0.a, Rule0.c)>>
  BY <1>3, <1>6 DEF Ready
<1> QED
  BY <1>4, <1>5, <1>6

\* Every step keeps the shape.
LEMMA NextKeepsShape == Shape /\ [Next]_vars => Shape'
<1> SUFFICES ASSUME Shape, [Next]_vars PROVE Shape'
  OBVIOUS
<1>t. TypeOK
  BY DEF Shape
<1>w. Weight \in Nat
  BY <1>t, ComponentsAreCounted, NumTreesIsPositive DEF Weight, TypeOK, TreeIds
<1>1. CASE CallAdvanceSearch
  BY <1>1 DEF CallAdvanceSearch, Shape, TypeOK, PcValues, search
<1>2. CASE ReturnSolved
  BY <1>2 DEF ReturnSolved, Shape, TypeOK, PcValues, RunResults, search
<1>3. CASE ReturnPaused
  BY <1>3 DEF ReturnPaused, Shape, TypeOK, PcValues, RunResults, search
<1>4. CASE ApplyQueuedRule
  <2>1. Ready(Head(applyNext))
    BY <1>4 DEF ApplyQueuedRule, Shape, TypeOK
  <2> QED
    BY <1>4, <2>1, EnteringKeepsShape DEF ApplyQueuedRule
<1>5. CASE ApplyActiveRule
  <2>1. PICK r \in ActiveRules : EnterRule(r)
    BY <1>5 DEF ApplyActiveRule
  <2> QED
    BY <1>5, <2>1, SelectedIsReady, EnteringKeepsShape
       DEF ApplyActiveRule, SelectsRule
<1>6. CASE NextForest
  BY <1>6 DEF NextForest, InForestLoop, InApply, TreeIds, ThisTree, Shape, TypeOK, search
<1>7. CASE SkipEdit
  BY <1>7 DEF SkipEdit, GoToNextEdit, EditsLeft, InForestLoop, InApply, TreeIds,
              ThisTree, Shape, TypeOK, search
<1>8. CASE CutNode
  <2>1. EditsLeft /\ pc = "applying"
    BY <1>8 DEF CutNode, EditsLeft, InForestLoop, InApply
  <2>2. /\ current = <<Rule0>> /\ Entered(Rule0) /\ Rule0 \in Rule
        /\ ThisTree \in TreeIds /\ ThisForest \in Forest /\ ThisEdit \in Edit
        /\ cursor[2] \in Nat /\ ~ IsReduction(Rule0)
    BY <1>8, <2>1, EditIsTyped DEF Entered, CutNode
  <2>3. EditTarget \in Node
    BY <1>8, <2>2 DEF CutNode, Forest
  <2>4. NewShields \subseteq ProtectedEdge
    BY <2>2, NavigationIsTyped DEF NewShields, ProtectedEdge
  <2> DEFINE change == [kind |-> "cut", tree |-> ThisTree, node |-> EditTarget,
                        sibling |-> Sibling(ThisForest, EditTarget), kids |-> {}]
             rule == [Rule0 EXCEPT !.changes = Append(@, change),
                                   !.shields = @ \cup NewShields]
  <2>5. change \in Change /\ change.kind = "cut" /\ change.kids = {}
    BY <2>2, <2>3, NavigationIsTyped DEF Change, Forest
  <2> HIDE DEF change
  <2>6. rule \in Rule /\ Entered(rule)
    <3>1. Rule0.shields \cup NewShields \in SUBSET ProtectedEdge
      BY <2>2, <2>4 DEF Rule
    <3>2. Entered(rule)
      BY <2>2, <2>5, <3>1, RecordingEnters
    <3> QED
      BY <3>2 DEF Entered
  <2>7. CutEdge(ThisForest, EditTarget) \in Forest
    BY <1>8, <2>2 DEF CutNode, CutEdge, Forest, Node
  <2>8. /\ forests' = [forests EXCEPT ![ThisTree] = CutEdge(ThisForest, EditTarget)]
        /\ current' = <<rule>>
        /\ protected' = protected \cup NewShields
        /\ cursor' = <<ThisTree, cursor[2] + 1>>
        /\ UNCHANGED <<search, applied, applyNext, pc, result, progressed, index>>
    BY <1>8 DEF CutNode, GoToNextEdit, ThisForest, change
  <2> HIDE DEF rule
  <2>9. TypeOK'
    BY <1>t, <2>2, <2>4, <2>6, <2>7, <2>8 DEF TypeOK, search, TreeIds
  <2> QED
    BY <2>1, <2>2, <2>6, <2>8, <2>9 DEF Shape, search, TreeIds
<1>9. CASE CollapseNode
  <2>1. EditsLeft /\ pc = "applying"
    BY <1>9 DEF CollapseNode, EditsLeft, InForestLoop, InApply
  <2>2. /\ current = <<Rule0>> /\ Entered(Rule0) /\ Rule0 \in Rule
        /\ ThisTree \in TreeIds /\ ThisForest \in Forest
        /\ cursor[2] \in Nat /\ IsReduction(Rule0)
    BY <1>9, <2>1, EditIsTyped DEF Entered, CollapseNode
  <2> DEFINE change == [kind |-> "collapse", tree |-> ThisTree,
                        node |-> EditTarget, sibling |-> NullNode,
                        kids |-> Below(ThisForest, EditTarget)]
             rule == [Rule0 EXCEPT !.changes = Append(@, change)]
  <2>3. change \in Change /\ change.kind = "collapse"
    BY <1>9, <2>2 DEF CollapseNode, Change, Forest, Node, NullNode, Below
  <2> HIDE DEF change
  <2>4. rule \in Rule /\ Entered(rule)
    BY <2>2, <2>3, RecordingEnters DEF Entered, Rule
  <2>5. CollapseAt(ThisForest, EditTarget) \in Forest
    BY <2>2 DEF CollapseAt, Forest
  <2>6. /\ forests' = [forests EXCEPT ![ThisTree] = CollapseAt(ThisForest, EditTarget)]
        /\ current' = <<rule>>
        /\ cursor' = <<ThisTree, cursor[2] + 1>>
        /\ UNCHANGED <<search, applied, applyNext, protected, pc, result,
                       progressed, index>>
    BY <1>9 DEF CollapseNode, GoToNextEdit, ThisForest, change
  <2> HIDE DEF rule
  <2>7. TypeOK'
    BY <1>t, <2>2, <2>4, <2>5, <2>6 DEF TypeOK, search, TreeIds
  <2> QED
    BY <2>1, <2>2, <2>4, <2>6, <2>7 DEF Shape, search, TreeIds
<1>10. CASE ApplyBlocked
  <2>1. pc = "applying" /\ LeaveApply
    BY <1>10 DEF ApplyBlocked, EditsLeft, InForestLoop, InApply
  <2>2. /\ pc' \in {"replaying", "endOfBranch"} /\ index' \in {index, index + 1}
        /\ progressed' = TRUE \/ UNCHANGED progressed
        /\ UNCHANGED <<search, forests, applyNext, protected, result>>
        /\ pc' = "replaying" => index' = index + 1
    BY <1>10 DEF ApplyBlocked, ReturnToReplay
  <2>3. index' \in Nat /\ (pc' = "replaying" => index' > 0)
    BY <1>t, <2>2 DEF TypeOK
  <2> QED
    BY <1>t, <2>1, <2>2, <2>3, LeavingKeepsShape DEF Shape, TypeOK, search, PcValues
<1>11. CASE ReplayedRule
  <2>1. pc = "applying" /\ LeaveApply
    BY <1>11 DEF ReplayedRule, ApplyDone, InApply
  <2> QED
    BY <1>t, <1>11, <2>1, LeavingKeepsShape
       DEF ReplayedRule, ReturnToReplay, Shape, TypeOK, search, PcValues
<1>12. CASE ReturnContinue
  <2>1. pc = "applying" /\ LeaveApply /\ UNCHANGED <<forests, protected, index>>
        /\ progressed' = TRUE
    BY <1>12 DEF ReturnContinue, Returns, ApplyDone, InApply
  <2>2. Suggestions \in Seq(Rule) /\ \A k \in DOMAIN Suggestions : Ready(Suggestions[k])
    BY <2>1, SuggestionsAreReady
  <2>3. /\ applyNext' \in Seq(Rule)
        /\ \A k \in DOMAIN applyNext' : Ready(applyNext'[k])
    <3>1. applyNext' = applyNext \o Suggestions
      BY <1>12 DEF ReturnContinue
    <3>2. applyNext \in Seq(Rule) /\ \A k \in DOMAIN applyNext : Ready(applyNext[k])
      BY <1>t DEF Shape, TypeOK
    <3>3. \A k \in DOMAIN applyNext' :
             \/ k \in DOMAIN applyNext /\ applyNext'[k] = applyNext[k]
             \/ /\ k - Len(applyNext) \in DOMAIN Suggestions
                /\ applyNext'[k] = Suggestions[k - Len(applyNext)]
      BY <2>2, <3>1, <3>2
    <3> QED
      BY <2>2, <3>1, <3>2, <3>3
  <2> QED
    BY <1>t, <1>12, <2>1, <2>3, LeavingKeepsShape
       DEF ReturnContinue, Shape, TypeOK, search, PcValues
<1>13. CASE ReturnCutBranch
  <2>1. pc = "applying" /\ LeaveApply /\ UNCHANGED <<forests, protected, index>>
        /\ progressed' = TRUE
    BY <1>13 DEF ReturnCutBranch, Returns, ApplyDone, InApply
  <2>2. /\ pc' \in {"endOfBranch", "top", "stopped"}
        /\ maxSize' \in {maxSize, maxSize + 1} /\ result' \in {result, "Exhausted"}
        /\ UNCHANGED <<trees, stage, solution, best, threshold, timeout, applyNext>>
    BY <1>13 DEF ReturnCutBranch, SearchSpaceDone
  <2> QED
    BY <1>t, <2>1, <2>2, LeavingKeepsShape DEF Shape, TypeOK, PcValues, RunResults
<1>14. CASE ReturnBoundedSolution
  <2>1. pc = "applying" /\ LeaveApply /\ UNCHANGED <<forests, protected, index>>
        /\ progressed' = TRUE
    BY <1>14 DEF ReturnBoundedSolution, Returns, ApplyDone, InApply
  <2> QED
    BY <1>t, <1>14, <2>1, LeavingKeepsShape
       DEF ReturnBoundedSolution, Shape, TypeOK, search, PcValues, RunResults
<1>15. CASE ReturnSolutionCandidate
  <2>1. pc = "applying" /\ LeaveApply /\ UNCHANGED <<forests, protected, index>>
        /\ progressed' = TRUE
    BY <1>15 DEF ReturnSolutionCandidate, Returns, ApplyDone, InApply
  <2>2. /\ applied' \in Seq(Rule)
        /\ \A k \in DOMAIN applied' : Entered(applied'[k])
    BY <2>1, LeavingKeepsShape
  <2> DEFINE clones == [k \in DOMAIN applied' |-> Clone(applied'[k])]
  <2>3. clones \in Seq(Rule) /\ \A k \in DOMAIN clones : Ready(clones[k])
    BY <2>2, CloneIsReady DEF Ready
  <2> HIDE DEF clones
  <2>4. /\ pc' = "endOfBranch" /\ best' \in {best, Weight}
        /\ solution' \in {solution, clones}
        /\ UNCHANGED <<trees, stage, maxSize, threshold, timeout, applyNext, result>>
    BY <1>15 DEF ReturnSolutionCandidate, clones
  <2>5. solution' \in Seq(Rule) /\ \A k \in DOMAIN solution' : Ready(solution'[k])
    BY <2>3, <2>4 DEF Shape, TypeOK
  <2> QED
    BY <1>t, <1>w, <2>1, <2>4, <2>5, LeavingKeepsShape DEF Shape, TypeOK, PcValues
<1>16. CASE UndoChange
  <2> DEFINE change == Last(LastRule.changes)
             rule == [LastRule EXCEPT !.changes = Front(@)]
  <2>1. /\ LastRule \in Rule /\ Entered(LastRule) /\ Len(applied) \in DOMAIN applied
    BY <1>16 DEF UndoChange, LastRule, Shape, TypeOK, Entered
  <2>2. change \in Change /\ Front(LastRule.changes) \in Seq(Change)
    BY <1>16, <2>1 DEF UndoChange, Rule, Last, Front
  <2> HIDE DEF change
  <2>3. forests' = [forests EXCEPT ![change.tree] = Undone(@, change)]
        /\ applied' = [applied EXCEPT ![Len(applied)] = rule]
        /\ pc \in Unapplying
        /\ UNCHANGED <<search, applyNext, protected, pc, result, progressed,
                       current, cursor, index>>
    BY <1>16 DEF UndoChange, change, LastRule
  <2>4. rule \in Rule /\ Entered(rule)
    BY <1>16, <2>1, ForgettingEnters DEF UndoChange, Entered
  <2> HIDE DEF rule
  <2>5. forests' \in [TreeIds -> Forest]
    BY <1>t, <2>2, <2>3, UndoneIsForest DEF TypeOK, Change
  <2>6. applied' \in Seq(Rule) /\ \A k \in DOMAIN applied' : Entered(applied'[k])
    BY <2>1, <2>3, <2>4 DEF Shape, TypeOK
  <2> QED
    BY <1>t, <2>3, <2>5, <2>6 DEF Shape, TypeOK, search, Unapplying
<1>17. CASE DiscardRule
  <2>1. applied' = Front(applied) /\ applied # <<>> /\ protected' \subseteq protected
    BY <1>17 DEF DiscardRule, PopRule
  <2>2. applied' \in Seq(Rule) /\ \A k \in DOMAIN applied' : Entered(applied'[k])
    <3>1. applied \in Seq(Rule) /\ \A k \in DOMAIN applied : Entered(applied[k])
      BY DEF Shape, TypeOK
    <3>2. applied' \in Seq(Rule)
      BY <2>1, <3>1 DEF Front
    <3>3. \A k \in DOMAIN applied' : k \in DOMAIN applied /\ applied'[k] = applied[k]
      BY <2>1, <3>1 DEF Front
    <3> QED
      BY <3>1, <3>2, <3>3
  <2> QED
    BY <1>t, <1>17, <2>1, <2>2 DEF DiscardRule, Unapplying, Shape, TypeOK, search
<1>18. CASE AbandonBranch
  BY <1>18 DEF AbandonBranch, Shape, TypeOK, PcValues, search
<1>19. CASE RollBackBranch
  BY <1>19 DEF RollBackBranch, Shape, TypeOK, PcValues, search
<1>20. CASE EnterNextBranch
  <2> DEFINE again == [LastRule EXCEPT !.shields = {}]
  <2>1. applied' = Front(applied) /\ applied # <<>> /\ LastRule.changes = <<>>
        /\ protected' \subseteq protected /\ applyNext' = <<again>>
        /\ pc' = "top"
        /\ UNCHANGED <<search, forests, result, progressed, current, cursor, index>>
    BY <1>20 DEF EnterNextBranch, PopRule
  <2>2. applied' \in Seq(Rule) /\ \A k \in DOMAIN applied' : Entered(applied'[k])
    <3>1. applied \in Seq(Rule) /\ \A k \in DOMAIN applied : Entered(applied[k])
      BY DEF Shape, TypeOK
    <3>2. applied' \in Seq(Rule)
      BY <2>1, <3>1 DEF Front
    <3>3. \A k \in DOMAIN applied' : k \in DOMAIN applied /\ applied'[k] = applied[k]
      BY <2>1, <3>1 DEF Front
    <3> QED
      BY <3>1, <3>2, <3>3
  <2>3. LastRule \in Rule /\ Entered(LastRule)
    BY <2>1 DEF LastRule, Shape, TypeOK
  <2>4. again \in Rule /\ Ready(again)
    BY <2>1, <2>3 DEF Rule, Entered, Ready
  <2> HIDE DEF again
  <2>5. pc = "backtracking"
    BY <1>20 DEF EnterNextBranch
  <2> QED
    BY <1>t, <2>1, <2>2, <2>4, <2>5 DEF Shape, TypeOK, search, PcValues
<1>21. CASE NothingLeft
  BY <1>21 DEF NothingLeft, SearchSpaceDone, Shape, TypeOK, PcValues, RunResults
<1>22. CASE Finalize
  <2>1. /\ pc' \in {"finished", "unwinding"} /\ applyNext' \in {applyNext, <<>>}
        /\ UNCHANGED <<search, forests, applied, protected, result, progressed,
                       current, cursor, index>>
        /\ pc = "stopped"
    BY <1>22 DEF Finalize
  <2>2. applyNext' \in Seq(Rule) /\ \A k \in DOMAIN applyNext' : Ready(applyNext'[k])
    <3>1. CASE applyNext' = applyNext
      BY <3>1 DEF Shape, TypeOK
    <3>2. CASE applyNext' = <<>>
      BY <3>2
    <3> QED
      BY <2>1, <3>1, <3>2
  <2> QED
    BY <2>1, <2>2 DEF Shape, TypeOK, PcValues, search
<1>23. CASE StartReplay
  BY <1>23 DEF StartReplay, Shape, TypeOK, PcValues, search
<1>24. CASE ReplayRule
  <2>1. Ready(solution[index])
    BY <1>24 DEF ReplayRule, Shape, TypeOK
  <2>2. UNCHANGED <<search, forests, applied, applyNext, protected, result,
                    progressed, index>> /\ pc = "replaying" /\ EnterRule(solution[index])
    BY <1>24 DEF ReplayRule
  <2> QED
    BY <2>1, <2>2, EnteringKeepsShape
<1>25. CASE EndReplay
  BY <1>25 DEF EndReplay, Shape, TypeOK, PcValues, search
<1>26. CASE TakeSeed
  BY <1>26, <1>w DEF TakeSeed, Shape, TypeOK, PcValues
<1>27. CASE SeedSearch
  BY <1>27 DEF SeedSearch, Shape, TypeOK, PcValues, RunResults
<1>28. CASE UnapplyReductions
  BY <1>28 DEF UnapplyReductions, Shape, TypeOK, PcValues, search
<1>29. CASE UndoReductionChange
  <2> DEFINE change == Last(applied[index].changes)
             rule == [applied[index] EXCEPT !.changes = Front(@)]
  <2>1. /\ index \in DOMAIN applied /\ applied[index] \in Rule
        /\ Entered(applied[index]) /\ applied[index].changes # <<>>
    BY <1>29 DEF UndoReductionChange, PendingReduction, Shape, TypeOK
  <2>2. change \in Change /\ Front(applied[index].changes) \in Seq(Change)
    BY <2>1 DEF Rule, Last, Front
  <2> HIDE DEF change
  <2>3. forests' = [forests EXCEPT ![change.tree] = Undone(@, change)]
        /\ applied' = [applied EXCEPT ![index] = rule]
        /\ pc = "restoring"
        /\ UNCHANGED <<search, applyNext, protected, pc, result, progressed,
                       current, cursor, index>>
    BY <1>29 DEF UndoReductionChange, change
  <2>4. rule \in Rule /\ Entered(rule)
    BY <2>1, ForgettingEnters DEF Entered
  <2> HIDE DEF rule
  <2>5. forests' \in [TreeIds -> Forest]
    BY <1>t, <2>2, <2>3, UndoneIsForest DEF TypeOK, Change
  <2>6. /\ applied' \in Seq(Rule) /\ Len(applied') = Len(applied)
        /\ \A k \in DOMAIN applied' : Entered(applied'[k])
    BY <2>1, <2>3, <2>4 DEF Shape, TypeOK
  <2> QED
    BY <1>t, <2>3, <2>5, <2>6 DEF Shape, TypeOK, search
<1>30. CASE NextReduction
  BY <1>30 DEF NextReduction, Shape, TypeOK, PcValues, search
<1>31. CASE Sigterm
  BY <1>31 DEF Sigterm, Shape, TypeOK
<1>32. CASE RaiseThreshold
  BY <1>32, ThresholdsAreIntegers DEF RaiseThreshold, Shape, TypeOK
<1>33. CASE UNCHANGED vars
  BY <1>33 DEF vars, Shape, TypeOK
<1> QED
  BY <1>1, <1>2, <1>3, <1>4, <1>5, <1>6, <1>7, <1>8, <1>9, <1>10, <1>11,
     <1>12, <1>13, <1>14, <1>15, <1>16, <1>17, <1>18, <1>19, <1>20, <1>21,
     <1>22, <1>23, <1>24, <1>25, <1>26, <1>27, <1>28, <1>29, <1>30, <1>31,
     <1>32, <1>33
     DEF Next, SolverStep, OtherStep, AdvanceSearch, Apply, RollBack, Finish,
         Terminated

\* The variables keep their types, in every mode and whatever the trees.
THEOREM TypeCorrect == Spec => []TypeOK
<1>1. Init => Shape
  BY InitHasShape
<1>2. Shape /\ [Next]_vars => Shape'
  BY NextKeepsShape
<1>3. Shape => TypeOK
  BY DEF Shape
<1> QED
  BY <1>1, <1>2, <1>3, PTL DEF Spec

-----------------------------------------------------------------------------
(* What a step does to the stack of the rules applied and being applied.   *)

Stack == applied \o current

TopRule == Stack[Len(Stack)]

\* unapply() of one change, on the instance.
Reverted(fs, change) == [fs EXCEPT ![change.tree] = Undone(@, change)]

Ending == pc \in {"restoring", "output"}

AllWellFormed == \A i \in TreeIds : WellFormed(forests[i])

Rests ==
    /\ Stack' = Stack
    /\ Ending => Ending'
    /\ UNCHANGED <<trees, forests, protected>>

Pushes ==
    /\ ~ Ending
    /\ \E r \in Rule : /\ r.changes = <<>> /\ r.shields = {}
                       /\ Stack' = Append(Stack, r)
    /\ UNCHANGED <<trees, forests, protected>>

\* A change says what was done to an instance.
Records(change, before, after) ==
    LET F == before[change.tree]
    IN  /\ change.node \in F
        /\ \/ /\ HasParent(F, change.node)
              /\ change.kids = {}
              /\ after = [before EXCEPT ![change.tree] = CutEdge(F, change.node)]
           \/ /\ change.kids = Below(F, change.node)
              /\ after = [before EXCEPT ![change.tree] = CollapseAt(F, change.node)]

\* A reversible edit, recorded on top of the stack with what it protects.
Edits ==
    /\ ~ Ending
    /\ Stack # <<>>
    /\ \E change \in Change, shields \in SUBSET ProtectedEdge :
          /\ shields \cap protected = {}
          /\ protected' = protected \cup shields
          /\ Records(change, forests, forests')
          /\ Stack' = [Stack EXCEPT ![Len(Stack)] =
                          [TopRule EXCEPT !.changes = Append(TopRule.changes, change),
                                      !.shields = TopRule.shields \cup shields]]
          /\ AllWellFormed => AllWellFormed' /\ Reverted(forests', change) = forests
    /\ UNCHANGED trees

Reverts ==
    /\ ~ Ending
    /\ Stack # <<>>
    /\ TopRule.changes # <<>>
    /\ Stack' = [Stack EXCEPT ![Len(Stack)] =
                    [TopRule EXCEPT !.changes = Front(TopRule.changes)]]
    /\ forests' = Reverted(forests, Last(TopRule.changes))
    /\ UNCHANGED <<trees, protected>>

Pops ==
    /\ ~ Ending
    /\ Stack # <<>>
    /\ TopRule.changes = <<>>
    /\ Stack' = Front(Stack)
    /\ protected' = protected \ TopRule.shields
    /\ UNCHANGED <<trees, forests>>

\* unapplyReductions takes back the collapses of a reduction, wherever it is
\* in the stack.
RevertsInside ==
    /\ Ending /\ Ending'
    /\ \E k \in DOMAIN Stack :
          /\ IsReduction(Stack[k])
          /\ Stack[k].changes # <<>>
          /\ Stack' = [Stack EXCEPT ![k] =
                          [Stack[k] EXCEPT !.changes = Front(Stack[k].changes)]]
          /\ forests' = Reverted(forests, Last(Stack[k].changes))
    /\ UNCHANGED <<trees, protected>>

\* The stack ends with the rule being applied, if there is one.
LEMMA StackIsTyped ==
    ASSUME Shape
    PROVE  /\ Stack \in Seq(Rule)
           /\ pc # "applying" => Stack = applied
           /\ pc = "applying" => /\ Stack = Append(applied, Rule0)
                                 /\ Stack # <<>> /\ TopRule = Rule0
                                 /\ Len(Stack) = Len(applied) + 1
<1>1. applied \in Seq(Rule) /\ current \in Seq(Rule)
  BY DEF Shape, TypeOK
<1>2. CASE pc # "applying"
  BY <1>1, <1>2 DEF Shape, Stack
<1>3. CASE pc = "applying"
  <2>1. current = <<Rule0>> /\ Rule0 \in Rule
    <3>1. Len(current) = 1
      BY <1>3 DEF Shape
    <3> QED
      BY <1>1, <3>1 DEF Rule0
  <2>2. Stack = Append(applied, Rule0)
    BY <1>1, <2>1 DEF Stack
  <2> QED
    BY <1>1, <1>3, <2>1, <2>2 DEF TopRule
<1> QED
  BY <1>2, <1>3

\* apply() leaves the forests as they were but for one, in a way its undo
\* takes back.
LEMMA CutIsReverted ==
    ASSUME Shape, AllWellFormed, CutNode
    PROVE  /\ AllWellFormed'
           /\ Reverted(forests',
                  [kind |-> "cut", tree |-> ThisTree, node |-> EditTarget,
                   sibling |-> Sibling(ThisForest, EditTarget), kids |-> {}])
              = forests
<1>1. /\ ThisTree \in TreeIds /\ ThisForest \in Forest
      /\ ThisForest = forests[ThisTree] /\ WellFormed(ThisForest)
  BY EditIsTyped DEF CutNode, AllWellFormed, ThisForest
<1>2. EditTarget \in ThisForest /\ HasParent(ThisForest, EditTarget)
  BY DEF CutNode
<1> DEFINE G == CutEdge(ThisForest, EditTarget)
           s == Sibling(ThisForest, EditTarget)
<1>3. WellFormed(G) /\ UncutEdge(G, EditTarget, s) = ThisForest
  BY <1>1, <1>2, CutKeepsForest, CutIsUndone
<1>4. forests' = [forests EXCEPT ![ThisTree] = G] /\ forests \in [TreeIds -> Forest]
  BY DEF CutNode, ThisForest, Shape, TypeOK
<1> HIDE DEF G, s
<1>5. AllWellFormed'
  BY <1>1, <1>3, <1>4 DEF AllWellFormed, TreeIds
<1>6. [forests' EXCEPT ![ThisTree] = UncutEdge(@, EditTarget, s)] = forests
  BY <1>1, <1>3, <1>4
<1> QED
  BY <1>5, <1>6 DEF Reverted, Undone, s

\* The same for a collapse.
LEMMA CollapseIsReverted ==
    ASSUME Shape, AllWellFormed, CollapseNode
    PROVE  /\ AllWellFormed'
           /\ Reverted(forests',
                  [kind |-> "collapse", tree |-> ThisTree, node |-> EditTarget,
                   sibling |-> NullNode, kids |-> Below(ThisForest, EditTarget)])
              = forests
<1>1. /\ ThisTree \in TreeIds /\ ThisForest \in Forest
      /\ ThisForest = forests[ThisTree] /\ WellFormed(ThisForest)
  BY EditIsTyped DEF CollapseNode, AllWellFormed, ThisForest
<1>2. EditTarget \in ThisForest
  BY DEF CollapseNode
<1> DEFINE G == CollapseAt(ThisForest, EditTarget)
           kids == Below(ThisForest, EditTarget)
<1>3. WellFormed(G) /\ UncollapseAt(G, kids) = ThisForest
  BY <1>1, <1>2, CollapseKeepsForest, CollapseIsUndone
<1>4. forests' = [forests EXCEPT ![ThisTree] = G] /\ forests \in [TreeIds -> Forest]
  BY DEF CollapseNode, ThisForest, Shape, TypeOK
<1> HIDE DEF G, kids
<1>5. AllWellFormed'
  BY <1>1, <1>3, <1>4 DEF AllWellFormed, TreeIds
<1>6. [forests' EXCEPT ![ThisTree] = UncollapseAt(@, kids)] = forests
  BY <1>1, <1>3, <1>4
<1> QED
  BY <1>5, <1>6 DEF Reverted, Undone, kids

\* Entering a rule pushes it.
LEMMA EnteringPushes ==
    ASSUME Shape, Shape', pc \notin {"applying", "restoring", "output"},
           NEW r, Ready(r), EnterRule(r),
           UNCHANGED <<trees, forests, applied, protected>>
    PROVE  Pushes
<1>1. current' = <<Entering(r)>> /\ pc' = "applying" /\ Enterable(r)
  BY DEF EnterRule, Entering
<1>2. /\ Entering(r) \in Rule
      /\ Entering(r).changes = <<>> /\ Entering(r).shields = {}
  BY <1>1, EnteringEnters DEF Entered
<1>3. Stack = applied /\ applied \in Seq(Rule)
  BY StackIsTyped DEF Shape, TypeOK
<1>4. Stack' = Append(Stack, Entering(r))
  BY <1>1, <1>2, <1>3 DEF Stack
<1> QED
  BY <1>2, <1>4 DEF Pushes, Ending

\* Leaving it does not move it.
LEMMA LeavingRests ==
    ASSUME Shape, Shape', pc = "applying", pc' # "applying", LeaveApply,
           UNCHANGED <<trees, forests, protected>>
    PROVE  Rests
<1>1. Stack = Append(applied, Rule0)
  BY StackIsTyped
<1>2. /\ applied' = Append(applied, Rule0) /\ current' = <<>>
      /\ applied' \in Seq(Rule)
  BY DEF LeaveApply, Shape, TypeOK
<1>3. Stack' = applied'
  BY <1>2 DEF Stack
<1> QED
  BY <1>1, <1>2, <1>3 DEF Rests, Ending

\* Appending another element changes the last one only.
LEMMA LastIsReplaced ==
    ASSUME NEW S, NEW s \in Seq(S), NEW x \in S, NEW y \in S
    PROVE  Append(s, y) = [Append(s, x) EXCEPT ![Len(s) + 1] = y]
<1> DEFINE u == Append(s, x)
           v == Append(s, y)
           t == [u EXCEPT ![Len(s) + 1] = y]
<1>1. /\ u \in Seq(S) /\ Len(u) = Len(s) + 1 /\ \A k \in 1..Len(s) : u[k] = s[k]
      /\ v \in Seq(S) /\ Len(v) = Len(s) + 1 /\ \A k \in 1..Len(s) : v[k] = s[k]
      /\ v[Len(s) + 1] = y
  BY AppendProperties
<1> HIDE DEF u, v
<1>2. /\ t \in Seq(S) /\ Len(t) = Len(u)
      /\ \A k \in 1..Len(u) : t[k] = IF k = Len(s) + 1 THEN y ELSE u[k]
  BY <1>1, ExceptSeq
<1> HIDE DEF t
<1>3. \A k \in 1..Len(v) : v[k] = t[k]
  BY <1>1, <1>2
<1>4. v = t
  BY <1>1, <1>2, <1>3, SeqEqual
<1> QED
  BY <1>4 DEF t, u, v

\* An edit changes the rule on top of the stack only.
LEMMA TopIsReplaced ==
    ASSUME Shape, Shape', pc = "applying", pc' = "applying", UNCHANGED applied,
           NEW rule, current' = <<rule>>
    PROVE  Stack' = [Stack EXCEPT ![Len(Stack)] = rule]
<1>1. /\ applied \in Seq(Rule) /\ Stack = Append(applied, Rule0)
      /\ Len(Stack) = Len(applied) + 1
  BY StackIsTyped DEF Shape, TypeOK
<1>r. Rule0 \in Rule
  <2>1. current \in Seq(Rule) /\ Len(current) = 1
    BY DEF Shape, TypeOK
  <2> QED
    BY <2>1 DEF Rule0
<1>2. rule \in Rule
  <2>1. current' \in Seq(Rule)
    BY DEF Shape, TypeOK
  <2> QED
    BY <2>1
<1>3. Stack' = Append(applied, rule)
  BY <1>1, <1>2 DEF Stack
<1> QED
  BY <1>1, <1>2, <1>3, <1>r, LastIsReplaced

\* Every step has one of the six effects on the stack.
LEMMA StackSteps ==
    ASSUME Shape, Shape', [Next]_vars
    PROVE  Rests \/ Pushes \/ Edits \/ Reverts \/ Pops \/ RevertsInside
<1>s. /\ applied \in Seq(Rule) /\ Stack \in Seq(Rule)
      /\ pc # "applying" => Stack = applied
      /\ pc' # "applying" => Stack' = applied'
  <2>1. applied' \in Seq(Rule) /\ (pc' # "applying" => current' = <<>>)
    BY DEF Shape, TypeOK
  <2>2. pc' # "applying" => Stack' = applied'
    BY <2>1 DEF Stack
  <2> QED
    BY <2>2, StackIsTyped DEF Shape, TypeOK
<1>1. CASE CallAdvanceSearch
  BY <1>1 DEF CallAdvanceSearch, search, Rests, Stack, Ending
<1>2. CASE ReturnSolved
  BY <1>2 DEF ReturnSolved, search, Rests, Stack, Ending
<1>3. CASE ReturnPaused
  BY <1>3 DEF ReturnPaused, search, Rests, Stack, Ending
<1>4. CASE ApplyQueuedRule
  <2>1. Ready(Head(applyNext))
    BY <1>4 DEF ApplyQueuedRule, Shape, TypeOK
  <2> QED
    BY <1>4, <2>1, EnteringPushes DEF ApplyQueuedRule, search
<1>5. CASE ApplyActiveRule
  <2>1. PICK r \in ActiveRules : EnterRule(r)
    BY <1>5 DEF ApplyActiveRule
  <2> QED
    BY <1>5, <2>1, SelectedIsReady, EnteringPushes
       DEF ApplyActiveRule, SelectsRule, search
<1>6. CASE NextForest
  BY <1>6 DEF NextForest, search, Rests, Stack, Ending
<1>7. CASE SkipEdit
  BY <1>7 DEF SkipEdit, search, Rests, Stack, Ending
<1>8. CASE CutNode
  <2> DEFINE change == [kind |-> "cut", tree |-> ThisTree, node |-> EditTarget,
                        sibling |-> Sibling(ThisForest, EditTarget), kids |-> {}]
             rule == [Rule0 EXCEPT !.changes = Append(@, change),
                                   !.shields = @ \cup NewShields]
  <2>1. EditsLeft /\ pc = "applying" /\ pc' = "applying"
    BY <1>8 DEF CutNode, EditsLeft, InForestLoop, InApply
  <2>2. ThisTree \in TreeIds /\ ThisForest \in Forest /\ ThisEdit \in Edit
    BY <2>1, EditIsTyped
  <2>3. NewShields \in SUBSET ProtectedEdge /\ NewShields \cap protected = {}
    BY <2>2, NavigationIsTyped DEF NewShields, ProtectedEdge
  <2>4. change \in Change
    BY <1>8, <2>2, NavigationIsTyped DEF CutNode, Change, Forest
  <2>5. AllWellFormed => AllWellFormed' /\ Reverted(forests', change) = forests
    BY <1>8, CutIsReverted
  <2>r. Records(change, forests, forests')
    BY <1>8 DEF CutNode, ThisForest, Records
  <2> HIDE DEF change
  <2>6. /\ current' = <<rule>> /\ protected' = protected \cup NewShields
        /\ UNCHANGED <<trees, applied>>
    BY <1>8 DEF CutNode, search, change
  <2>7. /\ Stack = Append(applied, Rule0) /\ Stack # <<>> /\ TopRule = Rule0
        /\ Len(Stack) = Len(applied) + 1
    BY <2>1, StackIsTyped
  <2>8. rule = [TopRule EXCEPT !.changes = Append(TopRule.changes, change),
                           !.shields = TopRule.shields \cup NewShields]
    BY <2>7
  <2> HIDE DEF rule
  <2>9. Stack' = [Stack EXCEPT ![Len(Stack)] = rule]
    BY <1>s, <2>1, <2>6, <2>7, TopIsReplaced
  <2> QED
    BY <2>1, <2>3, <2>4, <2>5, <2>6, <2>7, <2>8, <2>9, <2>r DEF Edits, Ending
<1>9. CASE CollapseNode
  <2> DEFINE change == [kind |-> "collapse", tree |-> ThisTree,
                        node |-> EditTarget, sibling |-> NullNode,
                        kids |-> Below(ThisForest, EditTarget)]
             rule == [Rule0 EXCEPT !.changes = Append(@, change)]
  <2>1. EditsLeft /\ pc = "applying" /\ pc' = "applying"
    BY <1>9 DEF CollapseNode, EditsLeft, InForestLoop, InApply
  <2>2. ThisTree \in TreeIds /\ ThisForest \in Forest /\ Rule0 \in Rule
    BY <2>1, EditIsTyped DEF Entered
  <2>3. change \in Change
    BY <1>9, <2>2 DEF CollapseNode, Change, Forest, Node, NullNode, Below
  <2>4. AllWellFormed => AllWellFormed' /\ Reverted(forests', change) = forests
    BY <1>9, CollapseIsReverted
  <2>r. Records(change, forests, forests')
    BY <1>9 DEF CollapseNode, ThisForest, Records
  <2> HIDE DEF change
  <2>5. /\ current' = <<rule>> /\ UNCHANGED <<trees, applied, protected>>
    BY <1>9 DEF CollapseNode, search, change
  <2>6. /\ Stack # <<>> /\ TopRule = Rule0
    BY <2>1, StackIsTyped
  <2>7. rule = [TopRule EXCEPT !.changes = Append(TopRule.changes, change),
                           !.shields = TopRule.shields \cup {}]
    BY <2>2, <2>6 DEF Rule
  <2> HIDE DEF rule
  <2>8. Stack' = [Stack EXCEPT ![Len(Stack)] = rule]
    BY <2>1, <2>5, TopIsReplaced
  <2> DEFINE none == {}
  <2>9. /\ none \in SUBSET ProtectedEdge /\ none \cap protected = {}
        /\ protected' = protected \cup none
    BY <2>5
  <2> QED
    BY <2>1, <2>3, <2>4, <2>5, <2>6, <2>7, <2>8, <2>9, <2>r DEF Edits, Ending
<1>10. CASE ApplyBlocked
  BY <1>10, LeavingRests
     DEF ApplyBlocked, ReturnToReplay, EditsLeft, InForestLoop, InApply, search
<1>11. CASE ReplayedRule
  BY <1>11, LeavingRests DEF ReplayedRule, ReturnToReplay, ApplyDone, InApply, search
<1>12. CASE ReturnContinue
  BY <1>12, LeavingRests DEF ReturnContinue, Returns, ApplyDone, InApply, search
<1>13. CASE ReturnCutBranch
  BY <1>13, LeavingRests
     DEF ReturnCutBranch, SearchSpaceDone, Returns, ApplyDone, InApply
<1>14. CASE ReturnBoundedSolution
  BY <1>14, LeavingRests DEF ReturnBoundedSolution, Returns, ApplyDone, InApply, search
<1>15. CASE ReturnSolutionCandidate
  BY <1>15, LeavingRests DEF ReturnSolutionCandidate, Returns, ApplyDone, InApply
<1>16. CASE UndoChange
  <2>1. /\ pc \notin {"applying", "restoring", "output"} /\ pc' = pc
        /\ applied # <<>> /\ LastRule.changes # <<>>
        /\ forests' = Reverted(forests, Last(LastRule.changes))
        /\ applied' = [applied EXCEPT ![Len(applied)] =
                          [LastRule EXCEPT !.changes = Front(LastRule.changes)]]
        /\ UNCHANGED <<trees, protected>>
    BY <1>16 DEF UndoChange, Unapplying, search, LastRule, Reverted
  <2>2. LastRule = TopRule
    BY <1>s, <2>1 DEF LastRule, TopRule
  <2> QED
    BY <1>s, <2>1, <2>2 DEF Reverts, Ending
<1>17. CASE DiscardRule
  BY <1>s, <1>17 DEF DiscardRule, PopRule, Unapplying, search, LastRule, TopRule, Pops, Ending
<1>18. CASE AbandonBranch
  BY <1>18 DEF AbandonBranch, search, Rests, Stack, Ending
<1>19. CASE RollBackBranch
  BY <1>19 DEF RollBackBranch, search, Rests, Stack, Ending
<1>20. CASE EnterNextBranch
  BY <1>s, <1>20 DEF EnterNextBranch, PopRule, search, LastRule, TopRule, Pops, Ending
<1>21. CASE NothingLeft
  BY <1>21 DEF NothingLeft, SearchSpaceDone, Rests, Stack, Ending
<1>22. CASE Finalize
  BY <1>22 DEF Finalize, search, Rests, Stack, Ending
<1>23. CASE StartReplay
  BY <1>23 DEF StartReplay, search, Rests, Stack, Ending
<1>24. CASE ReplayRule
  <2>1. Ready(solution[index])
    BY <1>24 DEF ReplayRule, Shape, TypeOK
  <2> QED
    BY <1>24, <2>1, EnteringPushes DEF ReplayRule, search
<1>25. CASE EndReplay
  BY <1>25 DEF EndReplay, search, Rests, Stack, Ending
<1>26. CASE TakeSeed
  BY <1>26 DEF TakeSeed, Rests, Stack, Ending
<1>27. CASE SeedSearch
  BY <1>27 DEF SeedSearch, Rests, Stack, Ending
<1>28. CASE UnapplyReductions
  BY <1>28 DEF UnapplyReductions, search, Rests, Stack, Ending
<1>29. CASE UndoReductionChange
  <2>1. /\ pc = "restoring" /\ pc' = pc
        /\ index \in DOMAIN applied
        /\ applied' = [applied EXCEPT ![index] =
              [applied[index] EXCEPT !.changes = Front(applied[index].changes)]]
        /\ IsReduction(applied[index]) /\ applied[index].changes # <<>>
        /\ forests' = Reverted(forests, Last(applied[index].changes))
        /\ UNCHANGED <<trees, protected>>
    BY <1>29 DEF UndoReductionChange, PendingReduction, search, Shape, TypeOK,
                 Reverted
  <2> QED
    BY <1>s, <2>1 DEF RevertsInside, Ending
<1>30. CASE NextReduction
  BY <1>30 DEF NextReduction, search, Rests, Stack, Ending
<1>31. CASE Sigterm
  BY <1>31 DEF Sigterm, Rests, Stack, Ending
<1>32. CASE RaiseThreshold
  BY <1>32 DEF RaiseThreshold, Rests, Stack, Ending
<1>33. CASE UNCHANGED vars
  BY <1>33 DEF vars, Rests, Stack, Ending
<1> QED
  BY <1>1, <1>2, <1>3, <1>4, <1>5, <1>6, <1>7, <1>8, <1>9, <1>10, <1>11,
     <1>12, <1>13, <1>14, <1>15, <1>16, <1>17, <1>18, <1>19, <1>20, <1>21,
     <1>22, <1>23, <1>24, <1>25, <1>26, <1>27, <1>28, <1>29, <1>30, <1>31,
     <1>32, <1>33
     DEF Next, SolverStep, OtherStep, AdvanceSearch, Apply, RollBack, Finish,
         Terminated

-----------------------------------------------------------------------------
(* Protected edges.                                                        *)

ShieldsAreOwned ==
    /\ protected = UNION {Stack[k].shields : k \in DOMAIN Stack}
    /\ \A j, k \in DOMAIN Stack :
          j # k => Stack[j].shields \cap Stack[k].shields = {}

\* The checked property speaks of the stack.
LEMMA OwnershipIsOfTheStack == ProtectionsAreOwned <=> ShieldsAreOwned
BY DEF ProtectionsAreOwned, ShieldsAreOwned, Stack

\* Every step keeps the owners of the protections apart.
LEMMA NextKeepsOwnership ==
    ASSUME Shape, Shape', [Next]_vars, ShieldsAreOwned
    PROVE  ShieldsAreOwned'
<1>s. Stack \in Seq(Rule)
  BY StackIsTyped
<1> DEFINE n == Len(Stack)
<1>0. n \in Nat /\ DOMAIN Stack = 1..n
  BY <1>s
<1>1. CASE Rests
  BY <1>1 DEF Rests, ShieldsAreOwned
<1>2. CASE Pushes
  <2>1. PICK r \in Rule : r.shields = {} /\ Stack' = Append(Stack, r)
    BY <1>2 DEF Pushes
  <2>2. /\ DOMAIN Stack' = 1..(n + 1)
        /\ \A k \in 1..n : Stack'[k] = Stack[k]
        /\ Stack'[n + 1] = r
    BY <1>s, <2>1, AppendProperties
  <2>3. UNCHANGED protected
    BY <1>2 DEF Pushes
  <2> QED
    BY <1>0, <2>1, <2>2, <2>3 DEF ShieldsAreOwned
<1>3. CASE Edits
  <2>1. n \in 1..n /\ TopRule \in Rule /\ TopRule = Stack[n]
    BY <1>3, <1>s DEF Edits, TopRule
  <2>2. PICK change \in Change, shields \in SUBSET ProtectedEdge :
            /\ shields \cap protected = {}
            /\ protected' = protected \cup shields
            /\ Stack' = [Stack EXCEPT ![n] =
                            [TopRule EXCEPT !.changes = Append(TopRule.changes, change),
                                        !.shields = TopRule.shields \cup shields]]
    BY <1>3 DEF Edits
  <2>3. /\ DOMAIN Stack' = 1..n
        /\ \A k \in 1..n : k # n => Stack'[k] = Stack[k]
        /\ Stack'[n].shields = Stack[n].shields \cup shields
    BY <1>0, <2>1, <2>2 DEF Rule
  <2>4. \A k \in 1..n : Stack[k].shields \subseteq protected
    BY <1>0 DEF ShieldsAreOwned
  <2>5. protected' = UNION {Stack'[k].shields : k \in 1..n}
    <3>1. \A k \in 1..n : Stack'[k].shields \subseteq protected'
      BY <2>2, <2>3, <2>4
    <3>2. ASSUME NEW e \in protected'
          PROVE  \E k \in 1..n : e \in Stack'[k].shields
      <4>1. CASE e \in shields
        BY <2>1, <2>3, <4>1
      <4>2. CASE e \in protected
        <5>1. PICK k \in 1..n : e \in Stack[k].shields
          BY <1>0, <4>2 DEF ShieldsAreOwned
        <5> QED
          BY <2>3, <5>1
      <4> QED
        BY <2>2, <4>1, <4>2
    <3> QED
      BY <3>1, <3>2
  <2>6. ASSUME NEW j \in 1..n, NEW k \in 1..n, j # k
        PROVE  Stack'[j].shields \cap Stack'[k].shields = {}
    <3>1. Stack[j].shields \cap Stack[k].shields = {}
      BY <1>0, <2>6 DEF ShieldsAreOwned
    <3> QED
      BY <2>2, <2>3, <2>4, <2>6, <3>1
  <2> QED
    BY <2>3, <2>5, <2>6 DEF ShieldsAreOwned
<1>4. CASE Reverts
  <2>1. n \in 1..n /\ TopRule \in Rule /\ TopRule = Stack[n]
    BY <1>4, <1>s DEF Reverts, TopRule
  <2>2. /\ DOMAIN Stack' = 1..n /\ UNCHANGED protected
        /\ \A k \in 1..n : Stack'[k].shields = Stack[k].shields
    BY <1>4, <1>0, <2>1 DEF Reverts, Rule
  <2> QED
    BY <1>0, <2>2 DEF ShieldsAreOwned
<1>5. CASE Pops
  <2>1. n \in 1..n /\ TopRule = Stack[n]
    BY <1>5, <1>s DEF Pops, TopRule
  <2>2. /\ DOMAIN Stack' = 1..(n - 1)
        /\ \A k \in 1..(n - 1) : Stack'[k] = Stack[k]
        /\ protected' = protected \ Stack[n].shields
    BY <1>5, <1>s, <2>1 DEF Pops, Front
  <2> QED
    BY <1>0, <2>1, <2>2 DEF ShieldsAreOwned
<1>6. CASE RevertsInside
  <2>1. PICK i \in DOMAIN Stack :
            Stack' = [Stack EXCEPT ![i] =
                         [Stack[i] EXCEPT !.changes = Front(Stack[i].changes)]]
    BY <1>6 DEF RevertsInside
  <2>2. Stack[i] \in Rule
    BY <1>s
  <2>3. /\ DOMAIN Stack' = 1..n /\ UNCHANGED protected
        /\ \A k \in 1..n : Stack'[k].shields = Stack[k].shields
    BY <1>6, <1>0, <2>1, <2>2 DEF RevertsInside, Rule
  <2> QED
    BY <1>0, <2>3 DEF ShieldsAreOwned
<1> QED
  BY <1>1, <1>2, <1>3, <1>4, <1>5, <1>6, StackSteps

\* Every protected edge belongs to exactly one of the rules applied, so that
\* unapply() of one never lifts a protection another one relies on.
THEOREM ProtectionsHaveOwners == Spec => []ProtectionsAreOwned
<1>1. Init => Shape /\ ShieldsAreOwned
  <2>1. Init => Stack = <<>> /\ protected = {}
    BY DEF Init, Stack
  <2> QED
    BY <2>1, InitHasShape DEF ShieldsAreOwned
<1>2. (Shape /\ ShieldsAreOwned) /\ [Next]_vars => (Shape /\ ShieldsAreOwned)'
  BY NextKeepsShape, NextKeepsOwnership
<1>3. ShieldsAreOwned => ProtectionsAreOwned
  BY OwnershipIsOfTheStack
<1> QED
  BY <1>1, <1>2, <1>3, PTL DEF Spec

-----------------------------------------------------------------------------
(* Undo.  The forests alone do not say that undoing leads back to the      *)
(* input; the invariant is that the stack has a history: the instances it  *)
(* went through, one before each recorded change, which unapply() visits   *)
(* again in reverse.  h[k][j] is the instance after j changes of the k-th  *)
(* rule of the stack.                                                      *)

WellFormedForests == [TreeIds -> {F \in Forest : WellFormed(F)}]

IsHistory(h) ==
    /\ \A k, j \in Nat : h[k][j] \in WellFormedForests
    /\ h[1][0] = trees
    /\ h[Len(Stack) + 1][0] = forests
    /\ \A k \in 1..Len(Stack) :
          /\ h[k + 1][0] = h[k][Len(Stack[k].changes)]
          /\ \A j \in 1..Len(Stack[k].changes) :
                h[k][j - 1] = Reverted(h[k][j], Stack[k].changes[j])

\* unapplyReductions, which undoes some of the changes only, ends it.
HasHistory == (Ending /\ Stack # <<>>) \/ \E h : IsHistory(h)

\* Before the first rule the history is the input alone.
LEMMA InitHasHistory == Init => HasHistory
<1> SUFFICES ASSUME Init PROVE HasHistory
  OBVIOUS
<1> DEFINE h == [k \in Nat |-> [j \in Nat |-> trees]]
<1>1. Stack = <<>> /\ Len(Stack) = 0 /\ forests = trees
  BY DEF Init, Stack
<1>2. trees \in WellFormedForests
  BY InstancesAreForests DEF Init, WellFormedForests
<1>3. \A k, j \in Nat : h[k][j] = trees
  OBVIOUS
<1> HIDE DEF h
<1>4. IsHistory(h)
  BY <1>1, <1>2, <1>3 DEF IsHistory
<1> QED
  BY <1>4 DEF HasHistory

\* A rule that has not edited anything adds a stage to the history.
LEMMA PushKeepsHistory ==
    ASSUME Shape, Pushes, NEW h, IsHistory(h)
    PROVE  \E g : /\ IsHistory(g)'
                  /\ \A k, j \in Nat : k <= Len(Stack) + 1 => g[k][j] = h[k][j]
<1>s. Stack \in Seq(Rule)
  BY StackIsTyped
<1> DEFINE n == Len(Stack)
<1>0. n \in Nat
  BY <1>s
<1>1. PICK r \in Rule : r.changes = <<>> /\ Stack' = Append(Stack, r)
  BY DEF Pushes
<1>2. /\ Len(Stack') = n + 1 /\ Stack'[n + 1] = r
      /\ \A k \in 1..n : Stack'[k] = Stack[k]
  BY <1>s, <1>1, AppendProperties
<1>g. PICK g : g = [k \in Nat |-> [j \in Nat |->
                        IF k = n + 2 /\ j = 0 THEN forests ELSE h[k][j]]]
  OBVIOUS
<1>3. /\ \A k, j \in Nat : (k # n + 2 \/ j # 0) => g[k][j] = h[k][j]
      /\ g[n + 2][0] = forests
  BY <1>0, <1>g
<1>4. /\ \A k, j \in Nat : h[k][j] \in WellFormedForests
      /\ h[1][0] = trees /\ h[n + 1][0] = forests
      /\ \A k \in 1..n :
            /\ h[k + 1][0] = h[k][Len(Stack[k].changes)]
            /\ \A j \in 1..Len(Stack[k].changes) :
                  h[k][j - 1] = Reverted(h[k][j], Stack[k].changes[j])
  BY DEF IsHistory
<1>5. UNCHANGED <<trees, forests>>
  BY DEF Pushes
<1>6. \A k, j \in Nat : g[k][j] \in WellFormedForests
  <2>1. forests \in WellFormedForests
    BY <1>0, <1>4
  <2> QED
    BY <1>0, <1>3, <1>4, <2>1
<1>7. g[1][0] = trees' /\ g[n + 2][0] = forests'
  BY <1>0, <1>3, <1>4, <1>5
<1>8. ASSUME NEW k \in 1..(n + 1)
      PROVE  /\ g[k + 1][0] = g[k][Len(Stack'[k].changes)]
             /\ \A j \in 1..Len(Stack'[k].changes) :
                   g[k][j - 1] = Reverted(g[k][j], Stack'[k].changes[j])
  <2>1. CASE k \in 1..n
    <3>1. Stack'[k] = Stack[k] /\ Len(Stack[k].changes) \in Nat
      <4>1. Stack'[k] = Stack[k]
        BY <1>2, <2>1
      <4>2. Stack[k] \in Rule
        BY <1>s, <2>1
      <4>3. Len(Stack[k].changes) \in Nat
        BY <4>2 DEF Rule
      <4> QED
        BY <4>1, <4>3
    <3>2. \A j \in Nat : g[k][j] = h[k][j] /\ g[k + 1][0] = h[k + 1][0]
      BY <1>0, <1>3, <2>1
    <3>3. \A j \in 1..Len(Stack[k].changes) : j \in Nat /\ j - 1 \in Nat
      BY <3>1
    <3> QED
      BY <1>4, <2>1, <3>1, <3>2, <3>3
  <2>2. CASE k = n + 1
    BY <1>0, <1>1, <1>2, <1>3, <1>4, <2>2
  <2> QED
    BY <1>0, <2>1, <2>2
<1>9. IsHistory(g)'
  BY <1>0, <1>2, <1>6, <1>7, <1>8 DEF IsHistory
<1>10. \A k, j \in Nat : k <= n + 1 => g[k][j] = h[k][j]
  BY <1>0, <1>3
<1> QED
  BY <1>9, <1>10

\* While the history lasts every forest is well-formed.
LEMMA HistoryIsOfWellFormed ==
    ASSUME Shape, NEW h, IsHistory(h)
    PROVE  /\ AllWellFormed /\ forests \in WellFormedForests
           /\ trees \in WellFormedForests
<1>1. Len(Stack) + 1 \in Nat
  BY StackIsTyped
<1> QED
  BY <1>1 DEF IsHistory, WellFormedForests, AllWellFormed

\* An edit appends the instance it leads to; undoing it leads back.
LEMMA EditKeepsHistory ==
    ASSUME Shape, Shape', Edits, NEW h, IsHistory(h)
    PROVE  \E g : /\ IsHistory(g)'
                  /\ \A k, j \in Nat :
                        k < Len(Stack) \/ (k = Len(Stack) /\ j <= Len(TopRule.changes))
                            => g[k][j] = h[k][j]
<1>s. Stack \in Seq(Rule)
  BY StackIsTyped
<1> DEFINE n == Len(Stack)
           m == Len(TopRule.changes)
<1>0. n \in Nat /\ n \in 1..n /\ TopRule = Stack[n] /\ TopRule \in Rule
  BY <1>s DEF Edits, TopRule
<1>c. TopRule.changes \in Seq(Change) /\ m \in Nat
  BY <1>0 DEF Rule
<1>w. AllWellFormed
  BY HistoryIsOfWellFormed
<1>1. PICK change \in Change :
          /\ Len(Stack') = n
          /\ \A k \in 1..n : k # n => Stack'[k] = Stack[k]
          /\ Stack'[n].changes = Append(TopRule.changes, change)
          /\ AllWellFormed' /\ Reverted(forests', change) = forests
  <2>1. PICK change \in Change, shields \in SUBSET ProtectedEdge :
            /\ Stack' = [Stack EXCEPT ![n] =
                            [TopRule EXCEPT !.changes = Append(TopRule.changes, change),
                                        !.shields = TopRule.shields \cup shields]]
            /\ AllWellFormed => AllWellFormed' /\ Reverted(forests', change) = forests
    BY DEF Edits
  <2>2. /\ Len(Stack') = n
        /\ \A k \in 1..n : k # n => Stack'[k] = Stack[k]
        /\ Stack'[n].changes = Append(TopRule.changes, change)
    <3> DEFINE rule == [TopRule EXCEPT !.changes = Append(TopRule.changes, change),
                                   !.shields = TopRule.shields \cup shields]
    <3>1. rule.changes = Append(TopRule.changes, change)
      BY <1>0 DEF Rule
    <3> HIDE DEF rule
    <3>2. Stack' = [Stack EXCEPT ![n] = rule]
      BY <2>1 DEF rule
    <3>3. Stack'[n] = rule
      BY <1>s, <1>0, <3>2
    <3>4. Len(Stack') = n /\ \A k \in 1..n : k # n => Stack'[k] = Stack[k]
      BY <1>s, <1>0, <3>2
    <3> QED
      BY <3>1, <3>3, <3>4
  <2> QED
    BY <1>w, <2>1, <2>2
<1>2. /\ Len(Stack'[n].changes) = m + 1
      /\ Stack'[n].changes[m + 1] = change
      /\ \A j \in 1..m : Stack'[n].changes[j] = Stack[n].changes[j]
  BY <1>0, <1>c, <1>1, AppendProperties
<1>g. PICK g : g = [k \in Nat |-> [j \in Nat |->
                        IF (k = n /\ j = m + 1) \/ (k = n + 1 /\ j = 0)
                        THEN forests' ELSE h[k][j]]]
  OBVIOUS
<1>3. /\ \A k, j \in Nat : (k < n \/ (k = n /\ j <= m)) => g[k][j] = h[k][j]
      /\ \A k, j \in Nat : g[k][j] \in {forests', h[k][j]}
      /\ g[n][m + 1] = forests' /\ g[n + 1][0] = forests'
  <2>1. \A k, j \in Nat :
            g[k][j] = IF (k = n /\ j = m + 1) \/ (k = n + 1 /\ j = 0)
                      THEN forests' ELSE h[k][j]
    BY <1>g
  <2> HIDE DEF n, m
  <2>2. \A k, j \in Nat : (k < n \/ (k = n /\ j <= m)) =>
            ~ ((k = n /\ j = m + 1) \/ (k = n + 1 /\ j = 0))
    BY <1>0, <1>c
  <2>3. n \in Nat /\ n + 1 \in Nat /\ m + 1 \in Nat /\ 0 \in Nat
    BY <1>0, <1>c
  <2>4. \A k, j \in Nat : (k < n \/ (k = n /\ j <= m)) => g[k][j] = h[k][j]
    BY <2>1, <2>2
  <2>5. \A k, j \in Nat : g[k][j] \in {forests', h[k][j]}
    BY <2>1
  <2>6. g[n][m + 1] = forests'
    BY <2>1, <2>3
  <2>7. g[n + 1][0] = forests'
    BY <2>1, <2>3
  <2> QED
    BY <2>4, <2>5, <2>6, <2>7
<1>4. /\ \A k, j \in Nat : h[k][j] \in WellFormedForests
      /\ h[1][0] = trees /\ h[n + 1][0] = forests
      /\ \A k \in 1..n :
            /\ h[k + 1][0] = h[k][Len(Stack[k].changes)]
            /\ \A j \in 1..Len(Stack[k].changes) :
                  h[k][j - 1] = Reverted(h[k][j], Stack[k].changes[j])
  BY DEF IsHistory
<1>5. UNCHANGED trees
  BY DEF Edits
<1>6. \A k, j \in Nat : g[k][j] \in WellFormedForests
  <2>1. forests' \in WellFormedForests
    BY <1>1 DEF Shape, TypeOK, AllWellFormed, WellFormedForests
  <2> QED
    BY <1>3, <1>4, <2>1
<1>7. g[1][0] = trees' /\ g[n + 1][0] = forests'
  BY <1>0, <1>c, <1>3, <1>4, <1>5
<1>8. ASSUME NEW k \in 1..n
      PROVE  /\ g[k + 1][0] = g[k][Len(Stack'[k].changes)]
             /\ \A j \in 1..Len(Stack'[k].changes) :
                   g[k][j - 1] = Reverted(g[k][j], Stack'[k].changes[j])
  <2>1. CASE k # n
    <3>1. Stack'[k] = Stack[k] /\ Len(Stack[k].changes) \in Nat /\ k < n
      BY <1>s, <1>0, <1>1, <2>1 DEF Rule
    <3>2. /\ \A j \in Nat : g[k][j] = h[k][j]
          /\ g[k + 1][0] = h[k + 1][0]
      BY <1>0, <1>c, <1>3, <3>1
    <3>3. \A j \in 1..Len(Stack[k].changes) : j \in Nat /\ j - 1 \in Nat
      BY <3>1
    <3> QED
      BY <1>4, <3>1, <3>2, <3>3
  <2>2. CASE k = n
    <3>1. g[n + 1][0] = g[n][m + 1]
      BY <1>3
    <3>2. ASSUME NEW j \in 1..m
          PROVE  g[n][j - 1] = Reverted(g[n][j], Stack'[n].changes[j])
      <4>1. g[n][j - 1] = h[n][j - 1] /\ g[n][j] = h[n][j]
        BY <1>0, <1>c, <1>3
      <4>2. h[n][j - 1] = Reverted(h[n][j], Stack[n].changes[j])
        BY <1>0, <1>4
      <4> QED
        BY <1>2, <4>1, <4>2
    <3>3. g[n][m] = Reverted(g[n][m + 1], Stack'[n].changes[m + 1])
      <4>1. g[n][m] = h[n][m] /\ h[n][m] = forests
        BY <1>0, <1>c, <1>3, <1>4
      <4> QED
        BY <1>1, <1>2, <1>3, <4>1
    <3>4. ASSUME NEW j \in 1..(m + 1)
          PROVE  g[n][j - 1] = Reverted(g[n][j], Stack'[n].changes[j])
      <4>1. CASE j \in 1..m
        BY <3>2, <4>1
      <4>2. CASE j = m + 1
        BY <1>c, <3>3, <4>2
      <4> QED
        BY <1>c, <4>1, <4>2
    <3> QED
      BY <1>2, <2>2, <3>1, <3>4
  <2> QED
    BY <2>1, <2>2
<1>9. IsHistory(g)'
  BY <1>0, <1>1, <1>6, <1>7, <1>8 DEF IsHistory
<1> QED
  BY <1>3, <1>9

\* Undoing the last change goes one instance back in the history.
LEMMA RevertKeepsHistory ==
    ASSUME Shape, Shape', Reverts, NEW h, IsHistory(h)
    PROVE  \E g : /\ IsHistory(g)'
                  /\ \A k, j \in Nat : k <= Len(Stack) => g[k][j] = h[k][j]
<1>s. Stack \in Seq(Rule)
  BY StackIsTyped
<1> DEFINE n == Len(Stack)
           m == Len(TopRule.changes)
<1>0. n \in Nat /\ n \in 1..n /\ TopRule = Stack[n] /\ TopRule \in Rule
  BY <1>s DEF Reverts, TopRule
<1>c. TopRule.changes \in Seq(Change) /\ m \in Nat /\ m \in 1..m
  BY <1>0 DEF Rule, Reverts
<1>1. /\ Len(Stack') = n
      /\ \A k \in 1..n : k # n => Stack'[k] = Stack[k]
      /\ Stack'[n].changes = Front(TopRule.changes)
  BY <1>s, <1>0 DEF Reverts, Rule
<1>2. /\ Len(Stack'[n].changes) = m - 1
      /\ \A j \in 1..(m - 1) : Stack'[n].changes[j] = Stack[n].changes[j]
  BY <1>0, <1>c, <1>1 DEF Front
<1>4. /\ \A k, j \in Nat : h[k][j] \in WellFormedForests
      /\ h[1][0] = trees /\ h[n + 1][0] = forests
      /\ \A k \in 1..n :
            /\ h[k + 1][0] = h[k][Len(Stack[k].changes)]
            /\ \A j \in 1..Len(Stack[k].changes) :
                  h[k][j - 1] = Reverted(h[k][j], Stack[k].changes[j])
  BY DEF IsHistory
\* The last change is undone on the instance it was recorded on.
<1>r. forests' = h[n][m - 1]
  <2>1. forests = h[n][m]
    BY <1>0, <1>4
  <2>2. h[n][m - 1] = Reverted(h[n][m], TopRule.changes[m])
    BY <1>0, <1>c, <1>4
  <2> QED
    BY <2>1, <2>2 DEF Reverts, Last
<1>g. PICK g : g = [k \in Nat |-> [j \in Nat |->
                        IF k = n + 1 /\ j = 0 THEN forests' ELSE h[k][j]]]
  OBVIOUS
<1>3. /\ \A k, j \in Nat : k <= n => g[k][j] = h[k][j]
      /\ \A k, j \in Nat : g[k][j] \in {forests', h[k][j]}
      /\ g[n + 1][0] = forests'
  BY <1>0, <1>g
<1>5. UNCHANGED trees
  BY DEF Reverts
<1>6. \A k, j \in Nat : g[k][j] \in WellFormedForests
  <2>1. forests' \in WellFormedForests
    BY <1>0, <1>c, <1>4, <1>r
  <2> QED
    BY <1>3, <1>4, <2>1
<1>7. g[1][0] = trees' /\ g[n + 1][0] = forests'
  BY <1>0, <1>3, <1>4, <1>5
<1>8. ASSUME NEW k \in 1..n
      PROVE  /\ g[k + 1][0] = g[k][Len(Stack'[k].changes)]
             /\ \A j \in 1..Len(Stack'[k].changes) :
                   g[k][j - 1] = Reverted(g[k][j], Stack'[k].changes[j])
  <2>1. CASE k # n
    <3>1. Stack'[k] = Stack[k] /\ Len(Stack[k].changes) \in Nat /\ k < n
      BY <1>s, <1>0, <1>1, <2>1 DEF Rule
    <3>2. /\ \A j \in Nat : g[k][j] = h[k][j]
          /\ g[k + 1][0] = h[k + 1][0]
      BY <1>0, <1>3, <3>1
    <3>3. \A j \in 1..Len(Stack[k].changes) : j \in Nat /\ j - 1 \in Nat
      BY <3>1
    <3> QED
      BY <1>4, <3>1, <3>2, <3>3
  <2>2. CASE k = n
    <3>1. g[n + 1][0] = g[n][m - 1]
      BY <1>0, <1>c, <1>3, <1>r
    <3>2. ASSUME NEW j \in 1..(m - 1)
          PROVE  g[n][j - 1] = Reverted(g[n][j], Stack'[n].changes[j])
      <4>1. g[n][j - 1] = h[n][j - 1] /\ g[n][j] = h[n][j]
        BY <1>0, <1>c, <1>3
      <4>2. h[n][j - 1] = Reverted(h[n][j], Stack[n].changes[j])
        <5>1. j \in 1..Len(Stack[n].changes)
          BY <1>0, <1>c
        <5> QED
          BY <1>0, <1>4, <5>1
      <4> QED
        BY <1>2, <4>1, <4>2
    <3> QED
      BY <1>2, <2>2, <3>1, <3>2
  <2> QED
    BY <2>1, <2>2
<1>9. IsHistory(g)'
  BY <1>0, <1>1, <1>6, <1>7, <1>8 DEF IsHistory
<1> QED
  BY <1>3, <1>9

\* A rule without changes leaves no trace in the history.
LEMMA PopKeepsHistory ==
    ASSUME Shape, Pops, NEW h, IsHistory(h)
    PROVE  IsHistory(h)'
<1>s. Stack \in Seq(Rule)
  BY StackIsTyped
<1> DEFINE n == Len(Stack)
<1>0. n \in Nat /\ n \in 1..n /\ Stack[n].changes = <<>>
  BY <1>s DEF Pops, TopRule
<1>1. /\ Len(Stack') = n - 1
      /\ \A k \in 1..(n - 1) : Stack'[k] = Stack[k]
  <2>1. Stack' = SubSeq(Stack, 1, n - 1)
    BY DEF Pops, Front
  <2>2. \A i \in 1..(n - 1) : Stack[i] \in Rule
    BY <1>s
  <2> HIDE DEF n
  <2>3. /\ Len(SubSeq(Stack, 1, n - 1)) = n - 1
        /\ \A i \in 1..(n - 1) : SubSeq(Stack, 1, n - 1)[i] = Stack[i]
    BY <1>0, <2>2, SubSeqProperties
  <2> QED
    BY <2>1, <2>3
<1>2. h[n][0] = forests /\ UNCHANGED <<trees, forests>>
  BY <1>0 DEF IsHistory, Pops
<1> QED
  BY <1>0, <1>1, <1>2 DEF IsHistory

\* Every step keeps the history until unapplyReductions.
LEMMA NextKeepsHistory ==
    ASSUME Shape, Shape', [Next]_vars, HasHistory
    PROVE  HasHistory'
<1>1. CASE Rests
  BY <1>1 DEF Rests, HasHistory, IsHistory
<1>2. CASE Pushes
  BY <1>2, PushKeepsHistory DEF Pushes, HasHistory
<1>3. CASE Edits
  BY <1>3, EditKeepsHistory DEF Edits, HasHistory
<1>4. CASE Reverts
  BY <1>4, RevertKeepsHistory DEF Reverts, HasHistory
<1>5. CASE Pops
  BY <1>5, PopKeepsHistory DEF Pops, HasHistory
<1>6. CASE RevertsInside
  <2>1. Stack' # <<>>
    BY <1>6, StackIsTyped DEF RevertsInside
  <2> QED
    BY <1>6, <2>1 DEF RevertsInside, HasHistory
<1> QED
  BY <1>1, <1>2, <1>3, <1>4, <1>5, <1>6, StackSteps

\* Once every applied rule is undone, whatever was cut and collapsed in
\* between, the forests are the input again and nothing is protected.
THEOREM UnwindingRestores == Spec => []UnwoundIsPristine
<1> DEFINE Inv == Shape /\ ShieldsAreOwned /\ HasHistory
<1>1. Init => Inv
  <2>1. Init => Stack = <<>> /\ protected = {}
    BY DEF Init, Stack
  <2> QED
    BY <2>1, InitHasShape, InitHasHistory DEF ShieldsAreOwned
<1>2. Inv /\ [Next]_vars => Inv'
  BY NextKeepsShape, NextKeepsOwnership, NextKeepsHistory
<1>3. Inv => UnwoundIsPristine
  <2> SUFFICES ASSUME Inv, applied = <<>>, current = <<>>
               PROVE  forests = trees /\ protected = {}
    BY DEF UnwoundIsPristine
  <2>1. Stack = <<>> /\ Len(Stack) = 0
    BY DEF Stack
  <2>2. PICK h : IsHistory(h)
    BY <2>1 DEF HasHistory
  <2>3. h[1][0] = trees /\ h[1][0] = forests
    BY <2>1, <2>2 DEF IsHistory
  <2> QED
    BY <2>1, <2>3 DEF ShieldsAreOwned
<1> QED
  BY <1>1, <1>2, <1>3, PTL DEF Spec

-----------------------------------------------------------------------------
(* A forest that is short of the nodes K.                                  *)

\* With K put back F is cut out of T, and no node of F is inside one of K.
ShortOf(T, F, K) ==
    /\ CutForest(T, F \cup K)
    /\ \A m \in F, o \in K : ~ m \subseteq o

\* Only nodes that stay have a node above them that goes: a cut does not tell
\* whether swallowed nodes are there.
LEMMA CutPassesSwallowed ==
    ASSUME NEW F, NEW K, NEW n \in F, \A o \in K : ~ n \subseteq o
    PROVE  CutEdge(F \cup K, n) = CutEdge(F, n) \cup K
BY DEF CutEdge

\* DeleteEdgeAction leaves the swallowed nodes where they are.
LEMMA CutStaysShort ==
    ASSUME NEW T \in Forest, Laminar(T), NEW F \in Forest, WellFormed(F), NEW K,
           ShortOf(T, F, K), NEW n \in F, HasParent(F, n)
    PROVE  ShortOf(T, CutEdge(F, n), K)
<1> DEFINE G == CutEdge(F, n)
           s == Sibling(F, n)
<1>1. CutEdge(F \cup K, n) = G \cup K
  BY CutPassesSwallowed DEF ShortOf
<1>2. HasParent(F \cup K, n)
  BY DEF HasParent
<1>3. CutForest(T, CutEdge(F \cup K, n))
  BY <1>2, CutKeepsCutForest DEF ShortOf
<1>4. s \in F /\ n \cap s = {} /\ \A m \in F : Above(n, m) => s \subseteq m
  BY Family
<1>5. G = {Trim(n, m) : m \in F}
  BY CutEdgeTrims
<1> HIDE DEF G, s
<1>6. ASSUME NEW m \in F, NEW o \in K, Trim(n, m) \subseteq o
      PROVE  FALSE
  <2>1. CASE Above(n, m)
    <3>1. s \subseteq o
      BY <1>4, <1>6, <2>1 DEF Trim
    <3> QED
      BY <1>4, <3>1 DEF ShortOf
  <2>2. CASE ~ Above(n, m)
    BY <1>6, <2>2 DEF Trim, ShortOf
  <2> QED
    BY <2>1, <2>2
<1>7. \A x \in G, o \in K : ~ x \subseteq o
  BY <1>5, <1>6
<1> QED
  BY <1>1, <1>3, <1>7 DEF ShortOf, G

\* CollapseSubtreeAction swallows the nodes below the one it collapses.
LEMMA CollapseSwallows ==
    ASSUME NEW T, NEW F, NEW K, ShortOf(T, F, K), NEW n \in F
    PROVE  ShortOf(T, CollapseAt(F, n), K \cup Below(F, n))
<1> DEFINE G == CollapseAt(F, n)
           L == K \cup Below(F, n)
<1>1. G \cup L = F \cup K
  BY DEF CollapseAt, Below
<1>2. ASSUME NEW m \in G, NEW o \in L
      PROVE  ~ m \subseteq o
  BY DEF CollapseAt, Below, ShortOf
<1> HIDE DEF G, L
<1> QED
  BY <1>1, <1>2 DEF ShortOf, G, L

-----------------------------------------------------------------------------
(* The nodes swallowed, as a stack of rules has them.                      *)

\* The collapses of tree i that the stack records.
Swallowed(S, i) ==
    {o \in Node : \E p \in DOMAIN S : \E q \in DOMAIN S[p].changes :
        S[p].changes[q].tree = i /\ o \in S[p].changes[q].kids}

\* What one change swallows in tree i.
SwallowedIn(change, i) == IF change.tree = i THEN change.kids ELSE {}

\* Of them, those made up to the j-th change of the k-th rule.
SwallowedBy(S, k, j, i) ==
    {o \in Node : \E p \in DOMAIN S : \E q \in DOMAIN S[p].changes :
        /\ p < k \/ (p = k /\ q <= j)
        /\ S[p].changes[q].tree = i
        /\ o \in S[p].changes[q].kids}

\* A rule on a stack has a sequence of changes.
LEMMA ChangesAreTyped ==
    ASSUME NEW S \in Seq(Rule), NEW p \in DOMAIN S
    PROVE  S[p].changes \in Seq(Change)
<1>1. S[p] \in Rule
  OBVIOUS
<1> QED
  BY <1>1 DEF Rule

\* What was swallowed by a change depends on the changes before it only.
LEMMA SwallowedByPrefix ==
    ASSUME NEW S \in Seq(Rule), NEW R \in Seq(Rule),
           NEW k \in DOMAIN S, k \in DOMAIN R, NEW j \in Nat,
           j <= Len(S[k].changes), j <= Len(R[k].changes),
           \A p \in 1..(k - 1) : S[p].changes = R[p].changes,
           \A q \in 1..j : S[k].changes[q] = R[k].changes[q],
           NEW i
    PROVE  SwallowedBy(S, k, j, i) = SwallowedBy(R, k, j, i)
<1>1. /\ \A p \in DOMAIN S : S[p].changes \in Seq(Change)
      /\ \A p \in DOMAIN R : R[p].changes \in Seq(Change)
  BY ChangesAreTyped
<1>2. ASSUME NEW U \in Seq(Rule), NEW V \in Seq(Rule), k \in DOMAIN U, k \in DOMAIN V,
             \A p \in DOMAIN U : U[p].changes \in Seq(Change),
             \A p \in DOMAIN V : V[p].changes \in Seq(Change),
             j <= Len(V[k].changes),
             \A p \in 1..(k - 1) : U[p].changes = V[p].changes,
             \A q \in 1..j : U[k].changes[q] = V[k].changes[q],
             NEW o \in SwallowedBy(U, k, j, i)
      PROVE  o \in SwallowedBy(V, k, j, i)
  <2>1. PICK p \in DOMAIN U : \E q \in DOMAIN U[p].changes :
            /\ p < k \/ (p = k /\ q <= j)
            /\ U[p].changes[q].tree = i /\ o \in U[p].changes[q].kids
    BY <1>2 DEF SwallowedBy
  <2>2. PICK q \in DOMAIN U[p].changes :
            /\ p < k \/ (p = k /\ q <= j)
            /\ U[p].changes[q].tree = i /\ o \in U[p].changes[q].kids
    BY <2>1
  <2>3. p \in Nat /\ k \in Nat /\ p \in DOMAIN V
    BY <1>2, <2>2
  <2>4. q \in DOMAIN V[p].changes /\ V[p].changes[q] = U[p].changes[q]
    <3>1. CASE p < k
      <4>1. p \in 1..(k - 1)
        BY <2>3, <3>1
      <4>2. U[p].changes = V[p].changes
        BY <1>2, <4>1
      <4> QED
        BY <2>2, <4>2
    <3>2. CASE p = k /\ q <= j
      <4>1. q \in 1..j
        BY <1>2, <3>2
      <4> QED
        BY <1>2, <3>2, <4>1
    <3> QED
      BY <2>2, <3>1, <3>2
  <2> QED
    BY <1>2, <2>2, <2>3, <2>4 DEF SwallowedBy
<1> DEFINE A == SwallowedBy(S, k, j, i)
           B == SwallowedBy(R, k, j, i)
<1>3. \A o \in A : o \in B
  BY <1>1, <1>2
<1>4. \A o \in B : o \in A
  BY <1>1, <1>2
<1> HIDE DEF A, B
<1>5. A = B
  BY <1>3, <1>4
<1> QED
  BY <1>5 DEF A, B

\* After the last change of the last rule it is everything.
LEMMA SwallowedInTheEnd ==
    ASSUME NEW S \in Seq(Rule), S # <<>>, NEW i
    PROVE  SwallowedBy(S, Len(S), Len(S[Len(S)].changes), i) = Swallowed(S, i)
<1> DEFINE n == Len(S)
           m == Len(S[n].changes)
<1>1. n \in Nat /\ DOMAIN S = 1..n
  OBVIOUS
<1>2. \A p \in DOMAIN S : S[p].changes \in Seq(Change)
  BY ChangesAreTyped
<1>3. \A p \in DOMAIN S : \A q \in DOMAIN S[p].changes :
          p < n \/ (p = n /\ q <= m)
  BY <1>1, <1>2
<1> HIDE DEF n, m
<1>4. SwallowedBy(S, n, m, i) = Swallowed(S, i)
  BY <1>3 DEF SwallowedBy, Swallowed
<1> QED
  BY <1>4 DEF n, m

\* Rules that have recorded nothing swallow nothing.
LEMMA SwallowedByNone ==
    ASSUME NEW S \in Seq(Rule), NEW r \in Rule, r.changes = <<>>, NEW i
    PROVE  /\ Swallowed(Append(S, r), i) = Swallowed(S, i)
           /\ SwallowedBy(Append(S, r), Len(S) + 1, 0, i) = Swallowed(S, i)
<1> DEFINE R == Append(S, r)
           n == Len(S)
<1>1. /\ R \in Seq(Rule) /\ Len(R) = n + 1 /\ R[n + 1] = r
      /\ \A p \in 1..n : R[p] = S[p]
      /\ n \in Nat
  BY AppendProperties
<1>2. Len(R[Len(R)].changes) = 0
  BY <1>1
<1> HIDE DEF R
<1>3. \A p \in DOMAIN R : \A q \in DOMAIN R[p].changes : p \in 1..n
  BY <1>1
<1>4. \A o : o \in Swallowed(R, i) <=> o \in Swallowed(S, i)
  BY <1>1, <1>3 DEF Swallowed
<1>5. Swallowed(R, i) = Swallowed(S, i)
  BY <1>4
<1>6. SwallowedBy(R, n + 1, 0, i) = Swallowed(R, i)
  BY <1>1, <1>2, SwallowedInTheEnd
<1> QED
  BY <1>5, <1>6 DEF R

\* The k-th rule of R has recorded one change more than that of S.
OneMore(S, R, k, change) ==
    /\ S \in Seq(Rule) /\ R \in Seq(Rule) /\ Len(R) = Len(S)
    /\ k \in DOMAIN S /\ change \in Change
    /\ \A p \in DOMAIN S : p # k => R[p].changes = S[p].changes
    /\ Len(R[k].changes) = Len(S[k].changes) + 1
    /\ R[k].changes[Len(S[k].changes) + 1] = change
    /\ \A q \in 1..Len(S[k].changes) : S[k].changes[q] = R[k].changes[q]

\* A change adds what it swallows.
LEMMA SwallowedByChange ==
    ASSUME NEW S, NEW R, NEW k, NEW change, OneMore(S, R, k, change), NEW i
    PROVE  Swallowed(R, i) = Swallowed(S, i)
               \cup SwallowedIn(change, i)
<1> DEFINE m == Len(S[k].changes)
<1>0. /\ S \in Seq(Rule) /\ R \in Seq(Rule) /\ Len(R) = Len(S)
      /\ k \in DOMAIN S /\ change \in Change
      /\ \A p \in DOMAIN S : p # k => R[p].changes = S[p].changes
      /\ Len(R[k].changes) = m + 1
      /\ R[k].changes[m + 1] = change
      /\ \A q \in 1..m : S[k].changes[q] = R[k].changes[q]
  BY DEF OneMore
<1>1. S[k].changes \in Seq(Change) /\ R[k].changes \in Seq(Change) /\ m \in Nat
  BY <1>0, ChangesAreTyped
<1>2. /\ DOMAIN R[k].changes = 1..(m + 1) /\ DOMAIN S[k].changes = 1..m
      /\ R[k].changes[m + 1] = change
      /\ \A q \in 1..m : R[k].changes[q] = S[k].changes[q]
  BY <1>0, <1>1
<1>3. DOMAIN R = DOMAIN S /\ k \in DOMAIN S
  BY <1>0
<1>k. change.kids \subseteq Node
  BY <1>0 DEF Change, Forest
<1> HIDE DEF m
<1>4. ASSUME NEW o \in Swallowed(R, i)
      PROVE  o \in Swallowed(S, i) \/ (change.tree = i /\ o \in change.kids)
  <2>1. PICK p \in DOMAIN R : \E q \in DOMAIN R[p].changes :
            R[p].changes[q].tree = i /\ o \in R[p].changes[q].kids
    BY DEF Swallowed
  <2>2. PICK q \in DOMAIN R[p].changes :
            R[p].changes[q].tree = i /\ o \in R[p].changes[q].kids
    BY <2>1
  <2>3. CASE p # k
    BY <1>0, <1>3, <2>2, <2>3 DEF Swallowed
  <2>4. CASE p = k /\ q \in 1..m
    BY <1>2, <1>3, <2>2, <2>4 DEF Swallowed
  <2>5. CASE p = k /\ q = m + 1
    BY <1>2, <2>2, <2>5
  <2>6. p = k => q \in 1..m \/ q = m + 1
    BY <1>1, <1>2
  <2> QED
    BY <2>3, <2>4, <2>5, <2>6
<1>5. ASSUME NEW o \in Swallowed(S, i)
      PROVE  o \in Swallowed(R, i)
  <2>1. PICK p \in DOMAIN S : \E q \in DOMAIN S[p].changes :
            S[p].changes[q].tree = i /\ o \in S[p].changes[q].kids
    BY DEF Swallowed
  <2>2. PICK q \in DOMAIN S[p].changes :
            S[p].changes[q].tree = i /\ o \in S[p].changes[q].kids
    BY <2>1
  <2>3. q \in DOMAIN R[p].changes /\ R[p].changes[q] = S[p].changes[q]
    BY <1>0, <1>1, <1>2
  <2> QED
    BY <1>3, <2>2, <2>3 DEF Swallowed
<1>6. ASSUME change.tree = i, NEW o \in change.kids
      PROVE  o \in Swallowed(R, i)
  <2>1. m + 1 \in DOMAIN R[k].changes
    BY <1>1, <1>2
  <2> QED
    BY <1>2, <1>3, <1>6, <1>k, <2>1 DEF Swallowed
<1> QED
  BY <1>4, <1>5, <1>6 DEF SwallowedIn

-----------------------------------------------------------------------------
(* The lineage of the forests: at every stage of the history, and now,     *)
(* each is short of the nodes swallowed so far.                            *)

\* An edit, recorded as it was made, keeps a forest short of what is swallowed.
LEMMA EditStaysShort ==
    ASSUME NEW before \in WellFormedForests, NEW after, NEW change \in Change,
           Records(change, before, after),
           NEW i \in TreeIds, NEW T \in Forest, Laminar(T), NEW K,
           ShortOf(T, before[i], K)
    PROVE  ShortOf(T, after[i], K \cup SwallowedIn(change, i))
<1>1. before[i] \in Forest /\ WellFormed(before[i]) /\ change.tree \in TreeIds
  BY DEF WellFormedForests, Change
<1>2. CASE change.tree # i
  <2>1. after[i] = before[i]
    BY <1>1, <1>2 DEF Records, WellFormedForests
  <2>2. K \cup SwallowedIn(change, i) = K
    BY <1>2 DEF SwallowedIn
  <2> QED
    BY <2>1, <2>2
<1>3. CASE change.tree = i
  <2> DEFINE F == before[i]
             n == change.node
  <2>1. n \in F
    BY <1>3 DEF Records
  <2>2. CASE HasParent(F, n) /\ change.kids = {} /\ after[i] = CutEdge(F, n)
    <3>1. ShortOf(T, CutEdge(F, n), K)
      BY <1>1, <2>1, <2>2, CutStaysShort
    <3>2. K \cup SwallowedIn(change, i) = K
      BY <2>2 DEF SwallowedIn
    <3> QED
      BY <2>2, <3>1, <3>2
  <2>3. CASE change.kids = Below(F, n) /\ after[i] = CollapseAt(F, n)
    <3>1. ShortOf(T, CollapseAt(F, n), K \cup Below(F, n))
      BY <2>1, CollapseSwallows
    <3> QED
      BY <1>3, <2>3, <3>1 DEF SwallowedIn
  <2>4. \/ HasParent(F, n) /\ change.kids = {} /\ after[i] = CutEdge(F, n)
        \/ change.kids = Below(F, n) /\ after[i] = CollapseAt(F, n)
    BY <1>1, <1>3 DEF Records, WellFormedForests
  <2> QED
    BY <2>2, <2>3, <2>4
<1> QED
  BY <1>2, <1>3

\* Now, with everything on the stack swallowed.
ShortNow ==
    \A i \in TreeIds : ShortOf(trees[i], forests[i], Swallowed(Stack, i))

\* As they were when the k-th rule had made j changes.
ShortAt(h, k, j) ==
    \A i \in TreeIds : ShortOf(trees[i], h[k][j][i], SwallowedBy(Stack, k, j, i))

\* At every stage of the history h, and now.
ShortThroughout(h) ==
    /\ ShortNow
    /\ \A k \in DOMAIN Stack : \A j \in 0..Len(Stack[k].changes) : ShortAt(h, k, j)

\* The cuts alone: the forests with the swallowed nodes put back.
CutOutOfInput ==
    \A i \in TreeIds : CutForest(trees[i], forests[i] \cup Swallowed(Stack, i))

\* The cuts and collapses lead back to the input; from the start of
\* unapplyReductions on, the history no longer does.
Lineage ==
    IF Ending THEN CutOutOfInput
    ELSE \E h : IsHistory(h) /\ ShortThroughout(h)

\* Another history, of the stack after a step, has every rule start where it
\* did.
Resumes(g, h) == \A k \in 1..Len(Stack) : g[k][0] = h[k][0]

\* The input is made of forests.
LEMMA InputIsLaminar ==
    ASSUME Shape, NEW i \in TreeIds
    PROVE  trees[i] \in Forest /\ WellFormed(trees[i]) /\ Laminar(trees[i])
BY InstancesAreForests DEF Shape, TypeOK, WellFormed

\* Before the first rule nothing is swallowed.
LEMMA InitHasLineage == Init => Lineage
<1> SUFFICES ASSUME Init PROVE Lineage
  OBVIOUS
<1>1. Shape /\ HasHistory /\ ~ Ending
  BY InitHasShape, InitHasHistory DEF Init, Ending
<1>2. PICK h : IsHistory(h)
  BY <1>1 DEF HasHistory
<1>3. Stack = <<>> /\ forests = trees
  BY DEF Init, Stack
<1>4. ASSUME NEW i \in TreeIds
      PROVE  ShortOf(trees[i], forests[i], Swallowed(Stack, i))
  <2>1. Swallowed(Stack, i) = {}
    BY <1>3 DEF Swallowed
  <2>2. CutForest(trees[i], trees[i])
    BY <1>1, InputIsLaminar, UncutTree
  <2>3. trees[i] \cup {} = trees[i]
    OBVIOUS
  <2> QED
    BY <1>3, <2>1, <2>2, <2>3 DEF ShortOf
<1>5. ShortThroughout(h)
  BY <1>3, <1>4 DEF ShortThroughout, ShortNow
<1> QED
  BY <1>1, <1>2, <1>5 DEF Lineage

\* A stage of the history whose changes are still on the stack is kept.
LEMMA StageIsKept ==
    ASSUME Shape, Stack' \in Seq(Rule), UNCHANGED trees,
           NEW h, NEW g, ShortThroughout(h),
           NEW k \in DOMAIN Stack, k \in DOMAIN Stack', NEW j \in Nat,
           j <= Len(Stack[k].changes), j <= Len(Stack'[k].changes),
           \A p \in 1..(k - 1) : Stack[p].changes = Stack'[p].changes,
           \A q \in 1..j : Stack[k].changes[q] = Stack'[k].changes[q],
           g[k][j] = h[k][j]
    PROVE  ShortAt(g, k, j)'
<1>1. Stack \in Seq(Rule)
  BY StackIsTyped
<1>2. j \in 0..Len(Stack[k].changes)
  BY <1>1, ChangesAreTyped
<1>3. \A i \in TreeIds : SwallowedBy(Stack, k, j, i) = SwallowedBy(Stack', k, j, i)
  BY <1>1, SwallowedByPrefix
<1>4. ShortAt(h, k, j)
  BY <1>2 DEF ShortThroughout
<1>5. ASSUME NEW i \in TreeIds
      PROVE  ShortOf(trees'[i], g[k][j][i], SwallowedBy(Stack', k, j, i))
  BY <1>3, <1>4 DEF ShortAt
<1> QED
  BY <1>5 DEF ShortAt

\* A new rule starts where the last one has come to.
LEMMA PushKeepsLineage ==
    ASSUME Shape, Pushes, NEW h, IsHistory(h), ShortThroughout(h)
    PROVE  \E g : (IsHistory(g) /\ ShortThroughout(g))' /\ Resumes(g, h)
<1> DEFINE n == Len(Stack)
<1>s. Stack \in Seq(Rule) /\ n \in Nat
  BY StackIsTyped
<1>1. PICK r \in Rule : r.changes = <<>> /\ Stack' = Append(Stack, r)
  BY DEF Pushes
<1>2. /\ Stack' \in Seq(Rule) /\ DOMAIN Stack' = 1..(n + 1) /\ Stack'[n + 1] = r
      /\ DOMAIN Stack = 1..n
      /\ \A k \in 1..n : Stack'[k] = Stack[k]
  BY <1>s, <1>1, AppendProperties
<1>3. PICK g : /\ IsHistory(g)'
               /\ \A k, j \in Nat : k <= n + 1 => g[k][j] = h[k][j]
  BY PushKeepsHistory
<1>4. UNCHANGED <<trees, forests>>
  BY DEF Pushes
<1>5. \A i \in TreeIds : /\ Swallowed(Stack', i) = Swallowed(Stack, i)
                        /\ SwallowedBy(Stack', n + 1, 0, i) = Swallowed(Stack, i)
  BY <1>s, <1>1, SwallowedByNone
<1>6. ShortNow /\ ShortNow'
  BY <1>4, <1>5 DEF ShortThroughout, ShortNow
<1>7. ASSUME NEW k \in DOMAIN Stack', NEW j \in 0..Len(Stack'[k].changes)
      PROVE  ShortAt(g, k, j)'
  <2>1. Stack'[k].changes \in Seq(Change) /\ j \in Nat /\ k \in Nat /\ k <= n + 1
    BY <1>s, <1>2, ChangesAreTyped
  <2>2. CASE k \in 1..n
    <3>1. g[k][j] = h[k][j] /\ j <= Len(Stack[k].changes)
          /\ j <= Len(Stack'[k].changes)
      BY <1>2, <1>3, <2>1, <2>2
    <3> QED
      BY <1>2, <1>4, <2>1, <2>2, <3>1, StageIsKept
  <2>3. CASE k = n + 1
    <3>1. j = 0
      BY <1>1, <1>2, <2>3
    <3>2. g[k][j] = forests
      BY <1>s, <1>3, <2>3, <3>1 DEF IsHistory
    <3> QED
      BY <1>4, <1>5, <1>6, <2>3, <3>1, <3>2 DEF ShortAt, ShortNow
  <2> QED
    BY <1>s, <2>1, <2>2, <2>3
<1>8. ShortThroughout(g)'
  BY <1>6, <1>7 DEF ShortThroughout
<1>9. Resumes(g, h)
  BY <1>s, <1>3 DEF Resumes
<1> QED
  BY <1>3, <1>8, <1>9

\* An edit is made on the last stage.
LEMMA EditKeepsLineage ==
    ASSUME Shape, Shape', Edits, NEW h, IsHistory(h), ShortThroughout(h)
    PROVE  \E g : (IsHistory(g) /\ ShortThroughout(g))' /\ Resumes(g, h)
<1> DEFINE n == Len(Stack)
           m == Len(TopRule.changes)
<1>s. Stack \in Seq(Rule) /\ n \in Nat /\ DOMAIN Stack = 1..n
  BY StackIsTyped
<1>0. n \in 1..n /\ TopRule = Stack[n] /\ TopRule \in Rule
  BY <1>s DEF Edits, TopRule
<1>c. TopRule.changes \in Seq(Change) /\ m \in Nat
  BY <1>0 DEF Rule
<1>1. PICK change \in Change, shields \in SUBSET ProtectedEdge :
          /\ Records(change, forests, forests')
          /\ Stack' = [Stack EXCEPT ![n] =
                          [TopRule EXCEPT !.changes = Append(TopRule.changes, change),
                                      !.shields = TopRule.shields \cup shields]]
  BY DEF Edits
<1>2. /\ Stack' \in Seq(Rule) /\ DOMAIN Stack' = 1..n /\ Len(Stack') = n
      /\ \A k \in 1..n : k # n => Stack'[k] = Stack[k]
      /\ Stack'[n].changes = Append(Stack[n].changes, change)
  <2> DEFINE rule == [TopRule EXCEPT !.changes = Append(TopRule.changes, change),
                                 !.shields = TopRule.shields \cup shields]
  <2>1. Append(TopRule.changes, change) \in Seq(Change)
        /\ TopRule.shields \cup shields \in SUBSET ProtectedEdge
    BY <1>0, <1>c DEF Rule
  <2>2. rule \in Rule /\ rule.changes = Append(TopRule.changes, change)
    BY <1>0, <2>1 DEF Rule
  <2> HIDE DEF rule
  <2>3. Stack' = [Stack EXCEPT ![n] = rule]
    BY <1>1 DEF rule
  <2>4. /\ Stack' \in Seq(Rule) /\ DOMAIN Stack' = 1..n /\ Len(Stack') = n
        /\ \A k \in 1..n : k # n => Stack'[k] = Stack[k]
        /\ Stack'[n] = rule
    BY <1>s, <1>0, <2>2, <2>3
  <2> QED
    BY <1>0, <2>2, <2>4
<1>3. /\ m = Len(Stack[n].changes)
      /\ Len(Stack'[n].changes) = m + 1 /\ Stack'[n].changes[m + 1] = change
      /\ \A q \in 1..m : Stack[n].changes[q] = Stack'[n].changes[q]
  <2> DEFINE old == Stack[n].changes
  <2>1. old \in Seq(Change) /\ m = Len(old)
    BY <1>0, <1>c
  <2> HIDE DEF old, m
  <2>2. /\ Len(Append(old, change)) = m + 1 /\ Append(old, change)[m + 1] = change
        /\ \A q \in 1..m : old[q] = Append(old, change)[q]
    BY <2>1, AppendProperties
  <2> QED
    BY <1>2, <2>1, <2>2 DEF old
<1>4. PICK g : /\ IsHistory(g)'
               /\ \A k, j \in Nat : k < n \/ (k = n /\ j <= m) => g[k][j] = h[k][j]
  BY EditKeepsHistory
<1>5. UNCHANGED trees /\ forests \in WellFormedForests
  BY HistoryIsOfWellFormed DEF Edits
<1> HIDE DEF n, m
<1>6. \A i \in TreeIds : Swallowed(Stack', i) = Swallowed(Stack, i)
          \cup SwallowedIn(change, i)
  <2>1. n \in DOMAIN Stack /\ Len(Stack') = Len(Stack)
    BY <1>s, <1>0, <1>2 DEF n
  <2>2. \A p \in DOMAIN Stack : p # n => Stack'[p].changes = Stack[p].changes
    BY <1>s, <1>2
  <2>3. Stack \in Seq(Rule) /\ Stack' \in Seq(Rule) /\ change \in Change
    BY <1>s, <1>1, <1>2
  <2>4. /\ Len(Stack'[n].changes) = Len(Stack[n].changes) + 1
        /\ Stack'[n].changes[Len(Stack[n].changes) + 1] = change
        /\ \A q \in 1..Len(Stack[n].changes) :
              Stack[n].changes[q] = Stack'[n].changes[q]
    BY <1>3
  <2>5. OneMore(Stack, Stack', n, change)
    BY <2>1, <2>2, <2>3, <2>4 DEF OneMore
  <2> QED
    BY <2>5, SwallowedByChange
<1>7. ShortNow'
  <2> SUFFICES ASSUME NEW i \in TreeIds
               PROVE  ShortOf(trees[i], forests'[i], Swallowed(Stack', i))
    BY <1>5 DEF ShortNow
  <2>1. trees[i] \in Forest /\ Laminar(trees[i])
    BY InputIsLaminar
  <2>2. ShortOf(trees[i], forests[i], Swallowed(Stack, i))
    BY DEF ShortThroughout, ShortNow
  <2>3. ShortOf(trees[i], forests'[i], Swallowed(Stack, i)
                    \cup SwallowedIn(change, i))
    BY <1>1, <1>5, <2>1, <2>2, EditStaysShort
  <2> QED
    BY <1>6, <2>3
<1>8. ASSUME NEW k \in DOMAIN Stack', NEW j \in 0..Len(Stack'[k].changes)
      PROVE  ShortAt(g, k, j)'
  <2>1. /\ Stack'[k].changes \in Seq(Change) /\ Stack[k].changes \in Seq(Change)
        /\ j \in Nat /\ k \in 1..n /\ k \in Nat
    BY <1>s, <1>2, ChangesAreTyped
  <2>2. \A p \in 1..(k - 1) : Stack[p].changes = Stack'[p].changes
    BY <1>s, <1>2, <2>1
  <2>3. CASE k < n \/ j <= m
    <3>1. g[k][j] = h[k][j]
      BY <1>4, <1>s, <2>1, <2>3
    <3>2. /\ j <= Len(Stack[k].changes) /\ j <= Len(Stack'[k].changes)
          /\ \A q \in 1..j : Stack[k].changes[q] = Stack'[k].changes[q]
      <4>1. CASE k < n
        BY <1>2, <2>1, <4>1
      <4>2. CASE k = n
        BY <1>0, <1>c, <1>3, <2>1, <2>3, <4>2 DEF m
      <4> QED
        BY <1>s, <2>1, <4>1, <4>2
    <3> QED
      BY <1>s, <1>2, <1>5, <2>1, <2>2, <3>1, <3>2, StageIsKept
  <2>4. CASE k = n /\ j = m + 1
    <3>1. g[k][j] = forests'
      <4>1. /\ g[n + 1][0] = forests'
            /\ g[n + 1][0] = g[n][Len(Stack'[n].changes)]
        BY <1>0, <1>2, <1>4 DEF IsHistory
      <4> QED
        BY <1>3, <2>4, <4>1
    <3>2. \A i \in TreeIds : SwallowedBy(Stack', k, j, i) = Swallowed(Stack', i)
      <4>1. Stack' # <<>> /\ Len(Stack') = k /\ Len(Stack'[Len(Stack')].changes) = j
        BY <1>0, <1>2, <1>3, <2>4
      <4> QED
        BY <1>2, <4>1, SwallowedInTheEnd
    <3> QED
      BY <1>7, <3>1, <3>2 DEF ShortAt, ShortNow
  <2> QED
    BY <1>s, <1>c, <1>3, <2>1, <2>3, <2>4
<1>9. ShortThroughout(g)'
  BY <1>7, <1>8 DEF ShortThroughout
<1>10. Resumes(g, h)
  <2>1. \A k \in 1..n : k \in Nat /\ (k < n \/ (k = n /\ 0 <= m))
    BY <1>s, <1>c
  <2> QED
    BY <1>4, <2>1 DEF Resumes, n
<1> QED
  BY <1>4, <1>9, <1>10

\* Undoing the last change goes back to the stage it was made on.
LEMMA RevertKeepsLineage ==
    ASSUME Shape, Shape', Reverts, NEW h, IsHistory(h), ShortThroughout(h)
    PROVE  \E g : (IsHistory(g) /\ ShortThroughout(g))' /\ Resumes(g, h)
<1> DEFINE n == Len(Stack)
           m == Len(TopRule.changes)
<1>s. Stack \in Seq(Rule) /\ n \in Nat /\ DOMAIN Stack = 1..n
  BY StackIsTyped
<1>0. n \in 1..n /\ TopRule = Stack[n] /\ TopRule \in Rule
  BY <1>s DEF Reverts, TopRule
<1>c. TopRule.changes \in Seq(Change) /\ m \in Nat /\ m \in 1..m
  BY <1>0 DEF Rule, Reverts
<1>2. /\ Stack' \in Seq(Rule) /\ DOMAIN Stack' = 1..n /\ Len(Stack') = n
      /\ \A k \in 1..n : k # n => Stack'[k] = Stack[k]
      /\ Stack'[n].changes = Front(TopRule.changes)
  <2> DEFINE rule == [TopRule EXCEPT !.changes = Front(TopRule.changes)]
  <2>1. Front(TopRule.changes) \in Seq(Change)
    BY <1>c DEF Front
  <2>2. rule \in Rule /\ rule.changes = Front(TopRule.changes)
    BY <1>0, <2>1 DEF Rule
  <2> HIDE DEF rule
  <2>3. Stack' = [Stack EXCEPT ![n] = rule]
    BY DEF rule, Reverts
  <2>4. /\ Stack' \in Seq(Rule) /\ DOMAIN Stack' = 1..n /\ Len(Stack') = n
        /\ \A k \in 1..n : k # n => Stack'[k] = Stack[k]
        /\ Stack'[n] = rule
    BY <1>s, <1>0, <2>2, <2>3
  <2> QED
    BY <2>2, <2>4
<1>3. /\ Len(Stack'[n].changes) = m - 1 /\ Len(Stack[n].changes) = m
      /\ \A q \in 1..(m - 1) : Stack[n].changes[q] = Stack'[n].changes[q]
  <2> DEFINE old == Stack[n].changes
  <2>1. old \in Seq(Change) /\ m = Len(old) /\ m \in Nat /\ m \in 1..m
    BY <1>0, <1>c
  <2>2. Stack'[n].changes = Front(old)
    BY <1>0, <1>2
  <2> HIDE DEF old, m
  <2>3. /\ Len(Front(old)) = m - 1
        /\ \A q \in 1..(m - 1) : old[q] = Front(old)[q]
    BY <2>1 DEF Front
  <2> QED
    BY <2>1, <2>2, <2>3 DEF old
<1>4. PICK g : /\ IsHistory(g)'
               /\ \A k, j \in Nat : k <= n => g[k][j] = h[k][j]
  BY RevertKeepsHistory
<1>5. UNCHANGED trees
  BY DEF Reverts
<1> HIDE DEF n, m
<1>6. ASSUME NEW k \in DOMAIN Stack', NEW j \in 0..Len(Stack'[k].changes)
      PROVE  ShortAt(g, k, j)'
  <2>1. /\ Stack'[k].changes \in Seq(Change) /\ Stack[k].changes \in Seq(Change)
        /\ j \in Nat /\ k \in 1..n /\ k \in Nat /\ k <= n
    BY <1>s, <1>2, ChangesAreTyped
  <2>2. \A p \in 1..(k - 1) : Stack[p].changes = Stack'[p].changes
    BY <1>s, <1>2, <2>1
  <2>3. g[k][j] = h[k][j]
    BY <1>4, <2>1
  <2>4. /\ j <= Len(Stack[k].changes) /\ j <= Len(Stack'[k].changes)
        /\ \A q \in 1..j : Stack[k].changes[q] = Stack'[k].changes[q]
    <3>1. CASE k < n
      BY <1>2, <2>1, <3>1
    <3>2. CASE k = n
      BY <1>c, <1>3, <2>1, <3>2
    <3> QED
      BY <1>s, <2>1, <3>1, <3>2
  <2> QED
    BY <1>s, <1>2, <1>5, <2>1, <2>2, <2>3, <2>4, StageIsKept
<1>7. ShortNow'
  <2>1. n \in DOMAIN Stack' /\ m - 1 \in 0..Len(Stack'[n].changes)
    BY <1>0, <1>c, <1>2, <1>3
  <2>2. \A i \in TreeIds :
            ShortOf(trees'[i], g[n][m - 1][i], SwallowedBy(Stack', n, m - 1, i))
    <3>1. ASSUME NEW k \in DOMAIN Stack', NEW j \in 0..Len(Stack'[k].changes),
                 NEW i \in TreeIds
          PROVE  ShortOf(trees'[i], g[k][j][i], SwallowedBy(Stack', k, j, i))
      BY <1>6 DEF ShortAt
    <3> QED
      BY <2>1, <3>1
  <2>3. g[n][m - 1] = forests'
    <3>1. /\ g[n + 1][0] = forests'
          /\ g[n + 1][0] = g[n][Len(Stack'[n].changes)]
      BY <1>0, <1>2, <1>4 DEF IsHistory
    <3> QED
      BY <1>3, <3>1
  <2>4. \A i \in TreeIds : SwallowedBy(Stack', n, m - 1, i) = Swallowed(Stack', i)
    <3>1. Stack' # <<>> /\ Len(Stack') = n /\ Len(Stack'[Len(Stack')].changes) = m - 1
      BY <1>0, <1>2, <1>3
    <3> QED
      BY <1>2, <3>1, SwallowedInTheEnd
  <2> QED
    BY <2>2, <2>3, <2>4 DEF ShortNow
<1>8. ShortThroughout(g)'
  BY <1>6, <1>7 DEF ShortThroughout
<1>9. Resumes(g, h)
  <2>1. \A k \in 1..n : k \in Nat /\ k <= n
    BY <1>s
  <2> QED
    BY <1>4, <2>1 DEF Resumes, n
<1> QED
  BY <1>4, <1>8, <1>9

\* A rule that is popped has nothing swallowed left.
LEMMA PopKeepsLineage ==
    ASSUME Shape, Pops, NEW h, IsHistory(h), ShortThroughout(h)
    PROVE  (IsHistory(h) /\ ShortThroughout(h))'
<1> DEFINE n == Len(Stack)
<1>s. Stack \in Seq(Rule) /\ n \in Nat /\ DOMAIN Stack = 1..n
  BY StackIsTyped
<1>0. n \in 1..n /\ TopRule = Stack[n] /\ TopRule.changes = <<>>
  BY <1>s DEF Pops, TopRule
<1>1. Stack' = Front(Stack) /\ UNCHANGED <<trees, forests>>
  BY DEF Pops
<1>2. /\ Stack' \in Seq(Rule) /\ DOMAIN Stack' = 1..(n - 1) /\ Len(Stack') = n - 1
      /\ \A k \in 1..(n - 1) : Stack'[k] = Stack[k]
  BY <1>s, <1>0, <1>1 DEF Front
<1>3. Stack = Append(Stack', TopRule)
  <2> HIDE DEF n
  <2>1. TopRule \in Rule /\ n - 1 \in Nat /\ n = Len(Stack)
    BY <1>s, <1>0 DEF n
  <2>2. /\ Append(Stack', TopRule) \in Seq(Rule) /\ Len(Append(Stack', TopRule)) = n
        /\ \A k \in 1..n : Append(Stack', TopRule)[k] = Stack[k]
    <3>1. /\ Append(Stack', TopRule) \in Seq(Rule)
          /\ Len(Append(Stack', TopRule)) = Len(Stack') + 1
          /\ \A k \in 1..Len(Stack') : Append(Stack', TopRule)[k] = Stack'[k]
          /\ Append(Stack', TopRule)[Len(Stack') + 1] = TopRule
      BY <1>2, <2>1, AppendProperties
    <3> QED
      BY <1>0, <1>2, <2>1, <3>1
  <2> QED
    BY <1>s, <2>1, <2>2, SeqEqual
<1>4. \A i \in TreeIds : Swallowed(Stack', i) = Swallowed(Stack, i)
  <2>1. TopRule \in Rule
    BY <1>s, <1>0
  <2>2. \A i \in TreeIds : Swallowed(Append(Stack', TopRule), i) = Swallowed(Stack', i)
    BY <1>0, <1>2, <2>1, SwallowedByNone
  <2> QED
    BY <1>3, <2>2
<1>5. ShortNow'
  BY <1>1, <1>4 DEF ShortThroughout, ShortNow
<1>6. ASSUME NEW k \in DOMAIN Stack', NEW j \in 0..Len(Stack'[k].changes)
      PROVE  ShortAt(h, k, j)'
  <2>1. /\ Stack'[k].changes \in Seq(Change) /\ j \in Nat /\ k \in 1..(n - 1)
        /\ k \in DOMAIN Stack /\ Stack'[k] = Stack[k]
    BY <1>s, <1>2, ChangesAreTyped
  <2>2. \A p \in 1..(k - 1) : Stack[p].changes = Stack'[p].changes
    BY <1>s, <1>2, <2>1
  <2>3. j <= Len(Stack[k].changes) /\ j <= Len(Stack'[k].changes)
    BY <2>1
  <2> QED
    BY <1>1, <1>2, <2>1, <2>2, <2>3, StageIsKept
<1>7. IsHistory(h)'
  BY PopKeepsHistory
<1>8. ShortThroughout(h)'
  BY <1>5, <1>6 DEF ShortThroughout
<1> QED
  BY <1>7, <1>8

\* unapplyReductions puts back what a reduction has swallowed, no matter how
\* many rules were applied after it: the cuts alone are what they were.
LEMMA InsideKeepsCuts ==
    ASSUME Shape, RevertsInside
    PROVE  \A i \in TreeIds :
               forests'[i] \cup Swallowed(Stack', i) = forests[i] \cup Swallowed(Stack, i)
<1>s. Stack \in Seq(Rule) /\ Stack = applied
  BY StackIsTyped DEF RevertsInside, Ending
<1>1. PICK k \in DOMAIN Stack :
          /\ IsReduction(Stack[k]) /\ Stack[k].changes # <<>>
          /\ Stack' = [Stack EXCEPT ![k] =
                          [Stack[k] EXCEPT !.changes = Front(Stack[k].changes)]]
          /\ forests' = Reverted(forests, Last(Stack[k].changes))
  BY DEF RevertsInside
<1> DEFINE old == Stack[k].changes
           m == Len(old)
           change == Last(old)
<1>2. old \in Seq(Change) /\ m \in Nat /\ m \in 1..m /\ Stack[k] \in Rule
  <2>1. Stack[k] \in Rule
    BY <1>s
  <2>2. old \in Seq(Change) /\ old # <<>>
    BY <1>1, <2>1 DEF Rule
  <2> HIDE DEF old
  <2> QED
    BY <2>1, <2>2
<1>3. change \in Change /\ change = old[m] /\ change.kind = "collapse"
  <2>1. Recorded(Stack[k])
    BY <1>s DEF Shape, Entered
  <2> QED
    BY <1>1, <1>2, <2>1 DEF Recorded, Last
<1>4. OneMore(Stack', Stack, k, change)
  <2> DEFINE rule == [Stack[k] EXCEPT !.changes = Front(old)]
  <2>1. /\ Front(old) \in Seq(Change) /\ Len(Front(old)) = m - 1
        /\ \A q \in 1..(m - 1) : Front(old)[q] = old[q]
    BY <1>2 DEF Front
  <2>2. rule \in Rule /\ rule.changes = Front(old)
    BY <1>2, <2>1 DEF Rule
  <2> HIDE DEF rule
  <2>3. Stack' = [Stack EXCEPT ![k] = rule]
    BY <1>1 DEF rule
  <2>4. /\ Stack' \in Seq(Rule) /\ Len(Stack') = Len(Stack) /\ k \in DOMAIN Stack'
        /\ Stack'[k] = rule
        /\ \A p \in DOMAIN Stack' : p # k => Stack'[p] = Stack[p]
    BY <1>s, <2>2, <2>3
  <2>5. Stack'[k].changes = Front(old)
    BY <2>2, <2>4
  <2> HIDE DEF change, old
  <2>6. m = m - 1 + 1
    BY <1>2
  <2>7. /\ Len(Stack[k].changes) = Len(Stack'[k].changes) + 1
        /\ Stack[k].changes[Len(Stack'[k].changes) + 1] = change
        /\ \A q \in 1..Len(Stack'[k].changes) :
              Stack'[k].changes[q] = Stack[k].changes[q]
    BY <1>3, <2>1, <2>5, <2>6 DEF old
  <2> QED
    BY <1>s, <1>3, <2>4, <2>7 DEF OneMore
<1> HIDE DEF old, change
<1>5. ASSUME NEW i \in TreeIds
      PROVE  forests'[i] \cup Swallowed(Stack', i) = forests[i] \cup Swallowed(Stack, i)
  <2>1. Swallowed(Stack, i) = Swallowed(Stack', i) \cup SwallowedIn(change, i)
    BY <1>4, SwallowedByChange
  <2>2. forests'[i] = forests[i] \cup SwallowedIn(change, i)
    <3>1. forests' = [forests EXCEPT ![change.tree] = @ \cup change.kids]
      BY <1>1, <1>3 DEF Reverted, Undone, UncollapseAt, change, old
    <3>2. forests \in [TreeIds -> Forest]
      BY DEF Shape, TypeOK
    <3> QED
      BY <3>1, <3>2 DEF SwallowedIn
  <2> QED
    BY <2>1, <2>2
<1> QED
  BY <1>5

\* So what they leave of the input is what it was.
LEMMA InsideKeepsLineage ==
    ASSUME Shape, RevertsInside, CutOutOfInput
    PROVE  CutOutOfInput'
<1>1. UNCHANGED trees
  BY DEF RevertsInside
<1> QED
  BY <1>1, InsideKeepsCuts DEF CutOutOfInput

\* Until unapplyReductions every step leaves a history that resumes the one
\* before it.
LEMMA StepKeepsLineage ==
    ASSUME Shape, Shape', [Next]_vars, ~ Ending,
           NEW h, IsHistory(h), ShortThroughout(h)
    PROVE  \E g : (IsHistory(g) /\ ShortThroughout(g))' /\ Resumes(g, h)
<1>0. Resumes(h, h)
  BY DEF Resumes
<1>1. CASE Rests
  <2>1. (IsHistory(h) /\ ShortThroughout(h))'
    BY <1>1 DEF Rests, IsHistory, ShortThroughout, ShortNow, ShortAt
  <2> QED
    BY <1>0, <2>1
<1>2. CASE Pushes
  BY <1>2, PushKeepsLineage
<1>3. CASE Edits
  BY <1>3, EditKeepsLineage
<1>4. CASE Reverts
  BY <1>4, RevertKeepsLineage
<1>5. CASE Pops
  BY <1>0, <1>5, PopKeepsLineage
<1>6. ~ RevertsInside
  BY DEF RevertsInside
<1> QED
  BY <1>1, <1>2, <1>3, <1>4, <1>5, <1>6, StackSteps

\* Every step keeps the lineage.
LEMMA NextKeepsLineage ==
    ASSUME Shape, Shape', [Next]_vars, Lineage
    PROVE  Lineage'
<1>1. CASE ~ Ending
  <2>1. PICK h : IsHistory(h) /\ ShortThroughout(h)
    BY <1>1 DEF Lineage
  <2>2. PICK g : (IsHistory(g) /\ ShortThroughout(g))'
    BY <1>1, <2>1, StepKeepsLineage
  <2>3. CutOutOfInput'
    BY <2>2 DEF ShortThroughout, ShortNow, ShortOf, CutOutOfInput
  <2> QED
    BY <2>2, <2>3 DEF Lineage
<1>2. CASE Ending
  <2>1. CutOutOfInput
    BY <1>2 DEF Lineage
  <2>2. CASE Rests
    BY <1>2, <2>1, <2>2 DEF Rests, Lineage, CutOutOfInput
  <2>3. CASE RevertsInside
    BY <2>1, <2>3, InsideKeepsLineage DEF RevertsInside, Lineage
  <2> QED
    BY <1>2, <2>2, <2>3, StackSteps DEF Pushes, Edits, Reverts, Pops
<1> QED
  BY <1>1, <1>2

-----------------------------------------------------------------------------
(* unapplyReductions comes to every reduction.                             *)

\* The reductions behind its position are undone.
Cleared ==
    Ending =>
        /\ \A k \in DOMAIN applied :
              k > index /\ IsReduction(applied[k]) => applied[k].changes = <<>>
        /\ pc = "output" => index = 0

\* No step puts a change on a reduction that was undone.
LEMMA NextKeepsCleared ==
    ASSUME Shape, Shape', [Next]_vars, Cleared
    PROVE  Cleared'
<1>1. CASE UnapplyReductions
  BY <1>1 DEF UnapplyReductions, search, Cleared, Ending, Shape, TypeOK
<1>2. CASE UndoReductionChange
  <2>1. /\ pc = "restoring" /\ pc' = pc /\ index' = index
        /\ index \in DOMAIN applied
        /\ applied' = [applied EXCEPT ![index].changes = Front(@)]
    BY <1>2 DEF UndoReductionChange, PendingReduction, Shape, TypeOK
  <2>2. \A k \in DOMAIN applied' : k > index => applied'[k] = applied[k]
    BY <2>1 DEF Shape, TypeOK
  <2> QED
    BY <2>1, <2>2 DEF Cleared, Ending
<1>3. CASE NextReduction
  <2>1. /\ pc = "restoring" /\ ~ PendingReduction /\ applied' = applied
        /\ index \in 0..Len(applied)
        /\ IF index > 0 THEN index' = index - 1 /\ pc' = pc
           ELSE pc' = "output" /\ index' = index
    BY <1>3 DEF NextReduction, Shape
  <2>2. /\ \A k \in DOMAIN applied :
              k > index /\ IsReduction(applied[k]) => applied[k].changes = <<>>
        /\ index > 0 /\ IsReduction(applied[index]) => applied[index].changes = <<>>
    BY <2>1 DEF PendingReduction, Cleared, Ending
  <2>3. applied \in Seq(Rule)
    BY DEF Shape, TypeOK
  <2>4. \A k \in DOMAIN applied' :
            k > index' /\ IsReduction(applied'[k]) => applied'[k].changes = <<>>
    BY <2>1, <2>2, <2>3
  <2> QED
    BY <2>1, <2>4 DEF Cleared
<1>4. CASE Sigterm \/ Terminated \/ UNCHANGED vars
  BY <1>4 DEF Sigterm, Terminated, vars, Cleared, Ending
<1>5. CASE AdvanceSearch \/ ApplyActiveRule \/ RaiseThreshold
  BY <1>5 DEF AdvanceSearch, CallAdvanceSearch, ReturnSolved, ReturnPaused,
              ApplyQueuedRule, ApplyActiveRule, EnterRule, RaiseThreshold,
              Cleared, Ending
<1>6. CASE Apply
  <2>1. pc = "applying"
    BY <1>6 DEF Apply, NextForest, SkipEdit, CutNode, CollapseNode, ApplyBlocked,
                ReplayedRule, ReturnContinue, ReturnCutBranch,
                ReturnBoundedSolution, ReturnSolutionCandidate, Returns,
                ApplyDone, EditsLeft, InForestLoop, InApply
  <2>2. pc' \in {"applying", "replaying", "endOfBranch", "top", "stopped"}
    BY <1>6, <2>1
       DEF Apply, NextForest, SkipEdit, CutNode, CollapseNode, ApplyBlocked,
           ReplayedRule, ReturnToReplay, ReturnContinue, ReturnCutBranch,
           SearchSpaceDone, ReturnBoundedSolution, ReturnSolutionCandidate
  <2> QED
    BY <2>2 DEF Cleared, Ending
<1>7. CASE RollBack
  <2>1. pc' \in Unapplying \cup {"top", "stopped"}
    BY <1>7 DEF RollBack, UndoChange, DiscardRule, AbandonBranch, RollBackBranch,
                EnterNextBranch, NothingLeft, SearchSpaceDone, Unapplying
  <2> QED
    BY <2>1 DEF Cleared, Ending, Unapplying
<1>8. CASE \/ Finalize \/ StartReplay \/ ReplayRule \/ EndReplay
           \/ TakeSeed \/ SeedSearch
  BY <1>8 DEF Finalize, StartReplay, ReplayRule, EnterRule, EndReplay, TakeSeed,
              SeedSearch, Cleared, Ending
<1> QED
  BY <1>1, <1>2, <1>3, <1>4, <1>5, <1>6, <1>7, <1>8
     DEF Next, SolverStep, OtherStep, Finish

-----------------------------------------------------------------------------
(* The output.                                                             *)

\* What is written is a forest cut out of each tree of the input.
OutputIsCutOutOfInput ==
    pc = "output" => \A i \in TreeIds : CutForest(trees[i], forests[i])

\* In the end nothing is swallowed: the reductions are undone and the other
\* rules have cut only.
LEMMA NothingStaysSwallowed ==
    ASSUME Shape, Cleared, pc = "output", NEW i \in TreeIds
    PROVE  Swallowed(Stack, i) = {}
<1>1. index = 0 /\ Stack = applied /\ applied \in Seq(Rule)
  BY StackIsTyped DEF Ending, Cleared, Shape, TypeOK
<1> SUFFICES ASSUME NEW p \in DOMAIN applied, NEW q \in DOMAIN applied[p].changes
             PROVE  applied[p].changes[q].kids = {}
  BY <1>1 DEF Swallowed
<1>2. Recorded(applied[p])
  BY DEF Shape, Entered
<1>3. ~ IsReduction(applied[p])
  BY <1>1 DEF Cleared, Ending
<1> QED
  BY <1>2, <1>3 DEF Recorded

\* So the output is what the cuts leave.
LEMMA OutputIsLeftByCuts ==
    ASSUME Shape, Lineage, Cleared
    PROVE  OutputIsCutOutOfInput
<1> SUFFICES ASSUME pc = "output", NEW i \in TreeIds
             PROVE  CutForest(trees[i], forests[i])
  BY DEF OutputIsCutOutOfInput
<1>1. Swallowed(Stack, i) = {}
  BY NothingStaysSwallowed
<1>2. CutForest(trees[i], forests[i] \cup Swallowed(Stack, i))
  BY DEF Lineage, CutOutOfInput, Ending
<1>3. forests[i] \cup {} = forests[i]
  OBVIOUS
<1> QED
  BY <1>1, <1>2, <1>3

\* Whatever the search did, however often it was paused or stopped: a forest
\* that is written is what some cuts leave of its tree, every component a
\* full induced subtree, no two of them on the same node.  The collapses are
\* undone with later cuts still applied, and none of them is forgotten.
THEOREM OutputIsCut == Spec => []OutputIsCutOutOfInput
<1> DEFINE Inv == Shape /\ Lineage /\ Cleared
<1>1. Init => Inv
  <2>1. Init => Cleared
    BY DEF Init, Cleared, Ending
  <2> QED
    BY <2>1, InitHasShape, InitHasLineage
<1>2. Inv /\ [Next]_vars => Inv'
  BY NextKeepsShape, NextKeepsLineage, NextKeepsCleared
<1>3. Inv => OutputIsCutOutOfInput
  BY OutputIsLeftByCuts
<1> QED
  BY <1>1, <1>2, <1>3, PTL DEF Spec

\* A forest cut out of a tree has no other nodes than those the tree induces
\* on its components.
LEMMA NodesOfCutForest ==
    ASSUME NEW T, NEW F, CutForest(T, F)
    PROVE  /\ IsPartition(Roots(F), Labels)
           /\ F = UNION {Induced(T, b) : b \in Roots(F)}
<1>1. F \in Forest /\ WellFormed(F)
  BY DEF CutForest
<1>2. \A b \in Roots(F) : NodesWithin(F, b) = Induced(T, b)
  BY DEF CutForest
<1>3. \A m \in F : \E b \in Roots(F) : m \subseteq b
  BY <1>1, RootAbove
<1>4. IsPartition(Roots(F), Labels)
  <2>1. UNION Roots(F) = Labels
    <3>1. \A l \in Labels : \E m \in F : l \in m
      BY <1>1 DEF WellFormed
    <3>2. \A l \in Labels : \E b \in Roots(F) : l \in b
      BY <1>3, <3>1
    <3>3. \A b \in Roots(F) : b \subseteq Labels
      BY <1>1 DEF Roots, Forest, Node
    <3> QED
      BY <3>2, <3>3
  <2>2. {} \notin Roots(F)
    BY <1>1 DEF Roots, WellFormed, NullNode
  <2>3. \A b, c \in Roots(F) : b = c \/ b \cap c = {}
    BY <1>1, RootsAreApart
  <2> QED
    BY <2>1, <2>2, <2>3 DEF IsPartition
<1>5. \A z : z \in F <=> \E b \in Roots(F) : z \in NodesWithin(F, b)
  BY <1>3 DEF NodesWithin
<1>6. \A z : z \in UNION {Induced(T, b) : b \in Roots(F)}
          <=> \E b \in Roots(F) : z \in Induced(T, b)
  OBVIOUS
<1>7. \A z : z \in F <=> z \in UNION {Induced(T, b) : b \in Roots(F)}
  BY <1>2, <1>5, <1>6
<1> QED
  BY <1>4, <1>7

-----------------------------------------------------------------------------
(* The forests and the trees they are cut out of.                          *)

\* A swallowed node lies inside a node that stayed, so that the roots are the
\* same with it and without.
LEMMA RootsOfShort ==
    ASSUME NEW T, NEW F \in Forest, WellFormed(F), NEW K, ShortOf(T, F, K)
    PROVE  Roots(F \cup K) = Roots(F)
<1> DEFINE G == F \cup K
<1>1. G \in Forest /\ WellFormed(G) /\ \A m \in F, o \in K : ~ m \subseteq o
  BY DEF ShortOf, CutForest
<1>2. ASSUME NEW o \in K
      PROVE  \E m \in F : o \subseteq m /\ m # o
  <2>1. o \in G /\ o # {} /\ o \subseteq Labels
    BY <1>1 DEF WellFormed, NullNode, Forest, Node
  <2>2. PICK m \in F : o \cap m # {}
    BY <2>1 DEF WellFormed
  <2> QED
    BY <1>1, <2>1, <2>2 DEF WellFormed, Laminar
<1> HIDE DEF G
<1>3. ASSUME NEW r \in Roots(G)
      PROVE  r \in Roots(F)
  <2>1. r \notin K
    BY <1>2 DEF Roots, G
  <2> QED
    BY <2>1 DEF Roots, G
<1>4. ASSUME NEW r \in Roots(F)
      PROVE  r \in Roots(G)
  <2>1. \A m \in F : r \subseteq m => m = r
    BY DEF Roots
  <2>2. \A o \in K : ~ r \subseteq o
    BY <1>1 DEF Roots
  <2> QED
    BY <2>1, <2>2 DEF Roots, G
<1> QED
  BY <1>3, <1>4 DEF G

\* Where two nodes of F are siblings, T joins what it induces on them and
\* nothing else.
Joins(T, x, y) == Induced(T, x \cup y) = {x \cup y} \cup Induced(T, x) \cup Induced(T, y)

Follows(T, F) ==
    \A n \in F : HasParent(F, n) => Joins(T, n, Sibling(F, n))

\* What a tree induces on a node that is left are the nodes left below it.
LEMMA InducedOnNode ==
    ASSUME NEW T, NEW G, CutForest(T, G), NEW n \in G
    PROVE  Induced(T, n) = NodesWithin(G, n)
<1>1. G \in Forest /\ WellFormed(G)
  BY DEF CutForest
<1>2. PICK R \in Roots(G) : n \subseteq R
  BY <1>1, RootAbove
<1>3. NodesWithin(G, R) = Induced(T, R)
  BY DEF CutForest
<1>4. n # {} /\ \A y \in G : y # {} /\ (y \cap n = {} \/ y \subseteq n \/ n \subseteq y)
  BY <1>1 DEF WellFormed, NullNode, Laminar
<1>5. ASSUME NEW z \in Induced(T, n)
      PROVE  z \in NodesWithin(G, n)
  <2>1. PICK k \in T : z = k \cap n /\ z # {}
    BY InducedMembers
  <2>2. k \cap R \in Induced(T, R)
    BY <1>2, <2>1, InducedMembers
  <2>3. k \cap R \in G /\ z = (k \cap R) \cap n
    BY <1>2, <1>3, <2>1, <2>2 DEF NodesWithin
  <2>4. z = k \cap R \/ z = n
    BY <1>4, <2>1, <2>3
  <2> QED
    BY <2>1, <2>3, <2>4 DEF NodesWithin
<1>6. ASSUME NEW z \in NodesWithin(G, n)
      PROVE  z \in Induced(T, n)
  <2>1. z \in G /\ z \subseteq n /\ z # {}
    BY <1>4 DEF NodesWithin
  <2>2. z \in Induced(T, R)
    BY <1>2, <1>3, <2>1 DEF NodesWithin
  <2>3. PICK k \in T : z = k \cap R
    BY <2>2, InducedMembers
  <2>4. z = k \cap n
    BY <1>2, <2>1, <2>3
  <2> QED
    BY <2>1, <2>4, InducedMembers
<1> QED
  BY <1>5, <1>6

\* A forest that is short of some nodes follows the tree.
LEMMA ShortForestFollows ==
    ASSUME NEW T, NEW F \in Forest, WellFormed(F), NEW K, ShortOf(T, F, K)
    PROVE  Follows(T, F)
<1> SUFFICES ASSUME NEW n \in F, HasParent(F, n)
             PROVE  Joins(T, n, Sibling(F, n))
  BY DEF Follows
<1> DEFINE G == F \cup K
           s == Sibling(F, n)
           p == Parent(F, n)
<1>1. CutForest(T, G) /\ G \in Forest /\ WellFormed(G)
      /\ \A m \in F, o \in K : ~ m \subseteq o
  BY DEF ShortOf, CutForest
<1>2. /\ p \in F /\ s \in F /\ n # {} /\ s # {} /\ n \cap s = {} /\ p = n \cup s
      /\ \A m \in F : n \subseteq m /\ n # m => p \subseteq m
  BY Family DEF Above
<1> HIDE DEF s, p
<1>3. /\ Induced(T, p) = NodesWithin(G, p) /\ Induced(T, n) = NodesWithin(G, n)
      /\ Induced(T, s) = NodesWithin(G, s)
  BY <1>1, <1>2, InducedOnNode
<1>4. ASSUME NEW y \in NodesWithin(G, p), y # p
      PROVE  y \in NodesWithin(G, n) \cup NodesWithin(G, s)
  <2>1. y \in G /\ y \subseteq p /\ n \in G /\ s \in G
    BY <1>2 DEF NodesWithin
  <2>2. /\ y \cap n = {} \/ y \subseteq n \/ n \subseteq y
        /\ y \cap s = {} \/ y \subseteq s \/ s \subseteq y
    BY <1>1, <2>1 DEF WellFormed, Laminar
  <2>3. ~ (n \subseteq y /\ y # n)
    <3>1. ASSUME n \subseteq y, y # n PROVE FALSE
      <4>1. y \in F
        BY <1>1, <2>1, <3>1
      <4> QED
        BY <1>2, <1>4, <2>1, <3>1, <4>1
    <3> QED
      BY <3>1
  <2>4. CASE y \cap n = {}
    BY <1>2, <2>1, <2>4 DEF NodesWithin
  <2>5. CASE y \subseteq n
    BY <2>1, <2>5 DEF NodesWithin
  <2> QED
    BY <2>2, <2>3, <2>4, <2>5
<1>5. NodesWithin(G, p) = {p} \cup NodesWithin(G, n) \cup NodesWithin(G, s)
  <2>1. \A y \in NodesWithin(G, n) \cup NodesWithin(G, s) : y \in NodesWithin(G, p)
    BY <1>2 DEF NodesWithin
  <2>2. p \in NodesWithin(G, p)
    BY <1>2 DEF NodesWithin
  <2> QED
    BY <1>4, <2>1, <2>2
<1>6. Joins(T, n, s)
  BY <1>2, <1>3, <1>5 DEF Joins
<1> QED
  BY <1>6 DEF s

-----------------------------------------------------------------------------
(* The trees agree on the terminals.                                       *)

\* What was merged into one terminal is the same subtree in every tree.
Agree(ts, fs) ==
    \A i \in TreeIds : \A n \in Terminals(fs[1]) :
        Induced(ts[i], n) = Induced(ts[1], n)

\* The forests between two rules.
Aligned(ts, fs) == Settled(fs) /\ Agree(ts, fs)

\* As long as no terminals are merged there is nothing to show, and those of
\* a cherry of all forests are the two sides of a node in every tree.
LEMMA RulesKeepAgreement ==
    ASSUME NEW ts, NEW fs, NEW gs, Aligned(ts, fs), Settled(gs),
           \A i \in TreeIds : Follows(ts[i], fs[i]),
           \/ Merged(fs, gs)
           \/ \A i \in TreeIds : Terminals(gs[i]) = Terminals(fs[i])
    PROVE  Aligned(ts, gs)
<1>0. 1 \in TreeIds
  BY NumTreesIsPositive DEF TreeIds
<1>1. CASE \A i \in TreeIds : Terminals(gs[i]) = Terminals(fs[i])
  BY <1>0, <1>1 DEF Aligned, Agree
<1>2. CASE Merged(fs, gs)
  <2>1. PICK A, C \in Node : \A i \in TreeIds :
            /\ A \in Terminals(fs[i]) /\ C \in Terminals(fs[i])
            /\ HasParent(fs[i], A) /\ Sibling(fs[i], A) = C
            /\ Parent(fs[i], A) = A \cup C
            /\ Terminals(gs[i]) = (Terminals(fs[i]) \ {A, C}) \cup {A \cup C}
    BY <1>2 DEF Merged
  <2>2. \A i \in TreeIds : Joins(ts[i], A, C)
    BY <2>1 DEF Follows, Terminals
  <2>3. \A i \in TreeIds : /\ Induced(ts[i], A) = Induced(ts[1], A)
                           /\ Induced(ts[i], C) = Induced(ts[1], C)
    BY <1>0, <2>1 DEF Aligned, Agree
  <2>4. \A i \in TreeIds : Induced(ts[i], A \cup C) = Induced(ts[1], A \cup C)
    BY <1>0, <2>2, <2>3 DEF Joins
  <2>5. \A n \in Terminals(gs[1]) : n \in Terminals(fs[1]) \/ n = A \cup C
    BY <1>0, <2>1
  <2> QED
    BY <2>4, <2>5 DEF Aligned, Agree
<1> QED
  BY <1>1, <1>2

\* The terminals of a labelled tree are its leaves, all of them below the
\* root; with one label there is nothing but the root.
LEMMA LabelledTreeTerminals ==
    ASSUME NEW T \in Forest, WellFormed(T), IsLabelledTree(T)
    PROVE  /\ Terminals(T) = {{l} : l \in Labels}
           /\ OneTree(T)
           /\ Hanging(T) = IF \E l \in Labels : Labels = {l} THEN {}
                           ELSE {{l} : l \in Labels}
<1>1. /\ Labels \in T /\ \A l \in Labels : {l} \in T
      /\ \A m \in T : m # {} /\ m \subseteq Labels
  BY DEF IsLabelledTree, WellFormed, NullNode, Forest, Node
<1>2. ASSUME NEW n \in Terminals(T)
      PROVE  n \in {{l} : l \in Labels}
  <2>1. n \in T /\ \A m \in T : m \subseteq n => m = n
    BY DEF Terminals, IsTerminal
  <2>2. PICK l \in Labels : l \in n
    BY <1>1, <2>1
  <2> QED
    BY <1>1, <2>1, <2>2
<1>3. ASSUME NEW l \in Labels
      PROVE  {l} \in Terminals(T)
  BY <1>1 DEF Terminals, IsTerminal
<1>4. Terminals(T) = {{l} : l \in Labels}
  BY <1>2, <1>3
<1>5. OneTree(T)
  BY <1>1 DEF OneTree, Hanging, Terminals
<1>6. ASSUME NEW l \in Labels
      PROVE  HasParent(T, {l}) <=> Labels # {l}
  BY <1>1 DEF HasParent, NullNode
<1>7. CASE \E l \in Labels : Labels = {l}
  <2>1. Hanging(T) = {}
    BY <1>4, <1>6, <1>7 DEF Hanging
  <2> QED
    BY <1>4, <1>5, <1>7, <2>1
<1>8. CASE ~ \E l \in Labels : Labels = {l}
  <2>1. Hanging(T) = {{l} : l \in Labels}
    BY <1>4, <1>6, <1>8 DEF Hanging
  <2> QED
    BY <1>4, <1>5, <1>8, <2>1
<1> QED
  BY <1>7, <1>8

\* The trees of the input agree on their leaves.
LEMMA InputIsAligned ==
    ASSUME NEW ts \in Instances
    PROVE  /\ \A i \in TreeIds : /\ ts[i] \in Forest /\ WellFormed(ts[i])
                                 /\ IsLabelledTree(ts[i])
           /\ Aligned(ts, ts)
<1>0. 1 \in TreeIds
  BY NumTreesIsPositive DEF TreeIds
<1>1. \A i \in TreeIds : /\ ts[i] \in Forest /\ WellFormed(ts[i])
                         /\ IsLabelledTree(ts[i])
  BY InstancesAreForests, InstancesAreTrees DEF IsLabelledTree
<1>2. \A i \in TreeIds :
          /\ Terminals(ts[i]) = {{l} : l \in Labels} /\ OneTree(ts[i])
          /\ Hanging(ts[i]) = IF \E l \in Labels : Labels = {l} THEN {}
                              ELSE {{l} : l \in Labels}
  BY <1>1, LabelledTreeTerminals
<1>3. Settled(ts)
  <2>1. \A i \in TreeIds : /\ Terminals(ts[i]) = Terminals(ts[1])
                           /\ Hanging(ts[i]) = Hanging(ts[1])
    BY <1>0, <1>2
  <2> QED
    BY <1>0, <1>1, <1>2, <2>1 DEF Settled
<1>4. ASSUME NEW i \in TreeIds, NEW l \in Labels
      PROVE  Induced(ts[i], {l}) = {{l}}
  <2>1. {l} \in ts[i]
    BY <1>1 DEF IsLabelledTree
  <2>2. {l} \in Induced(ts[i], {l})
    BY <2>1, InducedMembers
  <2>3. \A z \in Induced(ts[i], {l}) : z = {l}
    BY InducedMembers
  <2> QED
    BY <2>2, <2>3
<1>5. Agree(ts, ts)
  <2>1. \A n \in Terminals(ts[1]) : \E l \in Labels : n = {l}
    BY <1>0, <1>2
  <2>2. \A i \in TreeIds : \A l \in Labels : Induced(ts[i], {l}) = Induced(ts[1], {l})
    BY <1>0, <1>4
  <2> QED
    BY <2>1, <2>2 DEF Agree
<1> QED
  BY <1>1, <1>3, <1>5 DEF Aligned

-----------------------------------------------------------------------------
(* How far apply() has come with a plan.                                   *)

\* The edits of tree i made when the cursor is at c.
Made(plan, c, i) ==
    IF i < c[1] THEN Len(plan[i])
    ELSE IF i = c[1] THEN c[2] - 1
    ELSE 0

\* The plan has led from one instance to another, up to the cursor.
Partly(plan, c, fs, prot, gs, qrot) ==
    /\ c[1] \in TreeIds => c[2] \in 1..(Len(plan[c[1]]) + 1)
    /\ \A i \in TreeIds :
          Ran(plan[i], Made(plan, c, i), StateOf(fs, prot, i), StateOf(gs, qrot, i))

\* At its start nothing is done.
LEMMA StartsPartly ==
    ASSUME NEW plan \in Plan, NEW c, c = <<1, 1>>, NEW fs, NEW prot
    PROVE  Partly(plan, c, fs, prot, fs, prot)
<1>1. \A i \in TreeIds : Made(plan, c, i) = 0 /\ Len(plan[i]) \in Nat
  BY PlansAreTyped DEF Made, TreeIds
<1>2. c[1] \in TreeIds => c[2] \in 1..(Len(plan[c[1]]) + 1)
  BY <1>1
<1> QED
  BY <1>1, <1>2, RanNothing DEF Partly

\* Behind the last tree everything is.
LEMMA DonePartly ==
    ASSUME NEW plan, NEW c, c[1] \in Nat \ {0}, c[1] \notin TreeIds,
           NEW fs, NEW prot, NEW gs, NEW qrot, Partly(plan, c, fs, prot, gs, qrot)
    PROVE  RunsTo(plan, fs, prot, gs, qrot)
<1>1. \A i \in TreeIds : Made(plan, c, i) = Len(plan[i])
  BY NumTreesIsPositive DEF Made, TreeIds
<1> QED
  BY <1>1 DEF Partly, RunsTo

\* A tree whose edits are made is left.
LEMMA PartlyLeavesTree ==
    ASSUME NEW plan \in Plan, NEW c, c[1] \in TreeIds, c[2] \in Nat,
           ~ c[2] <= Len(plan[c[1]]), NEW e, e = <<c[1] + 1, 1>>,
           NEW fs, NEW prot, NEW gs, NEW qrot, Partly(plan, c, fs, prot, gs, qrot)
    PROVE  Partly(plan, e, fs, prot, gs, qrot)
<1>1. /\ c[1] \in Nat /\ \A i \in TreeIds : i \in Nat /\ Len(plan[i]) \in Nat
      /\ c[2] - 1 = Len(plan[c[1]])
  BY PlansAreTyped DEF Partly, TreeIds
<1>2. \A i \in TreeIds : Made(plan, e, i) = Made(plan, c, i)
  BY <1>1 DEF Made
<1>3. e[1] \in TreeIds => e[2] \in 1..(Len(plan[e[1]]) + 1)
  BY <1>1
<1> QED
  BY <1>2, <1>3 DEF Partly

\* An edit is made in the tree of the cursor and leaves the others alone.
LEMMA PartlyGoesOn ==
    ASSUME NEW plan \in Plan, NEW c, c[1] \in TreeIds, c[2] \in Nat,
           c[2] <= Len(plan[c[1]]), NEW e, e = <<c[1], c[2] + 1>>,
           NEW fs, NEW prot, NEW gs, NEW qrot, Partly(plan, c, fs, prot, gs, qrot),
           NEW hs, NEW rrot,
           Does(plan[c[1]][c[2]], StateOf(gs, qrot, c[1]), StateOf(hs, rrot, c[1])),
           \A i \in TreeIds : i # c[1] => StateOf(hs, rrot, i) = StateOf(gs, qrot, i)
    PROVE  Partly(plan, e, fs, prot, hs, rrot)
<1> DEFINE t == c[1]
           d == c[2] - 1
<1>1. /\ t \in Nat /\ \A i \in TreeIds : i \in Nat /\ Len(plan[i]) \in Nat
      /\ d \in Nat /\ d + 1 = c[2]
  BY PlansAreTyped DEF Partly, TreeIds
<1>2. ASSUME NEW i \in TreeIds, i # t
      PROVE  /\ Made(plan, e, i) = Made(plan, c, i)
             /\ StateOf(hs, rrot, i) = StateOf(gs, qrot, i)
  BY <1>1, <1>2 DEF Made
<1>3. Made(plan, c, t) = d /\ Made(plan, e, t) = d + 1
  BY <1>1 DEF Made
<1>4. Ran(plan[t], d, StateOf(fs, prot, t), StateOf(gs, qrot, t))
  BY <1>3 DEF Partly
<1>5. Ran(plan[t], d + 1, StateOf(fs, prot, t), StateOf(hs, rrot, t))
  <2> DEFINE es == plan[t]
             x == StateOf(gs, qrot, t)
             y == StateOf(hs, rrot, t)
             z == StateOf(fs, prot, t)
  <2>1. Ran(es, d, z, x) /\ Does(es[d + 1], x, y) /\ d \in Nat
    BY <1>1, <1>4
  <2> HIDE DEF es, x, y, z, d
  <2>2. Ran(es, d + 1, z, y)
    BY <2>1, RanOneMore
  <2> QED
    BY <2>2 DEF es, y, z
<1>6. e[1] \in TreeIds => e[2] \in 1..(Len(plan[e[1]]) + 1)
  BY <1>1
<1>7. ASSUME NEW i \in TreeIds
      PROVE  Ran(plan[i], Made(plan, e, i), StateOf(fs, prot, i), StateOf(hs, rrot, i))
  <2>1. CASE i = t
    BY <1>3, <1>5, <2>1
  <2>2. CASE i # t
    BY <1>2, <2>2 DEF Partly
  <2> QED
    BY <2>1, <2>2
<1> QED
  BY <1>6, <1>7 DEF Partly

\* Equal in every tree is equal.
LEMMA SameStates ==
    ASSUME NEW fs \in [TreeIds -> Forest], NEW gs \in [TreeIds -> Forest],
           NEW prot \in SUBSET ProtectedEdge, NEW qrot \in SUBSET ProtectedEdge,
           \A i \in TreeIds : StateOf(fs, prot, i) = StateOf(gs, qrot, i)
    PROVE  fs = gs /\ prot = qrot
<1>1. \A i \in TreeIds : fs[i] = gs[i] /\ AtTree(prot, i) = AtTree(qrot, i)
  BY DEF StateOf
<1>2. ASSUME NEW i \in TreeIds, NEW n \in Node
      PROVE  <<i, n>> \in prot <=> <<i, n>> \in qrot
  <2>1. n \in AtTree(prot, i) <=> n \in AtTree(qrot, i)
    BY <1>1
  <2> QED
    BY <2>1 DEF AtTree
<1>3. prot = qrot
  BY <1>2 DEF ProtectedEdge
<1> QED
  BY <1>1, <1>3

\* The same plan, from the same instance, leads to the same instance again.
LEMMA SameRun ==
    ASSUME NEW plan \in Plan, NEW fs, NEW prot,
           NEW gs \in [TreeIds -> Forest], NEW qrot \in SUBSET ProtectedEdge,
           NEW hs \in [TreeIds -> Forest], NEW rrot \in SUBSET ProtectedEdge,
           RunsTo(plan, fs, prot, gs, qrot), RunsTo(plan, fs, prot, hs, rrot)
    PROVE  gs = hs /\ qrot = rrot
<1>1. ASSUME NEW i \in TreeIds
      PROVE  StateOf(gs, qrot, i) = StateOf(hs, rrot, i)
  <2> DEFINE es == plan[i]
             d == Len(es)
             x == StateOf(gs, qrot, i)
             y == StateOf(hs, rrot, i)
             z == StateOf(fs, prot, i)
  <2>1. d \in Nat /\ d \in 0..d /\ Ran(es, d, z, x) /\ Ran(es, d, z, y)
    BY PlansAreTyped DEF RunsTo
  <2> HIDE DEF es, d, x, y, z
  <2>2. y = x
    BY <2>1, RanIsDeterministic
  <2> QED
    BY <2>2 DEF x, y
<1> QED
  BY <1>1, SameStates

\* A run that was completed once is not held up on its way the next time.
LEMMA SameRunGoesOn ==
    ASSUME NEW plan \in Plan, NEW fs, NEW prot, NEW gs, NEW qrot,
           RunsTo(plan, fs, prot, gs, qrot),
           NEW c, c[1] \in TreeIds, c[2] \in Nat, c[2] <= Len(plan[c[1]]),
           NEW hs, NEW rrot, Partly(plan, c, fs, prot, hs, rrot)
    PROVE  \E x : Does(plan[c[1]][c[2]], StateOf(hs, rrot, c[1]), x)
<1> DEFINE t == c[1]
           es == plan[t]
           d == Len(es)
           k == c[2] - 1
           x == StateOf(gs, qrot, t)
           y == StateOf(hs, rrot, t)
           z == StateOf(fs, prot, t)
<1>1. d \in Nat /\ k \in 0..d /\ k < d /\ k + 1 = c[2] /\ t \in TreeIds
  BY PlansAreTyped DEF Partly
<1>2. Ran(es, d, z, x)
  BY DEF RunsTo
<1>3. Made(plan, c, t) = k
  BY DEF Made, TreeIds
<1>4. Ran(es, k, z, y)
  BY <1>3 DEF Partly
<1> HIDE DEF es, d, k, x, y, z, t
<1>5. \E u : Does(es[k + 1], y, u)
  BY <1>1, <1>2, <1>4, RanIsDeterministic
<1> QED
  BY <1>1, <1>5 DEF es, y, t

-----------------------------------------------------------------------------
(* A rule and what becomes of it.                                          *)

\* The same rule, whatever it has recorded and protected.
SameRule(r, s) ==
    /\ r.name = s.name /\ r.a = s.a /\ r.c = s.c
    /\ r.plans = s.plans /\ r.branch = s.branch

\* A rule fits, and has the plan it has, whatever it has recorded.
LEMMA SameRuleFits ==
    ASSUME NEW r, NEW s, SameRule(r, s)
    PROVE  /\ \A fs : Fits(s, fs) => Fits(r, fs)
           /\ PlanOf(r) = PlanOf(s)
BY DEF SameRule, Fits, PlanOf, IsBranching

\* The plan of a rule apply() was called on is one of its plans, in the case of
\* ABC that of its branch.
LEMMA PlanOfEntered ==
    ASSUME NEW r, Entered(r)
    PROVE  /\ r \in Rule /\ PlansFit(r.name, r.plans)
           /\ PlanOf(r) \in Plan
           /\ \E p \in DOMAIN r.plans : /\ PlanOf(r) = r.plans[p]
                                        /\ r.name = "ABC" => p = r.branch
<1>1. /\ r \in Rule /\ r.plans # <<>> /\ PlansFit(r.name, r.plans)
      /\ IsBranching(r) => r.branch \in 1..Len(r.plans)
      /\ r.plans \in Seq(Plan)
  BY DEF Entered, Rule
<1>2. CASE IsBranching(r)
  BY <1>1, <1>2 DEF PlanOf
<1>3. CASE ~ IsBranching(r)
  <2>1. 1 \in DOMAIN r.plans /\ r.name # "ABC"
    BY <1>1, <1>3 DEF IsBranching
  <2> QED
    BY <1>1, <1>3, <2>1 DEF PlanOf
<1> QED
  BY <1>2, <1>3

\* Entering a branch does not change what fits.
LEMMA EnteringFits ==
    ASSUME NEW r \in Rule, NEW fs, Fits(r, fs)
    PROVE  /\ Fits(Entering(r), fs)
           /\ Entering(r).name = r.name /\ Entering(r).plans = r.plans
           /\ ~ IsBranching(r) => Entering(r) = r
           /\ IsBranching(r) => Entering(r).branch = r.branch + 1
<1>1. /\ Entering(r).name = r.name /\ Entering(r).a = r.a /\ Entering(r).c = r.c
      /\ Entering(r).plans = r.plans
      /\ ~ IsBranching(r) => Entering(r) = r
      /\ IsBranching(r) => Entering(r).branch = r.branch + 1
  BY DEF Entering, Rule
<1> QED
  BY <1>1 DEF Fits

\* clone() of a rule enters the branch the rule is in.
LEMMA CloneEntersBranch ==
    ASSUME NEW r, Entered(r)
    PROVE  /\ Enterable(Clone(r))
           /\ \A fs : Fits(r, fs) => Fits(Clone(r), fs)
           /\ PlanOf(Entering(Clone(r))) = PlanOf(r)
<1> DEFINE c == Clone(r)
<1>1. /\ r \in Rule /\ r.branch \in Nat /\ Len(r.plans) \in Nat
      /\ IsBranching(r) => r.branch \in 1..Len(r.plans)
  BY DEF Entered, Rule
<1>2. /\ c.name = r.name /\ c.a = r.a /\ c.c = r.c /\ c.plans = r.plans
      /\ IsBranching(r) => c.branch = r.branch - 1
      /\ c \in Rule
  BY CloneIsReady, <1>1 DEF Clone, Rule, Ready
<1> HIDE DEF c
<1>3. \A fs : Fits(r, fs) => Fits(c, fs)
  BY <1>2 DEF Fits
<1>4. Enterable(c)
  BY <1>1, <1>2 DEF Enterable, IsBranching, IsFullyExplored
<1>5. IsBranching(c) <=> IsBranching(r)
  BY <1>2 DEF IsBranching
<1>6. PlanOf(Entering(c)) = PlanOf(r)
  <2>1. CASE IsBranching(r)
    <3>1. /\ Entering(c).branch = c.branch + 1 /\ Entering(c).plans = c.plans
          /\ Entering(c).name = c.name
      BY <1>2, <1>5, <2>1 DEF Entering, Rule
    <3>2. Entering(c).branch = r.branch
      BY <1>1, <1>2, <2>1, <3>1
    <3> QED
      BY <1>2, <2>1, <3>1, <3>2 DEF PlanOf, IsBranching
  <2>2. CASE ~ IsBranching(r)
    BY <1>2, <1>5, <2>2 DEF PlanOf, Entering
  <2> QED
    BY <2>1, <2>2
<1> QED
  BY <1>3, <1>4, <1>6 DEF c

\* A branching rule queued for its next branch.
LEMMA RequeuedFits ==
    ASSUME NEW r \in Rule, ~ IsFullyExplored(r)
    PROVE  /\ Enterable([r EXCEPT !.shields = {}])
           /\ \A fs : Fits(r, fs) => Fits([r EXCEPT !.shields = {}], fs)
<1> DEFINE s == [r EXCEPT !.shields = {}]
<1>1. /\ s.name = r.name /\ s.a = r.a /\ s.c = r.c /\ s.plans = r.plans
      /\ s.branch = r.branch
  BY DEF Rule
<1> HIDE DEF s
<1> QED
  BY <1>1 DEF Fits, Enterable, IsFullyExplored, s

\* The rules of a factory decide nothing about the branch.
LEMMA FactoryRulesSearchOn ==
    ASSUME NEW T, NEW fs
    PROVE  /\ \A r \in AllRules(T, fs) : r.name # "CutBranch"
           /\ \A r \in ApproximationRules(T, fs) : r.name # "CutBranch"
<1>1. /\ \A a, c : EqualPairRule(a, c).name # "CutBranch"
      /\ \A a, c : ACRule(a, c).name # "CutBranch"
      /\ \A a, c : ABCRule(fs, a, c).name # "CutBranch"
      /\ \A l : ReverseBRule(l).name # "CutBranch"
      /\ \A l : BRule(l).name # "CutBranch"
      /\ \A l, k : PairRule("B", l, k).name # "CutBranch"
      /\ \A l, k : PairRule("TwoB", l, k).name # "CutBranch"
      /\ \A a, c : ForcedCherryCutRule(fs, a, c).name # "CutBranch"
      /\ \A a, c : GreedyCherryCutRule(a, c).name # "CutBranch"
  BY NewRuleFields
     DEF EqualPairRule, ACRule, ABCRule, ReverseBRule, BRule, PairRule,
         ForcedCherryCutRule, GreedyCherryCutRule
<1>2. ASSUME NEW a, NEW c
      PROVE  /\ \A r \in RuleForCherry(fs, a, c) : r.name # "CutBranch"
             /\ ApproximationRuleForCherry(fs, a, c).name # "CutBranch"
  <2>1. \A r \in BRules(fs, a, c) : r.name # "CutBranch"
    BY <1>1 DEF BRules
  <2>2. \A r \in TwoBRules(fs, a, c) : r.name # "CutBranch"
    BY <1>1 DEF TwoBRules
  <2>3. \A r \in RuleForCherry(fs, a, c) : r.name # "CutBranch"
    BY <1>1, <2>1, <2>2 DEF RuleForCherry
  <2>4. ApproximationRuleForCherry(fs, a, c).name # "CutBranch"
    BY <1>1 DEF ApproximationRuleForCherry
  <2> QED
    BY <2>3, <2>4
<1> QED
  BY <1>2 DEF AllRules, ApproximationRules

\* Unless there are too many components, the rule selected is not the one that
\* cuts the branch off.
LEMMA SelectedRuleSearchesOn ==
    ASSUME NEW T, NEW fs
    PROVE  /\ \A r \in FirstApplicable(fs, FALSE, AllRules(T, fs)) : r.name # "CutBranch"
           /\ \A r \in FirstApplicable(fs, FALSE, ApproximationRules(T, fs)) :
                 r.name # "CutBranch"
<1>1. CheckSingleVertexTreesRule.name # "CutBranch"
      /\ DebugAssertFalseRule.name # "CutBranch"
      /\ \A order : PropagationRule(order).name # "CutBranch"
  BY NewRuleFields DEF CheckSingleVertexTreesRule, DebugAssertFalseRule, PropagationRule
<1>2. \A r \in PropagationRules(fs) : r.name # "CutBranch"
  BY <1>1 DEF PropagationRules
<1> QED
  BY <1>1, <1>2, FactoryRulesSearchOn DEF FirstApplicable

-----------------------------------------------------------------------------
(* The stages of the stack: where each rule on it started, and what was    *)
(* protected then.                                                         *)

\* What the rules before the k-th one protect.
Held(k) == UNION {Stack[j].shields : j \in 1..(k - 1)}

\* Every rule of the stack fits where it starts, and every one but the last
\* has led to where the next one starts, in full.
Stages(h) ==
    /\ \A k \in 1..Len(Stack) : Aligned(trees, h[k][0]) /\ Fits(Stack[k], h[k][0])
    /\ \A k \in 1..(Len(Stack) - 1) :
          RunsTo(PlanOf(Stack[k]), h[k][0], Held(k), h[k + 1][0], Held(k + 1))

\* The places of the code where no rule is being applied or undone.
Complete == {"idle", "top", "stopped", "replaying", "finished"}

\* The last rule has led to where we are.
Here(h) ==
    /\ Aligned(trees, forests)
    /\ Stack # <<>> => RunsTo(PlanOf(TopRule), h[Len(Stack)][0], Held(Len(Stack)),
                              forests, protected)

\* It is on its way.
Underway(h) ==
    Partly(PlanOf(TopRule), cursor, h[Len(Stack)][0], Held(Len(Stack)),
           forests, protected)

\* All that is protected is protected by the rules of the stack.
LEMMA HeldIsProtected ==
    ASSUME Shape, ShieldsAreOwned
    PROVE  /\ Held(Len(Stack) + 1) = protected
           /\ \A k \in 1..(Len(Stack) + 1) : Held(k) \in SUBSET ProtectedEdge
<1>1. Stack \in Seq(Rule) /\ Len(Stack) \in Nat /\ DOMAIN Stack = 1..Len(Stack)
  BY StackIsTyped
<1>2. \A k \in DOMAIN Stack : Stack[k].shields \in SUBSET ProtectedEdge
  <2>1. \A k \in DOMAIN Stack : Stack[k] \in Rule
    BY <1>1
  <2>2. \A r \in Rule : r.shields \in SUBSET ProtectedEdge
    BY DEF Rule
  <2> QED
    BY <2>1, <2>2
<1>3. 1..((Len(Stack) + 1) - 1) = DOMAIN Stack
  BY <1>1
<1>4. Held(Len(Stack) + 1) = protected
  BY <1>3 DEF Held, ShieldsAreOwned
<1>5. ASSUME NEW k \in 1..(Len(Stack) + 1)
      PROVE  Held(k) \in SUBSET ProtectedEdge
  <2>1. \A j \in 1..(k - 1) : j \in DOMAIN Stack
    BY <1>1
  <2> QED
    BY <1>2, <2>1 DEF Held
<1> QED
  BY <1>4, <1>5

\* The rules of the stack are what they were, and so is what each found
\* protected.
KeepsRules ==
    /\ Len(Stack') <= Len(Stack)
    /\ \A k \in 1..Len(Stack') : SameRule(Stack'[k], Stack[k]) /\ Held(k)' = Held(k)

\* What a rule found depends on those before it.
LEMMA KeepingShields ==
    ASSUME Len(Stack') \in Nat, Len(Stack) \in Nat, Len(Stack') <= Len(Stack),
           \A k \in 1..Len(Stack') : SameRule(Stack'[k], Stack[k]),
           \A k \in 1..(Len(Stack') - 1) : Stack'[k].shields = Stack[k].shields
    PROVE  KeepsRules
<1>1. ASSUME NEW k \in 1..Len(Stack')
      PROVE  Held(k)' = Held(k)
  <2>1. \A j \in 1..(k - 1) : j \in 1..(Len(Stack') - 1)
    OBVIOUS
  <2>2. \A j \in 1..(k - 1) : Stack'[j].shields = Stack[j].shields
    BY <2>1
  <2> QED
    BY <2>2 DEF Held
<1> QED
  BY <1>1 DEF KeepsRules

\* The rule on top replaced by the same rule.
LEMMA ReplacingTop ==
    ASSUME Stack \in Seq(Rule), Stack # <<>>, NEW r \in Rule, SameRule(r, TopRule),
           Stack' = [Stack EXCEPT ![Len(Stack)] = r]
    PROVE  KeepsRules /\ Len(Stack') = Len(Stack)
<1> DEFINE n == Len(Stack)
<1>0. n \in Nat /\ DOMAIN Stack = 1..n /\ n \in 1..n /\ TopRule = Stack[n]
  BY DEF TopRule
<1>1. /\ Len(Stack') = n /\ Stack'[n] = r
      /\ \A k \in 1..n : k # n => Stack'[k] = Stack[k]
  <2> DEFINE t == [Stack EXCEPT ![n] = r]
  <2>1. Stack' = t
    OBVIOUS
  <2>2. t \in Seq(Rule) /\ Len(t) = n /\ \A k \in 1..n : t[k] = IF k = n THEN r ELSE Stack[k]
    BY <1>0, ExceptSeq
  <2> HIDE DEF t, n
  <2> QED
    BY <1>0, <2>1, <2>2
<1> HIDE DEF n
<1>2. \A k \in 1..n : SameRule(Stack'[k], Stack[k])
  <2>1. \A k \in 1..n : k = n \/ Stack'[k] = Stack[k]
    BY <1>1
  <2>2. SameRule(Stack'[n], Stack[n])
    BY <1>0, <1>1
  <2> QED
    BY <2>1, <2>2 DEF SameRule
<1>3. \A k \in 1..(n - 1) : Stack'[k].shields = Stack[k].shields
  <2>1. \A k \in 1..(n - 1) : k \in 1..n /\ k # n
    BY <1>0
  <2> QED
    BY <1>1, <2>1
<1>4. Len(Stack') \in Nat /\ Len(Stack) \in Nat /\ Len(Stack') <= Len(Stack)
  <2>1. Len(Stack') = n /\ n \in Nat /\ n = Len(Stack)
    BY <1>0, <1>1 DEF n
  <2> QED
    BY <2>1
<1>5. /\ \A k \in 1..Len(Stack') : SameRule(Stack'[k], Stack[k])
      /\ \A k \in 1..(Len(Stack') - 1) : Stack'[k].shields = Stack[k].shields
  BY <1>1, <1>2, <1>3
<1>6. KeepsRules
  BY <1>4, <1>5, KeepingShields
<1> QED
  BY <1>1, <1>6 DEF n

\* Changes and protections come and go on top only.
LEMMA StackKeepsRules ==
    ASSUME Shape, Shape', Rests \/ Edits \/ Reverts \/ Pops
    PROVE  /\ KeepsRules /\ UNCHANGED trees
           /\ ~ Pops => Len(Stack') = Len(Stack)
<1>s. /\ Stack \in Seq(Rule) /\ Len(Stack) \in Nat /\ DOMAIN Stack = 1..Len(Stack)
      /\ Stack # <<>> => TopRule = Stack[Len(Stack)] /\ TopRule \in Rule
                         /\ Len(Stack) \in 1..Len(Stack)
  <2>1. Stack \in Seq(Rule)
    BY StackIsTyped
  <2> QED
    BY <2>1 DEF TopRule
<1> DEFINE n == Len(Stack)
<1>1. CASE Rests
  <2>1. Stack' = Stack /\ UNCHANGED trees
    BY <1>1 DEF Rests
  <2>2. Len(Stack') = n /\ \A k \in 1..n : SameRule(Stack'[k], Stack[k])
    BY <2>1 DEF SameRule
  <2>3. KeepsRules
    BY <1>s, <2>1, <2>2, KeepingShields
  <2> QED
    BY <2>1, <2>3
<1>3. CASE Edits
  <2>1. PICK change \in Change, shields \in SUBSET ProtectedEdge :
            Stack' = [Stack EXCEPT ![n] =
                         [TopRule EXCEPT !.changes = Append(TopRule.changes, change),
                                     !.shields = TopRule.shields \cup shields]]
    BY <1>3 DEF Edits
  <2>2. Stack # <<>> /\ UNCHANGED trees
    BY <1>3 DEF Edits
  <2>3. SameRule([TopRule EXCEPT !.changes = Append(TopRule.changes, change),
                             !.shields = TopRule.shields \cup shields], TopRule)
    BY <1>s, <2>2 DEF Rule, SameRule
  <2> QED
    <3> DEFINE r == [TopRule EXCEPT !.changes = Append(TopRule.changes, change),
                              !.shields = TopRule.shields \cup shields]
    <3>1. SameRule(r, TopRule) /\ Stack' = [Stack EXCEPT ![Len(Stack)] = r]
      BY <2>1, <2>3
    <3>2. r \in Rule
      <4>1. Append(TopRule.changes, change) \in Seq(Change)
            /\ TopRule.shields \cup shields \in SUBSET ProtectedEdge /\ TopRule \in Rule
        BY <1>s, <2>2 DEF Rule
      <4> QED
        BY <4>1 DEF Rule
    <3> HIDE DEF r
    <3> QED
      BY <1>s, <1>3, <2>2, <3>1, <3>2, ReplacingTop
<1>4. CASE Reverts
  <2>1. /\ Stack' = [Stack EXCEPT ![n] =
                        [TopRule EXCEPT !.changes = Front(TopRule.changes)]]
        /\ Stack # <<>> /\ UNCHANGED trees
    BY <1>4 DEF Reverts
  <2>2. SameRule([TopRule EXCEPT !.changes = Front(TopRule.changes)], TopRule)
    BY <1>s, <2>1 DEF Rule, SameRule
  <2> QED
    <3> DEFINE r == [TopRule EXCEPT !.changes = Front(TopRule.changes)]
    <3>1. SameRule(r, TopRule) /\ Stack' = [Stack EXCEPT ![Len(Stack)] = r]
      BY <2>1, <2>2
    <3>2. r \in Rule
      <4>1. TopRule \in Rule /\ TopRule.changes \in Seq(Change) /\ TopRule.changes # <<>>
        BY <1>s, <1>4, <2>1 DEF Rule, Reverts
      <4>2. Front(TopRule.changes) \in Seq(Change)
        BY <4>1 DEF Front
      <4> QED
        BY <4>1, <4>2 DEF Rule
    <3> HIDE DEF r
    <3> QED
      BY <1>s, <2>1, <3>1, <3>2, ReplacingTop
<1>5. CASE Pops
  <2>1. Stack # <<>> /\ Stack' = Front(Stack) /\ UNCHANGED trees
    BY <1>5 DEF Pops
  <2>2. /\ Len(Stack') = n - 1 /\ n \in 1..n
        /\ \A k \in 1..(n - 1) : Stack'[k] = Stack[k]
    BY <1>s, <2>1 DEF Front
  <2>3. \A k \in 1..Len(Stack') : SameRule(Stack'[k], Stack[k])
    BY <2>2 DEF SameRule
  <2>4. \A k \in 1..(Len(Stack') - 1) : Stack'[k].shields = Stack[k].shields
    BY <1>s, <2>2
  <2>5. Len(Stack') \in Nat /\ Len(Stack') <= n
    BY <1>s, <2>2
  <2>6. KeepsRules
    BY <1>s, <2>3, <2>4, <2>5, KeepingShields
  <2> QED
    BY <1>5, <2>1, <2>6
<1> QED
  BY <1>1, <1>3, <1>4, <1>5

\* So the stages stay.
LEMMA StagesAreKept ==
    ASSUME Len(Stack') \in Nat, Len(Stack) \in Nat, KeepsRules, UNCHANGED trees,
           NEW h, Stages(h), NEW g, Resumes(g, h)
    PROVE  Stages(g)'
<1>1. ASSUME NEW k \in 1..Len(Stack')
      PROVE  /\ k \in 1..Len(Stack) /\ g[k][0] = h[k][0] /\ Held(k)' = Held(k)
             /\ \A fs : Fits(Stack[k], fs) => Fits(Stack'[k], fs)
             /\ PlanOf(Stack'[k]) = PlanOf(Stack[k])
  BY SameRuleFits DEF KeepsRules, Resumes
<1>2. \A k \in 1..Len(Stack') : Aligned(trees', g[k][0]) /\ Fits(Stack'[k], g[k][0])
  BY <1>1 DEF Stages
<1>3. ASSUME NEW k \in 1..(Len(Stack') - 1)
      PROVE  RunsTo(PlanOf(Stack'[k]), g[k][0], Held(k)', g[k + 1][0], Held(k + 1)')
  <2>1. /\ k \in 1..Len(Stack') /\ k + 1 \in 1..Len(Stack')
        /\ k \in 1..(Len(Stack) - 1)
    BY DEF KeepsRules
  <2>2. RunsTo(PlanOf(Stack[k]), h[k][0], Held(k), h[k + 1][0], Held(k + 1))
    BY <2>1 DEF Stages
  <2> QED
    BY <1>1, <2>1, <2>2
<1> QED
  BY <1>2, <1>3 DEF Stages

\* A rule that fits is entered where the one before it has led to.
LEMMA NewStage ==
    ASSUME Shape, ShieldsAreOwned, NEW h, IsHistory(h), Stages(h), Here(h),
           NEW r \in Rule, r.changes = <<>>, Fits(r, forests),
           Stack' = Append(Stack, r), UNCHANGED <<trees, forests, protected>>,
           NEW g, Resumes(g, h), IsHistory(g)'
    PROVE  /\ Stages(g)' /\ Len(Stack') = Len(Stack) + 1 /\ TopRule' = r
           /\ g[Len(Stack')][0] = forests /\ Held(Len(Stack))' = protected
<1>n. PICK n \in Nat : n = Len(Stack)
  BY StackIsTyped
<1>1. /\ Stack \in Seq(Rule) /\ DOMAIN Stack = 1..n
      /\ Stack # <<>> => n \in 1..n
  BY <1>n, StackIsTyped
<1>2. /\ Stack' \in Seq(Rule) /\ Len(Stack') = n + 1 /\ Stack'[n + 1] = r
      /\ \A k \in 1..n : Stack'[k] = Stack[k]
  BY <1>n, <1>1, AppendProperties
<1>3. g[n + 1][0] = forests
  <2>1. g[n + 2][0] = forests'
    <3>1. n + 1 + 1 = n + 2
      OBVIOUS
    <3> QED
      BY <1>2, <3>1 DEF IsHistory
  <2>2. g[n + 2][0] = g[n + 1][Len(r.changes)]
    <3>1. n + 1 + 1 = n + 2 /\ n + 1 \in 1..Len(Stack')
      BY <1>2
    <3>2. g[n + 1 + 1][0] = g[n + 1][Len(Stack'[n + 1].changes)]
      BY <3>1 DEF IsHistory
    <3> QED
      BY <1>2, <3>1, <3>2
  <2>3. Len(r.changes) = 0
    OBVIOUS
  <2> QED
    BY <2>1, <2>2, <2>3
<1>4. ASSUME NEW k \in 1..(n + 1)
      PROVE  UNION {Stack'[j].shields : j \in 1..(k - 1)} = Held(k)
  <2>1. \A j \in 1..(k - 1) : j \in 1..n
    OBVIOUS
  <2>2. \A j \in 1..(k - 1) : Stack'[j].shields = Stack[j].shields
    BY <1>2, <2>1
  <2> QED
    BY <2>2 DEF Held
<1>5. \A k \in 1..(n + 1) : Held(k)' = Held(k)
  BY <1>4 DEF Held
<1>6. Held(n + 1) = protected
  BY <1>n, HeldIsProtected
<1>7. \A k \in 1..n : g[k][0] = h[k][0]
  BY <1>n DEF Resumes
<1>8. ASSUME NEW k \in 1..(n + 1)
      PROVE  Aligned(trees', g[k][0]) /\ Fits(Stack'[k], g[k][0])
  <2>1. CASE k \in 1..n
    <3>1. Aligned(trees, h[k][0]) /\ Fits(Stack[k], h[k][0])
      BY <1>n, <2>1 DEF Stages
    <3> QED
      BY <1>2, <1>7, <2>1, <3>1
  <2>2. CASE k = n + 1
    BY <1>2, <1>3, <2>2 DEF Here
  <2> QED
    BY <1>n, <2>1, <2>2
<1>9. ASSUME NEW k \in 1..n
      PROVE  RunsTo(PlanOf(Stack'[k]), g[k][0], Held(k)', g[k + 1][0], Held(k + 1)')
  <2>0. /\ k \in 1..(n + 1) /\ k + 1 \in 1..(n + 1)
        /\ Held(k)' = Held(k) /\ Held(k + 1)' = Held(k + 1)
        /\ Stack'[k] = Stack[k] /\ g[k][0] = h[k][0]
    <3>1. k \in 1..(n + 1) /\ k + 1 \in 1..(n + 1)
      OBVIOUS
    <3>2. \A j \in 1..(n + 1) : UNION {Stack'[q].shields : q \in 1..(j - 1)} = Held(j)
      BY <1>4
    <3>3. Held(k)' = Held(k)
      BY <3>1, <3>2 DEF Held
    <3>4. Held(k + 1)' = Held(k + 1)
      BY <3>1, <3>2 DEF Held
    <3> QED
      BY <1>2, <1>7, <3>1, <3>3, <3>4
  <2>1. CASE k = n
    <3>1. Stack # <<>> /\ TopRule = Stack[n]
      BY <1>n, <1>1, <2>1 DEF TopRule
    <3>2. RunsTo(PlanOf(TopRule), h[n][0], Held(n), forests, protected)
      BY <1>n, <3>1 DEF Here
    <3> QED
      BY <1>3, <1>6, <2>0, <2>1, <3>1, <3>2
  <2>2. CASE k # n
    <3>1. k \in 1..(n - 1) /\ k + 1 \in 1..n
      BY <2>2
    <3>2. RunsTo(PlanOf(Stack[k]), h[k][0], Held(k), h[k + 1][0], Held(k + 1))
      BY <1>n, <3>1 DEF Stages
    <3> QED
      BY <1>7, <2>0, <3>1, <3>2
  <2> QED
    BY <2>1, <2>2
<1>10. Stages(g)'
  <2>1. (n + 1) - 1 = n
    OBVIOUS
  <2> QED
    BY <1>2, <1>8, <1>9, <2>1 DEF Stages
<1>11. Held(n + 1)' = protected
  <2>1. n + 1 \in 1..(n + 1)
    OBVIOUS
  <2>2. UNION {Stack'[q].shields : q \in 1..((n + 1) - 1)} = protected
    BY <1>4, <1>6, <2>1
  <2> QED
    BY <2>2 DEF Held
<1>12. Held(Len(Stack))' = protected
  <2>1. Len(Stack') - 1 = n /\ (n + 1) - 1 = n
    BY <1>n, <1>2
  <2>2. UNION {Stack'[q].shields : q \in 1..n} = protected
    BY <1>11, <2>1 DEF Held
  <2> QED
    BY <2>1, <2>2 DEF Held
<1> QED
  BY <1>n, <1>2, <1>3, <1>10, <1>12 DEF TopRule

-----------------------------------------------------------------------------
(* Where the last rule has led to.                                         *)

Reached(h) ==
    /\ pc \in Complete => Here(h)
    /\ pc = "applying" => Underway(h)

\* How the instance came about.
Track(h) == IsHistory(h) /\ ShortThroughout(h) /\ Stages(h) /\ Reached(h)

\* The stack, with its last rule.
LEMMA StackHasTop ==
    ASSUME Shape
    PROVE  /\ Stack \in Seq(Rule) /\ Len(Stack) \in Nat /\ DOMAIN Stack = 1..Len(Stack)
           /\ Stack # <<>> => /\ Len(Stack) \in 1..Len(Stack)
                              /\ TopRule = Stack[Len(Stack)]
           /\ pc = "applying" => /\ Stack # <<>> /\ TopRule = Rule0 /\ Entered(TopRule)
                                 /\ PlanOf(TopRule) \in Plan
<1>1. Stack \in Seq(Rule) /\ (pc = "applying" => Stack # <<>> /\ TopRule = Rule0)
  BY StackIsTyped
<1>2. pc = "applying" => Entered(Rule0)
  <2>1. pc = "applying" => 1 \in DOMAIN current
    BY DEF Shape, TypeOK
  <2> QED
    BY <2>1 DEF Shape, Rule0
<1>3. pc = "applying" => PlanOf(Rule0) \in Plan
  BY <1>2, PlanOfEntered
<1> QED
  BY <1>1, <1>2, <1>3 DEF TopRule

\* Where nothing is edited or applied we stay where we are.
LEMMA HereIsKept ==
    ASSUME Shape, Rests, NEW h, Here(h), NEW g, Resumes(g, h)
    PROVE  Here(g)'
<1>1. UNCHANGED <<trees, forests, protected>> /\ Stack' = Stack
  BY DEF Rests
<1>2. Stack # <<>> => g[Len(Stack)][0] = h[Len(Stack)][0]
  BY <1>1, StackHasTop DEF Resumes
<1>3. Held(Len(Stack))' = Held(Len(Stack)) /\ TopRule' = TopRule
  BY <1>1 DEF Held, TopRule
<1> QED
  BY <1>1, <1>2, <1>3 DEF Here

\* So does what is under way.
LEMMA UnderwayIsKept ==
    ASSUME Shape, Rests, Stack # <<>>, UNCHANGED cursor, NEW h, Underway(h),
           NEW g, Resumes(g, h)
    PROVE  Underway(g)'
<1>1. UNCHANGED <<trees, forests, protected>> /\ Stack' = Stack
  BY DEF Rests
<1>2. g[Len(Stack)][0] = h[Len(Stack)][0]
  BY <1>1, StackHasTop DEF Resumes
<1>3. Held(Len(Stack))' = Held(Len(Stack)) /\ TopRule' = TopRule
  BY <1>1 DEF Held, TopRule
<1> QED
  BY <1>1, <1>2, <1>3 DEF Underway

\* With no rule applied we are where we started.
LEMMA EmptyIsHere ==
    ASSUME Shape, NEW h, IsHistory(h), Stack = <<>>
    PROVE  Here(h)
<1>1. forests = trees
  <2>1. Len(Stack) + 1 = 1
    OBVIOUS
  <2> QED
    BY <2>1 DEF IsHistory
<1>2. Aligned(trees, trees)
  BY InputIsAligned DEF Shape, TypeOK
<1> QED
  BY <1>1, <1>2 DEF Here

\* When the last rule is popped, the one before it is complete.
LEMMA PopIsHere ==
    ASSUME Shape, Shape', ShieldsAreOwned', Pops, KeepsRules,
           NEW h, IsHistory(h), Stages(h), NEW g, Resumes(g, h)
    PROVE  Here(g)'
<1>n. PICK n \in Nat : n = Len(Stack)
  BY StackIsTyped
<1>1. /\ n \in 1..n /\ TopRule = Stack[n] /\ TopRule.changes = <<>>
      /\ UNCHANGED <<trees, forests>> /\ Stack' = Front(Stack)
  BY <1>n, StackHasTop DEF Pops
<1>2. Len(Stack') = n - 1
  BY <1>n, <1>1, StackIsTyped DEF Front
<1>s. Stack' \in Seq(Rule) /\ DOMAIN Stack' = 1..Len(Stack')
  BY DEF Shape, TypeOK, Stack
<1>3. forests = h[n][0]
  <2>1. Len(Stack[n].changes) = 0
    BY <1>1
  <2> QED
    BY <1>n, <1>1, <2>1 DEF IsHistory
<1>4. Aligned(trees, h[n][0])
  BY <1>n, <1>1 DEF Stages
<1>5. ASSUME Stack' # <<>>
      PROVE  RunsTo(PlanOf(TopRule'), g[n - 1][0], Held(n - 1)', forests, protected')
  <2>1. n - 1 \in 1..(n - 1) /\ TopRule' = Stack'[n - 1] /\ n - 1 \in 1..Len(Stack')
    <3>1. n - 1 \in Nat /\ n - 1 # 0
      BY <1>1, <1>2, <1>5, <1>s
    <3> QED
      BY <1>2, <3>1 DEF TopRule
  <2>2. RunsTo(PlanOf(Stack[n - 1]), h[n - 1][0], Held(n - 1), h[n][0], Held(n))
    <3>1. n - 1 \in 1..(Len(Stack) - 1) /\ n - 1 + 1 = n
      BY <1>n, <2>1
    <3>2. RunsTo(PlanOf(Stack[n - 1]), h[n - 1][0], Held(n - 1), h[n - 1 + 1][0], Held(n - 1 + 1))
      BY <3>1 DEF Stages
    <3> QED
      BY <3>1, <3>2
  <2>3. Held(n - 1)' = Held(n - 1) /\ SameRule(Stack'[n - 1], Stack[n - 1])
    BY <2>1 DEF KeepsRules
  <2>4. PlanOf(TopRule') = PlanOf(Stack[n - 1])
    BY <2>1, <2>3, SameRuleFits
  <2>5. g[n - 1][0] = h[n - 1][0]
    BY <1>n, <2>1 DEF Resumes
  <2>6. protected' = Held(n)
    <3>1. protected' = UNION {Stack'[k].shields : k \in 1..(n - 1)}
      BY <1>2, <1>s DEF ShieldsAreOwned
    <3>2. \A k \in 1..(n - 1) : Stack'[k].shields = Stack[k].shields
      <4>1. \A k \in 1..(n - 1) : Stack'[k] = Stack[k]
        BY <1>n, <1>1, StackIsTyped DEF Front
      <4> QED
        BY <4>1
    <3>3. UNION {Stack'[j].shields : j \in 1..(n - 1)} = UNION {Stack[j].shields : j \in 1..(n - 1)}
      BY <3>2
    <3> QED
      BY <3>1, <3>3 DEF Held
  <2> QED
    BY <1>3, <2>2, <2>3, <2>4, <2>5, <2>6
<1>6. Stack' # <<>> => Held(Len(Stack))' = Held(n - 1)'
  BY <1>2 DEF Held
<1> QED
  BY <1>1, <1>2, <1>3, <1>4, <1>5, <1>6 DEF Here

\* apply() returns with its plan carried out: the forests are still of the
\* same terminals, on which the trees agree.
LEMMA DoneIsHere ==
    ASSUME Shape, ApplyDone, NEW h, Track(h)
    PROVE  /\ Here(h)
           /\ Rule0.name # "DebugAssertFalse"
           /\ Rule0.name = "CheckSingleVertexTrees" => AtEnd(forests)
           /\ Rule0.name = "ABC" /\ Rule0.branch = 1
                  => Fits(EqualPairRule(Rule0.a, Rule0.c), forests)
<1>1. /\ pc = "applying" /\ cursor[1] \in Nat \ {0} /\ cursor[1] \notin TreeIds
  BY DEF ApplyDone, InApply, InForestLoop, ThisTree, Shape
<1>n. PICK n \in Nat : n = Len(Stack)
  BY StackIsTyped
<1>2. /\ n \in 1..Len(Stack) /\ n \in DOMAIN Stack /\ TopRule = Stack[n]
      /\ TopRule = Rule0 /\ Entered(TopRule)
  BY <1>1, <1>n, StackHasTop
<1> DEFINE fs == h[n][0]
<1>3. RunsTo(PlanOf(TopRule), fs, Held(n), forests, protected)
  <2>1. Partly(PlanOf(TopRule), cursor, fs, Held(n), forests, protected)
    BY <1>1, <1>n DEF Track, Reached, Underway
  <2> QED
    BY <1>1, <2>1, DonePartly
<1>4. Fits(TopRule, fs) /\ Aligned(trees, fs)
  BY <1>2 DEF Track, Stages
<1>5. fs \in WellFormedForests
  BY DEF Track, IsHistory
<1>6. ASSUME NEW i \in TreeIds
      PROVE  Follows(trees[i], fs[i])
  <2>1. fs[i] \in Forest /\ WellFormed(fs[i])
    BY <1>5 DEF WellFormedForests
  <2>2. ShortAt(h, n, 0)
    <3>1. 0 \in 0..Len(Stack[n].changes)
      BY <1>2 DEF Entered, Rule
    <3> QED
      BY <1>2, <3>1 DEF Track, ShortThroughout
  <2>3. ShortOf(trees[i], fs[i], SwallowedBy(Stack, n, 0, i))
    BY <2>2 DEF ShortAt
  <2> QED
    BY <2>1, <2>3, ShortForestFollows
<1> HIDE DEF fs
<1>7. PICK p \in DOMAIN TopRule.plans : /\ PlanOf(TopRule) = TopRule.plans[p]
                                        /\ TopRule.name = "ABC" => p = TopRule.branch
  BY <1>2, PlanOfEntered
<1>8. /\ Settled(forests)
      /\ \/ Merged(fs, forests)
         \/ \A i \in TreeIds : Terminals(forests[i]) = Terminals(fs[i])
      /\ TopRule.name = "CheckSingleVertexTrees" => AtEnd(forests)
      /\ TopRule.name = "ABC" /\ p = 1 => Fits(EqualPairRule(TopRule.a, TopRule.c), forests)
  <2>1. TopRule \in Rule /\ PlansFit(TopRule.name, TopRule.plans)
    BY <1>2 DEF Entered
  <2>2. Settled(fs) /\ RunsTo(TopRule.plans[p], fs, Held(n), forests, protected)
    BY <1>3, <1>4, <1>7 DEF Aligned
  <2> QED
    BY <1>4, <1>7, <2>1, <2>2, RuleSettles
<1>9. Aligned(trees, forests)
  BY <1>4, <1>6, <1>8, RulesKeepAgreement
<1>10. Here(h)
  BY <1>3, <1>9, <1>n DEF Here, fs
<1>11. TopRule.name # "DebugAssertFalse"
  BY <1>4 DEF Fits
<1> QED
  BY <1>2, <1>7, <1>8, <1>10, <1>11

\* The edit apply() is about to make is the next one of its plan.
LEMMA EditGoal ==
    ASSUME Shape, EditsLeft
    PROVE  /\ EditTarget = Goal(ThisForest, ThisEdit)
           /\ ThisForest = forests[cursor[1]] /\ ThisEdit = PlanOf(TopRule)[cursor[1]][cursor[2]]
           /\ cursor[1] \in TreeIds /\ cursor[2] \in Nat
           /\ cursor[2] <= Len(PlanOf(TopRule)[cursor[1]])
           /\ ThisEdit \in Edit /\ ThisForest \in Forest
           /\ PlanOf(TopRule) \in Plan /\ pc = "applying" /\ Stack # <<>> /\ TopRule = Rule0
<1>1. pc = "applying"
  BY DEF EditsLeft, InForestLoop, InApply
<1>2. TopRule = Rule0 /\ PlanOf(TopRule) \in Plan /\ Stack # <<>>
  BY <1>1, StackHasTop
<1>3. EditTarget = Goal(ThisForest, ThisEdit)
  BY DEF EditTarget, Goal
<1> QED
  BY <1>1, <1>2, <1>3, EditIsTyped
     DEF EditsLeft, InForestLoop, ThisTree, ThisForest, EditsHere, ThisEdit

\* A root is passed over, a node is cut, and what is asked to be protected is.
LEMMA CutIsOfPlan ==
    ASSUME Shape, CutNode
    PROVE  /\ Does(ThisEdit, StateOf(forests, protected, ThisTree),
                   StateOf(forests', protected', ThisTree))
           /\ \A i \in TreeIds : i # ThisTree =>
                 StateOf(forests', protected', i) = StateOf(forests, protected, i)
<1>1. /\ EditsLeft /\ IsCut /\ EditTarget \in ThisForest
      /\ HasParent(ThisForest, EditTarget) /\ <<ThisTree, EditTarget>> \notin protected
      /\ forests' = [forests EXCEPT ![ThisTree] = CutEdge(ThisForest, EditTarget)]
      /\ protected' = protected \cup NewShields
  BY DEF CutNode, ThisForest
<1>2. /\ EditTarget = Goal(ThisForest, ThisEdit) /\ ThisForest = forests[ThisTree]
      /\ ThisTree \in TreeIds /\ ThisEdit \in Edit /\ ThisForest \in Forest
  BY <1>1, EditGoal DEF ThisTree
<1>3. forests \in [TreeIds -> Forest]
  BY DEF Shape, TypeOK
<1>4. ASSUME NEW i \in TreeIds
      PROVE  AtTree(protected', i) = IF i = ThisTree
                 THEN AtTree(protected, i) \cup Shielded(ThisForest, ThisEdit)
                 ELSE AtTree(protected, i)
  <2>1. CASE ThisEdit.kind = "isolate" /\ ThisEdit.mate # NoLabel
    <3> DEFINE m == TerminalOf(ThisForest, ThisEdit.mate)
    <3>1. m \in Node
      BY <1>2, NavigationIsTyped DEF Edit
    <3>2. Shielded(ThisForest, ThisEdit) = {m}
      BY <2>1 DEF Shielded
    <3>3. protected' = protected \cup {<<ThisTree, m>>}
      BY <1>1, <2>1 DEF NewShields
    <3> HIDE DEF m
    <3>4. \A x \in Node : <<i, x>> \in protected'
              <=> <<i, x>> \in protected \/ (i = ThisTree /\ x = m)
      BY <3>3
    <3> QED
      BY <3>1, <3>2, <3>4 DEF AtTree
  <2>2. CASE ~ (ThisEdit.kind = "isolate" /\ ThisEdit.mate # NoLabel)
    <3>1. Shielded(ThisForest, ThisEdit) = {} /\ NewShields = {}
      BY <2>2 DEF Shielded, NewShields
    <3>2. protected' = protected
      BY <1>1, <3>1
    <3> QED
      BY <3>1, <3>2
  <2> QED
    BY <2>1, <2>2
<1>5. \A i \in TreeIds : i # ThisTree =>
          StateOf(forests', protected', i) = StateOf(forests, protected, i)
  BY <1>1, <1>3, <1>4 DEF StateOf
<1>6. StateOf(forests', protected', ThisTree)
          = <<CutEdge(ThisForest, EditTarget),
              AtTree(protected, ThisTree) \cup Shielded(ThisForest, ThisEdit)>>
  BY <1>1, <1>2, <1>3, <1>4 DEF StateOf
<1>7. EditTarget \notin AtTree(protected, ThisTree)
  BY <1>1 DEF AtTree
<1> DEFINE v == StateOf(forests, protected, ThisTree)
<1>8. v[1] = ThisForest /\ v[2] = AtTree(protected, ThisTree)
  BY <1>2 DEF StateOf
<1>9. ThisEdit.kind # "merge"
  BY <1>1 DEF IsCut
<1> HIDE DEF v
<1>10. Does(ThisEdit, v, StateOf(forests', protected', ThisTree))
  BY <1>1, <1>2, <1>6, <1>7, <1>8, <1>9 DEF Does
<1> QED
  BY <1>5, <1>10 DEF v

\* So does a collapse.
LEMMA CollapseIsOfPlan ==
    ASSUME Shape, CollapseNode
    PROVE  /\ Does(ThisEdit, StateOf(forests, protected, ThisTree),
                   StateOf(forests', protected', ThisTree))
           /\ \A i \in TreeIds : i # ThisTree =>
                 StateOf(forests', protected', i) = StateOf(forests, protected, i)
<1>1. /\ EditsLeft /\ ~ IsCut /\ EditTarget \in ThisForest
      /\ forests' = [forests EXCEPT ![ThisTree] = CollapseAt(ThisForest, EditTarget)]
      /\ protected' = protected
  BY DEF CollapseNode, ThisForest
<1>2. /\ EditTarget = Goal(ThisForest, ThisEdit) /\ ThisForest = forests[ThisTree]
      /\ ThisTree \in TreeIds
  BY <1>1, EditGoal DEF ThisTree
<1>3. forests \in [TreeIds -> Forest]
  BY DEF Shape, TypeOK
<1>4. /\ \A i \in TreeIds : i # ThisTree =>
            StateOf(forests', protected', i) = StateOf(forests, protected, i)
      /\ StateOf(forests', protected', ThisTree)
            = <<CollapseAt(ThisForest, EditTarget), AtTree(protected, ThisTree)>>
  BY <1>1, <1>2, <1>3 DEF StateOf
<1> DEFINE v == StateOf(forests, protected, ThisTree)
<1>5. v[1] = ThisForest /\ v[2] = AtTree(protected, ThisTree)
  BY <1>2 DEF StateOf
<1>6. ThisEdit.kind = "merge"
  BY <1>1 DEF IsCut
<1> HIDE DEF v
<1>7. Does(ThisEdit, v, StateOf(forests', protected', ThisTree))
  BY <1>1, <1>2, <1>4, <1>5, <1>6 DEF Does
<1> QED
  BY <1>4, <1>7 DEF v

\* Every step inside apply() is one of the plan.
LEMMA ApplyGoesOn ==
    ASSUME Shape, NEW h, Underway(h), NextForest \/ SkipEdit \/ CutNode \/ CollapseNode
    PROVE  /\ Partly(PlanOf(TopRule), cursor', h[Len(Stack)][0], Held(Len(Stack)),
                     forests', protected')
           /\ pc = "applying" /\ pc' = pc
<1> DEFINE plan == PlanOf(TopRule)
           fs == h[Len(Stack)][0]
           held == Held(Len(Stack))
<1>0. Partly(plan, cursor, fs, held, forests, protected)
  BY DEF Underway
<1>1. CASE NextForest
  <2>1. /\ pc = "applying" /\ cursor[1] \in TreeIds /\ ~ EditsLeft
        /\ cursor' = <<cursor[1] + 1, 1>> /\ UNCHANGED <<forests, protected>> /\ pc' = pc
    BY <1>1 DEF NextForest, InForestLoop, InApply, ThisTree
  <2>2. TopRule = Rule0 /\ plan \in Plan
    BY <2>1, StackHasTop
  <2>3. ~ cursor[2] <= Len(plan[cursor[1]]) /\ cursor[2] \in Nat
    BY <1>1, <2>1, <2>2 DEF NextForest, EditsLeft, EditsHere, ThisTree, Shape, TypeOK
  <2> HIDE DEF plan, fs, held
  <2>4. Partly(plan, cursor', fs, held, forests, protected)
    BY <1>0, <2>1, <2>2, <2>3, PartlyLeavesTree
  <2> QED
    BY <2>1, <2>4 DEF plan, fs, held
<1>2. ASSUME EditsLeft, cursor' = <<ThisTree, cursor[2] + 1>>,
             Does(ThisEdit, StateOf(forests, protected, ThisTree),
                  StateOf(forests', protected', ThisTree)),
             \A i \in TreeIds : i # ThisTree =>
                 StateOf(forests', protected', i) = StateOf(forests, protected, i)
      PROVE  Partly(plan, cursor', fs, held, forests', protected')
  <2>1. /\ cursor[1] \in TreeIds /\ cursor[2] \in Nat /\ plan \in Plan
        /\ cursor[2] <= Len(plan[cursor[1]]) /\ ThisEdit = plan[cursor[1]][cursor[2]]
    BY <1>2, EditGoal
  <2> HIDE DEF plan, fs, held
  <2>2. Does(plan[cursor[1]][cursor[2]], StateOf(forests, protected, cursor[1]),
             StateOf(forests', protected', cursor[1]))
    BY <1>2, <2>1 DEF ThisTree
  <2>3. \A i \in TreeIds : i # cursor[1] =>
            StateOf(forests', protected', i) = StateOf(forests, protected, i)
    BY <1>2 DEF ThisTree
  <2>4. cursor' = <<cursor[1], cursor[2] + 1>>
    BY <1>2 DEF ThisTree
  <2> QED
    BY <1>0, <2>1, <2>2, <2>3, <2>4, PartlyGoesOn
<1>3. EditsLeft => pc = "applying"
  BY EditGoal
<1>4. CASE SkipEdit
  <2>1. /\ EditsLeft /\ IsCut /\ ToleratesRoot /\ ~ HasParent(ThisForest, EditTarget)
        /\ cursor' = <<ThisTree, cursor[2] + 1>> /\ UNCHANGED <<forests, protected>>
        /\ pc' = pc
    BY <1>4 DEF SkipEdit, GoToNextEdit
  <2>2. Does(ThisEdit, StateOf(forests, protected, ThisTree),
             StateOf(forests, protected, ThisTree))
    <3> DEFINE v == StateOf(forests, protected, ThisTree)
    <3>1. v[1] = ThisForest /\ EditTarget = Goal(ThisForest, ThisEdit)
          /\ ThisEdit.kind \in {"isolate", "detach"}
      BY <2>1, EditGoal DEF StateOf, ThisTree, ThisForest, ToleratesRoot
    <3> HIDE DEF v
    <3>2. Does(ThisEdit, v, v)
      BY <2>1, <3>1 DEF Does
    <3> QED
      BY <3>2 DEF v
  <2>3. forests' = forests /\ protected' = protected
    BY <2>1
  <2>4. Partly(plan, cursor', fs, held, forests', protected')
    BY <1>2, <2>1, <2>2, <2>3
  <2> QED
    BY <1>3, <2>1, <2>4
<1>5. CASE CutNode
  <2>1. EditsLeft /\ cursor' = <<ThisTree, cursor[2] + 1>> /\ pc' = pc
    BY <1>5 DEF CutNode, GoToNextEdit
  <2>2. Partly(plan, cursor', fs, held, forests', protected')
    BY <1>2, <1>5, <2>1, CutIsOfPlan
  <2> QED
    BY <1>3, <2>1, <2>2
<1>6. CASE CollapseNode
  <2>1. EditsLeft /\ cursor' = <<ThisTree, cursor[2] + 1>> /\ pc' = pc
    BY <1>6 DEF CollapseNode, GoToNextEdit
  <2>2. Partly(plan, cursor', fs, held, forests', protected')
    BY <1>2, <1>6, <2>1, CollapseIsOfPlan
  <2> QED
    BY <1>3, <2>1, <2>2
<1> QED
  BY <1>1, <1>4, <1>5, <1>6

\* A rule that fits is entered where we are.
LEMMA EnteringTracks ==
    ASSUME Shape, Shape', ShieldsAreOwned, NEW h, Track(h), pc \in Complete,
           NEW r, Ready(r), Fits(r, forests), EnterRule(r),
           UNCHANGED <<trees, forests, applied, protected>>,
           NEW g, Resumes(g, h), IsHistory(g)'
    PROVE  /\ Stages(g)' /\ Reached(g)' /\ TopRule' = Entering(r)
           /\ g[Len(Stack')][0] = forests /\ Held(Len(Stack))' = protected
<1>1. /\ current' = <<Entering(r)>> /\ pc' = "applying" /\ Enterable(r)
      /\ cursor' = <<1, 1>>
  BY DEF EnterRule, Entering
<1>2. /\ Entered(Entering(r)) /\ Entering(r) \in Rule /\ Entering(r).changes = <<>>
  BY <1>1, EnteringEnters DEF Entered
<1>3. Stack' = Append(Stack, Entering(r))
  <2>1. Stack = applied /\ applied \in Seq(Rule)
    BY StackIsTyped DEF Complete, Shape, TypeOK
  <2> QED
    BY <1>1, <1>2, <2>1 DEF Stack
<1>4. Fits(Entering(r), forests)
  BY EnteringFits DEF Ready
<1>5. /\ Stages(g)' /\ TopRule' = Entering(r)
      /\ g[Len(Stack')][0] = forests /\ Held(Len(Stack))' = protected
  BY <1>2, <1>3, <1>4, NewStage DEF Track, Reached
<1>6. PlanOf(Entering(r)) \in Plan
  BY <1>2, PlanOfEntered
<1>7. Partly(PlanOf(Entering(r)), cursor', forests, protected, forests, protected)
  BY <1>1, <1>6, StartsPartly
<1>8. Underway(g)'
  BY <1>5, <1>7 DEF Underway
<1>9. Reached(g)'
  BY <1>1, <1>8 DEF Reached, Complete
<1> QED
  BY <1>5, <1>9

\* The weights stay below bestSolutionWeight = INFINITY.
LEMMA WeightIsSmall ==
    ASSUME Shape, NEW h, IsHistory(h)
    PROVE  \A i \in TreeIds : NumComponents(forests[i]) <= Cardinality(Labels)
<1>1. forests \in WellFormedForests
  BY HistoryIsOfWellFormed
<1> QED
  BY <1>1, ComponentsAreFew DEF WellFormedForests

\* The rule selected fits; with a best weight of INFINITY it searches on.
LEMMA SelectedFitsHere ==
    ASSUME Shape, pc = "top", NEW h, Track(h), NEW r \in ActiveRules
    PROVE  /\ Fits(r, forests) /\ r.branch = 0
           /\ ~ Bounded /\ best = Infinity => r.name # "CutBranch"
<1>1. Aligned(trees, forests)
  BY DEF Track, Reached, Here, Complete
<1>2. /\ 1 \in TreeIds /\ forests \in [TreeIds -> Forest] /\ TooLarge \in BOOLEAN
      /\ trees \in Instances
  BY NumTreesIsPositive DEF Shape, TypeOK, TooLarge, TreeIds
<1>3. trees[1] \in Forest /\ WellFormed(trees[1]) /\ IsLabelledTree(trees[1])
  BY <1>2, InputIsAligned
<1>4. Fits(r, forests)
  BY <1>1, <1>2, <1>3, SelectedRuleFits DEF ActiveRules, Aligned
<1>5. r.branch = 0
  <2>1. Fresh(r)
    BY <1>2, SelectedRuleIsFresh DEF ActiveRules
  <2> QED
    BY <2>1 DEF Fresh
<1>6. ASSUME ~ Bounded, best = Infinity PROVE ~ TooLarge
  <2>1. Cardinality(Labels) \in Nat /\ \A i \in TreeIds : NumComponents(forests[i]) \in Nat
    BY <1>2, LabelsAreTaxa, FS_CardinalityType, ComponentsAreCounted
  <2>2. \A i \in TreeIds : NumComponents(forests[i]) <= Cardinality(Labels)
    BY WeightIsSmall DEF Track
  <2>3. \A i \in TreeIds : ~ NumComponents(forests[i]) >= best
    BY <1>6, <2>1, <2>2, InfinityIsBeyond
  <2> QED
    BY <1>6, <2>3 DEF TooLarge
<1>7. ASSUME ~ Bounded, best = Infinity PROVE r.name # "CutBranch"
  <2>1. TooLarge = FALSE
    BY <1>2, <1>6, <1>7
  <2> QED
    BY <2>1, SelectedRuleSearchesOn DEF ActiveRules
<1> QED
  BY <1>4, <1>5, <1>7

\* A step that does not enter a rule keeps those that are there.
LEMMA NotEnteringKeeps ==
    ASSUME Shape, Shape', [Next]_vars, ~ Ending, Len(Stack') <= Len(Stack)
    PROVE  /\ KeepsRules /\ UNCHANGED trees
           /\ Len(Stack') = Len(Stack) \/ Pops
<1>1. Rests \/ Pushes \/ Edits \/ Reverts \/ Pops
  BY StackSteps DEF RevertsInside
<1>2. ~ Pushes
  BY StackHasTop DEF Pushes
<1> QED
  BY <1>1, <1>2, StackKeepsRules

\* The length of the stack.
LEMMA StackLength ==
    ASSUME Shape, Shape'
    PROVE  /\ Len(Stack) \in Nat /\ Len(Stack') \in Nat
           /\ Len(Stack) = Len(applied) + Len(current)
           /\ Len(Stack') = Len(applied') + Len(current')
<1>1. /\ applied \in Seq(Rule) /\ current \in Seq(Rule)
      /\ applied' \in Seq(Rule) /\ current' \in Seq(Rule)
  BY DEF Shape, TypeOK
<1> QED
  BY <1>1 DEF Stack

\* Every step until unapplyReductions goes on from where the solver is, if the
\* rules it is handed fit and no replayed rule is held up.
LEMMA TrackGoesOn ==
    ASSUME Shape, Shape', ShieldsAreOwned, ShieldsAreOwned', [Next]_vars, ~ Ending,
           NEW h, Track(h), ~ (ApplyBlocked /\ Replaying),
           pc = "top" /\ applyNext # <<>> => Fits(Head(applyNext), forests),
           pc = "replaying" /\ index <= Len(solution) => Fits(solution[index], forests)
    PROVE  \E g : Track(g)' /\ Resumes(g, h)
<1>h. /\ IsHistory(h) /\ ShortThroughout(h) /\ Stages(h)
      /\ pc \in Complete => Here(h)
      /\ pc = "applying" => Underway(h)
  BY DEF Track, Reached
<1>g. PICK g : (IsHistory(g) /\ ShortThroughout(g))' /\ Resumes(g, h)
  BY <1>h, StepKeepsLineage
<1>l. /\ Len(Stack) \in Nat /\ Len(Stack') \in Nat
      /\ Len(Stack) = Len(applied) + Len(current)
      /\ Len(Stack') = Len(applied') + Len(current')
  BY StackLength
<1>k. Len(Stack') <= Len(Stack) => Stages(g)' /\ KeepsRules
  BY <1>h, <1>g, <1>l, NotEnteringKeeps, StagesAreKept
<1>q. Stages(g)' /\ Reached(g)' => Track(g)' /\ Resumes(g, h)
  BY <1>g DEF Track
<1> SUFFICES Stages(g)' /\ Reached(g)'
  BY <1>q
\* The rests.
<1>r. ASSUME Rests, pc' \in Complete => Here(h),
             pc' = "applying" => pc = "applying" /\ UNCHANGED cursor
      PROVE  Stages(g)' /\ Reached(g)'
  <2>1. Stages(g)'
    BY <1>k, <1>l, <1>r DEF Rests
  <2>2. pc' \in Complete => Here(g)'
    BY <1>g, <1>r, HereIsKept
  <2>3. pc' = "applying" => Underway(g)'
    <3> SUFFICES ASSUME pc' = "applying" PROVE Underway(g)'
      OBVIOUS
    <3>1. Stack # <<>> /\ Underway(h)
      BY <1>h, <1>r, StackHasTop
    <3> QED
      BY <1>g, <1>r, <3>1, UnderwayIsKept
  <2> QED
    BY <2>1, <2>2, <2>3 DEF Reached
<1>1. CASE \/ CallAdvanceSearch \/ ReturnSolved \/ ReturnPaused \/ Finalize
           \/ EndReplay \/ TakeSeed \/ UnapplyReductions \/ RaiseThreshold
           \/ AbandonBranch \/ RollBackBranch \/ Sigterm \/ UNCHANGED vars
  <2>1. Rests
    BY <1>1 DEF CallAdvanceSearch, ReturnSolved, ReturnPaused, Finalize, EndReplay,
                TakeSeed, UnapplyReductions, RaiseThreshold, AbandonBranch,
                RollBackBranch, Sigterm, vars, search, Rests, Stack, Ending
  <2>2. /\ pc' \in Complete => pc \in Complete
        /\ pc' = "applying" => pc = "applying" /\ UNCHANGED cursor
    BY <1>1 DEF CallAdvanceSearch, ReturnSolved, ReturnPaused, Finalize, EndReplay,
                TakeSeed, UnapplyReductions, RaiseThreshold, AbandonBranch,
                RollBackBranch, Sigterm, vars, Complete
  <2> QED
    BY <1>h, <1>r, <2>1, <2>2
<1>2. CASE ApplyQueuedRule
  <2>1. /\ Ready(Head(applyNext)) /\ Fits(Head(applyNext), forests)
        /\ EnterRule(Head(applyNext)) /\ pc \in Complete
        /\ UNCHANGED <<trees, forests, applied, protected>>
    BY <1>2 DEF ApplyQueuedRule, Shape, TypeOK, search, Complete
  <2> QED
    BY <1>g, <2>1, EnteringTracks
<1>3. CASE ApplyActiveRule
  <2>1. PICK r \in ActiveRules : EnterRule(r)
    BY <1>3 DEF ApplyActiveRule
  <2>2. /\ pc \in Complete /\ UNCHANGED <<trees, forests, applied, protected>>
    BY <1>3 DEF ApplyActiveRule, SelectsRule, search, Complete
  <2>3. pc = "top"
    BY <1>3 DEF ApplyActiveRule, SelectsRule
  <2>4. Fits(r, forests)
    BY <2>3, SelectedFitsHere
  <2>5. Ready(r)
    BY SelectedIsReady
  <2> QED
    BY <1>g, <2>1, <2>2, <2>4, <2>5, EnteringTracks
<1>4. CASE ReplayRule
  <2>1. /\ Ready(solution[index]) /\ Fits(solution[index], forests)
        /\ EnterRule(solution[index]) /\ pc \in Complete
        /\ UNCHANGED <<trees, forests, applied, protected>>
    BY <1>4 DEF ReplayRule, Shape, TypeOK, search, Complete
  <2> QED
    BY <1>g, <2>1, EnteringTracks
<1>5. CASE NextForest \/ SkipEdit \/ CutNode \/ CollapseNode
  <2>1. pc = "applying"
    BY <1>5 DEF NextForest, SkipEdit, CutNode, CollapseNode, EditsLeft, InForestLoop, InApply
  <2>2. /\ Partly(PlanOf(TopRule), cursor', h[Len(Stack)][0], Held(Len(Stack)),
                  forests', protected')
        /\ pc' = pc
    BY <1>5, <1>h, <2>1, ApplyGoesOn
  <2>3. Len(Stack') = Len(Stack)
    <3>1. UNCHANGED applied
      BY <1>5 DEF NextForest, SkipEdit, CutNode, CollapseNode
    <3>2. Len(current) = 1 /\ Len(current') = 1
      BY <2>1, <2>2 DEF Shape
    <3> QED
      BY <1>l, <3>1, <3>2
  <2>4. KeepsRules /\ Stages(g)'
    BY <1>k, <1>l, <2>3
  <2>5. Len(Stack) \in 1..Len(Stack') /\ TopRule = Stack[Len(Stack)]
    BY <2>1, <2>3, StackHasTop
  <2>6. /\ PlanOf(Stack'[Len(Stack)]) = PlanOf(TopRule)
        /\ Held(Len(Stack))' = Held(Len(Stack))
        /\ g[Len(Stack)][0] = h[Len(Stack)][0]
    <3>1. \A k \in 1..Len(Stack') : SameRule(Stack'[k], Stack[k])
                                    /\ UNION {Stack'[j].shields : j \in 1..(k - 1)} = Held(k)
      BY <2>4 DEF KeepsRules, Held
    <3>2. UNION {Stack'[j].shields : j \in 1..(Len(Stack) - 1)} = Held(Len(Stack))
      BY <2>5, <3>1
    <3>3. Held(Len(Stack))' = Held(Len(Stack))
      BY <2>3, <3>2 DEF Held
    <3> QED
      BY <1>g, <2>3, <2>5, <3>1, <3>3, SameRuleFits DEF Resumes
  <2>7. Underway(g)'
    BY <2>2, <2>3, <2>6 DEF Underway, TopRule
  <2> QED
    BY <2>1, <2>2, <2>4, <2>7 DEF Reached, Complete
<1>6. CASE ApplyBlocked
  <2>1. pc = "applying" /\ pc' = "endOfBranch" /\ LeaveApply
        /\ UNCHANGED <<trees, forests, protected>>
    BY <1>6 DEF ApplyBlocked, EditsLeft, InForestLoop, InApply, search
  <2>2. Rests
    BY <2>1, LeavingRests
  <2> QED
    BY <1>r, <2>1, <2>2 DEF Complete
<1>7. CASE ReplayedRule \/ ReturnContinue \/ ReturnBoundedSolution
           \/ ReturnCutBranch \/ ReturnSolutionCandidate
  <2>1. /\ ApplyDone /\ pc = "applying" /\ LeaveApply /\ pc' # "applying"
        /\ UNCHANGED <<trees, forests, protected>>
    BY <1>7 DEF ReplayedRule, ReturnContinue, ReturnBoundedSolution, ReturnCutBranch,
                ReturnSolutionCandidate, Returns, ReturnToReplay, SearchSpaceDone,
                ApplyDone, InApply, search
  <2>2. Rests /\ Here(h)
    BY <2>1, LeavingRests, DoneIsHere
  <2> QED
    BY <1>r, <2>1, <2>2
<1>8. CASE StartReplay \/ SeedSearch \/ NothingLeft
  <2>1. /\ applied = <<>> /\ pc # "applying" /\ pc' # "applying"
        /\ UNCHANGED <<trees, forests, protected, applied, current>>
    BY <1>8 DEF StartReplay, SeedSearch, NothingLeft, SearchSpaceDone, search
  <2>2. Rests /\ Stack = <<>>
    BY <2>1, StackIsTyped DEF Rests, Stack, Ending
  <2>3. Here(h)
    BY <1>h, <2>2, EmptyIsHere
  <2> QED
    BY <1>r, <2>1, <2>2, <2>3
<1>9. CASE UndoChange \/ DiscardRule
  <2>1. /\ pc' \in Unapplying /\ pc' = pc /\ UNCHANGED current
        /\ \/ applied' = [applied EXCEPT ![Len(applied)].changes = Front(@)]
           \/ applied # <<>> /\ applied' = Front(applied)
    BY <1>9 DEF UndoChange, DiscardRule, PopRule
  <2>2. Len(applied') <= Len(applied)
    <3>1. applied \in Seq(Rule)
      BY DEF Shape, TypeOK
    <3> QED
      BY <2>1, <3>1 DEF Front
  <2>3. Stages(g)'
    BY <1>k, <1>l, <2>1, <2>2 DEF Shape, TypeOK
  <2> QED
    BY <2>1, <2>3 DEF Reached, Unapplying, Complete
<1>10. CASE EnterNextBranch
  <2>0. pc = "backtracking" /\ Stack = applied /\ Stack' = applied'
    <3>1. pc = "backtracking" /\ current' = <<>> /\ applied' \in Seq(Rule)
      BY <1>10 DEF EnterNextBranch, Shape, TypeOK
    <3>2. Stack' = applied'
      BY <3>1 DEF Stack
    <3> QED
      BY <3>1, <3>2, StackIsTyped
  <2>1. Pops
    BY <1>10, <2>0 DEF EnterNextBranch, PopRule, search, LastRule, TopRule, Pops, Ending
  <2>2. Len(Stack') <= Len(Stack)
    <3>1. Stack # <<>> /\ Stack' = Front(Stack)
      BY <2>1 DEF Pops
    <3> QED
      BY <3>1, StackIsTyped DEF Front
  <2>3. Stages(g)' /\ Here(g)'
    BY <1>g, <1>h, <1>k, <2>1, <2>2, PopIsHere
  <2>4. pc' = "top"
    BY <1>10 DEF EnterNextBranch
  <2> QED
    BY <2>3, <2>4 DEF Reached
<1>11. ~ UndoReductionChange /\ ~ NextReduction /\ ~ Terminated
  BY DEF UndoReductionChange, NextReduction, Terminated, Ending
<1> QED
  BY <1>1, <1>2, <1>3, <1>4, <1>5, <1>6, <1>7, <1>8, <1>9, <1>10, <1>11
     DEF Next, SolverStep, OtherStep, AdvanceSearch, Apply, RollBack, Finish

-----------------------------------------------------------------------------
(* What is queued, and where the search is without a solution.             *)

\* A queued rule fits where it is to be applied.
Queue ==
    applyNext # <<>> =>
        \/ /\ pc \in {"top", "stopped"} /\ Len(applyNext) = 1
           /\ Enterable(Head(applyNext)) /\ Fits(Head(applyNext), forests)
        \/ Bounded /\ pc \in {"finished", "restoring", "output"}

\* A bounded search keeps no solution: it stops in it.
Deepening ==
    Bounded =>
        /\ solution = <<>> /\ best = Infinity /\ Searching
        /\ pc \notin {"unwinding", "replaying", "abandoning", "reseeding"}
        /\ Ending \/ index = 0
        /\ pc = "stopped" => result \in {"Paused", "Solved"}
        /\ pc = "stopped" /\ result = "Solved" => AtEnd(forests)
        /\ pc = "finished" => AtEnd(forests)

\* Any other has made cuts that protect nothing until it has its first
\* solution, so that nothing holds it up on the way there.
Unsolved ==
    solution = <<>> /\ ~ Bounded =>
        /\ pc \in {"idle", "top", "applying", "stopped"}
        /\ pc = "stopped" => result = "Paused"
        /\ protected = {} /\ best = Infinity /\ index = 0
        /\ pc = "applying" => Rule0.name # "CutBranch" /\ Mateless(PlanOf(Rule0))
        /\ applyNext # <<>> => Head(applyNext).name = "EqualPair"

\* The search starts with nothing queued and nothing found.
LEMMA InitIsUnsolved == Init => Queue /\ Deepening /\ Unsolved
BY SeedsAreUnbounded DEF Init, Queue, Deepening, Unsolved, Searching, Ending

\* Without a solution nothing certifies it and no signal ends the search.
LEMMA NoSolutionNoEnd ==
    ASSUME solution = <<>>
    PROVE  ~ Certified /\ ~ TimedOut
BY DEF Certified, TimedOut

\* A bounded search ends where every tree is a single vertex.
LEMMA NextKeepsDeepening ==
    ASSUME Shape, Shape', [Next]_vars, Deepening, ~ Ending => \E h : Track(h)
    PROVE  Deepening'
<1> SUFFICES ASSUME Bounded PROVE Deepening'
  BY DEF Deepening
<1>d. /\ solution = <<>> /\ best = Infinity /\ Searching
      /\ pc \notin {"unwinding", "replaying", "abandoning", "reseeding"}
      /\ Ending \/ index = 0
      /\ pc = "stopped" => result \in {"Paused", "Solved"}
      /\ pc = "stopped" /\ result = "Solved" => AtEnd(forests)
      /\ pc = "finished" => AtEnd(forests)
  BY DEF Deepening
<1>n. ~ Certified /\ ~ TimedOut
  BY <1>d, NoSolutionNoEnd
<1>q. ASSUME UNCHANGED <<solution, best, stage>>,
             pc' \notin {"unwinding", "replaying", "abandoning", "reseeding"},
             Ending' \/ index' = 0,
             pc' = "stopped" => result' \in {"Paused", "Solved"},
             pc' = "stopped" /\ result' = "Solved" => AtEnd(forests)',
             pc' = "finished" => AtEnd(forests)'
      PROVE  Deepening'
  BY <1>d, <1>q DEF Deepening, Searching
<1>1. CASE CallAdvanceSearch \/ ReturnPaused \/ ApplyQueuedRule \/ ApplyActiveRule
  <2>1. /\ UNCHANGED <<solution, best, stage, index>> /\ ~ Ending
        /\ pc' \in {"top", "applying"} \/ (pc' = "stopped" /\ result' = "Paused")
    BY <1>1 DEF CallAdvanceSearch, ReturnPaused, ApplyQueuedRule, ApplyActiveRule,
                SelectsRule, EnterRule, search, Ending
  <2> QED
    BY <1>d, <1>q, <2>1
<1>2. CASE NextForest \/ SkipEdit \/ CutNode \/ CollapseNode
  <2>1. UNCHANGED <<solution, best, stage, pc, index>> /\ pc = "applying"
    BY <1>2 DEF NextForest, SkipEdit, CutNode, CollapseNode, EditsLeft, InForestLoop,
                InApply, search
  <2> QED
    BY <1>d, <1>q, <2>1 DEF Ending
<1>3. CASE ApplyBlocked \/ ReturnContinue \/ ReturnCutBranch
  <2>1. /\ UNCHANGED <<solution, best, stage, index>> /\ pc = "applying"
        /\ pc' \in {"endOfBranch", "top"}
    BY <1>3, <1>d DEF ApplyBlocked, ReturnContinue, ReturnCutBranch, Returns, ApplyDone,
                EditsLeft, InForestLoop, InApply, SearchSpaceDone, Replaying, search, Ending
  <2> QED
    BY <1>d, <1>q, <2>1 DEF Ending
<1>4. CASE ReturnBoundedSolution
  <2>1. /\ UNCHANGED <<solution, best, stage, index, forests>>
        /\ pc' = "stopped" /\ ApplyDone /\ pc = "applying"
        /\ Rule0.name = "CheckSingleVertexTrees"
    BY <1>4 DEF ReturnBoundedSolution, Returns, search, ApplyDone, InApply
  <2>2. AtEnd(forests) /\ index = 0 /\ result' = "Solved"
    BY <1>4, <1>d, <2>1, DoneIsHere DEF Ending, ReturnBoundedSolution
  <2> QED
    BY <1>q, <2>1, <2>2
<1>5. CASE UndoChange \/ DiscardRule \/ RollBackBranch \/ EnterNextBranch \/ NothingLeft
  <2>1. /\ UNCHANGED <<solution, best, stage, index>> /\ ~ Ending
        /\ pc' \in {"backtracking", "top"}
    BY <1>5, <1>d DEF UndoChange, DiscardRule, RollBackBranch, EnterNextBranch, NothingLeft,
                SearchSpaceDone, Unapplying, search, Ending
  <2> QED
    BY <1>d, <1>q, <2>1
<1>6. CASE Finalize
  <2>1. UNCHANGED <<solution, best, stage, index, forests>> /\ pc' = "finished" /\ ~ Ending
    BY <1>6 DEF Finalize, search, Ending
  <2>2. pc = "stopped" /\ result = "Solved"
    BY <1>6, <1>d DEF Finalize, IncumbentCertifies
  <2> QED
    BY <1>d, <1>q, <2>1, <2>2
<1>7. CASE UnapplyReductions \/ UndoReductionChange \/ NextReduction
  <2>1. UNCHANGED <<solution, best, stage>> /\ pc' \in {"restoring", "output"}
    BY <1>7 DEF UnapplyReductions, UndoReductionChange, NextReduction, search
  <2> QED
    BY <1>d, <1>q, <2>1 DEF Ending
<1>8. CASE Sigterm \/ RaiseThreshold \/ UNCHANGED vars
  <2>1. UNCHANGED <<solution, best, stage, pc, index, result, forests>>
    BY <1>8 DEF Sigterm, RaiseThreshold, vars
  <2> QED
    BY <1>d, <1>q, <2>1 DEF Ending, AtEnd
<1>9. /\ ~ ReturnSolved /\ ~ ReplayedRule /\ ~ ReturnSolutionCandidate /\ ~ AbandonBranch
      /\ ~ StartReplay /\ ~ ReplayRule /\ ~ EndReplay /\ ~ TakeSeed /\ ~ SeedSearch
  BY <1>d, <1>n DEF ReturnSolved, ReplayedRule, ReturnSolutionCandidate, AbandonBranch,
                    StartReplay, ReplayRule, EndReplay, TakeSeed, SeedSearch, ApplyDone,
                    InApply, Replaying, Ending
<1> QED
  BY <1>1, <1>2, <1>3, <1>4, <1>5, <1>6, <1>7, <1>8, <1>9
     DEF Next, SolverStep, OtherStep, AdvanceSearch, Apply, RollBack, Finish, Terminated

\* What ABCBranchingRule suggests fits where its first branch has led, and a
\* branching rule fits for its next branch where it did for the last one.
LEMMA NextKeepsQueue ==
    ASSUME Shape, Shape', [Next]_vars, Queue, Deepening, ~ Ending => \E h : Track(h)
    PROVE  Queue'
<1>a. applyNext \in Seq(Rule)
  BY DEF Shape, TypeOK
<1>q. pc \notin {"top", "stopped", "finished", "restoring", "output"} => applyNext = <<>>
  BY DEF Queue
<1>e. applyNext' = <<>> => Queue'
  BY DEF Queue
<1>u. UNCHANGED <<applyNext, forests>> /\ pc \in {"top", "stopped"}
      /\ pc' \in {"top", "stopped"} => Queue'
  <2> SUFFICES ASSUME UNCHANGED <<applyNext, forests>>, pc \in {"top", "stopped"},
                      pc' \in {"top", "stopped"}, applyNext # <<>>
               PROVE  Queue'
    BY <1>e
  <2>1. Len(applyNext) = 1 /\ Enterable(Head(applyNext)) /\ Fits(Head(applyNext), forests)
    BY DEF Queue
  <2>2. Len(applyNext') = 1 /\ Enterable(Head(applyNext'))
    BY <2>1
  <2>3. Fits(Head(applyNext'), forests')
    BY <2>1
  <2> QED
    BY <2>2, <2>3 DEF Queue
<1>f. Bounded /\ pc' \in {"finished", "restoring", "output"} => Queue'
  BY DEF Queue
<1>1. CASE CallAdvanceSearch \/ ReturnSolved \/ ReturnPaused \/ Sigterm \/ RaiseThreshold
           \/ UNCHANGED vars
  <2>1. UNCHANGED <<applyNext, forests>>
    BY <1>1 DEF CallAdvanceSearch, ReturnSolved, ReturnPaused, Sigterm, RaiseThreshold, vars
  <2>2. UNCHANGED pc \/ (pc \in {"top", "stopped", "idle"} /\ pc' \in {"top", "stopped"})
    BY <1>1 DEF CallAdvanceSearch, ReturnSolved, ReturnPaused, Sigterm, RaiseThreshold, vars
  <2>3. pc \in {"finished", "restoring", "output"} => applyNext = <<>> \/ Bounded
    BY DEF Queue
  <2> QED
    BY <1>e, <1>f, <1>q, <1>u, <2>1, <2>2, <2>3
<1>2. CASE ApplyQueuedRule
  <2>1. Len(applyNext) = 1 /\ applyNext' = Tail(applyNext)
    BY <1>2 DEF ApplyQueuedRule, Queue
  <2>2. applyNext' \in Seq(Rule) /\ Len(applyNext') = 0
    BY <1>a, <2>1
  <2>3. applyNext' = <<>>
    BY <2>2
  <2> QED
    BY <1>e, <2>3
<1>3. CASE ApplyActiveRule
  BY <1>3, <1>e DEF ApplyActiveRule, SelectsRule
<1>4. CASE \/ NextForest \/ SkipEdit \/ CutNode \/ CollapseNode \/ ApplyBlocked
           \/ ReplayedRule \/ ReturnCutBranch \/ ReturnBoundedSolution
           \/ ReturnSolutionCandidate
  <2>1. pc = "applying" /\ UNCHANGED applyNext
    BY <1>4 DEF NextForest, SkipEdit, CutNode, CollapseNode, ApplyBlocked, ReplayedRule,
                ReturnCutBranch, ReturnBoundedSolution, ReturnSolutionCandidate, Returns,
                ReturnToReplay, ApplyDone, EditsLeft, InForestLoop, InApply
  <2> QED
    BY <1>e, <1>q, <2>1
<1>5. CASE ReturnContinue
  <2>1. /\ pc = "applying" /\ ApplyDone /\ UNCHANGED forests /\ pc' = "top"
        /\ applyNext' = applyNext \o Suggestions
    BY <1>5 DEF ReturnContinue, Returns, ApplyDone, InApply
  <2>2. Suggestions \in Seq(Rule) /\ applyNext = <<>>
    BY <1>q, <2>1, SuggestionsAreReady
  <2>3. applyNext' = Suggestions
    BY <2>1, <2>2
  <2>4. CASE ~ (Rule0.name = "ABC" /\ Rule0.branch = 1)
    BY <1>e, <2>3, <2>4 DEF Suggestions
  <2>5. CASE Rule0.name = "ABC" /\ Rule0.branch = 1
    <3> DEFINE r == EqualPairRule(Rule0.a, Rule0.c)
    <3>1. applyNext' = <<r>>
      BY <2>3, <2>5 DEF Suggestions
    <3>2. Fits(r, forests)
      BY <2>1, <2>5, DoneIsHere DEF Ending
    <3>3. r.name = "EqualPair"
      BY NewRuleFields DEF EqualPairRule
    <3> HIDE DEF r
    <3>4. Enterable(r)
      BY <3>3 DEF Enterable, IsBranching
    <3>5. applyNext' # <<>> /\ Len(applyNext') = 1 /\ Head(applyNext') = r
      BY <3>1
    <3>6. Fits(Head(applyNext'), forests')
      BY <2>1, <3>2, <3>5
    <3> QED
      BY <2>1, <3>4, <3>5, <3>6 DEF Queue
  <2> QED
    BY <2>4, <2>5
<1>6. CASE UndoChange \/ DiscardRule \/ NothingLeft \/ StartReplay \/ ReplayRule
           \/ EndReplay \/ SeedSearch
  <2>1. pc \notin {"top", "stopped", "finished", "restoring", "output"} /\ UNCHANGED applyNext
    BY <1>6 DEF UndoChange, DiscardRule, NothingLeft, StartReplay, ReplayRule, EndReplay,
                SeedSearch, Unapplying, search
  <2> QED
    BY <1>e, <1>q, <2>1
<1>7. CASE AbandonBranch \/ RollBackBranch
  BY <1>7, <1>e DEF AbandonBranch, RollBackBranch
<1>8. CASE EnterNextBranch
  <2>1. /\ pc = "backtracking" /\ applied # <<>> /\ LastRule.changes = <<>>
        /\ ~ IsFullyExplored(LastRule) /\ UNCHANGED forests /\ pc' = "top"
        /\ applyNext' = <<[LastRule EXCEPT !.shields = {}]>>
    BY <1>8 DEF EnterNextBranch, PopRule
  <2>2. PICK h : Track(h)
    BY <2>1 DEF Ending
  <2>n. PICK n \in Nat : n = Len(Stack)
    BY StackIsTyped
  <2>3. Stack = applied /\ n \in 1..Len(Stack) /\ LastRule = Stack[n] /\ LastRule \in Rule
    <3>1. Stack = applied
      BY <2>1, StackIsTyped
    <3>2. n \in 1..Len(Stack) /\ TopRule = Stack[n]
      BY <2>1, <2>n, <3>1, StackHasTop
    <3>3. Stack \in Seq(Rule)
      BY StackIsTyped
    <3>4. Stack[n] \in Rule
      BY <3>2, <3>3
    <3> QED
      BY <2>n, <3>1, <3>2, <3>4 DEF LastRule
  <2>4. forests = h[n][0] /\ Fits(LastRule, h[n][0])
    <3>1. Len(Stack[n].changes) = 0
      BY <2>1, <2>3
    <3>2. Fits(LastRule, h[n][0])
      BY <2>2, <2>3 DEF Track, Stages
    <3>3. h[n + 1][0] = forests /\ h[n + 1][0] = h[n][Len(Stack[n].changes)]
      BY <2>2, <2>3, <2>n DEF Track, IsHistory
    <3> QED
      BY <3>1, <3>2, <3>3
  <2> DEFINE r == [LastRule EXCEPT !.shields = {}]
  <2>5. Enterable(r) /\ Fits(r, forests)
    BY <2>1, <2>3, <2>4, RequeuedFits
  <2>6. applyNext' = <<r>>
    BY <2>1
  <2> HIDE DEF r
  <2>7. applyNext' # <<>> /\ Len(applyNext') = 1 /\ Head(applyNext') = r
    BY <2>6
  <2>8. Fits(Head(applyNext'), forests')
    BY <2>1, <2>5, <2>7
  <2> QED
    BY <2>1, <2>5, <2>7, <2>8 DEF Queue
<1>9. CASE Finalize
  BY <1>9, <1>e, <1>f DEF Finalize
<1>10. CASE TakeSeed
  <2>1. ~ Bounded /\ pc = "finished" /\ UNCHANGED applyNext
    BY <1>10 DEF TakeSeed, Deepening
  <2>2. applyNext = <<>>
    BY <2>1 DEF Queue
  <2> QED
    BY <1>e, <2>1, <2>2
<1>11. CASE UnapplyReductions \/ UndoReductionChange \/ NextReduction
  <2>1. /\ pc \in {"finished", "restoring"} /\ UNCHANGED applyNext
        /\ pc' \in {"restoring", "output"}
    BY <1>11 DEF UnapplyReductions, UndoReductionChange, NextReduction
  <2>2. applyNext = <<>> \/ Bounded
    BY <2>1 DEF Queue
  <2> QED
    BY <1>e, <1>f, <2>1, <2>2
<1> QED
  BY <1>1, <1>2, <1>3, <1>4, <1>5, <1>6, <1>7, <1>8, <1>9, <1>10, <1>11
     DEF Next, SolverStep, OtherStep, AdvanceSearch, Apply, RollBack, Finish, Terminated

\* A rule that fits and is new starts with cuts that protect nothing.
LEMMA NewRuleIsMateless ==
    ASSUME NEW r \in Rule, NEW fs, Fits(r, fs), r.branch = 0 \/ ~ IsBranching(r)
    PROVE  /\ Mateless(PlanOf(Entering(r)))
           /\ Entering(r).name = r.name
<1>1. /\ Entering(r).name = r.name /\ Entering(r).plans = r.plans
      /\ IsBranching(r) => Entering(r).branch = 1
  <2>1. r.branch = 0 => r.branch + 1 = 1
    OBVIOUS
  <2> QED
    BY <2>1, EnteringFits
<1>2. PlanOf(Entering(r)) = r.plans[1]
  BY <1>1 DEF PlanOf, IsBranching
<1> QED
  BY <1>1, <1>2 DEF Fits

\* An edit changes neither the name of the rule nor its plan.
LEMMA EditKeepsRule ==
    ASSUME Shape, CutNode \/ CollapseNode
    PROVE  SameRule(Rule0', Rule0)
<1>1. Rule0 \in Rule
  BY StackHasTop DEF Entered, CutNode, CollapseNode, EditsLeft, InForestLoop, InApply
<1>2. CASE CutNode
  <2>1. PICK x, y : current' = <<[Rule0 EXCEPT !.changes = x, !.shields = y]>>
    BY <1>2 DEF CutNode
  <2>2. Rule0' = [Rule0 EXCEPT !.changes = x, !.shields = y]
    BY <2>1 DEF Rule0
  <2> QED
    BY <1>1, <2>2 DEF SameRule, Rule
<1>3. CASE CollapseNode
  <2>1. PICK x : current' = <<[Rule0 EXCEPT !.changes = x]>>
    BY <1>3 DEF CollapseNode
  <2>2. Rule0' = [Rule0 EXCEPT !.changes = x]
    BY <2>1 DEF Rule0
  <2> QED
    BY <1>1, <2>2 DEF SameRule, Rule
<1> QED
  BY <1>2, <1>3

\* Until the first solution the search only goes forward.
LEMMA NextKeepsUnsolved ==
    ASSUME Shape, Shape', [Next]_vars, Queue, Unsolved, ~ Ending => \E h : Track(h)
    PROVE  Unsolved'
<1> SUFFICES ASSUME solution' = <<>>, ~ Bounded PROVE Unsolved'
  BY DEF Unsolved
<1>s. solution = <<>>
  <2>1. CASE ReturnSolutionCandidate
    <3>1. solution' = solution \/ solution' = [k \in DOMAIN applied' |-> Clone(applied'[k])]
      BY <2>1 DEF ReturnSolutionCandidate
    <3>2. DOMAIN applied' # {}
      <4>1. applied' = Append(applied, Rule0) /\ applied \in Seq(Rule) /\ applied' \in Seq(Rule)
        BY <2>1 DEF ReturnSolutionCandidate, Returns, LeaveApply, Shape, TypeOK
      <4>2. Len(applied') = Len(applied) + 1
        BY <4>1
      <4>3. 1 \in DOMAIN applied'
        BY <4>1, <4>2
      <4> QED
        BY <4>3
    <3>3. DOMAIN solution' = {}
      OBVIOUS
    <3> QED
      BY <3>1, <3>2, <3>3
  <2>2. CASE ~ ReturnSolutionCandidate
    <3>1. UNCHANGED solution
      BY <2>2 DEF Next, SolverStep, OtherStep, AdvanceSearch, Apply, RollBack, Finish,
                  Terminated, CallAdvanceSearch, ReturnSolved, ReturnPaused,
                  ApplyQueuedRule, ApplyActiveRule, NextForest, SkipEdit, CutNode,
                  CollapseNode, ApplyBlocked, ReplayedRule, ReturnContinue, ReturnCutBranch,
                  ReturnBoundedSolution, ReturnToReplay, UndoChange, DiscardRule,
                  AbandonBranch, RollBackBranch, EnterNextBranch, NothingLeft, Finalize,
                  StartReplay, ReplayRule, EndReplay, TakeSeed, SeedSearch,
                  UnapplyReductions, UndoReductionChange, NextReduction, Sigterm,
                  RaiseThreshold, vars, search
    <3> QED
      BY <3>1
  <2> QED
    BY <2>1, <2>2
<1>d. /\ pc \in {"idle", "top", "applying", "stopped"}
      /\ pc = "stopped" => result = "Paused"
      /\ protected = {} /\ best = Infinity /\ index = 0
      /\ pc = "applying" => Rule0.name # "CutBranch" /\ Mateless(PlanOf(Rule0))
      /\ applyNext # <<>> => Head(applyNext).name = "EqualPair"
  BY <1>s DEF Unsolved
<1>n. ~ Certified /\ ~ TimedOut
  BY <1>s, NoSolutionNoEnd
<1>h. PICK h : Track(h)
  BY <1>d DEF Ending
<1>q. ASSUME pc' \in {"idle", "top", "applying", "stopped"},
             pc' = "stopped" => result' = "Paused",
             UNCHANGED <<protected, best, index>>,
             pc' = "applying" => Rule0'.name # "CutBranch" /\ Mateless(PlanOf(Rule0)'),
             UNCHANGED applyNext \/ applyNext' = <<>> \/ applyNext' = Suggestions
      PROVE  Unsolved'
  <2>1. Suggestions # <<>> => Head(Suggestions).name = "EqualPair"
    BY NewRuleFields DEF Suggestions, EqualPairRule
  <2>2. applyNext' # <<>> => Head(applyNext').name = "EqualPair"
    BY <1>d, <1>q, <2>1
  <2>3. Mateless(PlanOf(Rule0)') => Mateless(PlanOf(Rule0))'
    BY DEF Mateless
  <2> QED
    BY <1>d, <1>q, <2>2, <2>3 DEF Unsolved
<1>1. CASE CallAdvanceSearch \/ ReturnPaused
  <2>1. /\ UNCHANGED <<protected, best, index, applyNext>>
        /\ pc' = "top" \/ (pc' = "stopped" /\ result' = "Paused")
    BY <1>1 DEF CallAdvanceSearch, ReturnPaused, search
  <2> QED
    BY <1>q, <2>1
<1>2. ASSUME NEW r \in Rule, EnterRule(r), UNCHANGED <<protected, best, index>>,
             Fits(r, forests), r.name # "CutBranch", r.branch = 0 \/ ~ IsBranching(r),
             UNCHANGED applyNext \/ applyNext' = <<>>
      PROVE  Unsolved'
  <2>1. current' = <<Entering(r)>> /\ pc' = "applying"
    BY <1>2 DEF EnterRule, Entering
  <2>2. Rule0' = Entering(r) /\ PlanOf(Rule0)' = PlanOf(Entering(r))
    BY <2>1 DEF Rule0, PlanOf, IsBranching
  <2>3. Mateless(PlanOf(Entering(r))) /\ Entering(r).name # "CutBranch"
    BY <1>2, NewRuleIsMateless
  <2> QED
    BY <1>2, <1>q, <2>1, <2>2, <2>3
<1>3. CASE ApplyQueuedRule
  <2> DEFINE r == Head(applyNext)
  <2>1. /\ pc = "top" /\ EnterRule(r) /\ UNCHANGED <<protected, best, index>>
        /\ applyNext # <<>> /\ applyNext' = Tail(applyNext)
    BY <1>3 DEF ApplyQueuedRule, search
  <2>2. r \in Rule /\ applyNext \in Seq(Rule)
    BY <2>1 DEF Shape, TypeOK
  <2>3. Len(applyNext) = 1 /\ Fits(r, forests) /\ r.name = "EqualPair"
    BY <1>d, <2>1 DEF Queue
  <2>4. applyNext' \in Seq(Rule) /\ Len(applyNext') = 0
    BY <2>1, <2>2, <2>3
  <2>5. applyNext' = <<>>
    BY <2>4
  <2> HIDE DEF r
  <2>6. ~ IsBranching(r) /\ r.name # "CutBranch"
    BY <2>3 DEF IsBranching
  <2> QED
    BY <1>2, <2>1, <2>2, <2>3, <2>5, <2>6
<1>4. CASE ApplyActiveRule
  <2>1. PICK r \in ActiveRules : EnterRule(r)
    BY <1>4 DEF ApplyActiveRule
  <2>2. pc = "top" /\ UNCHANGED <<protected, best, index, applyNext>>
    BY <1>4 DEF ApplyActiveRule, SelectsRule, search
  <2>3. Fits(r, forests) /\ r.branch = 0 /\ r.name # "CutBranch"
    BY <1>d, <1>h, <2>2, SelectedFitsHere
  <2>4. r \in Rule
    BY SelectedIsReady DEF Ready
  <2> QED
    BY <1>2, <2>1, <2>2, <2>3, <2>4
<1>5. CASE NextForest \/ SkipEdit
  <2>1. UNCHANGED <<protected, best, index, applyNext, current, pc>> /\ pc = "applying"
    BY <1>5 DEF NextForest, SkipEdit, EditsLeft, InForestLoop, InApply, search
  <2>2. Rule0' = Rule0 /\ PlanOf(Rule0)' = PlanOf(Rule0)
    BY <2>1 DEF Rule0, PlanOf, IsBranching
  <2> QED
    BY <1>d, <1>q, <2>1, <2>2
<1>6. CASE CutNode \/ CollapseNode
  <2>1. UNCHANGED <<best, index, applyNext, pc>> /\ EditsLeft /\ pc = "applying"
    BY <1>6 DEF CutNode, CollapseNode, EditsLeft, InForestLoop, InApply, search
  <2>2. SameRule(Rule0', Rule0)
    BY <1>6, EditKeepsRule
  <2>3. PlanOf(Rule0)' = PlanOf(Rule0) /\ Rule0'.name = Rule0.name
    BY <2>2 DEF SameRule, PlanOf, IsBranching
  <2>4. protected' = protected
    <3>1. CASE CollapseNode
      BY <3>1 DEF CollapseNode
    <3>2. CASE CutNode
      <4>1. /\ ThisEdit = PlanOf(Rule0)[cursor[1]][cursor[2]] /\ cursor[1] \in TreeIds
            /\ cursor[2] \in 1..Len(PlanOf(Rule0)[cursor[1]])
            /\ PlanOf(Rule0) \in Plan
        BY <2>1, EditGoal DEF Shape
      <4>2. cursor[2] \in DOMAIN PlanOf(Rule0)[cursor[1]]
        BY <4>1, PlansAreTyped
      <4>3. ThisEdit.kind = "isolate" => ThisEdit.mate = NoLabel
        BY <1>d, <2>1, <4>1, <4>2 DEF Mateless
      <4>4. NewShields = {}
        BY <4>3 DEF NewShields
      <4> QED
        BY <3>2, <4>4 DEF CutNode
    <3> QED
      BY <1>6, <3>1, <3>2
  <2> QED
    BY <1>d, <1>q, <2>1, <2>3, <2>4
<1>7. CASE ReturnContinue
  <2>1. /\ UNCHANGED <<protected, best, index>> /\ pc = "applying" /\ pc' = "top"
        /\ applyNext' = applyNext \o Suggestions
    BY <1>7 DEF ReturnContinue, Returns, search, ApplyDone, InApply
  <2>2. applyNext = <<>> /\ Suggestions \in Seq(Rule)
    BY <2>1, SuggestionsAreReady DEF Queue
  <2>3. applyNext' = Suggestions
    BY <2>1, <2>2
  <2> QED
    BY <1>q, <2>1, <2>3
<1>8. CASE Sigterm \/ RaiseThreshold \/ UNCHANGED vars
  <2>1. UNCHANGED <<protected, best, index, applyNext, current, pc, result>>
    BY <1>8 DEF Sigterm, RaiseThreshold, vars
  <2>2. Rule0' = Rule0 /\ PlanOf(Rule0)' = PlanOf(Rule0)
    BY <2>1 DEF Rule0, PlanOf, IsBranching
  <2> QED
    BY <1>d, <1>q, <2>1, <2>2
<1>9. ~ ReturnSolutionCandidate
  <2> SUFFICES ASSUME ReturnSolutionCandidate PROVE FALSE
    OBVIOUS
  <2>1. Weight < Infinity /\ Weight \in Nat /\ Infinity \in Nat
    <3>1. 1 \in TreeIds /\ forests \in [TreeIds -> Forest]
      BY NumTreesIsPositive DEF Shape, TypeOK, TreeIds
    <3>2. Cardinality(Labels) \in Nat /\ Weight \in Nat
      BY <3>1, LabelsAreTaxa, FS_CardinalityType, ComponentsAreCounted DEF Weight
    <3>3. Weight <= Cardinality(Labels)
      BY <1>h, <3>1, WeightIsSmall DEF Track, Weight
    <3> QED
      BY <3>2, <3>3, InfinityIsBeyond
  <2>2. best > Weight
    BY <1>d, <2>1
  <2>3. best' = Weight /\ solution' = [k \in DOMAIN applied' |-> Clone(applied'[k])]
    BY <2>2 DEF ReturnSolutionCandidate
  <2>4. DOMAIN applied' # {}
    <3>1. applied' = Append(applied, Rule0) /\ applied \in Seq(Rule) /\ applied' \in Seq(Rule)
      BY DEF ReturnSolutionCandidate, Returns, LeaveApply, Shape, TypeOK
    <3>2. Len(applied') = Len(applied) + 1
      BY <3>1
    <3>3. 1 \in DOMAIN applied'
      BY <3>1, <3>2
    <3> QED
      BY <3>3
  <2>5. DOMAIN solution' = DOMAIN applied'
    BY <2>3
  <2>6. DOMAIN solution' = {}
    OBVIOUS
  <2> QED
    BY <2>4, <2>5, <2>6
<1>10. /\ ~ ReturnSolved /\ ~ ApplyBlocked /\ ~ ReplayedRule /\ ~ ReturnCutBranch
       /\ ~ ReturnBoundedSolution
  <2>1. ApplyDone => Rule0.name # "DebugAssertFalse" /\ Rule0.name # "CutBranch"
    BY <1>d, <1>h, DoneIsHere DEF ApplyDone, InApply
  <2>2. ~ ReturnCutBranch
    BY <2>1 DEF ReturnCutBranch, Returns
  <2> QED
    BY <1>d, <1>n, <2>2 DEF ReturnSolved, ApplyBlocked, ReplayedRule, ReturnBoundedSolution,
                            Replaying
<1>11. /\ ~ UndoChange /\ ~ DiscardRule /\ ~ AbandonBranch /\ ~ RollBackBranch
       /\ ~ EnterNextBranch /\ ~ NothingLeft
  BY <1>d DEF UndoChange, DiscardRule, AbandonBranch, RollBackBranch, EnterNextBranch,
              NothingLeft, Unapplying
<1>12. ~ Finalize
  BY <1>d DEF Finalize, IncumbentCertifies
<1>13. /\ ~ StartReplay /\ ~ ReplayRule /\ ~ EndReplay /\ ~ TakeSeed /\ ~ SeedSearch
       /\ ~ UnapplyReductions /\ ~ UndoReductionChange /\ ~ NextReduction
  BY <1>d DEF StartReplay, ReplayRule, EndReplay, TakeSeed, SeedSearch,
              UnapplyReductions, UndoReductionChange, NextReduction
<1> QED
  BY <1>1, <1>3, <1>4, <1>5, <1>6, <1>7, <1>8, <1>9, <1>10, <1>11, <1>12, <1>13
     DEF Next, SolverStep, OtherStep, AdvanceSearch, Apply, RollBack, Finish, Terminated

-----------------------------------------------------------------------------
(* The replay of a solution.                                               *)

\* The solution leads from the input, through f with p protected, to single
\* vertices, as many as the best weight says.
Replayable(f, p) ==
    /\ f[1] = trees /\ p[1] = {}
    /\ \A k \in 1..(Len(solution) + 1) :
          f[k] \in [TreeIds -> Forest] /\ p[k] \in SUBSET ProtectedEdge
    /\ \A k \in 1..Len(solution) :
          /\ Enterable(solution[k]) /\ Fits(solution[k], f[k])
          /\ RunsTo(PlanOf(Entering(solution[k])), f[k], p[k], f[k + 1], p[k + 1])
    /\ AtEnd(f[Len(solution) + 1])
    /\ NumComponents(f[Len(solution) + 1][1]) = best

\* The rule being replayed starts where the solution had it start.
InReplay(h, f, p) ==
    /\ index \in 1..Len(solution)
    /\ h[Len(Stack)][0] = f[index] /\ Held(Len(Stack)) = p[index]
    /\ PlanOf(TopRule) = PlanOf(Entering(solution[index]))

\* The replay follows the solution.
Replays(h, f, p) ==
    /\ index > 0 => pc \in {"applying", "replaying"}
    /\ pc = "replaying" =>
          index \in 1..(Len(solution) + 1) /\ forests = f[index] /\ protected = p[index]
    /\ pc = "applying" /\ Replaying => InReplay(h, f, p)
    /\ pc = "finished" /\ ~ Bounded => AtEnd(forests) /\ NumComponents(forests[1]) = best

\* A solution found can be replayed.
LEMMA CandidateIsReplayable ==
    ASSUME Shape, Shape', ShieldsAreOwned, ReturnSolutionCandidate, best > Weight,
           NEW h, Track(h)
    PROVE  \E f, p : Replayable(f, p)'
<1>1. /\ ApplyDone /\ LeaveApply /\ UNCHANGED <<trees, forests>> /\ pc = "applying"
      /\ best' = Weight /\ Rule0.name = "CheckSingleVertexTrees"
      /\ solution' = [k \in DOMAIN applied' |-> Clone(applied'[k])]
  BY DEF ReturnSolutionCandidate, Returns, ApplyDone, InApply
<1>n. PICK n \in Nat : n = Len(Stack)
  BY StackIsTyped
<1>2. applied' = Stack /\ n \in 1..n /\ Stack \in Seq(Rule) /\ DOMAIN Stack = 1..n
      /\ TopRule = Stack[n] /\ Stack # <<>>
  BY <1>1, <1>n, StackIsTyped, StackHasTop DEF LeaveApply
<1>3. /\ Here(h) /\ AtEnd(forests)
  BY <1>1, DoneIsHere
<1>4. \A k \in 1..n : Entered(Stack[k])
  BY <1>2 DEF Shape
<1>f. PICK f : f = [k \in Nat |-> h[k][0]]
  OBVIOUS
<1>p. PICK p : p = [k \in Nat |-> Held(k)]
  OBVIOUS
<1>5. /\ solution' \in Seq(Rule) /\ DOMAIN solution' = 1..n
      /\ \A k \in 1..n : solution'[k] = Clone(Stack[k])
  BY <1>1, <1>2 DEF Shape, TypeOK
<1>6. Len(solution') = n
  BY <1>5
<1>7. f[n + 1] = forests /\ p[n + 1] = protected /\ f[1] = trees /\ p[1] = {}
  <2>1. h[n + 1][0] = forests /\ h[1][0] = trees
    BY <1>n DEF Track, IsHistory
  <2>2. Held(n + 1) = protected
    BY <1>n, HeldIsProtected
  <2>3. Held(1) = {}
    BY DEF Held
  <2> QED
    BY <1>f, <1>p, <2>1, <2>2, <2>3
<1>8. ASSUME NEW k \in 1..(n + 1)
      PROVE  f[k] \in [TreeIds -> Forest] /\ p[k] \in SUBSET ProtectedEdge
  <2>1. k \in Nat /\ Held(k) \in SUBSET ProtectedEdge
    BY <1>n, HeldIsProtected
  <2>2. h[k][0] \in WellFormedForests
    BY <2>1 DEF Track, IsHistory
  <2> QED
    BY <1>f, <1>p, <2>1, <2>2 DEF WellFormedForests
<1>9. ASSUME NEW k \in 1..n
      PROVE  /\ Enterable(solution'[k]) /\ Fits(solution'[k], f[k])
             /\ RunsTo(PlanOf(Entering(solution'[k])), f[k], p[k], f[k + 1], p[k + 1])
  <2>1. Fits(Stack[k], h[k][0])
    BY <1>n DEF Track, Stages
  <2>2. /\ Enterable(solution'[k]) /\ Fits(solution'[k], h[k][0])
        /\ PlanOf(Entering(solution'[k])) = PlanOf(Stack[k])
    BY <1>4, <1>5, <2>1, CloneEntersBranch
  <2>3. /\ f[k] = h[k][0] /\ p[k] = Held(k)
        /\ f[k + 1] = h[k + 1][0] /\ p[k + 1] = Held(k + 1)
    BY <1>f, <1>p
  <2>4. RunsTo(PlanOf(Stack[k]), h[k][0], Held(k), h[k + 1][0], Held(k + 1))
    <3>1. CASE k = n
      <4>1. RunsTo(PlanOf(TopRule), h[n][0], Held(n), forests, protected)
        BY <1>2, <1>3, <1>n DEF Here
      <4> QED
        BY <1>2, <1>7, <2>3, <3>1, <4>1
    <3>2. CASE k # n
      <4>1. k \in 1..(Len(Stack) - 1)
        BY <1>n, <3>2
      <4>2. Stages(h)
        BY DEF Track
      <4> QED
        BY <4>1, <4>2 DEF Stages
    <3> QED
      BY <3>1, <3>2
  <2> QED
    BY <2>2, <2>3, <2>4
<1>10. AtEnd(f[n + 1]) /\ NumComponents(f[n + 1][1]) = best'
  BY <1>1, <1>3, <1>7 DEF Weight
<1>11. Replayable(f, p)'
  <2>1. f[1] = trees' /\ p[1] = {}
    BY <1>1, <1>7
  <2>2. \A k \in 1..(Len(solution') + 1) :
            f[k] \in [TreeIds -> Forest] /\ p[k] \in SUBSET ProtectedEdge
    BY <1>6, <1>8
  <2>3. \A k \in 1..Len(solution') :
            /\ Enterable(solution'[k]) /\ Fits(solution'[k], f[k])
            /\ RunsTo(PlanOf(Entering(solution'[k])), f[k], p[k], f[k + 1], p[k + 1])
    BY <1>6, <1>9
  <2>4. AtEnd(f[Len(solution') + 1]) /\ NumComponents(f[Len(solution') + 1][1]) = best'
    BY <1>6, <1>10
  <2> QED
    BY <2>1, <2>2, <2>3, <2>4 DEF Replayable
<1> QED
  BY <1>11

\* What is replayed is not held up on its way.
LEMMA ReplayGoesOn ==
    ASSUME Shape, EditsLeft, IsCut, Replaying, NEW h, Track(h),
           NEW f, NEW p, Replayable(f, p), Replays(h, f, p)
    PROVE  \/ ToleratesRoot /\ ~ HasParent(ThisForest, EditTarget)
           \/ <<ThisTree, EditTarget>> \notin protected
<1> DEFINE plan == PlanOf(TopRule)
           hs == h[Len(Stack)][0]
           held == Held(Len(Stack))
<1>1. /\ EditTarget = Goal(ThisForest, ThisEdit) /\ ThisForest = forests[cursor[1]]
      /\ ThisEdit = plan[cursor[1]][cursor[2]] /\ cursor[1] \in TreeIds /\ cursor[2] \in Nat
      /\ cursor[2] <= Len(plan[cursor[1]]) /\ plan \in Plan /\ pc = "applying"
  BY EditGoal
<1>2. /\ index \in 1..Len(solution) /\ hs = f[index] /\ held = p[index]
      /\ plan = PlanOf(Entering(solution[index]))
  BY <1>1 DEF Replays, InReplay
<1>3. Partly(plan, cursor, hs, held, forests, protected)
  BY <1>1 DEF Track, Reached, Underway
<1>4. RunsTo(plan, hs, held, f[index + 1], p[index + 1])
  BY <1>2 DEF Replayable
<1> HIDE DEF plan, hs, held
<1>5. PICK x : Does(plan[cursor[1]][cursor[2]], StateOf(forests, protected, cursor[1]), x)
  BY <1>1, <1>3, <1>4, SameRunGoesOn
<1> DEFINE v == StateOf(forests, protected, cursor[1])
<1>6. v[1] = ThisForest /\ v[2] = AtTree(protected, ThisTree)
  BY <1>1 DEF StateOf, ThisTree
<1>7. Does(ThisEdit, v, x) /\ ThisEdit.kind # "merge"
  BY <1>1, <1>5 DEF IsCut
<1> HIDE DEF v
<1>8. \/ ThisEdit.kind \in {"isolate", "detach"} /\ ~ HasParent(v[1], Goal(v[1], ThisEdit))
      \/ Goal(v[1], ThisEdit) \notin v[2]
  BY <1>7 DEF Does
<1>9. CASE ThisEdit.kind \in {"isolate", "detach"} /\ ~ HasParent(v[1], Goal(v[1], ThisEdit))
  BY <1>1, <1>6, <1>9 DEF ToleratesRoot
<1>10. CASE Goal(v[1], ThisEdit) \notin v[2]
  <2>1. EditTarget \notin AtTree(protected, ThisTree)
    BY <1>1, <1>6, <1>10
  <2>2. <<ThisTree, EditTarget>> \in protected => EditTarget \in Node
    BY DEF Shape, TypeOK, ProtectedEdge
  <2> QED
    BY <2>1, <2>2 DEF AtTree
<1> QED
  BY <1>8, <1>9, <1>10

\* A step that applies no other rule leaves the replay where it is.
LEMMA InReplayIsKept ==
    ASSUME Shape, Shape', [Next]_vars, ~ Ending, pc = "applying", Len(Stack') = Len(Stack),
           UNCHANGED <<index, solution>>,
           NEW h, NEW f, NEW p, InReplay(h, f, p), NEW g, Resumes(g, h)
    PROVE  InReplay(g, f, p)'
<1>n. PICK n \in Nat : n = Len(Stack)
  BY StackIsTyped
<1>1. n \in 1..n /\ TopRule = Stack[n] /\ Len(Stack') = n
  BY <1>n, StackHasTop
<1>2. KeepsRules
  BY <1>n, <1>1, NotEnteringKeeps
<1>3. /\ SameRule(Stack'[n], Stack[n])
      /\ UNION {Stack'[j].shields : j \in 1..(n - 1)} = Held(n)
  BY <1>1, <1>2 DEF KeepsRules, Held
<1>4. PlanOf(Stack'[n]) = PlanOf(TopRule)
  BY <1>1, <1>3, SameRuleFits
<1>5. TopRule' = Stack'[n] /\ Held(Len(Stack))' = Held(n)
  BY <1>1, <1>3 DEF TopRule, Held
<1>6. g[n][0] = h[n][0]
  BY <1>n, <1>1 DEF Resumes
<1>7. /\ index \in 1..Len(solution) /\ h[n][0] = f[index] /\ Held(n) = p[index]
      /\ PlanOf(TopRule) = PlanOf(Entering(solution[index]))
  BY <1>n DEF InReplay
<1>8. PlanOf(TopRule') = PlanOf(Entering(solution'[index']))
  BY <1>4, <1>5, <1>7
<1>9. /\ index' \in 1..Len(solution') /\ g[Len(Stack')][0] = f[index']
      /\ Held(Len(Stack))' = p[index']
  BY <1>1, <1>5, <1>6, <1>7
<1> QED
  BY <1>8, <1>9 DEF InReplay

\* The step of a rule that was replayed to the next one.
LEMMA ReplayedIsOnItsWay ==
    ASSUME Shape, ShieldsAreOwned, ReplayedRule, NEW h, Track(h),
           NEW f, NEW p, Replayable(f, p), Replays(h, f, p)
    PROVE  /\ index' = index + 1 /\ index' \in 1..(Len(solution) + 1)
           /\ forests = f[index'] /\ protected = p[index']
<1>1. /\ pc = "applying" /\ ApplyDone /\ index' = index + 1 /\ Replaying
  BY DEF ReplayedRule, ReturnToReplay, ApplyDone, InApply
<1>2. InReplay(h, f, p)
  BY <1>1 DEF Replays
<1>n. PICK n \in Nat : n = Len(Stack)
  BY StackIsTyped
<1>k. PICK k \in 1..Len(solution) : k = index
  BY <1>2 DEF InReplay
<1>3. /\ h[n][0] = f[k] /\ Held(n) = p[k] /\ PlanOf(TopRule) = PlanOf(Entering(solution[k]))
  BY <1>2, <1>n, <1>k DEF InReplay
<1>4. Len(solution) \in Nat /\ k \in Nat
  BY DEF Shape, TypeOK
<1>5. RunsTo(PlanOf(TopRule), f[k], p[k], f[k + 1], p[k + 1])
  BY <1>3 DEF Replayable
<1>6. RunsTo(PlanOf(TopRule), f[k], p[k], forests, protected)
  <2>1. Stack # <<>> /\ Here(h)
    BY <1>1, StackHasTop, DoneIsHere
  <2> QED
    BY <1>3, <1>n, <2>1 DEF Here
<1>7. /\ PlanOf(TopRule) \in Plan
      /\ forests \in [TreeIds -> Forest] /\ protected \in SUBSET ProtectedEdge
  BY <1>1, StackHasTop DEF Shape, TypeOK
<1>8. f[k + 1] \in [TreeIds -> Forest] /\ p[k + 1] \in SUBSET ProtectedEdge
  <2>1. k + 1 \in 1..(Len(solution) + 1)
    BY <1>4
  <2> QED
    BY <2>1 DEF Replayable
<1>9. forests = f[k + 1] /\ protected = p[k + 1]
  BY <1>5, <1>6, <1>7, <1>8, SameRun
<1> QED
  BY <1>1, <1>4, <1>9, <1>k

\* Every step up to unapplyReductions follows the solution.
LEMMA NextFollowsSolution ==
    ASSUME Shape, Shape', ShieldsAreOwned, [Next]_vars, ~ Ending, ~ Ending',
           NEW h, Track(h), NEW f, NEW p, solution # <<>> => Replayable(f, p),
           Unsolved, Deepening, Replays(h, f, p),
           NEW g, Track(g)', Resumes(g, h), ~ (ApplyBlocked /\ Replaying)
    PROVE  Replays(g, f, p)'
<1>s. /\ index \in Nat /\ index' \in Nat
      /\ index > 0 => pc \in {"applying", "replaying"} /\ solution # <<>>
      /\ pc \in {"unwinding", "replaying"} => solution # <<>>
  <2>1. index \in Nat /\ index' \in Nat
    BY DEF Shape, TypeOK
  <2>2. index > 0 => pc \in {"applying", "replaying"}
    BY DEF Replays
  <2>3. index > 0 => solution # <<>>
    BY <2>1 DEF Unsolved, Deepening
  <2>4. pc \in {"unwinding", "replaying"} => solution # <<>>
    BY DEF Unsolved, Deepening
  <2> QED
    BY <2>1, <2>2, <2>3, <2>4
<1>t. ASSUME index' = 0, pc' = "finished" => Bounded, pc' # "replaying"
      PROVE  Replays(g, f, p)'
  BY <1>t DEF Replays, Replaying
<1>1. CASE \/ CallAdvanceSearch \/ ReturnSolved \/ ReturnPaused \/ ApplyQueuedRule
           \/ ApplyActiveRule \/ UndoChange \/ DiscardRule \/ AbandonBranch
           \/ RollBackBranch \/ EnterNextBranch \/ NothingLeft \/ Finalize \/ TakeSeed
           \/ SeedSearch \/ RaiseThreshold
  <2>1. UNCHANGED index /\ pc \notin {"applying", "replaying"}
    BY <1>1 DEF CallAdvanceSearch, ReturnSolved, ReturnPaused, ApplyQueuedRule,
                ApplyActiveRule, SelectsRule, UndoChange, DiscardRule, AbandonBranch,
                RollBackBranch, EnterNextBranch, NothingLeft, Finalize, TakeSeed, SeedSearch,
                RaiseThreshold, Unapplying
  <2>2. pc' # "replaying" /\ (pc' = "finished" => Bounded)
    BY <1>1 DEF CallAdvanceSearch, ReturnSolved, ReturnPaused, ApplyQueuedRule,
                ApplyActiveRule, EnterRule, UndoChange, DiscardRule, AbandonBranch,
                RollBackBranch, EnterNextBranch, NothingLeft, SearchSpaceDone, Finalize,
                TakeSeed, SeedSearch, RaiseThreshold, Unapplying
  <2> QED
    BY <1>s, <1>t, <2>1, <2>2
<1>2. CASE Sigterm \/ UNCHANGED vars
  <2>1. /\ UNCHANGED <<pc, index, forests, protected, solution, best>> /\ Stack' = Stack
    BY <1>2 DEF Sigterm, vars, Stack
  <2>2. pc = "applying" /\ Replaying => InReplay(g, f, p)'
    BY <2>1, InReplayIsKept DEF Replays
  <2>3. AtEnd(forests) => AtEnd(forests)'
    BY <2>1 DEF AtEnd
  <2> QED
    BY <2>1, <2>2, <2>3 DEF Replays, Replaying
<1>3. CASE NextForest \/ SkipEdit \/ CutNode \/ CollapseNode
  <2>1. /\ UNCHANGED <<pc, index, solution, applied>> /\ pc = "applying"
    BY <1>3 DEF NextForest, SkipEdit, CutNode, CollapseNode, EditsLeft, InForestLoop,
                InApply, search
  <2>2. Len(Stack') = Len(Stack)
    <3>1. Len(current) = 1 /\ Len(current') = 1
      BY <2>1 DEF Shape
    <3> QED
      BY <2>1, <3>1, StackLength
  <2>3. Replaying => InReplay(g, f, p)'
    BY <2>1, <2>2, InReplayIsKept DEF Replays
  <2> QED
    BY <2>1, <2>3 DEF Replays, Replaying
<1>4. CASE \/ ApplyBlocked \/ ReturnContinue \/ ReturnCutBranch \/ ReturnBoundedSolution
           \/ ReturnSolutionCandidate
  <2>1. UNCHANGED index /\ ~ Replaying /\ pc' \in {"top", "endOfBranch", "stopped"}
    BY <1>4 DEF ApplyBlocked, ReturnContinue, ReturnCutBranch, ReturnBoundedSolution,
                ReturnSolutionCandidate, Returns, SearchSpaceDone
  <2> QED
    BY <1>s, <1>t, <2>1 DEF Replaying
<1>5. CASE ReplayedRule
  <2>1. /\ UNCHANGED <<forests, protected, solution>> /\ pc' = "replaying" /\ Replaying
    BY <1>5 DEF ReplayedRule, ReturnToReplay, search
  <2>2. /\ index' \in 1..(Len(solution) + 1) /\ forests = f[index'] /\ protected = p[index']
    BY <1>5, <1>s, <2>1, ReplayedIsOnItsWay DEF Replaying
  <2> QED
    BY <2>1, <2>2 DEF Replays
<1>6. CASE StartReplay
  <2>1. /\ UNCHANGED <<forests, protected, solution>> /\ pc' = "replaying" /\ index' = 1
        /\ applied = <<>> /\ pc = "unwinding"
    BY <1>6 DEF StartReplay, search
  <2>2. Stack = <<>>
    BY <2>1, StackIsTyped
  <2>3. forests = trees
    <3>1. Len(Stack) + 1 = 1
      BY <2>2
    <3> QED
      BY <3>1 DEF Track, IsHistory
  <2>4. protected = {}
    <3>1. DOMAIN Stack = {}
      BY <2>2
    <3> QED
      BY <3>1 DEF ShieldsAreOwned
  <2>5. f[1] = trees /\ p[1] = {} /\ Len(solution) \in Nat
    BY <1>s, <2>1 DEF Replayable, Shape, TypeOK
  <2>6. 1 \in 1..(Len(solution) + 1)
    BY <2>5
  <2> QED
    BY <2>1, <2>3, <2>4, <2>5, <2>6 DEF Replays
<1>7. CASE ReplayRule
  <2>1. /\ UNCHANGED <<trees, forests, applied, protected, solution, index>>
        /\ pc = "replaying" /\ pc' = "applying" /\ pc \in Complete
        /\ index <= Len(solution) /\ EnterRule(solution[index]) /\ Len(solution) \in Nat
    BY <1>7 DEF ReplayRule, EnterRule, search, Complete, Shape, TypeOK
  <2>2. /\ index \in 1..Len(solution) /\ forests = f[index] /\ protected = p[index]
    BY <2>1 DEF Replays
  <2>3. Ready(solution[index]) /\ Fits(solution[index], forests)
    BY <1>s, <2>1, <2>2 DEF Replayable, Shape
  <2>4. /\ TopRule' = Entering(solution[index])
        /\ g[Len(Stack')][0] = forests /\ Held(Len(Stack))' = protected
    BY <2>1, <2>3, EnteringTracks DEF Track
  <2>5. PlanOf(TopRule)' = PlanOf(Entering(solution'[index']))
    <3>1. PlanOf(TopRule)' = PlanOf(TopRule')
      BY DEF PlanOf, IsBranching
    <3> QED
      BY <2>1, <2>4, <3>1
  <2>6. InReplay(g, f, p)'
    <3>1. index' \in 1..Len(solution') /\ g[Len(Stack')][0] = f[index']
          /\ Held(Len(Stack))' = p[index']
      BY <2>1, <2>2, <2>4
    <3> QED
      BY <2>5, <3>1 DEF InReplay
  <2> QED
    BY <2>1, <2>6 DEF Replays
<1>8. CASE EndReplay
  <2>1. /\ UNCHANGED <<forests, best>> /\ pc = "replaying" /\ pc' = "finished"
        /\ index' = 0 /\ index > Len(solution) /\ Len(solution) \in Nat
    BY <1>8 DEF EndReplay, search, Shape, TypeOK
  <2>2. index = Len(solution) + 1 /\ forests = f[index]
    BY <2>1 DEF Replays
  <2>3. AtEnd(forests) /\ NumComponents(forests[1]) = best
    BY <1>s, <2>1, <2>2 DEF Replayable
  <2>4. AtEnd(forests') /\ NumComponents(forests'[1]) = best'
    BY <2>1, <2>3
  <2> QED
    BY <2>1, <2>4 DEF Replays, Replaying
<1>9. ~ UnapplyReductions /\ ~ UndoReductionChange /\ ~ NextReduction /\ ~ Terminated
  BY DEF UnapplyReductions, UndoReductionChange, NextReduction, Terminated, Ending
<1> QED
  BY <1>1, <1>2, <1>3, <1>4, <1>5, <1>6, <1>7, <1>8, <1>9
     DEF Next, SolverStep, OtherStep, AdvanceSearch, Apply, RollBack, Finish

-----------------------------------------------------------------------------
(* The components of the output.                                           *)

\* With the swallowed nodes put back, unapplyReductions leaves them alone.
Components(i) == Roots(forests[i] \cup Swallowed(Stack, i))

\* They are the same in every forest, and the same subtrees of every tree, as
\* many as the best weight says.
Matched ==
    /\ \A i \in TreeIds : Components(i) = Components(1)
    /\ \A i \in TreeIds : \A b \in Components(1) : Induced(trees[i], b) = Induced(trees[1], b)
    /\ ~ Bounded => Cardinality(Components(1)) = best

\* finalize leaves single vertices only, which are the terminals the trees
\* agree on.
LEMMA FinishedIsMatched ==
    ASSUME Shape, pc = "finished", Deepening, NEW h, Track(h), NEW f, NEW p, Replays(h, f, p)
    PROVE  Matched
<1>0. 1 \in TreeIds
  BY NumTreesIsPositive DEF TreeIds
<1>1. Aligned(trees, forests)
  BY DEF Track, Reached, Here, Complete
<1>2. AtEnd(forests) /\ (~ Bounded => NumComponents(forests[1]) = best)
  BY DEF Deepening, Replays
<1>3. ASSUME NEW i \in TreeIds
      PROVE  Components(i) = Roots(forests[i]) /\ Roots(forests[i]) = Terminals(forests[1])
  <2>1. forests[i] \in Forest /\ WellFormed(forests[i])
        /\ Terminals(forests[i]) = Terminals(forests[1])
    BY <1>1 DEF Aligned, Settled
  <2>2. ShortOf(trees[i], forests[i], Swallowed(Stack, i))
    BY DEF Track, ShortThroughout, ShortNow
  <2>3. Components(i) = Roots(forests[i])
    BY <2>1, <2>2, RootsOfShort DEF Components
  <2>4. Roots(forests[i]) = Terminals(forests[i])
    BY <1>2, <2>1, RootsAtEnd DEF AtEnd
  <2> QED
    BY <2>1, <2>3, <2>4
<1>4. Cardinality(Components(1)) = NumComponents(forests[1])
  BY <1>0, <1>3 DEF NumComponents
<1> QED
  BY <1>0, <1>1, <1>2, <1>3, <1>4 DEF Matched, Aligned, Agree

\* unapplyReductions keeps it.
LEMMA EndingKeepsMatched ==
    ASSUME Shape, Shape', [Next]_vars, Ending, Matched
    PROVE  Ending' /\ Matched'
<1>1. UNCHANGED best
  <2>1. UndoReductionChange \/ NextReduction \/ Sigterm \/ UNCHANGED vars
    BY DEF Next, SolverStep, OtherStep, AdvanceSearch, Apply, RollBack, Finish, Ending,
           Terminated, CallAdvanceSearch, ReturnSolved, ReturnPaused, ApplyQueuedRule,
           ApplyActiveRule, SelectsRule, NextForest, SkipEdit, CutNode, CollapseNode,
           ApplyBlocked, EditsLeft, InForestLoop, InApply, ApplyDone, ReplayedRule, Returns,
           ReturnContinue, ReturnCutBranch, ReturnBoundedSolution,
           ReturnSolutionCandidate, UndoChange, DiscardRule, Unapplying, AbandonBranch,
           RollBackBranch, EnterNextBranch, NothingLeft, Finalize, StartReplay, ReplayRule,
           EndReplay, TakeSeed, SeedSearch, UnapplyReductions, RaiseThreshold
  <2> QED
    BY <2>1 DEF UndoReductionChange, NextReduction, Sigterm, vars, search
<1>2. Rests \/ RevertsInside
  BY StackSteps DEF Pushes, Edits, Reverts, Pops
<1>3. /\ Ending' /\ UNCHANGED trees
      /\ \A i \in TreeIds :
            forests'[i] \cup Swallowed(Stack', i) = forests[i] \cup Swallowed(Stack, i)
  BY <1>2, InsideKeepsCuts DEF Rests, RevertsInside
<1>4. \A i \in TreeIds : Components(i)' = Components(i)
  BY <1>3 DEF Components
<1>5. 1 \in TreeIds
  BY NumTreesIsPositive DEF TreeIds
<1> QED
  BY <1>1, <1>3, <1>4, <1>5 DEF Matched

-----------------------------------------------------------------------------
(* The inductive invariant.                                                *)

Trail ==
    IF Ending THEN Matched
    ELSE \E h, f, p : /\ Track(h) /\ Replays(h, f, p)
                      /\ solution # <<>> => Replayable(f, p)

Course ==
    /\ Shape /\ ShieldsAreOwned /\ Lineage /\ Cleared
    /\ Queue /\ Deepening /\ Unsolved /\ Trail

\* It starts with the input, on which the trees agree.
LEMMA InitHasCourse == Init => Course
<1> SUFFICES ASSUME Init PROVE Course
  OBVIOUS
<1>1. Shape /\ Lineage /\ Queue /\ Deepening /\ Unsolved
  BY InitHasShape, InitHasLineage, InitIsUnsolved
<1>2. Stack = <<>> /\ protected = {} /\ pc = "idle" /\ solution = <<>> /\ index = 0
  BY DEF Init, Stack
<1>3. ShieldsAreOwned /\ Cleared
  BY <1>2 DEF ShieldsAreOwned, Cleared, Ending
<1>4. PICK h : IsHistory(h) /\ ShortThroughout(h)
  BY <1>1, <1>2 DEF Lineage, Ending
<1>5. Here(h)
  BY <1>1, <1>2, <1>4, EmptyIsHere
<1>6. Stages(h)
  BY <1>2 DEF Stages
<1>7. Track(h)
  BY <1>2, <1>4, <1>5, <1>6 DEF Track, Reached
<1>8. Replays(h, 0, 0)
  BY <1>2 DEF Replays, Replaying
<1>9. Trail
  BY <1>2, <1>7, <1>8 DEF Trail, Ending
<1> QED
  BY <1>1, <1>3, <1>9 DEF Course

\* A solution is kept until a better one replaces it.
LEMMA SolutionIsKept ==
    ASSUME [Next]_vars, ~ Ending, NEW h, NEW f, NEW p, Replays(h, f, p),
           Deepening, ~ (ReturnSolutionCandidate /\ best > Weight)
    PROVE  UNCHANGED <<solution, trees, best>>
<1>1. CASE TakeSeed
  <2>1. ~ Bounded
    BY <1>1 DEF TakeSeed, Deepening
  <2>2. best' = best
    BY <1>1, <2>1 DEF TakeSeed, Replays, Weight
  <2> QED
    BY <1>1, <2>2 DEF TakeSeed
<1>2. CASE ReturnSolutionCandidate
  BY <1>2 DEF ReturnSolutionCandidate
<1>3. CASE ~ TakeSeed /\ ~ ReturnSolutionCandidate
  BY <1>3 DEF Next, SolverStep, OtherStep, AdvanceSearch, Apply, RollBack, Finish,
              Terminated, CallAdvanceSearch, ReturnSolved, ReturnPaused, ApplyQueuedRule,
              ApplyActiveRule, NextForest, SkipEdit, CutNode, CollapseNode, ApplyBlocked,
              ReplayedRule, ReturnContinue, ReturnCutBranch, ReturnBoundedSolution, Returns,
              ReturnToReplay, SearchSpaceDone, UndoChange, DiscardRule, AbandonBranch,
              RollBackBranch, EnterNextBranch, NothingLeft, Finalize, StartReplay, ReplayRule,
              EndReplay, SeedSearch, UnapplyReductions, UndoReductionChange, NextReduction,
              Sigterm, RaiseThreshold, vars, search
<1> QED
  BY <1>1, <1>2, <1>3

\* What can be replayed stays so.
LEMMA ReplayableIsKept ==
    ASSUME NEW f, NEW p, Replayable(f, p), UNCHANGED <<solution, trees, best>>
    PROVE  Replayable(f, p)'
BY DEF Replayable

\* Every step keeps the course.
LEMMA NextKeepsCourse ==
    ASSUME Course, [Next]_vars
    PROVE  Course'
<1>c. /\ Shape /\ ShieldsAreOwned /\ Lineage /\ Cleared
      /\ Queue /\ Deepening /\ Unsolved /\ Trail
  BY DEF Course
<1>1. Shape'
  BY <1>c, NextKeepsShape
<1>2. ShieldsAreOwned' /\ Lineage' /\ Cleared'
  BY <1>1, <1>c, NextKeepsOwnership, NextKeepsLineage, NextKeepsCleared
<1>3. ~ Ending => \E h : Track(h)
  BY <1>c DEF Trail
<1>4. Queue' /\ Deepening' /\ Unsolved'
  BY <1>1, <1>3, <1>c, NextKeepsQueue, NextKeepsDeepening, NextKeepsUnsolved
<1>5. CASE Ending
  <2>1. Ending' /\ Matched'
    BY <1>1, <1>5, <1>c, EndingKeepsMatched DEF Trail
  <2>2. Trail'
    BY <2>1 DEF Trail
  <2> QED
    BY <1>1, <1>2, <1>4, <2>2 DEF Course
<1>6. CASE ~ Ending /\ Ending'
  <2>1. PICK h, f, p : Track(h) /\ Replays(h, f, p)
    BY <1>6, <1>c DEF Trail
  <2>2. UnapplyReductions
    BY <1>6 DEF Next, SolverStep, OtherStep, AdvanceSearch, Apply, RollBack, Finish, Ending,
                Terminated, CallAdvanceSearch, ReturnSolved, ReturnPaused, ApplyQueuedRule,
                ApplyActiveRule, EnterRule, NextForest, SkipEdit, CutNode, CollapseNode,
                ApplyBlocked, ReplayedRule, ReturnContinue, ReturnCutBranch, ReturnToReplay,
                ReturnBoundedSolution, ReturnSolutionCandidate, SearchSpaceDone, UndoChange,
                DiscardRule, AbandonBranch, RollBackBranch, EnterNextBranch, NothingLeft,
                Finalize, StartReplay, ReplayRule, EndReplay, TakeSeed, SeedSearch,
                UndoReductionChange, NextReduction, Sigterm, RaiseThreshold, vars
  <2>3. Matched
    BY <1>c, <2>1, <2>2, FinishedIsMatched DEF UnapplyReductions
  <2>4. UNCHANGED <<trees, forests, best>> /\ Stack' = Stack
    BY <2>2 DEF UnapplyReductions, search, Stack
  <2>5. \A i : Components(i)' = Components(i)
    BY <2>4 DEF Components
  <2>6. Matched'
    BY <2>3, <2>4, <2>5 DEF Matched
  <2>7. Trail'
    BY <1>6, <2>6 DEF Trail
  <2> QED
    BY <1>1, <1>2, <1>4, <2>7 DEF Course
<1>7. CASE ~ Ending /\ ~ Ending'
  <2>1. PICK h, f, p : /\ Track(h) /\ Replays(h, f, p)
                       /\ solution # <<>> => Replayable(f, p)
    BY <1>7, <1>c DEF Trail
  <2>2. pc \in {"unwinding", "replaying"} \/ Replaying => solution # <<>>
    BY <1>7, <1>c DEF Unsolved, Deepening, Replaying, Shape, TypeOK
  <2>3. ~ (ApplyBlocked /\ Replaying)
    <3> SUFFICES ASSUME ApplyBlocked, Replaying PROVE FALSE
      OBVIOUS
    <3>1. /\ EditsLeft /\ IsCut /\ <<ThisTree, EditTarget>> \in protected
          /\ ToleratesRoot => HasParent(ThisForest, EditTarget)
      BY DEF ApplyBlocked
    <3> QED
      BY <1>c, <2>1, <2>2, <3>1, ReplayGoesOn
  <2>4. pc = "top" /\ applyNext # <<>> => Fits(Head(applyNext), forests)
    BY <1>c DEF Queue
  <2>5. pc = "replaying" /\ index <= Len(solution) => Fits(solution[index], forests)
    <3> SUFFICES ASSUME pc = "replaying", index <= Len(solution)
                 PROVE  Fits(solution[index], forests)
      OBVIOUS
    <3>1. Replayable(f, p) /\ forests = f[index] /\ index \in 1..Len(solution)
      BY <1>c, <2>1, <2>2 DEF Replays, Shape, TypeOK
    <3> QED
      BY <3>1 DEF Replayable
  <2>6. PICK g : Track(g)' /\ Resumes(g, h)
    BY <1>1, <1>2, <1>7, <1>c, <2>1, <2>3, <2>4, <2>5, TrackGoesOn
  <2>7. Replays(g, f, p)'
    BY <1>1, <1>7, <1>c, <2>1, <2>3, <2>6, NextFollowsSolution
  <2>8. CASE ReturnSolutionCandidate /\ best > Weight
    <3>1. PICK d, q : Replayable(d, q)'
      BY <1>1, <1>c, <2>1, <2>8, CandidateIsReplayable
    <3>2. pc' = "endOfBranch" /\ ~ index > 0 /\ index' = index
      BY <2>8 DEF ReturnSolutionCandidate, Returns, Replaying
    <3>3. Replays(g, d, q)'
      BY <3>2 DEF Replays, Replaying
    <3>4. Trail'
      BY <1>7, <2>6, <3>1, <3>3 DEF Trail
    <3> QED
      BY <1>1, <1>2, <1>4, <3>4 DEF Course
  <2>9. CASE ~ (ReturnSolutionCandidate /\ best > Weight)
    <3>1. UNCHANGED <<solution, trees, best>>
      BY <1>7, <1>c, <2>1, <2>9, SolutionIsKept
    <3>2. solution # <<>> => Replayable(f, p)'
      BY <2>1, <3>1, ReplayableIsKept
    <3>3. Trail'
      BY <1>7, <2>6, <2>7, <3>1, <3>2 DEF Trail
    <3> QED
      BY <1>1, <1>2, <1>4, <3>3 DEF Course
  <2> QED
    BY <2>8, <2>9
<1> QED
  BY <1>5, <1>6, <1>7

-----------------------------------------------------------------------------
(* What it is good for.                                                    *)

\* The course is kept through every run.
LEMMA SpecKeepsCourse == Spec => []Course
<1>1. Init => Course
  BY InitHasCourse
<1>2. Course /\ [Next]_vars => Course'
  BY NextKeepsCourse
<1> QED
  BY <1>1, <1>2, PTL DEF Spec

\* Where an edit is still to be made, the forest is as its plan has left it.
LEMMA NextEditIsPossible ==
    ASSUME Shape, EditsLeft, NEW h, Track(h)
    PROVE  /\ EditTarget \in ThisForest
           /\ ThisEdit.kind = "prune" => HasParent(ThisForest, EditTarget)
           /\ ThisEdit.kind = "merge"
                  => AreSiblings(ThisForest, ThisEdit.label, ThisEdit.mate)
<1>n. PICK n \in Nat : n = Len(Stack)
  BY StackIsTyped
<1> DEFINE plan == PlanOf(TopRule)
<1>1. /\ EditTarget = Goal(ThisForest, ThisEdit) /\ ThisForest = forests[cursor[1]]
      /\ ThisEdit = plan[cursor[1]][cursor[2]] /\ cursor[1] \in TreeIds /\ cursor[2] \in Nat
      /\ cursor[2] <= Len(plan[cursor[1]]) /\ plan \in Plan /\ pc = "applying"
  BY EditGoal
<1>2. n \in 1..n /\ TopRule = Stack[n] /\ Entered(TopRule)
  BY <1>1, <1>n, StackHasTop
<1>3. /\ TopRule \in Rule /\ PlansFit(TopRule.name, TopRule.plans)
      /\ \E p \in DOMAIN TopRule.plans : plan = TopRule.plans[p]
  BY <1>2, PlanOfEntered
<1>4. Partly(plan, cursor, h[n][0], Held(n), forests, protected)
  BY <1>1, <1>n DEF Track, Reached, Underway
<1>5. Fits(TopRule, h[n][0]) /\ Settled(h[n][0])
  BY <1>n, <1>2 DEF Track, Stages, Aligned
<1> HIDE DEF plan
<1>6. PICK p \in DOMAIN TopRule.plans : plan = TopRule.plans[p]
  BY <1>3
<1>7. PICK i \in TreeIds : i = cursor[1]
  BY <1>1
<1>8. PICK d \in Nat : d + 1 = cursor[2]
  <2>1. cursor[2] \in 1..(Len(plan[cursor[1]]) + 1)
    BY <1>1, <1>4 DEF Partly
  <2>2. cursor[2] - 1 \in Nat /\ (cursor[2] - 1) + 1 = cursor[2]
    BY <1>1, <2>1
  <2> QED
    BY <2>2
<1>9. Made(plan, cursor, i) = d
  BY <1>1, <1>7, <1>8 DEF Made, TreeIds
<1>10. Ran(plan[i], d, StateOf(h[n][0], Held(n), i), StateOf(forests, protected, i))
  BY <1>4, <1>9 DEF Partly
<1>11. d < Len(plan[i])
  <2>1. Len(plan[i]) \in Nat
    BY <1>1, PlansAreTyped
  <2> QED
    BY <1>1, <1>7, <1>8, <2>1
<1> DEFINE u == StateOf(forests, protected, i)
           es == plan[i]
<1>12. u[1] = ThisForest /\ es[d + 1] = ThisEdit /\ es = TopRule.plans[p][i]
  BY <1>1, <1>6, <1>7, <1>8 DEF StateOf
<1>13. Ran(es, d, StateOf(h[n][0], Held(n), i), u) /\ d < Len(es)
  BY <1>10, <1>11
<1> HIDE DEF u, es
<1>14. /\ Goal(u[1], es[d + 1]) \in u[1]
       /\ es[d + 1].kind = "prune" => HasParent(u[1], Goal(u[1], es[d + 1]))
       /\ es[d + 1].kind = "merge" => AreSiblings(u[1], es[d + 1].label, es[d + 1].mate)
  BY <1>3, <1>5, <1>12, <1>13, NextEditFits
<1> QED
  BY <1>1, <1>12, <1>14

\* Trees are merged only where they are a cherry of every forest.
LEMMA CourseMergesCherries == Course => MergeIsCherry
<1> SUFFICES ASSUME Course, EditsLeft, ~ IsCut
             PROVE  AreSiblings(ThisForest, ThisEdit.label, ThisEdit.mate)
  BY DEF MergeIsCherry
<1>1. Shape /\ ~ Ending
  BY DEF Course, EditsLeft, InForestLoop, InApply, Ending
<1>2. PICK h : Track(h)
  BY <1>1 DEF Course, Trail
<1> QED
  BY <1>1, <1>2, NextEditIsPossible DEF IsCut

\* No step runs into what the code would throw at.
LEMMA CourseThrowsNothing == Course => NothingThrows
<1> SUFFICES ASSUME Course PROVE NothingThrows
  OBVIOUS
<1>1. Shape /\ Queue /\ Deepening /\ Unsolved
  BY DEF Course
<1>2. pc = "top" /\ applyNext # <<>> => Enterable(Head(applyNext))
  BY <1>1 DEF Queue
<1>3. pc = "replaying" /\ index <= Len(solution) => Enterable(solution[index])
  <2> SUFFICES ASSUME pc = "replaying", index <= Len(solution)
               PROVE  Enterable(solution[index])
    OBVIOUS
  <2>1. solution # <<>>
    BY <1>1 DEF Unsolved, Deepening
  <2>2. PICK h, f, p : Replays(h, f, p) /\ Replayable(f, p)
    BY <2>1 DEF Course, Trail, Ending
  <2>3. index \in 1..Len(solution)
    BY <1>1, <2>2 DEF Replays, Shape, TypeOK
  <2> QED
    BY <2>2, <2>3 DEF Replayable
<1>4. ASSUME EditsLeft
      PROVE  /\ EditTarget \in ThisForest
             /\ IsCut /\ ~ ToleratesRoot => HasParent(ThisForest, EditTarget)
  <2>1. ~ Ending
    BY <1>4 DEF EditsLeft, InForestLoop, InApply, Ending
  <2>2. PICK h : Track(h)
    BY <2>1 DEF Course, Trail
  <2>3. ThisEdit.kind \in EditKinds
    BY <1>1, <1>4, EditGoal DEF Edit
  <2>4. IsCut /\ ~ ToleratesRoot => ThisEdit.kind = "prune"
    BY <2>3 DEF EditKinds, IsCut, ToleratesRoot
  <2> QED
    BY <1>1, <1>4, <2>2, <2>4, NextEditIsPossible
<1> QED
  BY <1>2, <1>3, <1>4 DEF NothingThrows

\* A rule that fits is not the one that ends the search.
LEMMA CourseFindsRules == Course => SomeRuleAlwaysApplies
<1> SUFFICES ASSUME Course, current # <<>>
             PROVE  Rule0.name # "DebugAssertFalse"
  BY DEF SomeRuleAlwaysApplies
<1>1. pc = "applying" /\ Shape
  BY DEF Course, Shape
<1>2. PICK h : Track(h)
  BY <1>1 DEF Course, Trail, Ending
<1>3. TopRule = Rule0 /\ Len(Stack) \in 1..Len(Stack) /\ TopRule = Stack[Len(Stack)]
  BY <1>1, StackHasTop
<1>4. Fits(TopRule, h[Len(Stack)][0])
  BY <1>2, <1>3 DEF Track, Stages
<1> QED
  BY <1>3, <1>4 DEF Fits

\* What led to the solution leads there again.
LEMMA CourseReplays == Course => ReplayMeetsNoProtection
<1> SUFFICES ASSUME Course, Replaying, EditsLeft, IsCut, HasParent(ThisForest, EditTarget)
             PROVE  <<ThisTree, EditTarget>> \notin protected
  BY DEF ReplayMeetsNoProtection
<1>1. Shape /\ pc = "applying"
  BY DEF Course, EditsLeft, InForestLoop, InApply
<1>2. solution # <<>>
  BY <1>1 DEF Course, Unsolved, Deepening, Ending, Replaying, Shape, TypeOK
<1>3. PICK h, f, p : Track(h) /\ Replays(h, f, p) /\ Replayable(f, p)
  BY <1>1, <1>2 DEF Course, Trail, Ending
<1> QED
  BY <1>1, <1>3, ReplayGoesOn

\* At the output the components are the trees.
LEMMA CourseOutputAgrees == Course => OutputIsAgreementForest
<1> SUFFICES ASSUME Course, pc = "output"
             PROVE  /\ IsAgreementForest(Roots(forests[1]), trees)
                    /\ \A i \in TreeIds : forests[i] =
                          UNION {Induced(trees[i], b) : b \in Roots(forests[1])}
                    /\ ~ Bounded => NumComponents(forests[1]) = best
  BY DEF OutputIsAgreementForest
<1> DEFINE F == forests[1]
<1>1. /\ 1 \in TreeIds /\ Shape /\ Cleared /\ Lineage
      /\ trees \in [TreeIds -> Forest] /\ WellFormed(trees[1])
  BY NumTreesIsPositive, InstancesAreForests DEF Course, Shape, TypeOK, TreeIds
<1>2. Matched
  BY DEF Course, Trail, Ending
<1>3. \A i \in TreeIds : Components(i) = Roots(forests[i])
  <2>1. \A i \in TreeIds : Swallowed(Stack, i) = {}
    BY <1>1, NothingStaysSwallowed
  <2>2. \A i \in TreeIds : forests[i] \cup Swallowed(Stack, i) = forests[i]
    BY <2>1
  <2> QED
    BY <2>2 DEF Components
<1>4. /\ \A i \in TreeIds : Roots(forests[i]) = Roots(F)
      /\ \A i \in TreeIds : \A b \in Roots(F) : Induced(trees[i], b) = Induced(trees[1], b)
      /\ ~ Bounded => NumComponents(F) = best
  BY <1>1, <1>2, <1>3 DEF Matched, NumComponents
<1>5. \A i \in TreeIds : CutForest(trees[i], forests[i])
  BY <1>1, OutputIsLeftByCuts DEF OutputIsCutOutOfInput
<1>6. \A i \in TreeIds :
          forests[i] = UNION {Induced(trees[i], b) : b \in Roots(forests[i])}
  BY <1>5, NodesOfCutForest
<1>7. \A i \in TreeIds : forests[i] = F
  <2> SUFFICES ASSUME NEW i \in TreeIds PROVE forests[i] = F
    OBVIOUS
  <2>1. {Induced(trees[i], b) : b \in Roots(F)} = {Induced(trees[1], b) : b \in Roots(F)}
    BY <1>4
  <2> QED
    BY <1>1, <1>4, <1>6, <2>1
<1>8. \A i \in TreeIds : CutForest(trees[i], F)
  BY <1>5, <1>7
<1> HIDE DEF F
<1>9. IsPartition(Roots(F), UNION trees[1])
  BY <1>1, <1>8, NodesOfCutForest DEF WellFormed
<1>10. \A i \in TreeIds : \A b, c \in Roots(F) :
           b # c => Span(trees[i], b) \cap Span(trees[i], c) = {}
  BY <1>8 DEF CutForest, SpansAreDisjoint
<1>11. IsAgreementForest(Roots(F), trees)
  BY <1>1, <1>4, <1>9, <1>10 DEF IsAgreementForest
<1>12. \A i \in TreeIds : forests[i] = UNION {Induced(trees[i], b) : b \in Roots(F)}
  BY <1>7, <1>8, NodesOfCutForest
<1> QED
  BY <1>4, <1>11, <1>12 DEF F

-----------------------------------------------------------------------------
(* The theorems.                                                           *)

\* EqualPairReductionRule collapses a and c only where they are siblings, in
\* every forest, whoever suggested it.
THEOREM MergesAreCherries == Spec => []MergeIsCherry
BY SpecKeepsCourse, CourseMergesCherries, PTL

\* None of the exceptions, null and stale pointers of the code is met.
THEOREM NothingIsThrown == Spec => []NothingThrows
BY SpecKeepsCourse, CourseThrowsNothing, PTL

\* DebugAssertFalseRule is never applied, so that the search is not ended
\* before it is exhausted.
THEOREM RuleIsAlwaysFound == Spec => []SomeRuleAlwaysApplies
BY SpecKeepsCourse, CourseFindsRules, PTL

\* finalize, which ignores the return codes, applies every rule in full.
THEOREM ReplayIsUnhindered == Spec => []ReplayMeetsNoProtection
BY SpecKeepsCourse, CourseReplays, PTL

\* What is written is an agreement forest of the input, restored to full
\* subtrees of it, of as many components as bestSolutionWeight says: through
\* backtracking, pauses, signals, the replay of the clones in finalize and the
\* out-of-order unapplyReductions.
THEOREM OutputAgrees == Spec => []OutputIsAgreementForest
BY SpecKeepsCourse, CourseOutputAgrees, PTL
=============================================================================
