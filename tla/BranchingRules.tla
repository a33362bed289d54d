---------------------------- MODULE BranchingRules ----------------------------
(***************************************************************************)
(* The rules of the branching solver: what each one does to the forests,   *)
(* as a plan, and which one the configured rule list selects next.         *)
(*                                                                         *)
(* Every apply() in Solver/Rule is a loop over the forests of the instance *)
(* that edits some nodes of each and returns CutBranch at the first        *)
(* protected edge it would have to cut.  A plan is that loop unrolled: for *)
(* every forest the sequence of edits, one plan per branch of the rule.    *)
(* Labels are resolved to nodes when an edit is executed, as in the code.  *)
(***************************************************************************)
EXTENDS LaminarForest, SequencesExt

CONSTANT NumTrees               \* instance->size()

ASSUME NumTreesIsPositive == NumTrees \in Nat \ {0}

TreeIds == 1..NumTrees          \* tree 1 is instance->at(0)

NoLabel == 0

-----------------------------------------------------------------------------
(* Edits.                                                                  *)

EditKinds == {"isolate", "prune", "detach", "merge"}

Edit == [kind : EditKinds, label : Labels \cup {NoLabel}, node : Node,
         mate : Labels \cup {NoLabel}]

\* Cut the terminal of l unless it is a root, then protect the terminal of
\* mate if there is one to protect.
Isolate(l, mate) ==
    [kind |-> "isolate", label |-> l, node |-> NullNode, mate |-> mate]

\* Cut a stored node that is expected to have a parent.
Prune(n) ==
    [kind |-> "prune", label |-> NoLabel, node |-> n, mate |-> NoLabel]

\* Cut a stored node unless it is a root.
Detach(n) ==
    [kind |-> "detach", label |-> NoLabel, node |-> n, mate |-> NoLabel]

\* Collapse the parent of the terminal of l; mate is its sibling.
Merge(l, mate) ==
    [kind |-> "merge", label |-> l, node |-> NullNode, mate |-> mate]

Plan == [TreeIds -> Seq(Edit)]

Everywhere(edits) == [i \in TreeIds |-> edits]

NoEdits == Everywhere(<<>>)

-----------------------------------------------------------------------------
(* Rule objects.                                                           *)

RuleNames == {"CutBranch", "CheckSingleVertexTrees",
              "SingleVertexTreePropagation", "EqualPair", "AC", "ABC", "B",
              "ReverseB", "TwoB", "ForcedCherryCut", "GreedyCherryCut",
              "DebugAssertFalse"}

\* DeleteEdgeAction and CollapseSubtreeAction objects on a rule's stack.
Change == [kind : {"cut", "collapse"}, tree : TreeIds, node : Node,
           sibling : Node, kids : Forest]

ProtectedEdge == TreeIds \X Node

Rule == [name : RuleNames, a : Labels \cup {NoLabel},
         c : Labels \cup {NoLabel}, plans : Seq(Plan), branch : Nat,
         changes : Seq(Change), shields : SUBSET ProtectedEdge]

NewRule(name, a, c, plans) ==
    [name |-> name, a |-> a, c |-> c, plans |-> plans, branch |-> 0,
     changes |-> <<>>, shields |-> {}]

IsBranching(r) == r.name \in {"AC", "ABC"}

IsReduction(r) == r.name = "EqualPair"

IsFullyExplored(r) == r.branch >= Len(r.plans)

\* The plan apply() is about to execute, after its branch++.
PlanOf(r) == IF IsBranching(r) THEN r.plans[r.branch] ELSE r.plans[1]

\* Mutant: every clone steps back, branching rule or not.
CloneSteppingBack(r) ==
    [r EXCEPT !.branch = @ - 1, !.changes = <<>>, !.shields = {}]

\* clone(): same place, not applied, about to enter the same branch again.
Clone(r) ==
    [r EXCEPT !.branch = IF IsBranching(r) THEN @ - 1 ELSE @,
              !.changes = <<>>, !.shields = {}]

CutBranchRule == NewRule("CutBranch", NoLabel, NoLabel, <<NoEdits>>)

CheckSingleVertexTreesRule ==
    NewRule("CheckSingleVertexTrees", NoLabel, NoLabel, <<NoEdits>>)

DebugAssertFalseRule ==
    NewRule("DebugAssertFalse", NoLabel, NoLabel, <<NoEdits>>)

\* order lists labelsToBeReduced as its unordered_set iterates.
PropagationRule(order) ==
    NewRule("SingleVertexTreePropagation", NoLabel, NoLabel,
        <<Everywhere([k \in DOMAIN order |-> Isolate(order[k], NoLabel)])>>)

EqualPairRule(a, c) ==
    NewRule("EqualPair", a, c, <<Everywhere(<<Merge(a, c)>>)>>)

ACRule(a, c) ==
    NewRule("AC", a, c, <<Everywhere(<<Isolate(a, NoLabel)>>),
                          Everywhere(<<Isolate(c, a)>>)>>)

\* Mutant: the branch that isolates a is missing.
ABCRuleOfTwoBranches(fs, a, c) ==
    NewRule("ABC", a, c,
        <<[i \in TreeIds |->
              LET bNodes == PendantNodes(fs[i], a, c)
              IN  [k \in DOMAIN bNodes |-> Prune(bNodes[k])]],
          Everywhere(<<Isolate(c, NoLabel)>>)>>)

\* Mutant: the last b-node of every forest is spared.
ABCRuleSparingOne(fs, a, c) ==
    NewRule("ABC", a, c,
        <<[i \in TreeIds |->
              LET bNodes == PendantNodes(fs[i], a, c)
              IN  [k \in 1..(Len(bNodes) - 1) |-> Prune(bNodes[k])]],
          Everywhere(<<Isolate(c, NoLabel)>>),
          Everywhere(<<Isolate(a, c)>>)>>)

\* A forest in which a and c are siblings has no b-nodes to prune.
ABCRule(fs, a, c) ==
    NewRule("ABC", a, c,
        <<[i \in TreeIds |->
              LET bNodes == PendantNodes(fs[i], a, c)
              IN  [k \in DOMAIN bNodes |-> Prune(bNodes[k])]],
          Everywhere(<<Isolate(c, NoLabel)>>),
          Everywhere(<<Isolate(a, c)>>)>>)

BRule(b1) ==
    NewRule("B", NoLabel, NoLabel, <<Everywhere(<<Isolate(b1, NoLabel)>>)>>)

\* Two labels to isolate in every forest: BRule with a second b and TwoBRule.
PairRule(name, b1, b2) ==
    NewRule(name, NoLabel, NoLabel,
        <<Everywhere(<<Isolate(b1, NoLabel), Isolate(b2, NoLabel)>>)>>)

ReverseBRule(l) ==
    NewRule("ReverseB", NoLabel, NoLabel,
        <<Everywhere(<<Isolate(l, NoLabel)>>)>>)

ForcedCherryCutRule(fs, a, c) ==
    NewRule("ForcedCherryCut", a, c,
        <<[i \in TreeIds |->
              IF i = 2
              THEN <<Detach(TerminalOf(fs[2], a)),
                     Detach(Sibling(fs[2], TerminalOf(fs[2], a))),
                     Detach(TerminalOf(fs[2], c))>>
              ELSE <<>>]>>)

GreedyCherryCutRule(a, c) ==
    NewRule("GreedyCherryCut", a, c,
        <<Everywhere(<<Isolate(a, NoLabel)>>)>>)

-----------------------------------------------------------------------------
(* getSiblings: the first label, in the leaf order of the initial first    *)
(* tree T, whose terminal in forest 1 has a terminal as sibling.           *)

CherryLabels(F) ==
    {l \in Labels : HasParent(F, TerminalOf(F, l))
                    /\ IsTerminal(F, Sibling(F, TerminalOf(F, l)))}

First(T, S) == {l \in S : \A m \in S \ {l} : Before(T, l, m)}

\* {<<a, c>>}, or {} when forest 1 has no cherry.
FirstCherry(T, F) ==
    UNION {LabelOf(TerminalOf(F, l))
               \X LabelOf(Sibling(F, TerminalOf(F, l))) :
           l \in First(T, CherryLabels(F))}

-----------------------------------------------------------------------------
(* SiblingRuleFactory::allRules for the cherry (a, c) of forest 1.         *)

Others == TreeIds \ {1}

\* Mutant: the last forest is not looked at.
SplitInButLast(fs, a, c) ==
    {i \in Others \ {NumTrees} : ~ AreSiblings(fs[i], a, c)}

\* Mutant: an isolated cherry in another forest is taken for a conflict.
SplitInUnlessRoot(fs, a, c) ==
    {i \in Others :
        \/ ~ AreSiblings(fs[i], a, c)
        \/ ~ HasParent(fs[i], Parent(fs[i], TerminalOf(fs[i], a)))}

SplitIn(fs, a, c) == {i \in Others : ~ AreSiblings(fs[i], a, c)}

\* c2Label and its lookups: the label of the uncle of a, if a terminal.
UncleLabel(F, a) ==
    LET u == Uncle(F, TerminalOf(F, a))
    IN  IF IsTerminal(F, u) THEN LabelOf(u) ELSE {}

IsUncleOf(F, x, l) == Uncle(F, TerminalOf(F, l)) = TerminalOf(F, x)

UncleEverywhereTogether(fs, a, c, c2) ==
    \A i \in Others \ SplitIn(fs, a, c) : UncleLabel(fs[i], a) = {c2}

\* reverseBLabel: the one of a, c that is not c2's sibling in any forest
\* that splits the cherry.
ReverseBLabels(fs, a, c) ==
    {x \in {a, c} :
        \E c2 \in UncleLabel(fs[1], a) :
            /\ UncleEverywhereTogether(fs, a, c, c2)
            /\ \A i \in SplitIn(fs, a, c) :
                  Sibling(fs[i], TerminalOf(fs[i], c2))
                      = TerminalOf(fs[i], IF x = a THEN c ELSE a)}

\* checkBNodes: at most k b-nodes, all on the same side of the path, and
\* each of them a terminal.
NarrowPath(F, a, c, k) ==
    LET bs == PendantNodes(F, a, c)
    IN  /\ Len(bs) \in 1..k
        /\ PendantsAlong(F, a, c) = <<>> \/ PendantsAlong(F, c, a) = <<>>
        /\ \A j \in DOMAIN bs : IsTerminal(F, bs[j])

BLabelsIn(F, a, c) ==
    LET bs == PendantNodes(F, a, c)
    IN  UNION {LabelOf(bs[j]) : j \in DOMAIN bs}

BLabels(fs, a, c) == UNION {BLabelsIn(fs[i], a, c) : i \in SplitIn(fs, a, c)}

\* b1Label is the b-node met first; b2Label the other label, if any.
FirstBLabel(fs, a, c) ==
    UNION {LabelOf(PendantNodes(fs[i], a, c)[1]) :
           i \in {j \in SplitIn(fs, a, c) :
                     \A k \in SplitIn(fs, a, c) : j <= k}}

BRuleFits(fs, a, c) ==
    /\ \A i \in SplitIn(fs, a, c) : NarrowPath(fs[i], a, c, 1)
    /\ Cardinality(BLabels(fs, a, c)) <= 2

TwoBRuleFits(fs, a, c) ==
    \E c2 \in UncleLabel(fs[1], a) :
        /\ UncleEverywhereTogether(fs, a, c, c2)
        /\ \A i \in SplitIn(fs, a, c) :
              /\ IsUncleOf(fs[i], c2, a) \/ IsUncleOf(fs[i], c2, c)
              /\ NarrowPath(fs[i], a, c, 2)
        /\ Cardinality(BLabels(fs, a, c)) = 2
        /\ c2 \notin BLabels(fs, a, c)

BRules(fs, a, c) ==
    LET rest(b1) == BLabels(fs, a, c) \ {b1}
    IN  {BRule(b1) : b1 \in {b \in FirstBLabel(fs, a, c) : rest(b) = {}}}
        \cup UNION {{PairRule("B", b1, b2) : b2 \in rest(b1)} :
                    b1 \in FirstBLabel(fs, a, c)}

TwoBRules(fs, a, c) ==
    UNION {{PairRule("TwoB", b1, b2) : b2 \in BLabels(fs, a, c) \ {b1}} :
           b1 \in FirstBLabel(fs, a, c)}

RuleForCherry(fs, a, c) ==
    IF SplitIn(fs, a, c) = {} THEN {EqualPairRule(a, c)}
    ELSE IF \E i \in Others : ~ Connected(fs[i], a, c) THEN {ACRule(a, c)}
    ELSE IF BRuleFits(fs, a, c) THEN BRules(fs, a, c)
    ELSE IF ReverseBLabels(fs, a, c) # {}
         THEN {ReverseBRule(l) : l \in ReverseBLabels(fs, a, c)}
    ELSE IF TwoBRuleFits(fs, a, c) THEN TwoBRules(fs, a, c)
    ELSE {ABCRule(fs, a, c)}

AllRules(T, fs) ==
    UNION {RuleForCherry(fs, p[1], p[2]) : p \in FirstCherry(T, fs[1])}

-----------------------------------------------------------------------------
(* SiblingRuleFactory::approximationRule.                                  *)

ApproximationRuleForCherry(fs, a, c) ==
    IF SplitIn(fs, a, c) = {} THEN EqualPairRule(a, c)
    ELSE IF NumTrees = 2 THEN ForcedCherryCutRule(fs, a, c)
    ELSE GreedyCherryCutRule(a, c)

ApproximationRules(T, fs) ==
    {ApproximationRuleForCherry(fs, p[1], p[2]) : p \in FirstCherry(T, fs[1])}

-----------------------------------------------------------------------------
(* The other entries of activeRules.                                       *)

NumComponents(F) == Cardinality(Roots(F))

OnlySingleVertexTrees(F) == NumComponents(F) = Cardinality(Terminals(F))

\* Labels that are single-vertex trees in some forests but not in all.
LabelsToBeReduced(fs) ==
    {l \in UNION {LabelOf(n) : n \in Terminals(fs[1])} :
        /\ \E i \in TreeIds : ~ HasParent(fs[i], TerminalOf(fs[i], l))
        /\ \E i \in TreeIds : HasParent(fs[i], TerminalOf(fs[i], l))}

\* The unordered_set may iterate in any order.
PropagationRules(fs) ==
    {PropagationRule(order) : order \in SetToSeqs(LabelsToBeReduced(fs))}

\* Mutant: CheckSingleVertexTreesRule is missing from the list.
FirstApplicableWithoutCheck(fs, tooLarge, siblingRules) ==
    IF tooLarge THEN {CutBranchRule}
    ELSE IF LabelsToBeReduced(fs) # {} THEN PropagationRules(fs)
    ELSE IF siblingRules # {} THEN siblingRules
    ELSE {DebugAssertFalseRule}

\* The rules that may fire: the first entry of the list that applies.
\* tooLarge is the CutBranchRule condition, siblingRules the factory's answer.
FirstApplicable(fs, tooLarge, siblingRules) ==
    IF tooLarge THEN {CutBranchRule}
    ELSE IF OnlySingleVertexTrees(fs[1]) THEN {CheckSingleVertexTreesRule}
    ELSE IF LabelsToBeReduced(fs) # {} THEN PropagationRules(fs)
    ELSE IF siblingRules # {} THEN siblingRules
    ELSE {DebugAssertFalseRule}
=============================================================================
