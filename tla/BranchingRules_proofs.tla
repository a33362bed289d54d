------------------------- MODULE BranchingRules_proofs -------------------------
(***************************************************************************)
(* What the rule factories hand out: rules of the right shape, not yet     *)
(* applied, with at least one plan, that either only cut or only collapse. *)
(* And what such a rule does to the forests of an instance: when it may be *)
(* applied, what each of its edits finds, and what it leaves.              *)
(***************************************************************************)
EXTENDS BranchingRules, LaminarForest_proofs

\* A reduction only collapses, any other rule only cuts.
Merging(plan) == \A i \in TreeIds : \A q \in DOMAIN plan[i] : plan[i][q].kind = "merge"
Cutting(plan) == \A i \in TreeIds : \A q \in DOMAIN plan[i] : plan[i][q].kind # "merge"

PlansFit(name, plans) ==
    \A p \in DOMAIN plans :
        IF name = "EqualPair" THEN Merging(plans[p]) ELSE Cutting(plans[p])

\* A rule object as its constructor leaves it.
Fresh(r) ==
    /\ r \in Rule
    /\ r.plans # <<>>
    /\ PlansFit(r.name, r.plans)
    /\ r.branch = 0
    /\ r.changes = <<>>
    /\ r.shields = {}

-----------------------------------------------------------------------------
(* Navigation stays within the labels.                                     *)

\* Terminals, parents and siblings are nodes over the labels.
LEMMA NavigationIsTyped ==
    ASSUME NEW F \in Forest, NEW n, NEW l
    PROVE  /\ TerminalOf(F, l) \in Node
           /\ Parent(F, n) \in Node
           /\ Sibling(F, n) \in Node
           /\ LabelOf(n) \subseteq n
BY DEF TerminalOf, Parent, Sibling, LabelOf, Node, NullNode

\* instance->at(i)->size() is a number.
LEMMA ComponentsAreCounted ==
    ASSUME NEW F \in Forest
    PROVE  NumComponents(F) \in Nat
BY NodesAreFinite DEF NumComponents, Roots

\* What hangs off one side of the path between two labels are nodes.
LEMMA PendantsAreNodes ==
    ASSUME NEW F \in Forest, NEW x, NEW y
    PROVE  PendantsAlong(F, x, y) \in Seq(Node)
<1> DEFINE chain == {n \in F : x \in n /\ y \notin n}
           at(k) == UNION {n \in chain :
                              Cardinality({m \in chain : m \subseteq n}) = k}
           path == PathBelowLca(F, x, y)
<1>1. Cardinality(chain) \in Nat
  BY NodesAreFinite
<1>2. \A k : at(k) \in Node
  BY DEF Forest, Node
<1> HIDE DEF at, chain
<1>3. path = [k \in 1..Cardinality(chain) |-> at(k)]
  BY DEF PathBelowLca, at, chain
<1>4. path \in Seq(Node) /\ Len(path) = Cardinality(chain)
  BY <1>1, <1>2, <1>3
<1> HIDE DEF path
<1>5. \A k \in 1..(Len(path) - 1) : path[k + 1] \ path[k] \in Node
  BY <1>4 DEF Node
<1>6. PendantsAlong(F, x, y)
        = [k \in 1..(Len(path) - 1) |-> path[k + 1] \ path[k]]
  BY DEF PendantsAlong, path
<1>7. CASE Len(path) = 0
  <2>1. 1..(Len(path) - 1) = 1..0
    BY <1>7
  <2> QED
    BY <1>5, <1>6, <2>1
<1>8. CASE Len(path) > 0
  <2>1. Len(path) - 1 \in Nat
    BY <1>4, <1>8
  <2> QED
    BY <1>5, <1>6, <2>1
<1> QED
  BY <1>4, <1>7, <1>8

\* The b-nodes of ABCBranchingRule are nodes.
LEMMA PendantNodesAreNodes ==
    ASSUME NEW F \in Forest, NEW x, NEW y
    PROVE  PendantNodes(F, x, y) \in Seq(Node)
BY PendantsAreNodes DEF PendantNodes

-----------------------------------------------------------------------------
(* Plans.                                                                  *)

\* The edit constructors give edits.
LEMMA EditsAreTyped ==
    /\ \A l, m \in Labels \cup {NoLabel} :
          Isolate(l, m) \in Edit /\ Merge(l, m) \in Edit
    /\ \A n \in Node : Prune(n) \in Edit /\ Detach(n) \in Edit
BY DEF Isolate, Merge, Prune, Detach, Edit, EditKinds, NullNode, Node

\* The same edits in every forest are a plan.
LEMMA EverywhereIsPlan ==
    /\ NoEdits \in Plan
    /\ \A e \in Edit : Everywhere(<<e>>) \in Plan
    /\ \A e, f \in Edit : Everywhere(<<e, f>>) \in Plan
<1>1. \A edits \in Seq(Edit) : Everywhere(edits) \in Plan
  BY DEF Everywhere, Plan
<1>2. /\ <<>> \in Seq(Edit)
      /\ \A e \in Edit : <<e>> \in Seq(Edit)
      /\ \A e, f \in Edit : <<e, f>> \in Seq(Edit)
  OBVIOUS
<1> QED
  BY <1>1, <1>2 DEF NoEdits

\* What the plans made of one edit or two do.
LEMMA EverywhereCutsOrMerges ==
    /\ Cutting(NoEdits)
    /\ \A l, m : Cutting(Everywhere(<<Isolate(l, m)>>))
    /\ \A l, m, k, j : Cutting(Everywhere(<<Isolate(l, m), Isolate(k, j)>>))
    /\ \A l, m : Merging(Everywhere(<<Merge(l, m)>>))
BY DEF Cutting, Merging, Everywhere, NoEdits, Isolate, Merge

\* A rule built from at least one plan is new.
LEMMA NewRuleIsFresh ==
    ASSUME NEW name \in RuleNames, NEW x \in Labels \cup {NoLabel},
           NEW y \in Labels \cup {NoLabel},
           NEW plans \in Seq(Plan), plans # <<>>, PlansFit(name, plans)
    PROVE  Fresh(NewRule(name, x, y, plans))
BY DEF NewRule, Fresh, Rule

\* The rules that do not look at the forests are new.
LEMMA RulesAreFresh ==
    /\ Fresh(CutBranchRule)
    /\ Fresh(CheckSingleVertexTreesRule)
    /\ Fresh(DebugAssertFalseRule)
    /\ \A x, y \in Labels \cup {NoLabel} :
          /\ Fresh(EqualPairRule(x, y))
          /\ Fresh(ACRule(x, y))
          /\ Fresh(GreedyCherryCutRule(x, y))
          /\ Fresh(BRule(x))
          /\ Fresh(ReverseBRule(x))
          /\ \A name \in {"B", "TwoB"} : Fresh(PairRule(name, x, y))
<1> USE DEF RuleNames
<1>1. /\ <<NoEdits>> \in Seq(Plan) /\ <<NoEdits>> # <<>>
      /\ \A name \in RuleNames \ {"EqualPair"} : PlansFit(name, <<NoEdits>>)
  BY EverywhereIsPlan, EverywhereCutsOrMerges DEF PlansFit
<1>2. /\ Fresh(CutBranchRule)
      /\ Fresh(CheckSingleVertexTreesRule)
      /\ Fresh(DebugAssertFalseRule)
  BY <1>1, NewRuleIsFresh
     DEF CutBranchRule, CheckSingleVertexTreesRule, DebugAssertFalseRule
<1>3. ASSUME NEW x \in Labels \cup {NoLabel}, NEW y \in Labels \cup {NoLabel}
      PROVE  /\ Fresh(EqualPairRule(x, y))
             /\ Fresh(ACRule(x, y))
             /\ Fresh(GreedyCherryCutRule(x, y))
             /\ Fresh(BRule(x))
             /\ Fresh(ReverseBRule(x))
             /\ \A name \in {"B", "TwoB"} : Fresh(PairRule(name, x, y))
  <2> DEFINE one == Everywhere(<<Isolate(x, NoLabel)>>)
             two == Everywhere(<<Isolate(x, NoLabel), Isolate(y, NoLabel)>>)
             other == Everywhere(<<Isolate(y, x)>>)
             merge == Everywhere(<<Merge(x, y)>>)
  <2>1. /\ Isolate(x, NoLabel) \in Edit /\ Isolate(y, NoLabel) \in Edit
        /\ Isolate(y, x) \in Edit /\ Merge(x, y) \in Edit
    BY EditsAreTyped
  <2>2. one \in Plan /\ two \in Plan /\ other \in Plan /\ merge \in Plan
    BY <2>1, EverywhereIsPlan
  <2>f. Cutting(one) /\ Cutting(two) /\ Cutting(other) /\ Merging(merge)
    BY EverywhereCutsOrMerges
  <2> HIDE DEF one, two, other, merge
  <2>3. /\ {<<one>>, <<two>>, <<merge>>, <<one, other>>} \subseteq Seq(Plan)
        /\ <<>> \notin {<<one>>, <<two>>, <<merge>>, <<one, other>>}
        /\ \A name \in RuleNames \ {"EqualPair"} :
              PlansFit(name, <<one>>) /\ PlansFit(name, <<two>>)
                  /\ PlansFit(name, <<one, other>>)
        /\ PlansFit("EqualPair", <<merge>>)
    BY <2>2, <2>f DEF PlansFit
  <2>4. Fresh(EqualPairRule(x, y)) /\ Fresh(GreedyCherryCutRule(x, y))
    BY <2>3, NewRuleIsFresh DEF EqualPairRule, GreedyCherryCutRule, one, merge
  <2>5. Fresh(ACRule(x, y))
    BY <2>3, NewRuleIsFresh DEF ACRule, one, other
  <2>6. Fresh(BRule(x)) /\ Fresh(ReverseBRule(x))
    BY <2>3, NewRuleIsFresh DEF BRule, ReverseBRule, one
  <2>7. \A name \in {"B", "TwoB"} : Fresh(PairRule(name, x, y))
    BY <2>3, NewRuleIsFresh DEF PairRule, two
  <2> QED
    BY <2>4, <2>5, <2>6, <2>7
<1> QED
  BY <1>2, <1>3

\* ABCBranchingRule, with the b-nodes it stores, is new.
LEMMA ABCRuleIsFresh ==
    ASSUME NEW fs \in [TreeIds -> Forest], NEW x \in Labels, NEW y \in Labels
    PROVE  Fresh(ABCRule(fs, x, y))
<1> DEFINE bs(i) == PendantNodes(fs[i], x, y)
           pruned(i) == [k \in DOMAIN bs(i) |-> Prune(bs(i)[k])]
           first == [i \in TreeIds |-> pruned(i)]
           second == Everywhere(<<Isolate(y, NoLabel)>>)
           third == Everywhere(<<Isolate(x, y)>>)
<1>1. \A i \in TreeIds : bs(i) \in Seq(Node)
  BY PendantNodesAreNodes
<1> HIDE DEF bs
<1>2. \A i \in TreeIds : pruned(i) \in Seq(Edit)
  BY <1>1, EditsAreTyped
<1>3. first \in Plan
  BY <1>2 DEF Plan
<1>4. second \in Plan /\ third \in Plan
  <2>1. Isolate(y, NoLabel) \in Edit /\ Isolate(x, y) \in Edit
    BY EditsAreTyped
  <2> QED
    BY <2>1, EverywhereIsPlan
<1>f. Cutting(first) /\ Cutting(second) /\ Cutting(third)
  <2>1. \A i \in TreeIds : \A q \in DOMAIN pruned(i) : pruned(i)[q].kind = "prune"
    BY DEF Prune
  <2>2. Cutting(first)
    BY <2>1 DEF Cutting
  <2> QED
    BY <2>2, EverywhereCutsOrMerges
<1> HIDE DEF pruned, first, second, third
<1>5. /\ <<first, second, third>> \in Seq(Plan) /\ <<first, second, third>> # <<>>
      /\ PlansFit("ABC", <<first, second, third>>)
  BY <1>3, <1>4, <1>f DEF PlansFit
<1>6. ABCRule(fs, x, y) = NewRule("ABC", x, y, <<first, second, third>>)
  BY DEF ABCRule, first, second, third, pruned, bs
<1> QED
  BY <1>5, <1>6, NewRuleIsFresh DEF RuleNames

\* ForcedCherryCutRule, with the nodes it stores, is new.
LEMMA ForcedCherryCutRuleIsFresh ==
    ASSUME NEW fs \in [TreeIds -> Forest], NumTrees = 2,
           NEW x \in Labels, NEW y \in Labels
    PROVE  Fresh(ForcedCherryCutRule(fs, x, y))
<1> DEFINE cuts == <<Detach(TerminalOf(fs[2], x)),
                     Detach(Sibling(fs[2], TerminalOf(fs[2], x))),
                     Detach(TerminalOf(fs[2], y))>>
           plan == [i \in TreeIds |-> IF i = 2 THEN cuts ELSE <<>>]
<1>1. fs[2] \in Forest
  BY DEF TreeIds
<1>2. cuts \in Seq(Edit)
  <2>1. \A l \in {x, y} : /\ Detach(TerminalOf(fs[2], l)) \in Edit
                         /\ Detach(Sibling(fs[2], TerminalOf(fs[2], l))) \in Edit
    BY <1>1, NavigationIsTyped, EditsAreTyped
  <2> QED
    BY <2>1
<1>3. plan \in Plan
  BY <1>2 DEF Plan
<1>f. Cutting(plan)
  <2>1. \A q \in DOMAIN cuts : cuts[q].kind = "detach"
    BY DEF Detach
  <2> HIDE DEF cuts
  <2> QED
    BY <2>1 DEF Cutting
<1> HIDE DEF plan
<1>4. /\ <<plan>> \in Seq(Plan) /\ <<plan>> # <<>>
      /\ PlansFit("ForcedCherryCut", <<plan>>)
  BY <1>3, <1>f DEF PlansFit
<1>5. ForcedCherryCutRule(fs, x, y) = NewRule("ForcedCherryCut", x, y, <<plan>>)
  BY DEF ForcedCherryCutRule, plan
<1> QED
  BY <1>4, <1>5, NewRuleIsFresh DEF RuleNames

-----------------------------------------------------------------------------
(* The factories.                                                          *)

\* getSiblings answers with two labels.
LEMMA CherryIsLabelled ==
    ASSUME NEW T, NEW F \in Forest, NEW p \in FirstCherry(T, F)
    PROVE  p[1] \in Labels /\ p[2] \in Labels
<1>1. PICK l : p \in LabelOf(TerminalOf(F, l))
                        \X LabelOf(Sibling(F, TerminalOf(F, l)))
  BY DEF FirstCherry
<1>2. /\ LabelOf(TerminalOf(F, l)) \subseteq Labels
      /\ LabelOf(Sibling(F, TerminalOf(F, l))) \subseteq Labels
  BY NavigationIsTyped DEF Node
<1> QED
  BY <1>1, <1>2

\* The labels of the b-nodes are labels.
LEMMA BLabelsAreLabels ==
    ASSUME NEW fs \in [TreeIds -> Forest], NEW x, NEW y
    PROVE  BLabels(fs, x, y) \subseteq Labels
<1>1. ASSUME NEW F \in Forest
      PROVE  BLabelsIn(F, x, y) \subseteq Labels
  <2> DEFINE bs == PendantNodes(F, x, y)
  <2>1. bs \in Seq(Node)
    BY PendantNodesAreNodes
  <2> HIDE DEF bs
  <2>2. \A j \in DOMAIN bs : LabelOf(bs[j]) \subseteq Labels
    BY <2>1, NavigationIsTyped DEF Node, LabelOf
  <2> QED
    BY <2>2 DEF BLabelsIn, bs
<1> QED
  BY <1>1 DEF BLabels, SplitIn, Others, TreeIds

\* checkBNodes accepts only paths with a b-node.
LEMMA NarrowPathsArePaths ==
    ASSUME NEW F, NEW x, NEW y, NEW k \in Nat, NarrowPath(F, x, y, k)
    PROVE  PendantNodes(F, x, y) # <<>>
<1>1. Len(PendantNodes(F, x, y)) \in 1..k
  BY DEF NarrowPath
<1>2. Len(<<>>) = 0
  OBVIOUS
<1> QED
  BY <1>1, <1>2

\* allRules hands out new rules.
LEMMA AllRulesAreFresh ==
    ASSUME NEW T, NEW fs \in [TreeIds -> Forest],
           NEW r \in AllRules(T, fs)
    PROVE  Fresh(r)
<1>1. 1 \in TreeIds
  BY NumTreesIsPositive DEF TreeIds
<1>2. PICK p \in FirstCherry(T, fs[1]) : r \in RuleForCherry(fs, p[1], p[2])
  BY DEF AllRules
<1>3. p[1] \in Labels /\ p[2] \in Labels
  BY <1>1, CherryIsLabelled
<1>4. BLabels(fs, p[1], p[2]) \subseteq Labels
  BY BLabelsAreLabels
<1>5. ASSUME \A i \in SplitIn(fs, p[1], p[2]) :
                PendantNodes(fs[i], p[1], p[2]) # <<>>
      PROVE  FirstBLabel(fs, p[1], p[2]) \subseteq Labels
  <2>1. SUFFICES ASSUME NEW i \in SplitIn(fs, p[1], p[2])
                 PROVE  LabelOf(PendantNodes(fs[i], p[1], p[2])[1]) \subseteq Labels
    BY DEF FirstBLabel
  <2>2. fs[i] \in Forest
    BY DEF SplitIn, Others
  <2>3. PendantNodes(fs[i], p[1], p[2]) \in Seq(Node)
    BY <2>2, PendantNodesAreNodes
  <2>4. PendantNodes(fs[i], p[1], p[2])[1] \in Node
    BY <1>5, <2>3
  <2> QED
    BY <2>4 DEF LabelOf, Node
<1>6. BRuleFits(fs, p[1], p[2])
          => \A q \in BRules(fs, p[1], p[2]) : Fresh(q)
  <2> SUFFICES ASSUME BRuleFits(fs, p[1], p[2])
               PROVE  \A q \in BRules(fs, p[1], p[2]) : Fresh(q)
    OBVIOUS
  <2>1. \A i \in SplitIn(fs, p[1], p[2]) :
            PendantNodes(fs[i], p[1], p[2]) # <<>>
    BY NarrowPathsArePaths DEF BRuleFits
  <2> QED
    BY <1>4, <1>5, <2>1, RulesAreFresh DEF BRules
<1>7. TwoBRuleFits(fs, p[1], p[2])
          => \A q \in TwoBRules(fs, p[1], p[2]) : Fresh(q)
  <2> SUFFICES ASSUME TwoBRuleFits(fs, p[1], p[2])
               PROVE  \A q \in TwoBRules(fs, p[1], p[2]) : Fresh(q)
    OBVIOUS
  <2>1. \A i \in SplitIn(fs, p[1], p[2]) :
            PendantNodes(fs[i], p[1], p[2]) # <<>>
    BY NarrowPathsArePaths DEF TwoBRuleFits
  <2> QED
    BY <1>4, <1>5, <2>1, RulesAreFresh DEF TwoBRules
<1>8. ReverseBLabels(fs, p[1], p[2]) \subseteq Labels
  BY <1>3 DEF ReverseBLabels
<1> QED
  BY <1>2, <1>3, <1>6, <1>7, <1>8, RulesAreFresh, ABCRuleIsFresh
     DEF RuleForCherry

\* approximationRule hands out new rules.
LEMMA ApproximationRulesAreFresh ==
    ASSUME NEW T, NEW fs \in [TreeIds -> Forest],
           NEW r \in ApproximationRules(T, fs)
    PROVE  Fresh(r)
<1>1. 1 \in TreeIds
  BY NumTreesIsPositive DEF TreeIds
<1>2. PICK p \in FirstCherry(T, fs[1]) :
          r = ApproximationRuleForCherry(fs, p[1], p[2])
  BY DEF ApproximationRules
<1>3. p[1] \in Labels /\ p[2] \in Labels
  BY <1>1, CherryIsLabelled
<1> QED
  BY <1>2, <1>3, RulesAreFresh, ForcedCherryCutRuleIsFresh
     DEF ApproximationRuleForCherry

\* SingleVertexTreePropagationRule is new, in whatever order its set iterates.
LEMMA PropagationRulesAreFresh ==
    ASSUME NEW fs \in [TreeIds -> Forest], NEW r \in PropagationRules(fs)
    PROVE  Fresh(r)
<1> DEFINE S == LabelsToBeReduced(fs)
<1>1. S \subseteq Labels
  <2>1. fs[1] \in Forest
    BY NumTreesIsPositive DEF TreeIds
  <2>2. \A n \in Terminals(fs[1]) : LabelOf(n) \subseteq Labels
    BY <2>1, NavigationIsTyped DEF Terminals, Forest, Node
  <2> QED
    BY <2>2 DEF LabelsToBeReduced
<1>2. Cardinality(S) \in Nat
  BY <1>1, LabelsAreTaxa, FS_Subset, FS_CardinalityType
<1> HIDE DEF S
<1>3. PICK order \in SetToSeqs(S) : r = PropagationRule(order)
  BY DEF PropagationRules, S
<1>4. order \in Seq(Labels)
  BY <1>1, <1>2 DEF SetToSeqs
<1> DEFINE edits == [k \in DOMAIN order |-> Isolate(order[k], NoLabel)]
<1>5. edits \in Seq(Edit)
  BY <1>4, EditsAreTyped
<1>f. \A q \in DOMAIN edits : edits[q].kind = "isolate"
  BY DEF Isolate
<1> HIDE DEF edits
<1>6. Everywhere(edits) \in Plan /\ Cutting(Everywhere(edits))
  BY <1>5, <1>f DEF Everywhere, Plan, Cutting
<1>7. /\ <<Everywhere(edits)>> \in Seq(Plan) /\ <<Everywhere(edits)>> # <<>>
      /\ PlansFit("SingleVertexTreePropagation", <<Everywhere(edits)>>)
  BY <1>6 DEF PlansFit
<1>8. r = NewRule("SingleVertexTreePropagation", NoLabel, NoLabel,
                  <<Everywhere(edits)>>)
  BY <1>3 DEF PropagationRule, edits
<1> QED
  BY <1>7, <1>8, NewRuleIsFresh DEF RuleNames

\* Whatever the forests look like, the rule advanceSearch picks is a new one.
LEMMA SelectedRuleIsFresh ==
    ASSUME NEW T, NEW fs \in [TreeIds -> Forest], NEW tooLarge \in BOOLEAN
    PROVE  /\ \A r \in FirstApplicable(fs, tooLarge, AllRules(T, fs)) : Fresh(r)
           /\ \A r \in FirstApplicable(fs, tooLarge, ApproximationRules(T, fs)) :
                 Fresh(r)
BY RulesAreFresh, AllRulesAreFresh, ApproximationRulesAreFresh,
   PropagationRulesAreFresh DEF FirstApplicable

-----------------------------------------------------------------------------
(* What the edits of a plan do to one forest and to the protected nodes in *)
(* it.  A state is a pair: the forest, and the nodes whose edge is         *)
(* protected.                                                              *)

States == Forest \X SUBSET Node

\* The node an edit is about.
Goal(F, e) ==
    CASE e.kind = "isolate" -> TerminalOf(F, e.label)
      [] e.kind \in {"prune", "detach"} -> e.node
      [] e.kind = "merge" -> Parent(F, TerminalOf(F, e.label))

\* What it protects.
Shielded(F, e) ==
    IF e.kind = "isolate" /\ e.mate # NoLabel THEN {TerminalOf(F, e.mate)}
    ELSE {}

\* The edit e leads from v to u: it collapses, passes over a root, or cuts.
Does(e, v, u) ==
    \/ /\ e.kind = "merge" /\ Goal(v[1], e) \in v[1]
       /\ u = <<CollapseAt(v[1], Goal(v[1], e)), v[2]>>
    \/ /\ e.kind \in {"isolate", "detach"}
       /\ ~ HasParent(v[1], Goal(v[1], e))
       /\ u = v
    \/ /\ e.kind # "merge" /\ Goal(v[1], e) \in v[1]
       /\ HasParent(v[1], Goal(v[1], e)) /\ Goal(v[1], e) \notin v[2]
       /\ u = <<CutEdge(v[1], Goal(v[1], e)), v[2] \cup Shielded(v[1], e)>>

\* The first d of the edits es lead from v to u.
Ran(es, d, v, u) ==
    \E s : /\ s[0] = v /\ s[d] = u
           /\ \A j \in 1..d : Does(es[j], s[j - 1], s[j])

\* An edit leads to one state only.
LEMMA DoesIsDeterministic ==
    ASSUME NEW e, NEW v, NEW u, NEW w, Does(e, v, u), Does(e, v, w)
    PROVE  u = w
BY DEF Does

\* It leads from a state to a state.
LEMMA DoesIsTyped ==
    ASSUME NEW e \in Edit, NEW v \in States, NEW u, Does(e, v, u)
    PROVE  u \in States
<1>1. /\ v[1] \in Forest /\ v[2] \in SUBSET Node
      /\ v[2] \cup Shielded(v[1], e) \in SUBSET Node
  BY NavigationIsTyped DEF States, Shielded
<1>2. \A n : CutEdge(v[1], n) \in Forest /\ CollapseAt(v[1], n) \in Forest
  BY <1>1 DEF CutEdge, CollapseAt, Below, Forest, Node
<1> QED
  BY <1>1, <1>2 DEF Does, States

\* Before the first edit.
LEMMA RanNothing ==
    ASSUME NEW es, NEW v
    PROVE  Ran(es, 0, v, v)
<1> DEFINE s == [j \in {0} |-> v]
<1>1. s[0] = v /\ \A j \in 1..0 : Does(es[j], s[j - 1], s[j])
  OBVIOUS
<1> QED
  BY <1>1 DEF Ran

\* The run with no edits goes nowhere.
LEMMA NothingRan ==
    ASSUME NEW es, NEW v, NEW u, Ran(es, 0, v, u)
    PROVE  u = v
BY DEF Ran

\* One more edit.
LEMMA RanOneMore ==
    ASSUME NEW es, NEW d \in Nat, NEW v, NEW u, NEW w,
           Ran(es, d, v, u), Does(es[d + 1], u, w)
    PROVE  Ran(es, d + 1, v, w)
<1>1. PICK s : /\ s[0] = v /\ s[d] = u
               /\ \A j \in 1..d : Does(es[j], s[j - 1], s[j])
  BY DEF Ran
<1> DEFINE t == [j \in 0..(d + 1) |-> IF j = d + 1 THEN w ELSE s[j]]
<1>2. t[0] = v /\ t[d + 1] = w /\ t[d] = u
  BY <1>1
<1>3. ASSUME NEW j \in 1..(d + 1)
      PROVE  Does(es[j], t[j - 1], t[j])
  <2>1. CASE j = d + 1
    <3>1. j - 1 = d
      BY <2>1
    <3> QED
      BY <1>2, <2>1, <3>1
  <2>2. CASE j # d + 1
    <3>1. j \in 1..d /\ t[j] = s[j] /\ t[j - 1] = s[j - 1]
      BY <2>2
    <3> QED
      BY <1>1, <3>1
  <2> QED
    BY <2>1, <2>2
<1> HIDE DEF t
<1> QED
  BY <1>2, <1>3 DEF Ran

\* What the edits hand on from state to state holds at the end.
LEMMA RanHandsOn ==
    ASSUME NEW es, NEW d \in Nat, NEW v, NEW u, Ran(es, d, v, u),
           NEW S, v \in S[0],
           \A j \in 1..d : \A x \in S[j - 1] : \A y :
               Does(es[j], x, y) => y \in S[j]
    PROVE  u \in S[d]
<1>1. PICK s : /\ s[0] = v /\ s[d] = u
               /\ \A j \in 1..d : Does(es[j], s[j - 1], s[j])
  BY DEF Ran
<1> DEFINE Good == {j \in 0..d : s[j] \in S[j]}
<1>2. 0 \in Good
  BY <1>1
<1>3. ASSUME NEW j \in 1..d, j - 1 \in Good
      PROVE  j \in Good
  <2>1. s[j - 1] \in S[j - 1] /\ Does(es[j], s[j - 1], s[j]) /\ j \in 0..d
    BY <1>1, <1>3
  <2> QED
    BY <2>1
<1> HIDE DEF Good
<1>4. 0..d \subseteq Good
  BY <1>2, <1>3, HandedOn
<1>5. d \in Good
  BY <1>4
<1> QED
  BY <1>1, <1>5 DEF Good

\* The same edits from the same state lead to the same state, and a run that
\* was completed once is not held up the next time.
LEMMA RanIsDeterministic ==
    ASSUME NEW es, NEW d \in Nat, NEW v, NEW u, Ran(es, d, v, u),
           NEW k \in 0..d, NEW w, Ran(es, k, v, w)
    PROVE  /\ k = d => w = u
           /\ k < d => \E x : Does(es[k + 1], w, x)
<1>1. PICK s : /\ s[0] = v /\ s[d] = u
               /\ \A j \in 1..d : Does(es[j], s[j - 1], s[j])
  BY DEF Ran
<1> DEFINE S == [j \in 0..k |-> {s[j]}]
<1>2. v \in S[0]
  BY <1>1
<1>3. ASSUME NEW j \in 1..k, NEW x \in S[j - 1], NEW y, Does(es[j], x, y)
      PROVE  y \in S[j]
  <2>1. j \in 1..d /\ j \in 0..k /\ j - 1 \in 0..k
    OBVIOUS
  <2>2. x = s[j - 1] /\ Does(es[j], s[j - 1], s[j])
    BY <1>1, <1>3, <2>1
  <2>3. y = s[j]
    BY <1>3, <2>2, DoesIsDeterministic
  <2> QED
    BY <2>1, <2>3
<1>4. k \in Nat
  OBVIOUS
<1> HIDE DEF S
<1>5. w \in S[k]
  BY <1>2, <1>3, <1>4, RanHandsOn
<1>6. w = s[k]
  BY <1>4, <1>5 DEF S
<1>7. k < d => k + 1 \in 1..d /\ (k + 1) - 1 = k
  BY <1>4
<1> QED
  BY <1>1, <1>6, <1>7

-----------------------------------------------------------------------------
(* Runs of cuts.                                                           *)

\* What a cut leaves of a forest: it is one, over the same terminals, and
\* nothing gets a parent.
CutDown(F, G) ==
    /\ G \in Forest /\ WellFormed(G)
    /\ Terminals(G) = Terminals(F)
    /\ \A x : HasParent(G, x) => HasParent(F, x)

\* An edit that is not a merge cuts down.
LEMMA CutDoes ==
    ASSUME NEW e \in Edit, e.kind # "merge",
           NEW v \in States, WellFormed(v[1]), NEW u, Does(e, v, u)
    PROVE  u \in States /\ CutDown(v[1], u[1]) /\ v[2] \subseteq u[2]
<1> DEFINE F == v[1]
           n == Goal(F, e)
<1>1. u \in States /\ F \in Forest
  BY DoesIsTyped DEF States
<1>2. \/ u = v
      \/ /\ n \in F /\ HasParent(F, n) /\ n \notin v[2]
         /\ u = <<CutEdge(F, n), v[2] \cup Shielded(F, e)>>
  BY DEF Does
<1> HIDE DEF F, n
<1>3. CASE u = v
  BY <1>1, <1>3 DEF CutDown, F
<1>4. CASE n \in F /\ HasParent(F, n)
           /\ u = <<CutEdge(F, n), v[2] \cup Shielded(F, e)>>
  <2>1. u[1] = CutEdge(F, n) /\ u[2] = v[2] \cup Shielded(F, e)
    BY <1>4
  <2>2. WellFormed(F)
    BY DEF F
  <2>3. CutDown(F, u[1])
    BY <1>1, <1>4, <2>1, <2>2, CutKeepsForest, CutKeepsTerminals, CutJoinsNothing
       DEF CutDown
  <2> QED
    BY <1>1, <2>1, <2>3 DEF F
<1> QED
  BY <1>2, <1>3, <1>4

\* So does a run of them.
LEMMA CutsRun ==
    ASSUME NEW es \in Seq(Edit), NEW d \in 0..Len(es),
           \A j \in 1..d : es[j].kind # "merge",
           NEW v \in States, WellFormed(v[1]), NEW u, Ran(es, d, v, u)
    PROVE  u \in States /\ CutDown(v[1], u[1])
<1> DEFINE S == [j \in 0..d |-> {x \in States : CutDown(v[1], x[1])}]
<1>0. d \in Nat /\ \A j \in 1..d : es[j] \in Edit /\ j \in 0..d /\ j - 1 \in 0..d
  OBVIOUS
<1>1. v \in S[0]
  BY <1>0 DEF CutDown, States
<1>2. ASSUME NEW j \in 1..d, NEW x \in S[j - 1], NEW y, Does(es[j], x, y)
      PROVE  y \in S[j]
  <2>1. x \in States /\ CutDown(v[1], x[1])
    BY <1>0
  <2>2. y \in States /\ CutDown(x[1], y[1])
    BY <1>0, <1>2, <2>1, CutDoes DEF CutDown
  <2>3. CutDown(v[1], y[1])
    BY <2>1, <2>2 DEF CutDown
  <2> QED
    BY <1>0, <2>2, <2>3
<1> HIDE DEF S
<1>3. u \in S[d]
  BY <1>0, <1>1, <1>2, RanHandsOn
<1> QED
  BY <1>0, <1>3 DEF S

\* Two nodes of one tree.
Together(F, t, u) == \E r \in F : t \cup u \subseteq r

\* Isolating the terminal of a label leaves it without a parent and the other
\* terminals together.
LEMMA IsolateDoes ==
    ASSUME NEW e \in Edit, e.kind = "isolate", e.label \in Labels,
           NEW v \in States, WellFormed(v[1]), NEW u, Does(e, v, u)
    PROVE  /\ ~ HasParent(u[1], TerminalOf(v[1], e.label))
           /\ \A t, w \in Terminals(v[1]) :
                 /\ e.label \notin t /\ e.label \notin w
                 /\ Together(v[1], t, w)
                 => Together(u[1], t, w)
<1> DEFINE F == v[1]
           n == TerminalOf(F, e.label)
<1>1. F \in Forest /\ WellFormed(F) /\ n \in Terminals(F) /\ e.label \in n
  BY TerminalOfLabel DEF States
<1>2. \/ ~ HasParent(F, n) /\ u = v
      \/ u = <<CutEdge(F, n), v[2] \cup Shielded(F, e)>>
  BY DEF Does, Goal
<1> HIDE DEF F, n
<1>3. CASE ~ HasParent(F, n) /\ u = v
  BY <1>3 DEF F, n
<1>4. CASE u = <<CutEdge(F, n), v[2] \cup Shielded(F, e)>>
  <2>1. u[1] = CutEdge(F, n)
    BY <1>4
  <2>2. ~ HasParent(u[1], n)
    BY <2>1, CutJoinsNothing
  <2>3. ASSUME NEW t \in Terminals(F), NEW w \in Terminals(F),
               e.label \notin t, e.label \notin w, Together(F, t, w)
        PROVE  Together(u[1], t, w)
    <3>1. t \in Terminals(F) \ {n} /\ w \in Terminals(F) \ {n}
      BY <1>1, <2>3
    <3> QED
      BY <1>1, <2>1, <2>3, <3>1, CutLeavesTogether DEF Together
  <2> QED
    BY <2>2, <2>3 DEF F, n
<1> QED
  BY <1>2, <1>3, <1>4

\* Isolating several labels, one after the other.
LEMMA IsolatesRun ==
    ASSUME NEW es \in Seq(Edit), NEW d \in 0..Len(es),
           \A j \in 1..d : es[j].kind = "isolate" /\ es[j].label \in Labels,
           NEW v \in States, WellFormed(v[1]), NEW u, Ran(es, d, v, u)
    PROVE  /\ u \in States /\ CutDown(v[1], u[1])
           /\ \A j \in 1..d : ~ HasParent(u[1], TerminalOf(v[1], es[j].label))
           /\ \A t, w \in Terminals(v[1]) :
                 /\ \A j \in 1..d : es[j].label \notin t \cup w
                 /\ Together(v[1], t, w)
                 => Together(u[1], t, w)
<1> DEFINE F == v[1]
           Cut(k, G) == \A j \in 1..k : ~ HasParent(G, TerminalOf(F, es[j].label))
           Kept(k, G) == \A t, w \in Terminals(F) :
                            /\ \A j \in 1..k : es[j].label \notin t \cup w
                            /\ Together(F, t, w)
                            => Together(G, t, w)
           S == [j \in 0..d |-> {x \in States : /\ CutDown(F, x[1])
                                                /\ Cut(j, x[1]) /\ Kept(j, x[1])}]
<1>0. d \in Nat /\ \A j \in 1..d : es[j] \in Edit /\ j \in 0..d /\ j - 1 \in 0..d
  OBVIOUS
<1>f. F \in Forest /\ WellFormed(F)
  BY DEF States
<1>1. v \in S[0]
  <2>1. CutDown(F, v[1]) /\ Cut(0, v[1]) /\ Kept(0, v[1])
    BY <1>f DEF CutDown
  <2> QED
    BY <1>0, <2>1
<1>2. ASSUME NEW j \in 1..d, NEW x \in S[j - 1], NEW y, Does(es[j], x, y)
      PROVE  y \in S[j]
  <2> HIDE DEF F, Cut, Kept
  <2>1. x \in States /\ CutDown(F, x[1]) /\ Cut(j - 1, x[1]) /\ Kept(j - 1, x[1])
    BY <1>0
  <2>2. x[1] \in Forest /\ WellFormed(x[1]) /\ Terminals(x[1]) = Terminals(F)
    BY <2>1 DEF CutDown
  <2>3. es[j] \in Edit /\ es[j].kind = "isolate" /\ es[j].label \in Labels
    BY <1>0
  <2>4. TerminalOf(x[1], es[j].label) = TerminalOf(F, es[j].label)
    BY <1>f, <2>2, <2>3, SameTerminals
  <2>5. y \in States /\ CutDown(x[1], y[1])
    BY <1>2, <2>1, <2>2, <2>3, CutDoes
  <2>6. /\ ~ HasParent(y[1], TerminalOf(F, es[j].label))
        /\ \A t, w \in Terminals(F) :
              /\ es[j].label \notin t /\ es[j].label \notin w
              /\ Together(x[1], t, w)
              => Together(y[1], t, w)
    BY <1>2, <2>1, <2>2, <2>3, <2>4, IsolateDoes
  <2>7. CutDown(F, y[1])
    BY <2>1, <2>5 DEF CutDown
  <2>8. Cut(j, y[1])
    <3> SUFFICES ASSUME NEW i \in 1..j
                 PROVE  ~ HasParent(y[1], TerminalOf(F, es[i].label))
      BY DEF Cut
    <3>1. CASE i = j
      BY <2>6, <3>1
    <3>2. CASE i # j
      <4>1. i \in 1..(j - 1)
        BY <3>2
      <4> QED
        BY <2>1, <2>5, <4>1 DEF Cut, CutDown
    <3> QED
      BY <3>1, <3>2
  <2>9. Kept(j, y[1])
    <3> SUFFICES ASSUME NEW t \in Terminals(F), NEW w \in Terminals(F),
                        \A i \in 1..j : es[i].label \notin t \cup w,
                        Together(F, t, w)
                 PROVE  Together(y[1], t, w)
      BY DEF Kept
    <3>1. /\ \A i \in 1..(j - 1) : es[i].label \notin t \cup w
          /\ es[j].label \notin t /\ es[j].label \notin w
      OBVIOUS
    <3>2. Together(x[1], t, w)
      BY <2>1, <3>1 DEF Kept
    <3> QED
      BY <2>6, <3>1, <3>2
  <2> QED
    BY <1>0, <2>5, <2>7, <2>8, <2>9
<1> HIDE DEF S
<1>3. u \in S[d]
  BY <1>0, <1>1, <1>2, RanHandsOn
<1>4. u \in States /\ CutDown(F, u[1]) /\ Cut(d, u[1]) /\ Kept(d, u[1])
  BY <1>0, <1>3 DEF S
<1> QED
  BY <1>4

-----------------------------------------------------------------------------
(* Pruning, merging, detaching.                                            *)

\* The edits that prune the nodes of a list, and the labels below the first n.
PruneEach(ps) == [k \in DOMAIN ps |-> Prune(ps[k])]
PrunedOff(ps, n) == UNION {ps[k] : k \in 1..n}

\* One prune after the other takes the labels of the pendants off the path,
\* and the next pendant is there to be cut.
LEMMA PrunesRun ==
    ASSUME NEW F \in Forest, WellFormed(F), NEW a \in Labels, NEW c \in Labels,
           NEW bs, bs = PendantNodes(F, a, c), NEW d \in 0..Len(bs),
           NEW es, es = PruneEach(bs),
           NEW P \in SUBSET Node, NEW u, Ran(es, d, <<F, P>>, u)
    PROVE  /\ u \in States
           /\ u[1] = Pruned(F, a, c, PrunedOff(bs, d))
           /\ d < Len(bs) => bs[d + 1] \in u[1] /\ HasParent(u[1], bs[d + 1])
<1> DEFINE D(j) == UNION {bs[k] : k \in 1..j}
           S == [j \in 0..d |-> {x \in States : x[1] = Pruned(F, a, c, D(j))}]
           v == <<F, P>>
<1>1. /\ bs \in Seq(F)
      /\ \A k \in DOMAIN bs : IsPendant(F, a, c, bs[k])
      /\ \A j, k \in DOMAIN bs : j # k => bs[j] \cap bs[k] = {}
  BY PendantNodesArePendants
<1>2. /\ Len(bs) \in Nat /\ DOMAIN bs = 1..Len(bs) /\ d \in Nat
      /\ \A j \in 1..d : /\ j \in 0..d /\ j - 1 \in 0..d /\ j \in DOMAIN bs
                         /\ j - 1 < Len(bs) /\ (j - 1) + 1 = j
  BY <1>1
<1>3. ASSUME NEW j \in 0..d, j < Len(bs), NEW x \in States,
             x[1] = Pruned(F, a, c, D(j))
      PROVE  /\ j + 1 \in DOMAIN bs
             /\ bs[j + 1] \in x[1] /\ HasParent(x[1], bs[j + 1])
             /\ CutEdge(x[1], bs[j + 1]) = Pruned(F, a, c, D(j + 1))
  <2>1. j + 1 \in DOMAIN bs /\ \A k \in 1..j : k \in DOMAIN bs /\ k # j + 1
    BY <1>2, <1>3
  <2>2. IsPendant(F, a, c, bs[j + 1])
    BY <1>1, <2>1
  <2>3. \A k \in 1..j : /\ a \notin bs[k] /\ c \notin bs[k]
                        /\ bs[j + 1] \cap bs[k] = {}
    BY <1>1, <2>1 DEF IsPendant
  <2>4. a \notin D(j) /\ c \notin D(j) /\ bs[j + 1] \cap D(j) = {}
    BY <2>3
  <2>5. D(j + 1) = D(j) \cup bs[j + 1]
    <3>1. \A k : k \in 1..(j + 1) <=> k \in 1..j \/ k = j + 1
      BY <1>2
    <3> QED
      BY <3>1
  <2> HIDE DEF D
  <2>6. /\ bs[j + 1] \in Pruned(F, a, c, D(j))
        /\ HasParent(Pruned(F, a, c, D(j)), bs[j + 1])
        /\ CutEdge(Pruned(F, a, c, D(j)), bs[j + 1])
              = Pruned(F, a, c, D(j) \cup bs[j + 1])
    BY <2>2, <2>4, PruneOne
  <2> QED
    BY <1>3, <2>1, <2>5, <2>6
<1>4. v \in S[0]
  <2>1. D(0) = {}
    OBVIOUS
  <2>2. v \in States /\ v[1] = Pruned(F, a, c, D(0))
    BY <2>1, NothingPruned DEF States
  <2> QED
    BY <1>2, <2>2
<1>5. ASSUME NEW j \in 1..d, NEW x \in S[j - 1], NEW y, Does(es[j], x, y)
      PROVE  y \in S[j]
  <2> HIDE DEF D
  <2>1. x \in States /\ x[1] = Pruned(F, a, c, D(j - 1))
    BY <1>2
  <2>2. CutEdge(x[1], bs[j]) = Pruned(F, a, c, D(j))
    BY <1>2, <1>3, <2>1
  <2>3. es[j] = Prune(bs[j]) /\ bs[j] \in Node
    BY <1>1, <1>2 DEF Forest, PruneEach
  <2>4. es[j] \in Edit /\ es[j].kind = "prune" /\ es[j].node = bs[j]
    BY <2>3, EditsAreTyped DEF Prune
  <2>5. y \in States
    BY <1>5, <2>1, <2>4, DoesIsTyped
  <2>6. Goal(x[1], es[j]) = bs[j]
    BY <2>4 DEF Goal
  <2>7. y[1] = CutEdge(x[1], bs[j])
    BY <1>5, <2>4, <2>6 DEF Does
  <2> QED
    BY <1>2, <2>2, <2>5, <2>7
<1>6. Ran(es, d, v, u)
  OBVIOUS
<1> HIDE DEF S, v
<1>7. u \in S[d]
  <2>1. \A j \in 1..d : \A x \in S[j - 1] : \A y : Does(es[j], x, y) => y \in S[j]
    BY <1>5
  <2> QED
    BY <1>2, <1>4, <1>6, <2>1, RanHandsOn
<1>8. u \in States /\ u[1] = Pruned(F, a, c, D(d))
  BY <1>2, <1>7 DEF S
<1>9. d < Len(bs) => bs[d + 1] \in u[1] /\ HasParent(u[1], bs[d + 1])
  <2>1. d \in 0..d
    BY <1>2
  <2> HIDE DEF D
  <2> QED
    BY <1>3, <1>8, <2>1
<1>10. PrunedOff(bs, d) = D(d)
  BY DEF PrunedOff
<1> QED
  BY <1>8, <1>9, <1>10

\* A run of one edit.
LEMMA OneRan ==
    ASSUME NEW es, NEW v, NEW u, Ran(es, 1, v, u)
    PROVE  Does(es[1], v, u)
<1>1. PICK s : /\ s[0] = v /\ s[1] = u
               /\ \A j \in 1..1 : Does(es[j], s[j - 1], s[j])
  BY DEF Ran
<1>2. Does(es[1], s[1 - 1], s[1])
  BY <1>1
<1> QED
  BY <1>1, <1>2

\* G is F with the siblings A and C made one terminal, their parent; no other
\* family is changed.
MergesTo(F, G, A, C) ==
    /\ A \in Hanging(F) /\ C \in Hanging(F) /\ A # C
    /\ Parent(F, A) = A \cup C /\ Sibling(F, A) = C /\ A \cup C \in F
    /\ \A m \in F : Above(A, m) => A \cup C \subseteq m
    /\ G \in Forest /\ WellFormed(G) /\ G = CollapseAt(F, A \cup C)
    /\ Terminals(G) = (Terminals(F) \ {A, C}) \cup {A \cup C}
    /\ \A x \in G : HasParent(G, x) <=> HasParent(F, x)

\* What merging siblings does.
LEMMA MergeRan ==
    ASSUME NEW v \in States, WellFormed(v[1]),
           NEW a \in Labels, NEW c \in Labels, AreSiblings(v[1], a, c),
           NEW u, Ran(<<Merge(a, c)>>, 1, v, u),
           NEW A, A = TerminalOf(v[1], a), NEW C, C = TerminalOf(v[1], c)
    PROVE  MergesTo(v[1], u[1], A, C)
<1> DEFINE F == v[1]
           e == Merge(a, c)
<1>1. F \in Forest /\ WellFormed(F) /\ A = TerminalOf(F, a) /\ C = TerminalOf(F, c)
  BY DEF States
<1>2. A \in Terminals(F) /\ C \in Terminals(F) /\ HasParent(F, A) /\ Sibling(F, A) = C
  BY <1>1, TerminalOfLabel DEF AreSiblings
<1>3. Does(e, v, u)
  BY OneRan
<1>4. e.kind = "merge" /\ e.label = a
  BY DEF Merge
<1> HIDE DEF F, e
<1>5. A \in F /\ C \in F
  BY <1>2 DEF Terminals
<1>6. /\ Parent(F, A) \in F /\ Parent(F, A) = A \cup C /\ A \cap C = {}
      /\ A # {} /\ C # {} /\ \A m \in F : Above(A, m) => A \cup C \subseteq m
  BY <1>1, <1>2, <1>5, Family
<1>7. Above(C, A \cup C)
  BY <1>6 DEF Above
<1>8. HasParent(F, C)
  BY <1>5, <1>6, <1>7 DEF HasParent, Above, NullNode
<1>9. Goal(F, e) = Parent(F, A)
  BY <1>1, <1>4 DEF Goal
<1>10. u[1] = CollapseAt(F, Parent(F, A))
  BY <1>3, <1>4, <1>9 DEF Does, F
<1>11. u[1] \in Forest /\ WellFormed(u[1])
  BY <1>1, <1>6, <1>10, CollapseKeepsForest
<1>12. /\ Terminals(u[1]) = (Terminals(F) \ {A, Sibling(F, A)}) \cup {Parent(F, A)}
       /\ \A x \in u[1] : HasParent(u[1], x) <=> HasParent(F, x)
  BY <1>1, <1>2, <1>10, CollapseMergesTerminals
<1> QED
  BY <1>2, <1>5, <1>6, <1>8, <1>10, <1>11, <1>12 DEF F, Hanging, MergesTo

\* ForcedCherryCutRule: a, its sibling and c are in the forest until their
\* turn comes.
LEMMA DetachesRun ==
    ASSUME NEW F \in Forest, WellFormed(F), NEW a \in Labels, NEW c \in Labels,
           HasParent(F, TerminalOf(F, a)),
           NEW es, es = <<Detach(TerminalOf(F, a)),
                          Detach(Sibling(F, TerminalOf(F, a))),
                          Detach(TerminalOf(F, c))>>,
           NEW P \in SUBSET Node, NEW d \in 0..2, NEW u, Ran(es, d, <<F, P>>, u)
    PROVE  es[d + 1].node \in u[1]
<1> DEFINE A == TerminalOf(F, a)
           C == TerminalOf(F, c)
           s == Sibling(F, A)
           v == <<F, P>>
<1>1. A \in Terminals(F) /\ C \in Terminals(F) /\ A \in F
  BY TerminalOfLabel DEF Terminals
<1>2. s \in F /\ A \cap s = {} /\ s # {}
  BY <1>1, Family
<1>3. v \in States /\ v[1] = F /\ Ran(es, d, v, u)
  BY DEF States
<1>4. /\ es[1] = Detach(A) /\ es[2] = Detach(s) /\ es[3] = Detach(C)
      /\ A \in Node /\ s \in Node /\ C \in Node
  BY <1>1, <1>2 DEF Terminals, Forest
<1> HIDE DEF A, C, s, v
<1>5. /\ es \in Seq(Edit) /\ Len(es) = 3
      /\ es[1].kind = "detach" /\ es[2].kind = "detach" /\ es[3].kind = "detach"
      /\ es[1].node = A /\ es[2].node = s /\ es[3].node = C
  <2>1. es = <<Detach(A), Detach(s), Detach(C)>>
    BY DEF A, C, s
  <2>2. Detach(A) \in Edit /\ Detach(s) \in Edit /\ Detach(C) \in Edit
    BY <1>4, EditsAreTyped
  <2>3. \A n : Detach(n).kind = "detach" /\ Detach(n).node = n
    BY DEF Detach
  <2>4. es \in Seq(Edit) /\ Len(es) = 3
    BY <2>1, <2>2
  <2> QED
    BY <1>4, <2>3, <2>4
<1>6. CASE d = 0
  BY <1>1, <1>3, <1>5, <1>6, NothingRan
<1>7. CASE d = 1
  <2>1. Does(es[1], v, u)
    BY <1>3, <1>7, OneRan
  <2>2. Goal(F, es[1]) = A
    BY <1>5 DEF Goal
  <2>3. u[1] = F \/ u[1] = CutEdge(F, A)
    BY <1>3, <1>5, <2>1, <2>2 DEF Does
  <2>4. Trim(A, s) = s
    BY <1>2 DEF Trim, Above
  <2>5. s \in CutEdge(F, A)
    BY <1>2, <2>4, CutEdgeTrims
  <2> QED
    BY <1>2, <1>5, <1>7, <2>3, <2>5
<1>8. CASE d = 2
  <2>1. d \in 0..Len(es) /\ \A j \in 1..d : es[j].kind # "merge"
    <3>1. \A j \in 1..2 : j = 1 \/ j = 2
      OBVIOUS
    <3> QED
      BY <1>5, <1>8, <3>1
  <2>2. CutDown(F, u[1])
    BY <1>3, <1>5, <2>1, CutsRun
  <2>3. C \in u[1]
    BY <1>1, <2>2 DEF CutDown, Terminals
  <2> QED
    BY <1>5, <1>8, <2>3
<1> QED
  BY <1>6, <1>7, <1>8

-----------------------------------------------------------------------------
(* The forests between two rules.                                          *)

\* All forests have the same terminals.  In the first one those that are not
\* single-vertex trees yet are in one tree, and once there are none left in
\* the first forest there are none in any other.
Settled(fs) ==
    /\ \A i \in TreeIds : fs[i] \in Forest /\ WellFormed(fs[i])
    /\ \A i \in TreeIds : Terminals(fs[i]) = Terminals(fs[1])
    /\ OneTree(fs[1])
    /\ Hanging(fs[1]) = {} => \A i \in TreeIds : Hanging(fs[i]) = {}

\* No terminal is a single-vertex tree in the first forest only: what
\* SingleVertexTreePropagationRule has seen to.
NoLoose(fs) == \A i \in TreeIds : Hanging(fs[i]) \subseteq Hanging(fs[1])

Cherry(fs, a, c) == \A i \in TreeIds : AreSiblings(fs[i], a, c)

\* The plan isolates the same labels in every forest, those among them that
\* are single-vertex trees in the first forest only.
IsolatesAll(plan, fs) ==
    \E L \in SUBSET Labels : \A i \in TreeIds :
        /\ \A q \in DOMAIN plan[i] : plan[i][q].kind = "isolate" /\ plan[i][q].label \in L
        /\ \A l \in L : \E q \in DOMAIN plan[i] : plan[i][q].label = l
        /\ \A n \in Hanging(fs[i]) \ Hanging(fs[1]) : n \cap L # {}

\* The protected nodes of tree i.
AtTree(prot, i) == {n \in Node : <<i, n>> \in prot}

StateOf(fs, prot, i) == <<fs[i], AtTree(prot, i)>>

\* The plan leads from one instance, with what it protects, to another.
RunsTo(plan, fs, prot, gs, qrot) ==
    \A i \in TreeIds :
        Ran(plan[i], Len(plan[i]), StateOf(fs, prot, i), StateOf(gs, qrot, i))

\* An instance of forests consists of states.
LEMMA StatesOfForests ==
    ASSUME NEW fs, NEW prot, NEW i, fs[i] \in Forest
    PROVE  /\ StateOf(fs, prot, i) \in States
           /\ StateOf(fs, prot, i)[1] = fs[i]
           /\ StateOf(fs, prot, i)[2] = AtTree(prot, i)
BY DEF StateOf, States, AtTree

\* The edits of a plan.
LEMMA PlansAreTyped ==
    ASSUME NEW plan \in Plan, NEW i \in TreeIds
    PROVE  /\ plan[i] \in Seq(Edit) /\ Len(plan[i]) \in Nat
           /\ Len(plan[i]) \in 0..Len(plan[i])
           /\ DOMAIN plan[i] = 1..Len(plan[i])
<1>1. plan[i] \in Seq(Edit)
  BY DEF Plan
<1> QED
  BY <1>1

\* A plan that isolates the same labels everywhere leaves the forests settled.
LEMMA IsolatesSettle ==
    ASSUME NEW plan \in Plan, NEW fs, Settled(fs), IsolatesAll(plan, fs),
           NEW gs, NEW prot, NEW qrot, RunsTo(plan, fs, prot, gs, qrot)
    PROVE  /\ Settled(gs)
           /\ \A i \in TreeIds : Terminals(gs[i]) = Terminals(fs[i])
<1>1. PICK L \in SUBSET Labels : \A i \in TreeIds :
          /\ \A q \in DOMAIN plan[i] : plan[i][q].kind = "isolate" /\ plan[i][q].label \in L
          /\ \A l \in L : \E q \in DOMAIN plan[i] : plan[i][q].label = l
          /\ \A n \in Hanging(fs[i]) \ Hanging(fs[1]) : n \cap L # {}
  BY DEF IsolatesAll
<1>2. ASSUME NEW i \in TreeIds
      PROVE  /\ CutDown(fs[i], gs[i])
             /\ \A l \in L : ~ HasParent(gs[i], TerminalOf(fs[i], l))
             /\ \A t, w \in Terminals(fs[i]) :
                   /\ t \cap L = {} /\ w \cap L = {} /\ Together(fs[i], t, w)
                   => Together(gs[i], t, w)
  <2> DEFINE es == plan[i]
             d == Len(plan[i])
             v == StateOf(fs, prot, i)
             u == StateOf(gs, qrot, i)
  <2>1. es \in Seq(Edit) /\ d \in 0..Len(es) /\ DOMAIN es = 1..d
    BY PlansAreTyped
  <2>2. \A j \in 1..d : es[j].kind = "isolate" /\ es[j].label \in L
    BY <1>1, <2>1
  <2>3. v \in States /\ v[1] = fs[i] /\ u[1] = gs[i]
    BY StatesOfForests DEF Settled, StateOf
  <2>4. Ran(es, d, v, u)
    BY DEF RunsTo
  <2>5. \A l \in L : \E j \in 1..d : es[j].label = l
    BY <1>1, <2>1
  <2>6. WellFormed(v[1]) /\ \A j \in 1..d : es[j].kind = "isolate" /\ es[j].label \in Labels
    BY <2>2, <2>3 DEF Settled
  <2> HIDE DEF es, d, v, u
  <2>7. /\ CutDown(v[1], u[1])
        /\ \A j \in 1..d : ~ HasParent(u[1], TerminalOf(v[1], es[j].label))
        /\ \A t, w \in Terminals(v[1]) :
              /\ \A j \in 1..d : es[j].label \notin t \cup w
              /\ Together(v[1], t, w)
              => Together(u[1], t, w)
    BY <2>1, <2>3, <2>4, <2>6, IsolatesRun
  <2>8. \A l \in L : ~ HasParent(u[1], TerminalOf(v[1], l))
    BY <2>5, <2>7
  <2>9. ASSUME NEW t \in Terminals(v[1]), NEW w \in Terminals(v[1]),
               t \cap L = {}, w \cap L = {}, Together(v[1], t, w)
        PROVE  Together(u[1], t, w)
    <3>1. \A j \in 1..d : es[j].label \notin t \cup w
      BY <2>2, <2>9
    <3> QED
      BY <2>7, <2>9, <3>1
  <2> QED
    BY <2>3, <2>7, <2>8, <2>9
<1>3. \A i \in TreeIds : /\ fs[i] \in Forest /\ WellFormed(fs[i])
                         /\ Terminals(fs[i]) = Terminals(fs[1])
                         /\ gs[i] \in Forest /\ WellFormed(gs[i])
                         /\ Terminals(gs[i]) = Terminals(fs[i])
  BY <1>2 DEF CutDown, Settled
<1>4. ASSUME NEW i \in TreeIds, NEW t \in Hanging(gs[i])
      PROVE  t \in Hanging(fs[i]) /\ t \cap L = {} /\ t \in Hanging(fs[1])
  <2>1. t \in Terminals(fs[i]) /\ HasParent(gs[i], t)
    BY <1>3 DEF Hanging
  <2>2. t \in Hanging(fs[i])
    BY <1>2, <2>1 DEF Hanging, CutDown
  <2>3. ASSUME NEW l \in t, l \in L PROVE FALSE
    <3>1. TerminalOf(fs[i], l) = t
      BY <1>3, <2>1, TerminalOfIsUnique
    <3> QED
      BY <1>2, <2>1, <2>3, <3>1
  <2> QED
    BY <1>1, <2>2, <2>3
<1>5. 1 \in TreeIds
  BY NumTreesIsPositive DEF TreeIds
<1>6. ASSUME NEW i \in TreeIds, NEW j \in TreeIds,
             NEW t \in Hanging(gs[i]), NEW w \in Hanging(gs[j])
      PROVE  Together(gs[1], t, w)
  <2>1. t \in Hanging(fs[1]) /\ w \in Hanging(fs[1]) /\ t \cap L = {} /\ w \cap L = {}
    BY <1>4
  <2>2. Together(fs[1], t, w)
    BY <2>1 DEF Settled, OneTree, Together
  <2> QED
    BY <1>2, <1>5, <2>1, <2>2 DEF Hanging
<1>7. OneTree(gs[1])
  BY <1>5, <1>6 DEF OneTree, Together
<1>8. ASSUME NEW i \in TreeIds, NEW t \in Hanging(gs[i])
      PROVE  Hanging(gs[1]) # {}
  <2>1. PICK w \in Hanging(gs[i]) : w # t
    BY <1>3, HangingTogether
  <2>2. PICK r \in gs[1] : t \cup w \subseteq r
    BY <1>6 DEF Together
  <2>3. t \in Terminals(gs[1]) /\ w \in Terminals(gs[1])
    BY <1>3, <1>5 DEF Hanging
  <2>4. t \in Hanging(gs[1])
    BY <1>3, <1>5, <2>1, <2>2, <2>3, TogetherIsHanging
  <2> QED
    BY <2>4
<1> QED
  BY <1>3, <1>5, <1>7, <1>8 DEF Settled

\* With nothing loose, isolating any label does.
LEMMA NothingLooseToIsolate ==
    ASSUME NEW fs, NoLoose(fs), NEW l \in Labels, NEW m
    PROVE  IsolatesAll(Everywhere(<<Isolate(l, m)>>), fs)
<1> DEFINE plan == Everywhere(<<Isolate(l, m)>>)
<1>1. ASSUME NEW i \in TreeIds
      PROVE  /\ DOMAIN plan[i] = {1}
             /\ plan[i][1].kind = "isolate" /\ plan[i][1].label = l
             /\ Hanging(fs[i]) \ Hanging(fs[1]) = {}
  BY DEF Everywhere, Isolate, NoLoose
<1>2. \A i \in TreeIds :
         /\ \A q \in DOMAIN plan[i] : plan[i][q].kind = "isolate" /\ plan[i][q].label \in {l}
         /\ \A x \in {l} : \E q \in DOMAIN plan[i] : plan[i][q].label = x
         /\ \A n \in Hanging(fs[i]) \ Hanging(fs[1]) : n \cap {l} # {}
  <2> HIDE DEF plan
  <2> QED
    BY <1>1
<1>3. {l} \in SUBSET Labels
  OBVIOUS
<1> HIDE DEF plan
<1>4. IsolatesAll(plan, fs)
  BY <1>2, <1>3 DEF IsolatesAll
<1> QED
  BY <1>4 DEF plan

\* Or two.
LEMMA NothingLooseToIsolateTwice ==
    ASSUME NEW fs, NoLoose(fs), NEW l \in Labels, NEW k \in Labels, NEW m, NEW o
    PROVE  IsolatesAll(Everywhere(<<Isolate(l, m), Isolate(k, o)>>), fs)
<1> DEFINE plan == Everywhere(<<Isolate(l, m), Isolate(k, o)>>)
<1>1. ASSUME NEW i \in TreeIds
      PROVE  /\ DOMAIN plan[i] = {1, 2}
             /\ plan[i][1].kind = "isolate" /\ plan[i][1].label = l
             /\ plan[i][2].kind = "isolate" /\ plan[i][2].label = k
             /\ Hanging(fs[i]) \ Hanging(fs[1]) = {}
  BY DEF Everywhere, Isolate, NoLoose
<1> HIDE DEF plan
<1>2. \A i \in TreeIds :
         /\ \A q \in DOMAIN plan[i] : plan[i][q].kind = "isolate" /\ plan[i][q].label \in {l, k}
         /\ \A x \in {l, k} : \E q \in DOMAIN plan[i] : plan[i][q].label = x
         /\ \A n \in Hanging(fs[i]) \ Hanging(fs[1]) : n \cap {l, k} # {}
  BY <1>1
<1>3. {l, k} \in SUBSET Labels
  OBVIOUS
<1>4. IsolatesAll(plan, fs)
  BY <1>2, <1>3 DEF IsolatesAll
<1> QED
  BY <1>4 DEF plan

\* A plan of cuts that spares the first forest, in which something hangs.
LEMMA CutsBesideFirstSettle ==
    ASSUME NEW plan \in Plan, Cutting(plan), NEW fs, Settled(fs),
           NEW gs, NEW prot, NEW qrot, RunsTo(plan, fs, prot, gs, qrot),
           gs[1] = fs[1], Hanging(fs[1]) # {}
    PROVE  /\ Settled(gs)
           /\ \A i \in TreeIds : Terminals(gs[i]) = Terminals(fs[i])
           /\ NoLoose(fs) => NoLoose(gs)
<1>1. ASSUME NEW i \in TreeIds
      PROVE  CutDown(fs[i], gs[i])
  <2> DEFINE es == plan[i]
             d == Len(plan[i])
             v == StateOf(fs, prot, i)
             u == StateOf(gs, qrot, i)
  <2>1. es \in Seq(Edit) /\ d \in 0..Len(es) /\ DOMAIN es = 1..d
    BY PlansAreTyped
  <2>2. \A j \in 1..d : es[j].kind # "merge"
    BY <2>1 DEF Cutting
  <2>3. v \in States /\ v[1] = fs[i] /\ u[1] = gs[i]
    BY StatesOfForests DEF Settled, StateOf
  <2>4. Ran(es, d, v, u)
    BY DEF RunsTo
  <2>5. WellFormed(v[1])
    BY <2>3 DEF Settled
  <2> HIDE DEF es, d, v, u
  <2> QED
    BY <2>1, <2>2, <2>3, <2>4, <2>5, CutsRun
<1>2. 1 \in TreeIds
  BY NumTreesIsPositive DEF TreeIds
<1>3. \A i \in TreeIds : Hanging(gs[i]) \subseteq Hanging(fs[i])
  BY <1>1 DEF CutDown, Hanging
<1> QED
  BY <1>1, <1>2, <1>3 DEF CutDown, Settled, NoLoose

\* A plan without edits changes nothing.
LEMMA NoEditsSettle ==
    ASSUME NEW fs, NEW gs, NEW prot, NEW qrot, RunsTo(NoEdits, fs, prot, gs, qrot)
    PROVE  \A i \in TreeIds : gs[i] = fs[i]
<1> SUFFICES ASSUME NEW i \in TreeIds PROVE gs[i] = fs[i]
  OBVIOUS
<1>1. NoEdits[i] = <<>>
  BY DEF NoEdits, Everywhere
<1>2. Ran(<<>>, 0, StateOf(fs, prot, i), StateOf(gs, qrot, i))
  BY <1>1 DEF RunsTo
<1>3. StateOf(gs, qrot, i) = StateOf(fs, prot, i)
  BY <1>2, NothingRan
<1> QED
  BY <1>3 DEF StateOf

\* The cherry that is merged, the same two terminals in every forest.
Merged(fs, gs) ==
    \E A, C \in Node : \A i \in TreeIds :
        /\ A \in Terminals(fs[i]) /\ C \in Terminals(fs[i])
        /\ HasParent(fs[i], A) /\ Sibling(fs[i], A) = C
        /\ Parent(fs[i], A) = A \cup C
        /\ Terminals(gs[i]) = (Terminals(fs[i]) \ {A, C}) \cup {A \cup C}

\* Merging a cherry of all forests, with nothing loose.
LEMMA MergesSettle ==
    ASSUME NEW a \in Labels, NEW c \in Labels, NEW fs, Settled(fs),
           Cherry(fs, a, c), NoLoose(fs), NEW gs, NEW prot, NEW qrot,
           RunsTo(Everywhere(<<Merge(a, c)>>), fs, prot, gs, qrot)
    PROVE  Settled(gs) /\ Merged(fs, gs)
<1> DEFINE A == TerminalOf(fs[1], a)
           C == TerminalOf(fs[1], c)
<1>0. 1 \in TreeIds
  BY NumTreesIsPositive DEF TreeIds
<1>1. \A i \in TreeIds : fs[i] \in Forest /\ WellFormed(fs[i])
                         /\ Terminals(fs[i]) = Terminals(fs[1])
  BY DEF Settled
<1>2. ASSUME NEW i \in TreeIds
      PROVE  /\ A \in Hanging(fs[i]) /\ C \in Hanging(fs[i]) /\ A # C
             /\ Parent(fs[i], A) = A \cup C /\ Sibling(fs[i], A) = C
             /\ A \cup C \in fs[i]
             /\ \A m \in fs[i] : Above(A, m) => A \cup C \subseteq m
             /\ gs[i] \in Forest /\ WellFormed(gs[i])
             /\ gs[i] = CollapseAt(fs[i], A \cup C)
             /\ Terminals(gs[i]) = (Terminals(fs[i]) \ {A, C}) \cup {A \cup C}
             /\ \A x \in gs[i] : HasParent(gs[i], x) <=> HasParent(fs[i], x)
  <2> DEFINE v == StateOf(fs, prot, i)
             u == StateOf(gs, qrot, i)
  <2>1. v \in States /\ v[1] = fs[i] /\ u[1] = gs[i]
    BY <1>1, StatesOfForests DEF StateOf
  <2>2. Ran(<<Merge(a, c)>>, 1, v, u)
    <3>1. Everywhere(<<Merge(a, c)>>)[i] = <<Merge(a, c)>>
      BY DEF Everywhere
    <3>2. Len(<<Merge(a, c)>>) = 1
      OBVIOUS
    <3> QED
      BY <3>1, <3>2 DEF RunsTo
  <2>3. AreSiblings(v[1], a, c) /\ WellFormed(v[1])
    BY <1>1, <2>1 DEF Cherry
  <2>4. TerminalOf(fs[i], a) = A /\ TerminalOf(fs[i], c) = C
    BY <1>0, <1>1, SameTerminals
  <2> HIDE DEF v, u, A, C
  <2>5. TerminalOf(v[1], a) = A /\ TerminalOf(v[1], c) = C
    BY <2>1, <2>4
  <2>6. MergesTo(v[1], u[1], A, C)
    BY <2>1, <2>2, <2>3, <2>5, MergeRan
  <2> QED
    BY <2>1, <2>6 DEF MergesTo
<1> DEFINE p == A \cup C
<1> HIDE DEF A, C
<1>3. ASSUME NEW i \in TreeIds, NEW t \in Hanging(gs[i]), t # p
      PROVE  t \in Hanging(fs[i]) /\ t # A /\ t # C /\ t \in Hanging(gs[1])
  <2>1. t \in Terminals(fs[i]) \ {A, C} /\ t \in gs[i] /\ HasParent(gs[i], t)
    BY <1>2, <1>3 DEF Hanging, Terminals
  <2>2. t \in Hanging(fs[i])
    BY <1>2, <2>1 DEF Hanging
  <2>3. t \in Terminals(gs[1])
    BY <1>0, <1>1, <1>2, <2>1
  <2>4. HasParent(fs[1], t)
    BY <2>2 DEF NoLoose, Hanging
  <2>5. HasParent(gs[1], t)
    BY <1>0, <1>2, <2>3, <2>4 DEF Terminals
  <2> QED
    BY <2>1, <2>2, <2>3, <2>5 DEF Hanging
<1>4. ASSUME NEW t \in Terminals(fs[1]) \ {A, C}, NEW w \in Terminals(fs[1]) \ {A, C},
             Together(fs[1], t, w)
      PROVE  Together(gs[1], t, w)
  <2>1. PICK r \in fs[1] : t \cup w \subseteq r
    BY <1>4 DEF Together
  <2>2. CASE r \in gs[1]
    BY <2>1, <2>2 DEF Together
  <2>3. CASE r \notin gs[1]
    <3>1. r \subseteq p /\ p \in gs[1]
      BY <1>0, <1>2, <2>3 DEF CollapseAt, Below
    <3> QED
      BY <2>1, <3>1 DEF Together
  <2> QED
    BY <2>2, <2>3
<1>5. ASSUME NEW t \in Hanging(gs[1]), t # p, HasParent(fs[1], p)
      PROVE  Together(gs[1], t, p)
  <2>1. t \in Hanging(fs[1]) /\ t # A /\ t # C /\ A \in Hanging(fs[1])
    BY <1>0, <1>2, <1>3, <1>5
  <2>2. PICK r \in fs[1] : A \cup t \subseteq r
    BY <2>1 DEF Settled, OneTree
  <2>3. Above(A, r)
    <3>1. SUFFICES ASSUME r = A PROVE FALSE
      BY <2>2 DEF Above
    <3>2. t \in fs[1] /\ A \in Terminals(fs[1]) /\ t \subseteq A
      BY <2>1, <2>2, <3>1 DEF Hanging, Terminals
    <3>3. t = A
      BY <1>0, <1>1, <3>2, TerminalsAreApart
    <3> QED
      BY <2>1, <3>3
  <2>4. p \subseteq r
    BY <1>0, <1>2, <2>3
  <2>5. r \in gs[1]
    BY <1>0, <1>2, <2>4 DEF CollapseAt, Below
  <2> QED
    BY <2>2, <2>4, <2>5 DEF Together
<1>6. OneTree(gs[1])
  <2> SUFFICES ASSUME NEW t \in Hanging(gs[1]), NEW w \in Hanging(gs[1])
               PROVE  \E r \in gs[1] : t \cup w \subseteq r
    BY DEF OneTree
  <2>1. p \in Hanging(gs[1]) => HasParent(fs[1], p)
    BY <1>0, <1>2 DEF Hanging, Terminals
  <2>2. CASE t # p /\ w # p
    <3>1. /\ t \in Hanging(fs[1]) /\ t # A /\ t # C
          /\ w \in Hanging(fs[1]) /\ w # A /\ w # C
      BY <1>0, <1>3, <2>2
    <3>2. Together(fs[1], t, w)
      BY <3>1 DEF Settled, OneTree, Together
    <3>3. Together(gs[1], t, w)
      BY <1>4, <3>1, <3>2 DEF Hanging
    <3> QED
      BY <3>3 DEF Together
  <2>3. CASE t = p /\ w # p
    BY <1>5, <2>1, <2>3 DEF Together
  <2>4. CASE t # p /\ w = p
    BY <1>5, <2>1, <2>4 DEF Together
  <2>5. CASE t = p /\ w = p
    BY <2>5 DEF Hanging, Terminals
  <2> QED
    BY <2>2, <2>3, <2>4, <2>5
<1>7. ASSUME NEW i \in TreeIds, NEW t \in Hanging(gs[i])
      PROVE  Hanging(gs[1]) # {}
  <2>1. CASE t # p
    BY <1>3, <2>1
  <2>2. CASE t = p
    <3>1. PICK w \in Hanging(gs[i]) : w # t
      BY <1>2, HangingTogether
    <3> QED
      BY <1>3, <2>2, <3>1
  <2> QED
    BY <2>1, <2>2
<1>8. \A i \in TreeIds : Terminals(gs[i]) = Terminals(gs[1])
  BY <1>0, <1>1, <1>2
<1>9. Settled(gs)
  BY <1>2, <1>6, <1>7, <1>8 DEF Settled
<1>10. Merged(fs, gs)
  <2>1. A \in Node /\ C \in Node
    BY <1>0, <1>1, <1>2 DEF Hanging, Terminals, Forest
  <2>2. \A i \in TreeIds :
        /\ A \in Terminals(fs[i]) /\ C \in Terminals(fs[i])
        /\ HasParent(fs[i], A) /\ Sibling(fs[i], A) = C
        /\ Parent(fs[i], A) = A \cup C
        /\ Terminals(gs[i]) = (Terminals(fs[i]) \ {A, C}) \cup {A \cup C}
    BY <1>2 DEF Hanging
  <2> QED
    BY <2>1, <2>2 DEF Merged
<1> QED
  BY <1>9, <1>10

-----------------------------------------------------------------------------
(* The end of a branch: only single-vertex trees.                          *)

\* Every tree of every forest is a single vertex.
AtEnd(fs) == \A i \in TreeIds : Hanging(fs[i]) = {}

\* Then the roots are the terminals.
LEMMA RootsAtEnd ==
    ASSUME NEW F \in Forest, WellFormed(F), Hanging(F) = {}
    PROVE  Roots(F) = Terminals(F)
<1>1. \A t \in Terminals(F) : t \in F /\ t # {} /\ \A m \in F : t \subseteq m => m = t
  BY TerminalsAreApart DEF Hanging, HasParent, NullNode
<1>2. Terminals(F) \subseteq Roots(F)
  BY <1>1 DEF Roots
<1>3. ASSUME NEW r \in Roots(F)
      PROVE  r \in Terminals(F)
  <2>1. r \in F
    BY DEF Roots
  <2>2. PICK t \in Terminals(F) : t \subseteq r
    BY <2>1, TerminalInside
  <2> QED
    BY <1>1, <2>1, <2>2
<1> QED
  BY <1>2, <1>3

\* Two roots are apart.
LEMMA RootsAreDisjoint ==
    ASSUME NEW F \in Forest, WellFormed(F), NEW r \in Roots(F), NEW s \in Roots(F),
           r \cap s # {}
    PROVE  r = s
BY DEF Roots, WellFormed, Laminar

\* There are no more trees than labels.
LEMMA ComponentsAreFew ==
    ASSUME NEW F \in Forest, WellFormed(F)
    PROVE  NumComponents(F) <= Cardinality(Labels)
<1> DEFINE f == [r \in Roots(F) |-> CHOOSE l \in Labels : l \in r]
<1>1. ASSUME NEW r \in Roots(F)
      PROVE  f[r] \in Labels /\ f[r] \in r
  <2>1. r # {} /\ r \subseteq Labels
    BY DEF Roots, WellFormed, NullNode, Forest, Node
  <2>2. \E l \in Labels : l \in r
    BY <2>1
  <2> QED
    BY <2>2
<1>2. f \in [Roots(F) -> Labels]
  BY <1>1
<1>3. ASSUME NEW r \in Roots(F), NEW s \in Roots(F), f[r] = f[s]
      PROVE  r = s
  <2>1. f[r] \in r /\ f[r] \in s
    BY <1>1, <1>3
  <2> HIDE DEF f
  <2>2. r \cap s # {}
    BY <2>1
  <2> QED
    BY <2>2, RootsAreDisjoint
<1> HIDE DEF f
<1>4. f \in Injection(Roots(F), Labels)
  BY <1>2, <1>3 DEF Injection, IsInjective
<1>5. Cardinality(Roots(F)) <= Cardinality(Labels)
  BY <1>4, LabelsAreTaxa, FS_Injection
<1> QED
  BY <1>5 DEF NumComponents

\* CheckSingleVertexTreesRule counts trees and terminals: they are as many
\* exactly when nothing hangs.
LEMMA CountTellsEnd ==
    ASSUME NEW F \in Forest, WellFormed(F)
    PROVE  OnlySingleVertexTrees(F) <=> Hanging(F) = {}
<1>1. CASE Hanging(F) = {}
  BY <1>1, RootsAtEnd DEF OnlySingleVertexTrees, NumComponents
<1>2. CASE Hanging(F) # {}
  <2> DEFINE f == [r \in Roots(F) |-> CHOOSE t \in Terminals(F) : t \subseteq r]
  <2>1. ASSUME NEW r \in Roots(F)
        PROVE  f[r] \in Terminals(F) /\ f[r] \subseteq r
    <3>1. \E t \in Terminals(F) : t \subseteq r
      BY TerminalInside DEF Roots
    <3> QED
      BY <3>1
  <2>2. f \in [Roots(F) -> Terminals(F)]
    BY <2>1
  <2> HIDE DEF f
  <2>3. ASSUME NEW r \in Roots(F), NEW s \in Roots(F), NEW t \in Terminals(F),
               t \subseteq r, t \subseteq s
        PROVE  r = s
    <3>1. t # {}
      BY TerminalsAreApart
    <3> QED
      BY <2>3, <3>1, RootsAreDisjoint
  <2>4. f \in Injection(Roots(F), Terminals(F))
    BY <2>1, <2>2, <2>3 DEF Injection, IsInjective
  <2>5. PICK t \in Hanging(F) : TRUE
    BY <1>2
  <2>6. PICK u \in Hanging(F) : u # t /\ \E r \in F : t \cup u \subseteq r
    BY HangingTogether
  <2>7. PICK m \in F : t \cup u \subseteq m
    BY <2>6
  <2>8. PICK R \in Roots(F) : m \subseteq R
    BY RootAbove
  <2>9. PICK w \in {t, u} : w # f[R]
    BY <2>6
  <2>10. w \in Terminals(F) /\ w \subseteq R
    BY <2>7, <2>8 DEF Hanging
  <2>11. \A r \in Roots(F) : f[r] # w
    BY <2>1, <2>3, <2>9, <2>10
  <2>12. f \notin Surjection(Roots(F), Terminals(F))
    BY <2>10, <2>11 DEF Surjection
  <2>13. IsFiniteSet(Terminals(F))
    BY NodesAreFinite DEF Terminals
  <2> QED
    BY <1>2, <2>4, <2>12, <2>13, FS_Injection DEF OnlySingleVertexTrees, NumComponents
<1> QED
  BY <1>1, <1>2

-----------------------------------------------------------------------------
(* When a rule may be applied to the forests.                              *)

\* A plan that protects nothing.
Mateless(plan) ==
    \A i \in TreeIds : \A q \in DOMAIN plan[i] :
        plan[i][q].kind = "isolate" => plan[i][q].mate = NoLabel

Isolating == {"SingleVertexTreePropagation", "AC", "B", "ReverseB", "TwoB",
              "GreedyCherryCut"}

\* What each rule expects of the forests when its apply() is entered.
Fits(r, fs) ==
    /\ r.name # "DebugAssertFalse"
    /\ Mateless(r.plans[1])
    /\ r.name \in {"CutBranch", "CheckSingleVertexTrees"}
           => r.plans = <<NoEdits>>
    /\ r.name = "CheckSingleVertexTrees" => Hanging(fs[1]) = {}
    /\ r.name = "EqualPair" =>
          /\ r.a \in Labels /\ r.c \in Labels
          /\ r.plans = <<Everywhere(<<Merge(r.a, r.c)>>)>>
          /\ Cherry(fs, r.a, r.c)
          /\ NoLoose(fs)
    /\ r.name = "ForcedCherryCut" =>
          /\ NumTrees = 2
          /\ r.a \in Labels /\ r.c \in Labels
          /\ r.plans = ForcedCherryCutRule(fs, r.a, r.c).plans
          /\ Hanging(fs[1]) # {}
          /\ HasParent(fs[2], TerminalOf(fs[2], r.a))
    /\ r.name = "ABC" =>
          /\ r.a \in Labels /\ r.c \in Labels
          /\ r.plans = ABCRule(fs, r.a, r.c).plans
          /\ AreSiblings(fs[1], r.a, r.c)
          /\ \A i \in TreeIds : Connected(fs[i], r.a, r.c)
          /\ NoLoose(fs)
    /\ r.name \in Isolating => \A p \in DOMAIN r.plans : IsolatesAll(r.plans[p], fs)

\* The fields of a new rule.
LEMMA NewRuleFields ==
    ASSUME NEW name, NEW a, NEW c, NEW plans
    PROVE  /\ NewRule(name, a, c, plans).name = name
           /\ NewRule(name, a, c, plans).a = a
           /\ NewRule(name, a, c, plans).c = c
           /\ NewRule(name, a, c, plans).plans = plans
BY DEF NewRule

\* Plans of one isolation or merge protect nothing without a mate.
LEMMA PlansWithoutMates ==
    /\ Mateless(NoEdits)
    /\ \A l : Mateless(Everywhere(<<Isolate(l, NoLabel)>>))
    /\ \A l, k : Mateless(Everywhere(<<Isolate(l, NoLabel), Isolate(k, NoLabel)>>))
    /\ \A l, k : Mateless(Everywhere(<<Merge(l, k)>>))
BY DEF Mateless, Everywhere, NoEdits, Isolate, Merge

\* The rules that isolate one label or two, with nothing loose.
LEMMA IsolatingRulesFit ==
    ASSUME NEW fs, NoLoose(fs), NEW x \in Labels, NEW y \in Labels
    PROVE  /\ Fits(ACRule(x, y), fs)
           /\ Fits(GreedyCherryCutRule(x, y), fs)
           /\ Fits(BRule(x), fs)
           /\ Fits(ReverseBRule(x), fs)
           /\ \A name \in {"B", "TwoB"} : Fits(PairRule(name, x, y), fs)
<1> DEFINE one == Everywhere(<<Isolate(x, NoLabel)>>)
           two == Everywhere(<<Isolate(x, NoLabel), Isolate(y, NoLabel)>>)
           other == Everywhere(<<Isolate(y, x)>>)
<1>1. IsolatesAll(one, fs) /\ IsolatesAll(two, fs) /\ IsolatesAll(other, fs)
  BY NothingLooseToIsolate, NothingLooseToIsolateTwice
<1>2. Mateless(one) /\ Mateless(two)
  BY PlansWithoutMates
<1> HIDE DEF one, two, other
<1>3. ASSUME NEW r, r.name \in Isolating,
             r.plans \in {<<one>>, <<two>>, <<one, other>>}
      PROVE  Fits(r, fs)
  <2>1. Mateless(r.plans[1])
    BY <1>2, <1>3
  <2>2. \A p \in DOMAIN r.plans : IsolatesAll(r.plans[p], fs)
    BY <1>1, <1>3
  <2> QED
    BY <1>3, <2>1, <2>2 DEF Fits, Isolating
<1>4. /\ ACRule(x, y).name = "AC" /\ ACRule(x, y).plans = <<one, other>>
      /\ GreedyCherryCutRule(x, y).name = "GreedyCherryCut"
      /\ GreedyCherryCutRule(x, y).plans = <<one>>
      /\ BRule(x).name = "B" /\ BRule(x).plans = <<one>>
      /\ ReverseBRule(x).name = "ReverseB" /\ ReverseBRule(x).plans = <<one>>
      /\ \A name \in {"B", "TwoB"} : /\ PairRule(name, x, y).name = name
                                     /\ PairRule(name, x, y).plans = <<two>>
  BY NewRuleFields DEF ACRule, GreedyCherryCutRule, BRule, ReverseBRule, PairRule,
                       one, two, other
<1>5. {"AC", "GreedyCherryCut", "B", "ReverseB", "TwoB"} \subseteq Isolating
  BY DEF Isolating
<1>6. Fits(ACRule(x, y), fs)
  BY <1>3, <1>4, <1>5
<1>7. Fits(GreedyCherryCutRule(x, y), fs)
  BY <1>3, <1>4, <1>5
<1>8. Fits(BRule(x), fs) /\ Fits(ReverseBRule(x), fs)
  BY <1>3, <1>4, <1>5
<1>9. \A name \in {"B", "TwoB"} : Fits(PairRule(name, x, y), fs)
  BY <1>3, <1>4, <1>5
<1> QED
  BY <1>6, <1>7, <1>8, <1>9

\* The rules of the list that are no sibling rules.
LEMMA CountingRulesFit ==
    ASSUME NEW fs
    PROVE  /\ Fits(CutBranchRule, fs)
           /\ Hanging(fs[1]) = {} => Fits(CheckSingleVertexTreesRule, fs)
BY PlansWithoutMates, NewRuleFields
   DEF Fits, CutBranchRule, CheckSingleVertexTreesRule, Isolating

\* EqualPairReductionRule, for a cherry of all forests.
LEMMA EqualPairRuleFits ==
    ASSUME NEW fs, NoLoose(fs), NEW a \in Labels, NEW c \in Labels,
           Cherry(fs, a, c)
    PROVE  Fits(EqualPairRule(a, c), fs)
<1> DEFINE r == EqualPairRule(a, c)
<1>1. /\ r.name = "EqualPair" /\ r.a = a /\ r.c = c
      /\ r.plans = <<Everywhere(<<Merge(a, c)>>)>>
  BY NewRuleFields DEF EqualPairRule
<1>2. Mateless(r.plans[1])
  BY <1>1, PlansWithoutMates
<1> HIDE DEF r
<1>3. Fits(r, fs)
  BY <1>1, <1>2 DEF Fits, Isolating
<1> QED
  BY <1>3 DEF r

\* ABCBranchingRule, for a connected pair that is a cherry of the first forest.
LEMMA ABCRuleFits ==
    ASSUME NEW fs, NoLoose(fs), NEW a \in Labels, NEW c \in Labels,
           AreSiblings(fs[1], a, c),
           \A i \in TreeIds : Connected(fs[i], a, c)
    PROVE  Fits(ABCRule(fs, a, c), fs)
<1> DEFINE r == ABCRule(fs, a, c)
           bs(i) == PendantNodes(fs[i], a, c)
           prunes(i) == [k \in DOMAIN bs(i) |-> Prune(bs(i)[k])]
           first == [i \in TreeIds |-> prunes(i)]
           rest == <<Everywhere(<<Isolate(c, NoLabel)>>), Everywhere(<<Isolate(a, c)>>)>>
<1>1. /\ r.name = "ABC" /\ r.a = a /\ r.c = c
      /\ r.plans = <<first, Everywhere(<<Isolate(c, NoLabel)>>),
                     Everywhere(<<Isolate(a, c)>>)>>
  BY NewRuleFields DEF ABCRule
<1>2. Mateless(first)
  <2>1. \A i \in TreeIds : \A q \in DOMAIN prunes(i) : prunes(i)[q].kind = "prune"
    BY DEF Prune
  <2> HIDE DEF prunes
  <2> QED
    BY <2>1 DEF Mateless
<1>3. r.plans[1] = first
  BY <1>1
<1> HIDE DEF first
<1>4. Mateless(r.plans[1])
  BY <1>2, <1>3
<1> HIDE DEF r
<1>5. r.plans = ABCRule(fs, a, c).plans
  BY DEF r
<1>6. Fits(r, fs)
  BY <1>1, <1>4, <1>5 DEF Fits, Isolating
<1> QED
  BY <1>6 DEF r

\* ForcedCherryCutRule, for a cherry of the first of two forests.
LEMMA ForcedCherryCutRuleFits ==
    ASSUME NEW fs, NumTrees = 2, NEW a \in Labels, NEW c \in Labels,
           Hanging(fs[1]) # {}, HasParent(fs[2], TerminalOf(fs[2], a))
    PROVE  Fits(ForcedCherryCutRule(fs, a, c), fs)
<1> DEFINE r == ForcedCherryCutRule(fs, a, c)
           cuts == <<Detach(TerminalOf(fs[2], a)),
                     Detach(Sibling(fs[2], TerminalOf(fs[2], a))),
                     Detach(TerminalOf(fs[2], c))>>
           plan == [i \in TreeIds |-> IF i = 2 THEN cuts ELSE <<>>]
<1>1. r.name = "ForcedCherryCut" /\ r.a = a /\ r.c = c /\ r.plans = <<plan>>
  BY NewRuleFields DEF ForcedCherryCutRule
<1>2. Mateless(plan)
  <2>1. \A q \in DOMAIN cuts : cuts[q].kind = "detach"
    BY DEF Detach
  <2> HIDE DEF cuts
  <2>2. DOMAIN <<>> = {}
    OBVIOUS
  <2> QED
    BY <2>1, <2>2 DEF Mateless
<1>3. r.plans[1] = plan
  BY <1>1
<1> HIDE DEF plan
<1>4. Mateless(r.plans[1])
  BY <1>2, <1>3
<1> HIDE DEF r
<1>5. r.plans = ForcedCherryCutRule(fs, a, c).plans
  BY DEF r
<1>6. Fits(r, fs)
  BY <1>1, <1>4, <1>5 DEF Fits, Isolating
<1> QED
  BY <1>6 DEF r

-----------------------------------------------------------------------------
(* The rule that is selected may be applied.                               *)

\* What SingleVertexTreePropagationRule looks for.
LEMMA LooseLabels ==
    ASSUME NEW fs, Settled(fs), NEW n \in Terminals(fs[1]),
           NEW i \in TreeIds, HasParent(fs[i], n),
           NEW j \in TreeIds, ~ HasParent(fs[j], n)
    PROVE  n \cap LabelsToBeReduced(fs) # {}
<1>0. 1 \in TreeIds
  BY NumTreesIsPositive DEF TreeIds
<1>1. \A k \in TreeIds : /\ fs[k] \in Forest /\ WellFormed(fs[k])
                         /\ Terminals(fs[k]) = Terminals(fs[1])
  BY DEF Settled
<1>2. n # {} /\ n \subseteq Labels
  BY <1>0, <1>1, TerminalsAreApart
<1>3. PICK l \in n : LabelOf(n) = {l}
  BY <1>2, LabelOfExists
<1>4. \A k \in TreeIds : TerminalOf(fs[k], l) = n
  BY <1>1, TerminalOfIsUnique
<1>5. l \in UNION {LabelOf(m) : m \in Terminals(fs[1])}
  BY <1>3
<1>6. l \in LabelsToBeReduced(fs)
  BY <1>4, <1>5 DEF LabelsToBeReduced
<1> QED
  BY <1>6

\* It isolates all of them, in whatever order.
LEMMA PropagationRulesFit ==
    ASSUME NEW fs, Settled(fs), NEW r \in PropagationRules(fs)
    PROVE  Fits(r, fs)
<1> DEFINE S == LabelsToBeReduced(fs)
<1>1. S \subseteq Labels
  <2>1. fs[1] \in Forest
    BY NumTreesIsPositive DEF TreeIds, Settled
  <2>2. \A n \in Terminals(fs[1]) : LabelOf(n) \subseteq Labels
    BY <2>1, NavigationIsTyped DEF Terminals, Forest, Node
  <2> QED
    BY <2>2 DEF LabelsToBeReduced
<1>2. \A i \in TreeIds : \A n \in Hanging(fs[i]) \ Hanging(fs[1]) : n \cap S # {}
  <2>1. 1 \in TreeIds /\ \A i \in TreeIds : Terminals(fs[i]) = Terminals(fs[1])
    BY NumTreesIsPositive DEF TreeIds, Settled
  <2> QED
    BY <2>1, LooseLabels DEF Hanging
<1>3. PICK order \in SetToSeqs(S) : r = PropagationRule(order)
  BY DEF PropagationRules
<1> HIDE DEF S
<1>4. IsFiniteSet(S) /\ Cardinality(S) \in Nat
  BY <1>1, LabelsAreTaxa, FS_Subset, FS_CardinalityType
<1>5. /\ order \in [1..Cardinality(S) -> S]
      /\ \A j, k \in 1..Cardinality(S) : j # k => order[j] # order[k]
  BY <1>3 DEF SetToSeqs
<1>6. order \in Injection(1..Cardinality(S), S)
  BY <1>5 DEF Injection, IsInjective
<1>7. Cardinality(1..Cardinality(S)) = Cardinality(S)
  BY <1>4, FS_Interval
<1>8. order \in Surjection(1..Cardinality(S), S)
  BY <1>4, <1>6, <1>7, FS_Injection
<1>9. \A l \in S : \E k \in DOMAIN order : order[k] = l
  BY <1>5, <1>8 DEF Surjection
<1>10. \A k \in DOMAIN order : order[k] \in S
  BY <1>5
<1> DEFINE edits == [k \in DOMAIN order |-> Isolate(order[k], NoLabel)]
<1>11. /\ DOMAIN edits = DOMAIN order
       /\ \A q \in DOMAIN edits : /\ edits[q].kind = "isolate" /\ edits[q].label = order[q]
                                  /\ edits[q].mate = NoLabel
  BY DEF Isolate
<1>12. r.name = "SingleVertexTreePropagation" /\ r.plans = <<Everywhere(edits)>>
  BY <1>3, NewRuleFields DEF PropagationRule
<1> HIDE DEF edits
<1>13. \A i \in TreeIds : Everywhere(edits)[i] = edits
  BY DEF Everywhere
<1> DEFINE plan == Everywhere(edits)
<1> HIDE DEF plan
<1>14. Mateless(plan)
  BY <1>11, <1>13 DEF Mateless, plan
<1>15. \A i \in TreeIds :
          /\ \A q \in DOMAIN plan[i] : plan[i][q].kind = "isolate" /\ plan[i][q].label \in S
          /\ \A l \in S : \E q \in DOMAIN plan[i] : plan[i][q].label = l
          /\ \A n \in Hanging(fs[i]) \ Hanging(fs[1]) : n \cap S # {}
  BY <1>2, <1>9, <1>10, <1>11, <1>13 DEF plan
<1>16. IsolatesAll(plan, fs)
  BY <1>1, <1>15 DEF IsolatesAll
<1>17. r.plans = <<plan>>
  BY <1>12 DEF plan
<1> QED
  BY <1>12, <1>14, <1>16, <1>17 DEF Fits, Isolating

\* Once it does not apply, the same terminals hang in all forests.
LEMMA NothingIsLoose ==
    ASSUME NEW fs, Settled(fs), LabelsToBeReduced(fs) = {}
    PROVE  \A i \in TreeIds : Hanging(fs[i]) = Hanging(fs[1])
<1>1. 1 \in TreeIds /\ \A i \in TreeIds : Terminals(fs[i]) = Terminals(fs[1])
  BY NumTreesIsPositive DEF TreeIds, Settled
<1> QED
  BY <1>1, LooseLabels DEF Hanging

\* getSiblings finds a cherry of the first forest.
LEMMA CherryIsFound ==
    ASSUME NEW T \in Forest, WellFormed(T), IsLabelledTree(T),
           NEW F \in Forest, WellFormed(F)
    PROVE  /\ Hanging(F) # {} => FirstCherry(T, F) # {}
           /\ \A p \in FirstCherry(T, F) :
                 /\ p[1] \in Labels /\ p[2] \in Labels
                 /\ AreSiblings(F, p[1], p[2])
                 /\ TerminalOf(F, p[1]) # TerminalOf(F, p[2])
<1> DEFINE C == CherryLabels(F)
           A(l) == TerminalOf(F, l)
           S(l) == Sibling(F, TerminalOf(F, l))
<1>1. ASSUME NEW l \in C
      PROVE  /\ l \in Labels /\ A(l) \in Terminals(F) /\ S(l) \in Terminals(F)
             /\ HasParent(F, A(l)) /\ A(l) # S(l)
             /\ A(l) # {} /\ S(l) # {} /\ A(l) \subseteq Labels /\ S(l) \subseteq Labels
  <2>1. /\ l \in Labels /\ HasParent(F, A(l)) /\ IsTerminal(F, S(l))
    BY DEF CherryLabels
  <2>2. A(l) \in Terminals(F) /\ S(l) \in Terminals(F)
    BY <2>1, TerminalOfLabel DEF Terminals, IsTerminal
  <2>3. A(l) \cap S(l) = {}
    BY <2>1, <2>2, Family DEF Terminals
  <2> HIDE DEF A, S
  <2>4. A(l) # {} /\ S(l) # {} /\ A(l) \subseteq Labels /\ S(l) \subseteq Labels
    BY <2>2, TerminalsAreApart
  <2> QED
    BY <2>1, <2>2, <2>3, <2>4
<1>2. Hanging(F) # {} => FirstCherry(T, F) # {}
  <2> SUFFICES ASSUME Hanging(F) # {} PROVE FirstCherry(T, F) # {}
    OBVIOUS
  <2>1. PICK t \in Terminals(F) : HasParent(F, t) /\ Sibling(F, t) \in Terminals(F)
    BY CherryExists
  <2>2. PICK l \in t : TRUE
    BY <2>1, TerminalsAreApart
  <2>3. l \in Labels /\ A(l) = t
    BY TerminalOfIsUnique
  <2>4. l \in C
    BY <2>1, <2>3 DEF CherryLabels, Terminals
  <2>5. C \subseteq Labels
    BY DEF CherryLabels
  <2>6. PICK f \in C : \A m \in C \ {f} : Before(T, f, m)
    BY <2>4, <2>5, FirstExists
  <2>7. f \in First(T, C)
    BY <2>5, <2>6 DEF First
  <2> HIDE DEF A, S, C
  <2>8. PICK x \in A(f) : LabelOf(A(f)) = {x}
    BY <1>1, LabelOfExists
  <2>9. PICK y \in S(f) : LabelOf(S(f)) = {y}
    BY <1>1, LabelOfExists
  <2>10. <<x, y>> \in LabelOf(A(f)) \X LabelOf(S(f))
    BY <2>8, <2>9
  <2> QED
    BY <2>7, <2>10 DEF FirstCherry, A, S, C
<1>3. ASSUME NEW p \in FirstCherry(T, F)
      PROVE  /\ p[1] \in Labels /\ p[2] \in Labels
             /\ AreSiblings(F, p[1], p[2])
             /\ TerminalOf(F, p[1]) # TerminalOf(F, p[2])
  <2>1. PICK l \in First(T, C) : p \in LabelOf(A(l)) \X LabelOf(S(l))
    BY DEF FirstCherry
  <2>2. l \in C
    BY <2>1 DEF First, CherryLabels
  <2>3. p[1] \in A(l) /\ p[2] \in S(l)
    BY <2>1 DEF LabelOf
  <2>4. TerminalOf(F, p[1]) = A(l) /\ TerminalOf(F, p[2]) = S(l)
    BY <1>1, <2>2, <2>3, TerminalOfIsUnique
  <2> QED
    BY <1>1, <2>2, <2>3, <2>4 DEF AreSiblings
<1> QED
  BY <1>2, <1>3

\* The b-node met first has a label.
LEMMA FirstBLabelExists ==
    ASSUME NEW fs, \A i \in TreeIds : fs[i] \in Forest /\ WellFormed(fs[i]),
           NEW a \in Labels, NEW c \in Labels,
           \A i \in SplitIn(fs, a, c) : PendantNodes(fs[i], a, c) # <<>>
    PROVE  /\ FirstBLabel(fs, a, c) \subseteq Labels
           /\ SplitIn(fs, a, c) # {} => FirstBLabel(fs, a, c) # {}
<1>1. ASSUME NEW i \in SplitIn(fs, a, c)
      PROVE  LabelOf(PendantNodes(fs[i], a, c)[1]) \in (SUBSET Labels) \ {{}}
  <2> DEFINE bs == PendantNodes(fs[i], a, c)
  <2>1. fs[i] \in Forest /\ WellFormed(fs[i])
    BY DEF SplitIn, Others
  <2>2. bs \in Seq(fs[i]) /\ bs # <<>>
    BY <2>1, PendantNodesArePendants
  <2> HIDE DEF bs
  <2>3. bs[1] \in fs[i]
    BY <2>2
  <2>4. bs[1] # {} /\ bs[1] \in SUBSET Labels
    BY <2>1, <2>3 DEF WellFormed, Forest, Node, NullNode
  <2>5. PICK l \in bs[1] : LabelOf(bs[1]) = {l}
    BY <2>4, LabelOfExists
  <2>6. LabelOf(bs[1]) \in (SUBSET Labels) \ {{}}
    BY <2>4, <2>5
  <2> QED
    BY <2>6 DEF bs
<1>2. ASSUME SplitIn(fs, a, c) # {}
      PROVE  \E j \in SplitIn(fs, a, c) : \A k \in SplitIn(fs, a, c) : j <= k
  <2>1. SplitIn(fs, a, c) \in SUBSET Nat
    BY DEF SplitIn, Others, TreeIds
  <2> QED
    BY <1>2, <2>1, SmallestExists
<1>3. FirstBLabel(fs, a, c) \subseteq Labels
  BY <1>1 DEF FirstBLabel
<1>4. ASSUME SplitIn(fs, a, c) # {}
      PROVE  FirstBLabel(fs, a, c) # {}
  <2>1. PICK j \in SplitIn(fs, a, c) : \A k \in SplitIn(fs, a, c) : j <= k
    BY <1>2, <1>4
  <2>2. PICK l : l \in LabelOf(PendantNodes(fs[j], a, c)[1])
    BY <1>1
  <2>3. l \in FirstBLabel(fs, a, c)
    BY <2>1, <2>2 DEF FirstBLabel
  <2> QED
    BY <2>3
<1> QED
  BY <1>3, <1>4

\* The rules allRules tries on a cherry of the first forest: there is one, and
\* it may be applied.
LEMMA RulesForCherryFit ==
    ASSUME NEW fs \in [TreeIds -> Forest], Settled(fs), NoLoose(fs),
           NEW a \in Labels, NEW c \in Labels, AreSiblings(fs[1], a, c)
    PROVE  /\ RuleForCherry(fs, a, c) # {}
           /\ \A r \in RuleForCherry(fs, a, c) : Fits(r, fs)
<1> DEFINE split == SplitIn(fs, a, c)
<1>0. \A i \in TreeIds : fs[i] \in Forest /\ WellFormed(fs[i])
  BY DEF Settled
<1>1. BLabels(fs, a, c) \subseteq Labels
  BY BLabelsAreLabels
<1>2. ASSUME split # {}, BRuleFits(fs, a, c)
      PROVE  BRules(fs, a, c) # {} /\ \A r \in BRules(fs, a, c) : Fits(r, fs)
  <2>1. \A i \in split : PendantNodes(fs[i], a, c) # <<>>
    BY <1>2, NarrowPathsArePaths DEF BRuleFits
  <2>2. FirstBLabel(fs, a, c) \subseteq Labels /\ FirstBLabel(fs, a, c) # {}
    BY <1>0, <1>2, <2>1, FirstBLabelExists
  <2>3. \A x, y \in Labels : Fits(BRule(x), fs) /\ Fits(PairRule("B", x, y), fs)
    BY IsolatingRulesFit
  <2>4. \A r \in BRules(fs, a, c) : Fits(r, fs)
    BY <1>1, <2>2, <2>3 DEF BRules
  <2>5. BRules(fs, a, c) # {}
    <3>1. PICK b \in FirstBLabel(fs, a, c) : TRUE
      BY <2>2
    <3>2. CASE BLabels(fs, a, c) \ {b} = {}
      BY <3>1, <3>2 DEF BRules
    <3>3. CASE BLabels(fs, a, c) \ {b} # {}
      <4>1. PICK d \in BLabels(fs, a, c) \ {b} : TRUE
        BY <3>3
      <4>2. PairRule("B", b, d) \in BRules(fs, a, c)
        BY <3>1, <4>1 DEF BRules
      <4> QED
        BY <4>2
    <3> QED
      BY <3>2, <3>3
  <2> QED
    BY <2>4, <2>5
<1>3. ASSUME split # {}, TwoBRuleFits(fs, a, c)
      PROVE  TwoBRules(fs, a, c) # {} /\ \A r \in TwoBRules(fs, a, c) : Fits(r, fs)
  <2>1. \A i \in split : PendantNodes(fs[i], a, c) # <<>>
    BY <1>3, NarrowPathsArePaths DEF TwoBRuleFits
  <2>2. FirstBLabel(fs, a, c) \subseteq Labels /\ FirstBLabel(fs, a, c) # {}
    BY <1>0, <1>3, <2>1, FirstBLabelExists
  <2>3. \A x, y \in Labels : Fits(PairRule("TwoB", x, y), fs)
    BY IsolatingRulesFit
  <2>4. \A r \in TwoBRules(fs, a, c) : Fits(r, fs)
    BY <1>1, <2>2, <2>3 DEF TwoBRules
  <2>5. TwoBRules(fs, a, c) # {}
    <3>1. PICK b \in FirstBLabel(fs, a, c) : TRUE
      BY <2>2
    <3>2. Cardinality(BLabels(fs, a, c)) = 2
      BY <1>3 DEF TwoBRuleFits
    <3>3. Cardinality({}) = 0 /\ Cardinality({b}) = 1
      BY FS_EmptySet, FS_Singleton
    <3>4. BLabels(fs, a, c) # {} /\ BLabels(fs, a, c) # {b}
      BY <3>2, <3>3
    <3>5. PICK d \in BLabels(fs, a, c) \ {b} : TRUE
      BY <3>4
    <3>6. PairRule("TwoB", b, d) \in TwoBRules(fs, a, c)
      BY <3>1, <3>5 DEF TwoBRules
    <3> QED
      BY <3>6
  <2> QED
    BY <2>4, <2>5
<1>4. ReverseBLabels(fs, a, c) \subseteq Labels
  BY DEF ReverseBLabels
<1>5. CASE split = {}
  <2>1. Cherry(fs, a, c)
    BY <1>5 DEF SplitIn, Others, Cherry
  <2> QED
    BY <1>5, <2>1, EqualPairRuleFits DEF RuleForCherry
<1>6. CASE split # {} /\ \E i \in Others : ~ Connected(fs[i], a, c)
  BY <1>6, IsolatingRulesFit DEF RuleForCherry
<1>7. CASE split # {} /\ \A i \in Others : Connected(fs[i], a, c)
  <2>1. Connected(fs[1], a, c)
    <3> DEFINE A == TerminalOf(fs[1], a)
               C == TerminalOf(fs[1], c)
    <3>1. fs[1] \in Forest /\ WellFormed(fs[1])
      BY <1>0, NumTreesIsPositive DEF TreeIds
    <3>2. A \in Terminals(fs[1]) /\ a \in A /\ c \in C
      BY <3>1, TerminalOfLabel
    <3>3. HasParent(fs[1], A) /\ Sibling(fs[1], A) = C
      BY DEF AreSiblings
    <3> HIDE DEF A, C
    <3>4. Parent(fs[1], A) \in fs[1] /\ Parent(fs[1], A) = A \cup C
      BY <3>1, <3>2, <3>3, Family DEF Terminals
    <3> QED
      BY <3>2, <3>4 DEF Connected
  <2>2. \A i \in TreeIds : Connected(fs[i], a, c)
    BY <1>7, <2>1 DEF Others
  <2>3. Fits(ABCRule(fs, a, c), fs)
    BY <2>2, ABCRuleFits
  <2>4. \A l \in Labels : Fits(ReverseBRule(l), fs)
    BY IsolatingRulesFit
  <2> QED
    BY <1>2, <1>3, <1>4, <1>7, <2>3, <2>4 DEF RuleForCherry
<1> QED
  BY <1>5, <1>6, <1>7

\* So may the one approximationRule makes.
LEMMA ApproximationRuleFits ==
    ASSUME NEW fs \in [TreeIds -> Forest], Settled(fs),
           \A i \in TreeIds : Hanging(fs[i]) = Hanging(fs[1]),
           NEW a \in Labels, NEW c \in Labels, AreSiblings(fs[1], a, c)
    PROVE  Fits(ApproximationRuleForCherry(fs, a, c), fs)
<1> DEFINE A == TerminalOf(fs[1], a)
<1>0. 1 \in TreeIds
  BY NumTreesIsPositive DEF TreeIds
<1>1. NoLoose(fs)
  BY DEF NoLoose
<1>2. CASE SplitIn(fs, a, c) = {}
  <2>1. Cherry(fs, a, c)
    BY <1>2 DEF SplitIn, Others, Cherry
  <2> QED
    BY <1>1, <1>2, <2>1, EqualPairRuleFits DEF ApproximationRuleForCherry
<1>3. CASE SplitIn(fs, a, c) # {} /\ NumTrees = 2
  <2>1. 2 \in TreeIds
    BY <1>3 DEF TreeIds
  <2>2. A \in Terminals(fs[1]) /\ TerminalOf(fs[2], a) = A
    BY <1>0, <2>1, TerminalOfLabel, SameTerminals DEF Settled
  <2>3. A \in Hanging(fs[1])
    BY <2>2 DEF AreSiblings, Hanging
  <2>4. HasParent(fs[2], TerminalOf(fs[2], a))
    BY <2>1, <2>2, <2>3 DEF Hanging
  <2>5. Fits(ForcedCherryCutRule(fs, a, c), fs)
    BY <1>3, <2>3, <2>4, ForcedCherryCutRuleFits
  <2> QED
    BY <1>3, <2>5 DEF ApproximationRuleForCherry
<1>4. CASE SplitIn(fs, a, c) # {} /\ NumTrees # 2
  BY <1>1, <1>4, IsolatingRulesFit DEF ApproximationRuleForCherry
<1> QED
  BY <1>2, <1>3, <1>4

\* Between two rules, a rule that may be applied is found.
THEOREM SelectedRuleFits ==
    ASSUME NEW fs \in [TreeIds -> Forest], Settled(fs),
           NEW T \in Forest, WellFormed(T), IsLabelledTree(T),
           NEW tooLarge \in BOOLEAN
    PROVE  /\ \A r \in FirstApplicable(fs, tooLarge, AllRules(T, fs)) : Fits(r, fs)
           /\ \A r \in FirstApplicable(fs, tooLarge, ApproximationRules(T, fs)) :
                 Fits(r, fs)
<1>1. fs[1] \in Forest /\ WellFormed(fs[1])
  BY NumTreesIsPositive DEF TreeIds, Settled
<1>2. OnlySingleVertexTrees(fs[1]) <=> Hanging(fs[1]) = {}
  BY <1>1, CountTellsEnd
<1>3. /\ Fits(CutBranchRule, fs)
      /\ Hanging(fs[1]) = {} => Fits(CheckSingleVertexTreesRule, fs)
      /\ \A r \in PropagationRules(fs) : Fits(r, fs)
  BY CountingRulesFit, PropagationRulesFit
<1>4. ASSUME Hanging(fs[1]) # {}, LabelsToBeReduced(fs) = {}
      PROVE  /\ AllRules(T, fs) # {} /\ ApproximationRules(T, fs) # {}
             /\ \A r \in AllRules(T, fs) : Fits(r, fs)
             /\ \A r \in ApproximationRules(T, fs) : Fits(r, fs)
  <2>1. \A i \in TreeIds : Hanging(fs[i]) = Hanging(fs[1])
    BY <1>4, NothingIsLoose
  <2>2. NoLoose(fs)
    BY <2>1 DEF NoLoose
  <2>3. /\ FirstCherry(T, fs[1]) # {}
        /\ \A p \in FirstCherry(T, fs[1]) :
              p[1] \in Labels /\ p[2] \in Labels /\ AreSiblings(fs[1], p[1], p[2])
    BY <1>1, <1>4, CherryIsFound
  <2>4. \A p \in FirstCherry(T, fs[1]) :
            /\ RuleForCherry(fs, p[1], p[2]) # {}
            /\ \A r \in RuleForCherry(fs, p[1], p[2]) : Fits(r, fs)
            /\ Fits(ApproximationRuleForCherry(fs, p[1], p[2]), fs)
    BY <2>1, <2>2, <2>3, RulesForCherryFit, ApproximationRuleFits
  <2>5. AllRules(T, fs) # {} /\ \A r \in AllRules(T, fs) : Fits(r, fs)
    BY <2>3, <2>4 DEF AllRules
  <2>6. /\ ApproximationRules(T, fs) # {}
        /\ \A r \in ApproximationRules(T, fs) : Fits(r, fs)
    BY <2>3, <2>4 DEF ApproximationRules
  <2> QED
    BY <2>5, <2>6
<1> QED
  BY <1>2, <1>3, <1>4 DEF FirstApplicable

-----------------------------------------------------------------------------
(* What a rule that fits leaves.                                           *)

\* The prunes of ABCBranchingRule in one forest.
PrunesOf(F, a, c) ==
    [k \in DOMAIN PendantNodes(F, a, c) |-> Prune(PendantNodes(F, a, c)[k])]

\* The branches of ABCBranchingRule.
LEMMA ABCPlans ==
    ASSUME NEW fs, NEW a, NEW c
    PROVE  ABCRule(fs, a, c).plans
               = <<[i \in TreeIds |-> PrunesOf(fs[i], a, c)],
                   Everywhere(<<Isolate(c, NoLabel)>>), Everywhere(<<Isolate(a, c)>>)>>
BY NewRuleFields DEF ABCRule, PrunesOf

\* Siblings have two terminals.
LEMMA SiblingsDiffer ==
    ASSUME NEW F \in Forest, WellFormed(F), NEW a \in Labels, NEW c,
           AreSiblings(F, a, c)
    PROVE  /\ TerminalOf(F, a) # TerminalOf(F, c)
           /\ TerminalOf(F, a) \in Hanging(F)
<1> DEFINE A == TerminalOf(F, a)
           C == TerminalOf(F, c)
<1>1. A \in Terminals(F)
  BY TerminalOfLabel
<1>2. HasParent(F, A) /\ Sibling(F, A) = C
  BY DEF AreSiblings
<1> HIDE DEF A, C
<1>3. A \cap C = {} /\ A # {}
  BY <1>1, <1>2, Family DEF Terminals
<1>4. A # C /\ A \in Hanging(F)
  BY <1>1, <1>2, <1>3 DEF Hanging
<1> QED
  BY <1>4 DEF A, C

\* The first branch of ABCBranchingRule makes its pair a cherry of all forests.
LEMMA PruningMakesCherries ==
    ASSUME NEW fs, Settled(fs), NoLoose(fs), NEW a \in Labels, NEW c \in Labels,
           AreSiblings(fs[1], a, c), \A i \in TreeIds : Connected(fs[i], a, c),
           NEW plan \in Plan, plan = [i \in TreeIds |-> PrunesOf(fs[i], a, c)],
           NEW gs, NEW prot, NEW qrot, RunsTo(plan, fs, prot, gs, qrot)
    PROVE  /\ Settled(gs) /\ NoLoose(gs) /\ Cherry(gs, a, c)
           /\ \A i \in TreeIds : Terminals(gs[i]) = Terminals(fs[i])
<1>0. 1 \in TreeIds
  BY NumTreesIsPositive DEF TreeIds
<1>1. \A i \in TreeIds : /\ fs[i] \in Forest /\ WellFormed(fs[i])
                         /\ Terminals(fs[i]) = Terminals(fs[1])
  BY DEF Settled
<1>2. /\ TerminalOf(fs[1], a) # TerminalOf(fs[1], c)
      /\ TerminalOf(fs[1], a) \in Hanging(fs[1])
  BY <1>0, <1>1, SiblingsDiffer
<1>3. ASSUME NEW i \in TreeIds
      PROVE  AreSiblings(gs[i], a, c)
  <2> DEFINE F == fs[i]
             bs == PendantNodes(F, a, c)
             es == [k \in DOMAIN bs |-> Prune(bs[k])]
             P == AtTree(prot, i)
             u == StateOf(gs, qrot, i)
             d == Len(bs)
             D == PrunedOff(bs, d)
  <2>1. F \in Forest /\ WellFormed(F)
    BY <1>1
  <2>2. bs \in Seq(F)
    BY <2>1, PendantNodesArePendants
  <2>3. plan[i] = es
    BY DEF PrunesOf
  <2>4. DOMAIN bs = 1..d /\ d \in Nat /\ d \in 0..d
    BY <2>2
  <2>5. plan[i] \in Seq(Edit)
    BY PlansAreTyped
  <2>6. Len(es) = d
    <3> HIDE DEF bs, d
    <3> QED
      BY <2>3, <2>4, <2>5
  <2>7. Ran(es, d, <<F, P>>, u)
    <3>1. Ran(plan[i], Len(plan[i]), StateOf(fs, prot, i), u)
      BY DEF RunsTo
    <3>2. StateOf(fs, prot, i) = <<F, P>>
      BY DEF StateOf
    <3> HIDE DEF F, P, u, es, d
    <3> QED
      BY <2>3, <2>6, <3>1, <3>2
  <2>8. P \in SUBSET Node
    BY DEF AtTree
  <2>9. u[1] = gs[i]
    BY DEF StateOf
  <2>10. TerminalOf(F, a) # TerminalOf(F, c)
    BY <1>0, <1>1, <1>2, SameTerminals
  <2>11. Connected(F, a, c)
    OBVIOUS
  <2>l. /\ bs = PendantNodes(F, a, c) /\ d \in 0..Len(bs)
        /\ es = PruneEach(bs)
    BY <2>4 DEF PruneEach
  <2> HIDE DEF F, P, u, es, bs, d
  <2>12. u[1] = Pruned(F, a, c, D)
    BY <2>1, <2>7, <2>8, <2>l, PrunesRun
  <2>13. D = UNION {bs[k] : k \in DOMAIN bs}
    BY <2>4 DEF PrunedOff
  <2> HIDE DEF D
  <2>14. AreSiblings(Pruned(F, a, c, D), a, c)
    BY <2>1, <2>10, <2>11, <2>13, PruningMakesCherry DEF bs
  <2> QED
    BY <2>9, <2>12, <2>14
<1>4. gs[1] = fs[1]
  <2> DEFINE v == StateOf(fs, prot, 1)
             u == StateOf(gs, qrot, 1)
  <2>1. PendantNodes(fs[1], a, c) = <<>>
    BY <1>0, <1>1, SiblingsHaveNoPendants
  <2>2. plan[1] = <<>>
    <3>1. plan[1] = [k \in DOMAIN <<>> |-> Prune(<<>>[k])]
      BY <1>0, <2>1 DEF PrunesOf
    <3>2. plan[1] \in Seq(Edit) /\ DOMAIN plan[1] = 1..Len(plan[1]) /\ Len(plan[1]) \in Nat
      BY <1>0, PlansAreTyped
    <3>3. DOMAIN plan[1] = {}
      BY <3>1
    <3>4. Len(plan[1]) = 0
      <4>1. Len(plan[1]) # 0 => 1 \in 1..Len(plan[1])
        BY <3>2
      <4> QED
        BY <3>2, <3>3, <4>1
    <3> HIDE DEF v, u
    <3> QED
      BY <3>2, <3>4
  <2>3. Ran(<<>>, 0, v, u)
    BY <1>0, <2>2 DEF RunsTo
  <2>4. u = v
    BY <2>3, NothingRan
  <2> QED
    BY <2>4 DEF StateOf
<1>5. Cutting(plan)
  <2>1. \A i \in TreeIds : \A q \in DOMAIN plan[i] : plan[i][q].kind = "prune"
    BY DEF PrunesOf, Prune
  <2> QED
    BY <2>1 DEF Cutting
<1>6. Hanging(fs[1]) # {}
  BY <1>2
<1>7. /\ Settled(gs) /\ NoLoose(gs)
      /\ \A i \in TreeIds : Terminals(gs[i]) = Terminals(fs[i])
  BY <1>4, <1>5, <1>6, CutsBesideFirstSettle
<1> QED
  BY <1>3, <1>7 DEF Cherry

\* A rule that fits leads from settled forests to settled forests, with the
\* same terminals unless it merged a cherry.
THEOREM RuleSettles ==
    ASSUME NEW r \in Rule, PlansFit(r.name, r.plans), NEW fs, Fits(r, fs),
           Settled(fs), NEW p \in DOMAIN r.plans,
           NEW gs, NEW prot, NEW qrot, RunsTo(r.plans[p], fs, prot, gs, qrot)
    PROVE  /\ Settled(gs)
           /\ \/ Merged(fs, gs)
              \/ \A i \in TreeIds : Terminals(gs[i]) = Terminals(fs[i])
           /\ r.name = "CheckSingleVertexTrees" => AtEnd(gs)
           /\ r.name = "ABC" /\ p = 1 => Fits(EqualPairRule(r.a, r.c), gs)
<1>0. 1 \in TreeIds
  BY NumTreesIsPositive DEF TreeIds
<1>1. r.plans[p] \in Plan /\ r.plans \in Seq(Plan) /\ r.name \in RuleNames
  BY DEF Rule
<1>2. CASE r.name \in {"CutBranch", "CheckSingleVertexTrees"}
  <2>1. r.plans[p] = NoEdits
    BY <1>2 DEF Fits
  <2>2. \A i \in TreeIds : gs[i] = fs[i]
    BY <2>1, NoEditsSettle
  <2>3. Settled(gs) /\ \A i \in TreeIds : Terminals(gs[i]) = Terminals(fs[i])
    BY <1>0, <2>2 DEF Settled
  <2>4. r.name = "CheckSingleVertexTrees" => AtEnd(gs)
    BY <1>0, <2>2 DEF Fits, Settled, AtEnd
  <2> QED
    BY <1>2, <2>3, <2>4
<1>3. CASE r.name = "EqualPair"
  <2>1. r.plans[p] = Everywhere(<<Merge(r.a, r.c)>>)
    BY <1>3 DEF Fits
  <2>2. r.a \in Labels /\ r.c \in Labels /\ Cherry(fs, r.a, r.c) /\ NoLoose(fs)
    BY <1>3 DEF Fits
  <2>3. Settled(gs) /\ Merged(fs, gs)
    BY <2>1, <2>2, MergesSettle
  <2> QED
    BY <1>3, <2>3
<1>4. CASE r.name = "ForcedCherryCut"
  <2>1. NumTrees = 2 /\ Hanging(fs[1]) # {}
        /\ r.plans = ForcedCherryCutRule(fs, r.a, r.c).plans
    BY <1>4 DEF Fits
  <2>2. r.plans[p][1] = <<>>
    <3> DEFINE cuts == <<Detach(TerminalOf(fs[2], r.a)),
                         Detach(Sibling(fs[2], TerminalOf(fs[2], r.a))),
                         Detach(TerminalOf(fs[2], r.c))>>
               plan == [i \in TreeIds |-> IF i = 2 THEN cuts ELSE <<>>]
    <3>1. r.plans = <<plan>>
      BY <2>1, NewRuleFields DEF ForcedCherryCutRule
    <3>2. plan[1] = <<>>
      BY <1>0
    <3> HIDE DEF plan
    <3>3. r.plans[p] = plan
      BY <3>1
    <3> QED
      BY <3>2, <3>3
  <2>3. gs[1] = fs[1]
    <3>1. Ran(<<>>, 0, StateOf(fs, prot, 1), StateOf(gs, qrot, 1))
      BY <1>0, <2>2 DEF RunsTo
    <3>2. StateOf(gs, qrot, 1) = StateOf(fs, prot, 1)
      BY <3>1, NothingRan
    <3> QED
      BY <3>2 DEF StateOf
  <2>4. Cutting(r.plans[p])
    BY <1>4 DEF PlansFit
  <2> QED
    BY <1>1, <1>4, <2>1, <2>3, <2>4, CutsBesideFirstSettle
<1>5. CASE r.name = "ABC"
  <2>1. /\ r.a \in Labels /\ r.c \in Labels
        /\ r.plans = ABCRule(fs, r.a, r.c).plans
        /\ AreSiblings(fs[1], r.a, r.c)
        /\ \A i \in TreeIds : Connected(fs[i], r.a, r.c)
        /\ NoLoose(fs)
    BY <1>5 DEF Fits
  <2> DEFINE first == [i \in TreeIds |-> PrunesOf(fs[i], r.a, r.c)]
             second == Everywhere(<<Isolate(r.c, NoLabel)>>)
             third == Everywhere(<<Isolate(r.a, r.c)>>)
  <2>2. r.plans = <<first, second, third>>
    BY <2>1, ABCPlans
  <2>3. IsolatesAll(second, fs) /\ IsolatesAll(third, fs)
    BY <2>1, NothingLooseToIsolate
  <2> HIDE DEF first, second, third
  <2>4. \/ p = 1 /\ r.plans[p] = first
        \/ p # 1 /\ r.plans[p] \in {second, third}
    BY <2>2
  <2>5. CASE p = 1 /\ r.plans[p] = first
    <3>1. /\ Settled(gs) /\ NoLoose(gs) /\ Cherry(gs, r.a, r.c)
          /\ \A i \in TreeIds : Terminals(gs[i]) = Terminals(fs[i])
      BY <1>1, <2>1, <2>5, PruningMakesCherries DEF first
    <3> QED
      BY <1>5, <2>1, <3>1, EqualPairRuleFits
  <2>6. CASE p # 1 /\ r.plans[p] \in {second, third}
    <3>1. Settled(gs) /\ \A i \in TreeIds : Terminals(gs[i]) = Terminals(fs[i])
      BY <1>1, <2>3, <2>6, IsolatesSettle
    <3> QED
      BY <1>5, <2>6, <3>1
  <2> QED
    BY <2>4, <2>5, <2>6
<1>6. CASE r.name \in Isolating
  <2>1. IsolatesAll(r.plans[p], fs)
    BY <1>6 DEF Fits
  <2>2. Settled(gs) /\ \A i \in TreeIds : Terminals(gs[i]) = Terminals(fs[i])
    BY <1>1, <2>1, IsolatesSettle
  <2> QED
    BY <1>6, <2>2 DEF Isolating
<1> QED
  BY <1>1, <1>2, <1>3, <1>4, <1>5, <1>6 DEF RuleNames, Isolating, Fits

-----------------------------------------------------------------------------
(* What the next edit of a rule that fits finds.                           *)

\* The nodes an edit needs are in the forest when its turn comes: nothing is
\* cut twice where that is not expected, and only siblings are merged.
THEOREM NextEditFits ==
    ASSUME NEW r \in Rule, PlansFit(r.name, r.plans), NEW fs, Fits(r, fs),
           Settled(fs), NEW p \in DOMAIN r.plans, NEW i \in TreeIds, NEW prot,
           NEW es, es = r.plans[p][i], NEW d \in Nat, d < Len(es),
           NEW u, Ran(es, d, StateOf(fs, prot, i), u)
    PROVE  /\ u \in States
           /\ Goal(u[1], es[d + 1]) \in u[1]
           /\ es[d + 1].kind = "prune" => HasParent(u[1], Goal(u[1], es[d + 1]))
           /\ es[d + 1].kind = "merge" => AreSiblings(u[1], es[d + 1].label, es[d + 1].mate)
           /\ es[d + 1].kind # "merge" => CutDown(fs[i], u[1])
<1> DEFINE v == StateOf(fs, prot, i)
           e == es[d + 1]
<1>0. 1 \in TreeIds
  BY NumTreesIsPositive DEF TreeIds
<1>1. r.plans[p] \in Plan /\ r.plans \in Seq(Plan) /\ r.name \in RuleNames
  BY DEF Rule
<1>2. /\ es \in Seq(Edit) /\ Len(es) \in Nat /\ DOMAIN es = 1..Len(es)
      /\ d \in 0..Len(es) /\ d + 1 \in DOMAIN es
      /\ \A j \in 1..d : j \in DOMAIN es
  BY <1>1, PlansAreTyped
<1>3. /\ fs[i] \in Forest /\ WellFormed(fs[i])
      /\ v \in States /\ v[1] = fs[i] /\ v[2] = AtTree(prot, i)
  BY StatesOfForests DEF Settled
<1>4. ASSUME r.name # "EqualPair"
      PROVE  /\ u \in States /\ CutDown(fs[i], u[1])
             /\ \A j \in DOMAIN es : es[j].kind # "merge"
  <2>1. \A j \in DOMAIN es : es[j].kind # "merge"
    BY <1>4 DEF PlansFit, Cutting
  <2>2. Ran(es, d, v, u)
    OBVIOUS
  <2> HIDE DEF v
  <2> QED
    BY <1>2, <1>3, <2>1, <2>2, CutsRun
<1>5. ASSUME r.name # "EqualPair", es[d + 1].kind = "isolate",
             es[d + 1].label \in Labels
      PROVE  Goal(u[1], es[d + 1]) \in u[1]
  <2>1. u[1] \in Forest /\ WellFormed(u[1])
    BY <1>4, <1>5 DEF CutDown
  <2> QED
    BY <1>5, <2>1, TerminalOfLabel DEF Goal, Terminals
<1>6. CASE r.name \in {"CutBranch", "CheckSingleVertexTrees"}
  <2>1. r.plans[p] = NoEdits
    BY <1>6 DEF Fits
  <2>2. es = <<>>
    BY <2>1 DEF NoEdits, Everywhere
  <2> QED
    BY <2>2
<1>7. CASE r.name = "EqualPair"
  <2>1. r.plans[p] = Everywhere(<<Merge(r.a, r.c)>>)
    BY <1>7 DEF Fits
  <2>2. es = <<Merge(r.a, r.c)>>
    BY <2>1 DEF Everywhere
  <2>3. r.a \in Labels /\ AreSiblings(fs[i], r.a, r.c)
    BY <1>7 DEF Fits, Cherry
  <2>4. d = 0
    BY <2>2
  <2>5. u = v
    BY <2>4, NothingRan
  <2>6. es[d + 1] = Merge(r.a, r.c)
    BY <2>2, <2>4
  <2>7. e.kind = "merge" /\ e.label = r.a /\ e.mate = r.c
    BY <2>6 DEF Merge
  <2> HIDE DEF v, e
  <2>8. Goal(u[1], e) = Parent(fs[i], TerminalOf(fs[i], r.a))
    BY <1>3, <2>5, <2>7 DEF Goal
  <2>9. Goal(u[1], e) \in u[1]
    <3>1. TerminalOf(fs[i], r.a) \in fs[i] /\ HasParent(fs[i], TerminalOf(fs[i], r.a))
      BY <1>3, <2>3, TerminalOfLabel DEF AreSiblings, Terminals
    <3> QED
      BY <1>3, <2>5, <2>8, <3>1, Family
  <2> QED
    BY <1>3, <2>3, <2>5, <2>7, <2>9 DEF e
<1>8. CASE r.name = "ForcedCherryCut"
  <2>1. /\ NumTrees = 2 /\ r.a \in Labels /\ r.c \in Labels
        /\ HasParent(fs[2], TerminalOf(fs[2], r.a))
        /\ r.plans = ForcedCherryCutRule(fs, r.a, r.c).plans
    BY <1>8 DEF Fits
  <2> DEFINE cuts == <<Detach(TerminalOf(fs[2], r.a)),
                       Detach(Sibling(fs[2], TerminalOf(fs[2], r.a))),
                       Detach(TerminalOf(fs[2], r.c))>>
             plan == [k \in TreeIds |-> IF k = 2 THEN cuts ELSE <<>>]
  <2>2. r.plans = <<plan>>
    BY <2>1, NewRuleFields DEF ForcedCherryCutRule
  <2>3. plan[i] = IF i = 2 THEN cuts ELSE <<>>
    OBVIOUS
  <2> HIDE DEF plan
  <2>4. es = IF i = 2 THEN cuts ELSE <<>>
    BY <2>2, <2>3
  <2>5. i = 2 /\ es = cuts /\ d \in 0..2
    BY <2>4
  <2>6. Ran(es, d, <<fs[2], AtTree(prot, 2)>>, u) /\ AtTree(prot, 2) \in SUBSET Node
    BY <2>5 DEF StateOf, AtTree
  <2>7. es[d + 1].kind = "detach"
    BY <2>5 DEF Detach
  <2> HIDE DEF v
  <2>8. es[d + 1].node \in u[1]
    BY <1>3, <2>1, <2>5, <2>6, DetachesRun
  <2> QED
    BY <1>4, <1>8, <2>7, <2>8 DEF Goal
<1>9. CASE r.name = "ABC"
  <2>1. /\ r.a \in Labels /\ r.c \in Labels
        /\ r.plans = ABCRule(fs, r.a, r.c).plans
    BY <1>9 DEF Fits
  <2> DEFINE first == [k \in TreeIds |-> PrunesOf(fs[k], r.a, r.c)]
             second == Everywhere(<<Isolate(r.c, NoLabel)>>)
             third == Everywhere(<<Isolate(r.a, r.c)>>)
  <2>2. r.plans = <<first, second, third>>
    BY <2>1, ABCPlans
  <2>3. /\ first[i] = PrunesOf(fs[i], r.a, r.c)
        /\ second[i] = <<Isolate(r.c, NoLabel)>> /\ third[i] = <<Isolate(r.a, r.c)>>
    BY DEF Everywhere
  <2> HIDE DEF first, second, third
  <2>p. r.plans[p] \in {first, second, third}
    BY <2>2
  <2>4. es \in {PrunesOf(fs[i], r.a, r.c), <<Isolate(r.c, NoLabel)>>, <<Isolate(r.a, r.c)>>}
    BY <2>3, <2>p
  <2>5. CASE es = PrunesOf(fs[i], r.a, r.c)
    <3> DEFINE bs == PendantNodes(fs[i], r.a, r.c)
    <3>1. bs \in Seq(fs[i])
      BY <1>3, <2>1, PendantNodesArePendants
    <3>2. es = [k \in DOMAIN bs |-> Prune(bs[k])] /\ es = PruneEach(bs)
      BY <2>5 DEF PrunesOf, PruneEach
    <3>3. Ran(es, d, <<fs[i], AtTree(prot, i)>>, u) /\ AtTree(prot, i) \in SUBSET Node
      BY DEF StateOf, AtTree
    <3> HIDE DEF bs
    <3>4. Len(es) = Len(bs) /\ d \in 0..Len(bs) /\ d < Len(bs)
      BY <1>2, <3>1, <3>2
    <3>5. bs[d + 1] \in u[1] /\ HasParent(u[1], bs[d + 1])
      BY <1>3, <2>1, <3>2, <3>3, <3>4, PrunesRun DEF bs
    <3>6. es[d + 1] = Prune(bs[d + 1])
      BY <1>2, <3>2
    <3>7. es[d + 1].kind = "prune" /\ es[d + 1].node = bs[d + 1]
      BY <3>6 DEF Prune
    <3>8. Goal(u[1], es[d + 1]) = bs[d + 1]
      BY <3>7 DEF Goal
    <3> QED
      BY <1>4, <1>9, <3>5, <3>7, <3>8
  <2>6. CASE es \in {<<Isolate(r.c, NoLabel)>>, <<Isolate(r.a, r.c)>>}
    <3>1. es[d + 1].kind = "isolate" /\ es[d + 1].label \in Labels
      BY <2>1, <2>6 DEF Isolate
    <3> QED
      BY <1>4, <1>5, <1>9, <3>1
  <2> QED
    BY <2>4, <2>5, <2>6
<1>10. CASE r.name \in Isolating
  <2>1. IsolatesAll(r.plans[p], fs)
    BY <1>10 DEF Fits
  <2>2. es[d + 1].kind = "isolate" /\ es[d + 1].label \in Labels
    BY <1>2, <2>1 DEF IsolatesAll
  <2>3. r.name # "EqualPair"
    BY <1>10 DEF Isolating
  <2> QED
    BY <1>4, <1>5, <2>2, <2>3
<1> QED
  BY <1>1, <1>6, <1>7, <1>8, <1>9, <1>10 DEF RuleNames, Isolating, Fits

-----------------------------------------------------------------------------
(* The partitions that can still be reached.                               *)

\* The forests have the same terminals.
Level(fs) ==
    \A i \in TreeIds : /\ fs[i] \in Forest /\ WellFormed(fs[i])
                       /\ Terminals(fs[i]) = Terminals(fs[1])

\* A partition of the labels that can still be reached from the forests: its
\* blocks fit every one of them and induce the same in all.
AgreesOn(fs, P) ==
    /\ IsPartition(P, Labels)
    /\ \A i \in TreeIds : /\ Divides(P, fs[i])
                          /\ \A b \in P : Induced(fs[i], b) = Induced(fs[1], b)

\* Settled forests have the same terminals.
LEMMA SettledIsLevel == ASSUME NEW fs, Settled(fs) PROVE Level(fs)
  BY DEF Settled, Level

\* There is a first tree.
LEMMA FirstTree == 1 \in TreeIds
  BY NumTreesIsPositive DEF TreeIds

\* Splitting off a terminal.
LEMMA SplitAgrees ==
    ASSUME NEW fs, Level(fs), NEW P, AgreesOn(fs, P),
           NEW t \in Terminals(fs[1]), NEW b \in P, t \subseteq b, t # b
    PROVE  /\ AgreesOn(fs, SplitOff(P, b, t))
           /\ t \in SplitOff(P, b, t)
           /\ Cardinality(SplitOff(P, b, t)) = Cardinality(P) + 1
           /\ \A d \in SplitOff(P, b, t) : \E e \in P : d \subseteq e
<1>1. t # {}
  BY FirstTree, TerminalsAreApart DEF Level
<1>2. IsPartition(P, Labels)
  BY DEF AgreesOn
<1>3. IsPartition(SplitOff(P, b, t), Labels)
  BY <1>1, <1>2, SplitIsPartition
<1>4. Cardinality(SplitOff(P, b, t)) = Cardinality(P) + 1
  BY <1>1, <1>2, SplitCounts
<1>5. ASSUME NEW i \in TreeIds PROVE Divides(SplitOff(P, b, t), fs[i])
  BY <1>2, SplitDivides DEF AgreesOn, Level
<1>6. \A d \in SplitOff(P, b, t) : \E e \in P : d \subseteq e
  BY DEF SplitOff
<1>7. ASSUME NEW i \in TreeIds, NEW d \in SplitOff(P, b, t)
      PROVE  Induced(fs[i], d) = Induced(fs[1], d)
    <2>1. PICK e \in P : d \subseteq e
      BY <1>6
    <2>2. Induced(fs[i], e) = Induced(fs[1], e)
      BY DEF AgreesOn
    <2> QED
      BY <2>1, <2>2, InducedOfPart
<1>8. t \in SplitOff(P, b, t)
  BY DEF SplitOff
<1> QED
  BY <1>3, <1>4, <1>5, <1>6, <1>7, <1>8 DEF AgreesOn

\* Joining a terminal to the block of its sibling.
LEMMA JoinAgrees ==
    ASSUME NEW fs, Level(fs), NEW P, AgreesOn(fs, P), NEW t, NEW s,
           \A i \in TreeIds : IsCherry(fs[i], t, s),
           t \in P, NEW c \in P, s \subseteq c, c # t
    PROVE  /\ AgreesOn(fs, JoinedTo(P, t, c))
           /\ Cardinality(JoinedTo(P, t, c)) = Cardinality(P) - 1
           /\ t \cup c \in JoinedTo(P, t, c)
<1>1. IsPartition(P, Labels)
  BY DEF AgreesOn
<1>2. /\ IsPartition(JoinedTo(P, t, c), Labels)
      /\ Cardinality(JoinedTo(P, t, c)) = Cardinality(P) - 1
  BY <1>1, JoinIsPartition, JoinCounts
<1>3. t \cap c = {}
  BY <1>1 DEF IsPartition
<1>4. ASSUME NEW i \in TreeIds
      PROVE  /\ Divides(JoinedTo(P, t, c), fs[i])
             /\ Induced(fs[i], t \cup c) = Grown(Induced(fs[i], c), t, s)
    <2>1. PICK F \in Forest : F = fs[i] /\ WellFormed(F) /\ IsCherry(F, t, s) /\ Divides(P, F)
      BY DEF Level, AgreesOn
    <2>2. Divides(JoinedTo(P, t, c), F)
      BY <1>1, <2>1, JoinDivides
    <2>3. Induced(F, t \cup c) = Grown(Induced(F, c), t, s)
      BY <1>3, <2>1, InducedOfJoined
    <2> QED
      BY <2>1, <2>2, <2>3
<1>5. \A i \in TreeIds : \A b \in P : Induced(fs[i], b) = Induced(fs[1], b)
  BY DEF AgreesOn
<1>6. ASSUME NEW i \in TreeIds, NEW d \in JoinedTo(P, t, c)
      PROVE  Induced(fs[i], d) = Induced(fs[1], d)
    <2>1. CASE d \in P
      BY <1>5, <2>1
    <2>2. CASE d = t \cup c
        <3>1. Induced(fs[i], c) = Induced(fs[1], c)
          BY <1>5
        <3> QED
          BY <1>4, <2>2, <3>1, FirstTree
    <2> QED
      BY <2>1, <2>2 DEF JoinedTo
<1>7. t \cup c \in JoinedTo(P, t, c)
  BY DEF JoinedTo
<1> QED
  BY <1>2, <1>4, <1>6, <1>7 DEF AgreesOn

\* A cherry has two sides.
LEMMA CherryIsSymmetric ==
    ASSUME NEW F \in Forest, WellFormed(F), NEW t, NEW s, IsCherry(F, t, s)
    PROVE  IsCherry(F, s, t)
<1>1. AroundCherry(F, t, s)
  BY CherryNodes
<1>2. t \in F /\ s \in F /\ t \cup s \in F /\ t # {} /\ s # {} /\ t \cap s = {}
  BY <1>1 DEF AroundCherry
<1>3. \A m \in F : m = t \/ m = s \/ m \cap (t \cup s) = {} \/ t \cup s \subseteq m
  BY CherryIsWhole
<1>4. Above(s, t \cup s) /\ \A m \in F : Above(s, m) => t \cup s \subseteq m
  BY <1>2, <1>3 DEF Above
<1>5. HasParent(F, s) /\ Parent(F, s) = t \cup s
  BY <1>2, <1>4, ParentIsInnermost DEF NullNode
<1>6. Sibling(F, s) = t
  BY <1>2, <1>5 DEF Sibling
<1> QED
  BY <1>5, <1>6 DEF IsCherry

\* What a partition that joins a cherry looks like beside one that does not.
Joining(P, Q, t, s) ==
    /\ Cardinality(Q) = Cardinality(P) - 1
    /\ \E b \in Q : /\ t \cup s \subseteq b
                    /\ \A l \in b : \E d \in P : l \in d /\ (t \subseteq d \/ s \subseteq d)

\* A cherry of all the forests can be joined.
LEMMA CherryJoins ==
    ASSUME NEW fs, Level(fs), NEW P, AgreesOn(fs, P), NEW t, NEW s,
           \A i \in TreeIds : IsCherry(fs[i], t, s),
           ~ \E b \in P : t \cup s \subseteq b
    PROVE  \E Q : AgreesOn(fs, Q) /\ Joining(P, Q, t, s)
<1>1. PICK F \in Forest : F = fs[1] /\ WellFormed(F) /\ IsCherry(F, t, s) /\ Divides(P, F)
  BY FirstTree DEF Level, AgreesOn
<1>2. IsPartition(P, Labels)
  BY DEF AgreesOn
<1>3. t \in Terminals(F) /\ s \in Terminals(F)
  BY <1>1 DEF IsCherry
<1>4. PICK b \in P : t \subseteq b
  BY <1>1, <1>2, <1>3, KeptTerminalIsBlock
<1>5. PICK c \in P : s \subseteq c
  BY <1>1, <1>2, <1>3, KeptTerminalIsBlock
<1>6. b # c
  BY <1>4, <1>5
<1>7. b = t \/ c = s
  BY <1>1, <1>2, <1>4, <1>5, <1>6, Separated
<1>8. CASE b = t
    <2>1. /\ AgreesOn(fs, JoinedTo(P, t, c))
          /\ Cardinality(JoinedTo(P, t, c)) = Cardinality(P) - 1
          /\ t \cup c \in JoinedTo(P, t, c)
      BY <1>5, <1>6, <1>8, JoinAgrees
    <2>2. /\ t \cup s \subseteq t \cup c
          /\ \A l \in t \cup c : \E d \in P : l \in d /\ (t \subseteq d \/ s \subseteq d)
      BY <1>4, <1>5
    <2> QED
      BY <2>1, <2>2 DEF Joining
<1>9. CASE c = s
    <2>0. \A i \in TreeIds : IsCherry(fs[i], s, t)
      BY CherryIsSymmetric DEF Level
    <2>1. /\ AgreesOn(fs, JoinedTo(P, s, b))
          /\ Cardinality(JoinedTo(P, s, b)) = Cardinality(P) - 1
          /\ s \cup b \in JoinedTo(P, s, b)
      BY <2>0, <1>4, <1>6, <1>9, JoinAgrees
    <2>2. /\ t \cup s \subseteq s \cup b
          /\ \A l \in s \cup b : \E d \in P : l \in d /\ (t \subseteq d \/ s \subseteq d)
      BY <1>4, <1>5
    <2> QED
      BY <2>1, <2>2 DEF Joining
<1> QED
  BY <1>7, <1>8, <1>9

\* A terminal, cut unless it is a root.
Isolated(F, x) == IF HasParent(F, x) THEN CutEdge(F, x) ELSE F

\* In all the forests.
IsolatedIn(fs, x) == [i \in TreeIds |-> Isolated(fs[i], x)]

\* Isolating a terminal keeps the terminals.
LEMMA IsolatedForest ==
    ASSUME NEW F \in Forest, WellFormed(F), NEW x \in Terminals(F),
           NEW P, IsPartition(P, Labels)
    PROVE  /\ Isolated(F, x) \in Forest /\ WellFormed(Isolated(F, x))
           /\ Terminals(Isolated(F, x)) = Terminals(F)
           /\ Divides(P, Isolated(F, x)) <=> Divides(P, F) /\ x \in P
           /\ x \in P => \A b \in P : Induced(Isolated(F, x), b) = Induced(F, b)
<1>1. x \in F
  BY DEF Terminals
<1>2. CASE ~ HasParent(F, x)
    <2>1. Isolated(F, x) = F
      BY <1>2 DEF Isolated
    <2>2. Divides(P, F) => x \in P
      BY <1>2, KeptTerminalIsBlock
    <2> QED
      BY <2>1, <2>2
<1>3. CASE HasParent(F, x)
    <2>1. Isolated(F, x) = CutEdge(F, x)
      BY <1>3 DEF Isolated
    <2>2. /\ CutEdge(F, x) \in Forest /\ WellFormed(CutEdge(F, x))
          /\ Terminals(CutEdge(F, x)) = Terminals(F)
      BY <1>1, <1>3, CutKeepsForest, CutKeepsTerminals
    <2>3. Blocks(P)
      BY DEF Blocks, IsPartition
    <2>4. /\ KeepsTo(P, x) => (Divides(P, CutEdge(F, x)) <=> Divides(P, F))
          /\ Divides(P, CutEdge(F, x)) => KeepsTo(P, x)
      BY <1>1, <1>3, <2>3, CutDivides
    <2>5. Divides(P, F) => (KeepsTo(P, x) <=> x \in P)
      BY KeptTerminalIsBlock
    <2>6. x \in P => KeepsTo(P, x)
      BY DEF IsPartition, KeepsTo
    <2>7. x \in P => \A b \in P : Induced(CutEdge(F, x), b) = Induced(F, b)
      BY <1>1, <1>3, <2>6, InducedAfterCut DEF KeepsTo
    <2> QED
      BY <2>1, <2>2, <2>4, <2>5, <2>6, <2>7
<1> QED
  BY <1>2, <1>3

\* The partitions the forests allow once x is isolated are those with x as a
\* block.
LEMMA IsolatedAgrees ==
    ASSUME NEW fs, Level(fs), NEW x \in Terminals(fs[1])
    PROVE  /\ Level(IsolatedIn(fs, x))
           /\ Terminals(IsolatedIn(fs, x)[1]) = Terminals(fs[1])
           /\ \A P : AgreesOn(IsolatedIn(fs, x), P) <=> AgreesOn(fs, P) /\ x \in P
<1>1. \A i \in TreeIds : IsolatedIn(fs, x)[i] = Isolated(fs[i], x)
  BY DEF IsolatedIn
<1>2. IsPartition({Labels} \ {{}}, Labels)
  BY DEF IsPartition
<1>3. ASSUME NEW i \in TreeIds, NEW P, IsPartition(P, Labels)
      PROVE  /\ Isolated(fs[i], x) \in Forest /\ WellFormed(Isolated(fs[i], x))
             /\ Terminals(Isolated(fs[i], x)) = Terminals(fs[1])
             /\ Divides(P, Isolated(fs[i], x)) <=> Divides(P, fs[i]) /\ x \in P
             /\ x \in P => \A b \in P : Induced(Isolated(fs[i], x), b) = Induced(fs[i], b)
    <2>1. fs[i] \in Forest /\ WellFormed(fs[i]) /\ x \in Terminals(fs[i])
      BY DEF Level
    <2> QED
      BY <1>3, <2>1, IsolatedForest DEF Level
<1>4. Level(IsolatedIn(fs, x)) /\ Terminals(IsolatedIn(fs, x)[1]) = Terminals(fs[1])
  BY <1>1, <1>2, <1>3, FirstTree DEF Level
<1>5. ASSUME NEW P, IsPartition(P, Labels)
      PROVE  AgreesOn(IsolatedIn(fs, x), P) <=> AgreesOn(fs, P) /\ x \in P
    <2>1. ASSUME AgreesOn(IsolatedIn(fs, x), P) PROVE AgreesOn(fs, P) /\ x \in P
      BY <1>1, <1>3, <1>5, <2>1, FirstTree DEF AgreesOn
    <2>2. ASSUME AgreesOn(fs, P) /\ x \in P PROVE AgreesOn(IsolatedIn(fs, x), P)
      BY <1>1, <1>3, <1>5, <2>2, FirstTree DEF AgreesOn
    <2> QED
      BY <2>1, <2>2
<1>6. \A P : AgreesOn(IsolatedIn(fs, x), P) <=> AgreesOn(fs, P) /\ x \in P
  BY <1>5 DEF AgreesOn
<1> QED
  BY <1>4, <1>6

\* Where isolating x makes a cherry everywhere, x costs nothing: what it adds
\* is made up for by joining the cherry, unless the cherry was joined before.
LEMMA CutMakesUp ==
    ASSUME NEW fs, Level(fs), NEW P, AgreesOn(fs, P), NEW x \in Terminals(fs[1]),
           NEW t, NEW s, \A i \in TreeIds : IsCherry(IsolatedIn(fs, x)[i], t, s),
           x \in P \/ ~ \E b \in P : t \cup s \subseteq b
    PROVE  \E Q : AgreesOn(fs, Q) /\ x \in Q /\ Cardinality(Q) <= Cardinality(P)
<1>0. IsFiniteSet(P) /\ Cardinality(P) \in Nat
  BY BlocksAreFinite DEF AgreesOn
<1>1. CASE x \in P
  BY <1>0, <1>1
<1>2. CASE x \notin P
    <2>1. PICK b \in P : x \subseteq b
      BY FirstTree, KeptTerminalIsBlock DEF Level, AgreesOn
    <2>2. PICK P1 : P1 = SplitOff(P, b, x)
      OBVIOUS
    <2>3. /\ AgreesOn(fs, P1) /\ x \in P1 /\ Cardinality(P1) = Cardinality(P) + 1
          /\ \A d \in P1 : \E e \in P : d \subseteq e
      BY <1>2, <2>1, <2>2, SplitAgrees
    <2>4. ~ \E d \in P1 : t \cup s \subseteq d
      BY <1>2, <2>3
    <2>5. AgreesOn(IsolatedIn(fs, x), P1) /\ Level(IsolatedIn(fs, x))
      BY <2>3, IsolatedAgrees
    <2>6. PICK Q : AgreesOn(IsolatedIn(fs, x), Q) /\ Joining(P1, Q, t, s)
      BY <2>4, <2>5, CherryJoins
    <2>7. AgreesOn(fs, Q) /\ x \in Q
      BY <2>6, IsolatedAgrees
    <2>8. Cardinality(Q) = Cardinality(P1) - 1
      BY <2>6 DEF Joining
    <2> QED
      BY <1>0, <2>3, <2>7, <2>8
<1> QED
  BY <1>1, <1>2

\* A cherry stays one when another terminal is isolated.
LEMMA CherryStays ==
    ASSUME NEW F \in Forest, WellFormed(F), NEW t, NEW s, IsCherry(F, t, s),
           NEW x \in Terminals(F), x # t, x # s
    PROVE  IsCherry(Isolated(F, x), t, s)
<1>1. CASE ~ HasParent(F, x)
  BY <1>1 DEF Isolated
<1>2. CASE HasParent(F, x)
    <2>1. AroundCherry(F, t, s)
      BY CherryNodes
    <2>2. t \in F /\ s \in F /\ t \cup s \in F /\ t # {} /\ s # {} /\ t \cap s = {}
      BY <2>1 DEF AroundCherry
    <2>3. \A m \in F : m = t \/ m = s \/ m \cap (t \cup s) = {} \/ t \cup s \subseteq m
      BY CherryIsWhole
    <2>4. /\ x \in F /\ x # {} /\ \A m \in F : x \cap m = {} \/ x \subseteq m
          /\ \A m \in F : m \subseteq x => m = x
      BY TerminalsAreApart
    <2>5. t \in Terminals(F) /\ s \in Terminals(F)
      BY DEF IsCherry
    <2>6. x \cap (t \cup s) = {}
        <3>1. x \cap t = {} /\ x \cap s = {}
          BY <2>4, <2>5, TerminalsAreApart
        <3> QED
          BY <3>1
    <2>7. /\ CutEdge(F, x) \in Forest /\ WellFormed(CutEdge(F, x))
          /\ Terminals(CutEdge(F, x)) = Terminals(F)
      BY <1>2, <2>4, CutKeepsForest, CutKeepsTerminals
    <2>8. CutEdge(F, x) = {Trim(x, m) : m \in F}
      BY CutEdgeTrims
    <2>9. ~ Above(x, t) /\ ~ Above(x, s) /\ ~ Above(x, t \cup s)
      BY <2>4, <2>6 DEF Above
    <2>10. Trim(x, t) = t /\ Trim(x, s) = s /\ Trim(x, t \cup s) = t \cup s
      BY <2>9 DEF Trim
    <2>11. t \in CutEdge(F, x) /\ s \in CutEdge(F, x) /\ t \cup s \in CutEdge(F, x)
      BY <2>2, <2>8, <2>10
    <2>12. ASSUME NEW m \in CutEdge(F, x), Above(t, m) PROVE t \cup s \subseteq m
        <3>1. PICK k \in F : m = Trim(x, k)
          BY <2>8
        <3>2. m \subseteq k /\ (m = k \/ m = k \ x)
          BY <3>1 DEF Trim
        <3>3. t \cup s \subseteq k
          BY <2>2, <2>3, <2>12, <3>2 DEF Above
        <3> QED
          BY <2>6, <3>2, <3>3
    <2>13. Above(t, t \cup s)
      BY <2>2 DEF Above
    <2>14. HasParent(CutEdge(F, x), t) /\ Parent(CutEdge(F, x), t) = t \cup s
      BY <2>2, <2>7, <2>11, <2>12, <2>13, ParentIsInnermost DEF NullNode
    <2>15. Sibling(CutEdge(F, x), t) = s
      BY <2>2, <2>14 DEF Sibling
    <2> QED
      BY <1>2, <2>5, <2>7, <2>14, <2>15 DEF Isolated, IsCherry
<1> QED
  BY <1>1, <1>2

-----------------------------------------------------------------------------
(* Plans that lose nothing.                                                *)

\* A partition the edits of a plan do not divide: what is isolated is a block,
\* what is cut off divides no block, what is merged lies in one block.
ObeysEdit(P, F, e) ==
    CASE e.kind = "isolate" -> TerminalOf(F, e.label) \in P
      [] e.kind \in {"prune", "detach"} -> KeepsTo(P, e.node)
      [] e.kind = "merge" -> \E b \in P : e.label \in b /\ e.mate \in b

\* In every forest, every edit.
Obeys(P, fs, plan) ==
    \A i \in TreeIds : \A q \in DOMAIN plan[i] : ObeysEdit(P, fs[i], plan[i][q])

\* One of the plans loses nothing: every partition that can be reached has one
\* at least as small that obeys the plan.
Completes(plans, fs) ==
    \A P : AgreesOn(fs, P) =>
        \E Q : /\ AgreesOn(fs, Q) /\ Cardinality(Q) <= Cardinality(P)
               /\ \E p \in DOMAIN plans : Obeys(Q, fs, plans[p])

\* The plans of the rules, edit by edit.
LEMMA PlansObeyed ==
    ASSUME NEW P, NEW fs, Level(fs)
    PROVE  /\ Obeys(P, fs, NoEdits)
           /\ \A l \in Labels : \A m : TerminalOf(fs[1], l) \in P =>
                 Obeys(P, fs, Everywhere(<<Isolate(l, m)>>))
           /\ \A l, k \in Labels : \A m, n :
                 TerminalOf(fs[1], l) \in P /\ TerminalOf(fs[1], k) \in P =>
                     Obeys(P, fs, Everywhere(<<Isolate(l, m), Isolate(k, n)>>))
           /\ \A l, m \in Labels : (\E b \in P : l \in b /\ m \in b) =>
                 Obeys(P, fs, Everywhere(<<Merge(l, m)>>))
<1>1. \A i \in TreeIds : \A l \in Labels : TerminalOf(fs[i], l) = TerminalOf(fs[1], l)
  BY FirstTree, SameTerminals DEF Level
<1>2. Obeys(P, fs, NoEdits)
  BY DEF Obeys, NoEdits, Everywhere
<1>3. ASSUME NEW l \in Labels, NEW m, TerminalOf(fs[1], l) \in P, NEW i \in TreeIds
      PROVE  ObeysEdit(P, fs[i], Isolate(l, m))
  BY <1>1, <1>3 DEF ObeysEdit, Isolate
<1>4. ASSUME NEW l \in Labels, NEW m \in Labels, \E b \in P : l \in b /\ m \in b,
             NEW i \in TreeIds
      PROVE  ObeysEdit(P, fs[i], Merge(l, m))
  BY <1>4 DEF ObeysEdit, Merge
<1>5. \A x : \A i \in TreeIds : /\ Everywhere(<<x>>)[i] = <<x>>
                                /\ \A q \in DOMAIN <<x>> : <<x>>[q] = x
  BY DEF Everywhere
<1>6. \A x, y : \A i \in TreeIds :
          /\ Everywhere(<<x, y>>)[i] = <<x, y>>
          /\ \A q \in DOMAIN <<x, y>> : <<x, y>>[q] = x \/ <<x, y>>[q] = y
  BY DEF Everywhere
<1>7. \A l \in Labels : \A m : TerminalOf(fs[1], l) \in P =>
          Obeys(P, fs, Everywhere(<<Isolate(l, m)>>))
  BY <1>3, <1>5 DEF Obeys
<1>8. \A l, k \in Labels : \A m, n :
          TerminalOf(fs[1], l) \in P /\ TerminalOf(fs[1], k) \in P =>
              Obeys(P, fs, Everywhere(<<Isolate(l, m), Isolate(k, n)>>))
    <2> SUFFICES ASSUME NEW l \in Labels, NEW k \in Labels, NEW m, NEW n,
                        TerminalOf(fs[1], l) \in P, TerminalOf(fs[1], k) \in P
                 PROVE  Obeys(P, fs, Everywhere(<<Isolate(l, m), Isolate(k, n)>>))
      OBVIOUS
    <2>1. \A i \in TreeIds : ObeysEdit(P, fs[i], Isolate(l, m)) /\ ObeysEdit(P, fs[i], Isolate(k, n))
      BY <1>3
    <2> QED
      BY <2>1, <1>6 DEF Obeys
<1>9. \A l, m \in Labels : (\E b \in P : l \in b /\ m \in b) =>
          Obeys(P, fs, Everywhere(<<Merge(l, m)>>))
  BY <1>4, <1>5 DEF Obeys
<1> QED
  BY <1>2, <1>7, <1>8, <1>9

\* Siblings whose terminals are in all the forests.
LEMMA SiblingsAreCherry ==
    ASSUME NEW F \in Forest, WellFormed(F), NEW a \in Labels, NEW c \in Labels,
           AreSiblings(F, a, c)
    PROVE  IsCherry(F, TerminalOf(F, a), TerminalOf(F, c))
  BY TerminalOfLabel DEF AreSiblings, IsCherry

\* The parent of a pendant holds one end of the path.
LEMMA PendantParents ==
    ASSUME NEW F \in Forest, WellFormed(F), NEW a \in Labels, NEW c \in Labels,
           NEW k \in DOMAIN PendantNodes(F, a, c), NEW n, n = PendantNodes(F, a, c)[k]
    PROVE  /\ IsPendant(F, a, c, n)
           /\ \/ a \in Parent(F, n) /\ c \notin Parent(F, n)
              \/ c \in Parent(F, n) /\ a \notin Parent(F, n)
<1>1. IsPendant(F, a, c, n)
  BY PendantNodesArePendants
<1>2. PICK ps : ps = PendantsAlong(F, a, c)
  OBVIOUS
<1>3. PICK qs : qs = PendantsAlong(F, c, a)
  OBVIOUS
<1>4. /\ ps \in Seq(F) /\ \A j \in DOMAIN ps : \E m \in Chain(F, a, c) : ps[j] \subseteq m
  BY <1>2, PendantsAlongPath
<1>5. /\ qs \in Seq(F) /\ \A j \in DOMAIN qs : \E m \in Chain(F, c, a) : qs[j] \subseteq m
  BY <1>3, PendantsAlongPath
<1>6. PendantNodes(F, a, c) = ps \o qs
  BY <1>2, <1>3 DEF PendantNodes
<1>7. \/ k \in DOMAIN ps /\ n = ps[k]
      \/ k - Len(ps) \in DOMAIN qs /\ n = qs[k - Len(ps)]
  BY <1>4, <1>5, <1>6
<1>8. \/ \E m \in Chain(F, a, c) : n \subseteq m
      \/ \E m \in Chain(F, c, a) : n \subseteq m
  BY <1>4, <1>5, <1>7
<1>9. n \in F /\ HasParent(F, n) /\ a \notin n /\ c \notin n
  BY <1>1 DEF IsPendant
<1>10. /\ Parent(F, n) \in F /\ Above(n, Parent(F, n))
       /\ \A m \in F : Above(n, m) => Parent(F, n) \subseteq m
  BY <1>9, Family
<1>11. a \in Parent(F, n) \/ c \in Parent(F, n)
  BY <1>1, <1>10 DEF IsPendant
<1>12. \/ \E m \in F : a \in m /\ c \notin m /\ n \subseteq m
       \/ \E m \in F : c \in m /\ a \notin m /\ n \subseteq m
  BY <1>8 DEF Chain
<1>13. \/ \E m \in F : a \in m /\ c \notin m /\ Parent(F, n) \subseteq m
       \/ \E m \in F : c \in m /\ a \notin m /\ Parent(F, n) \subseteq m
  BY <1>9, <1>10, <1>12 DEF Above
<1> QED
  BY <1>1, <1>11, <1>13

\* Where the labels of a cherry of the first forest lie in one block, that
\* block passes every b-node by.
LEMMA TogetherKeepsPendants ==
    ASSUME NEW fs, Level(fs), NEW P, AgreesOn(fs, P),
           NEW a \in Labels, NEW c \in Labels, AreSiblings(fs[1], a, c),
           NEW d \in P, a \in d, c \in d,
           NEW i \in TreeIds, NEW k \in DOMAIN PendantNodes(fs[i], a, c)
    PROVE  KeepsTo(P, PendantNodes(fs[i], a, c)[k])
<1>1. PICK F \in Forest : F = fs[i] /\ WellFormed(F) /\ Divides(P, F)
  BY DEF Level, AgreesOn
<1>2. PICK G \in Forest : G = fs[1] /\ WellFormed(G) /\ Divides(P, G)
  BY FirstTree DEF Level, AgreesOn
<1>3. Terminals(F) = Terminals(G) /\ Induced(F, d) = Induced(G, d) /\ IsPartition(P, Labels)
  BY <1>1, <1>2 DEF Level, AgreesOn
<1>4. PICK A : A = TerminalOf(G, a)
  OBVIOUS
<1>5. PICK C : C = TerminalOf(G, c)
  OBVIOUS
<1>6. IsCherry(G, A, C)
  BY <1>2, <1>4, <1>5, SiblingsAreCherry
<1>7. AroundCherry(G, A, C)
  BY <1>2, <1>6, CherryNodes
<1>8. A \cup C \in G /\ A # {}
  BY <1>7 DEF AroundCherry
<1>9. a \in A /\ c \in C /\ A \in Terminals(G) /\ C \in Terminals(G)
  BY <1>2, <1>4, <1>5, TerminalOfLabel
<1>10. A \subseteq d /\ C \subseteq d
  BY <1>2, <1>9 DEF Divides
<1>11. A \cup C \in Induced(G, d)
    <2>1. A \cup C = (A \cup C) \cap d
      BY <1>10
    <2> QED
      BY <1>8, <2>1, InducedMembers
<1>12. PICK n : n = PendantNodes(F, a, c)[k]
  OBVIOUS
<1>13. /\ IsPendant(F, a, c, n)
       /\ \/ a \in Parent(F, n) /\ c \notin Parent(F, n)
          \/ c \in Parent(F, n) /\ a \notin Parent(F, n)
  BY <1>1, <1>12, PendantParents
<1>14. n \in F /\ HasParent(F, n) /\ a \notin n /\ c \notin n
  BY <1>13 DEF IsPendant
<1>15. A \cap n = {} /\ C \cap n = {}
  BY <1>1, <1>3, <1>9, <1>14, TerminalsAreApart
<1>16. KeepsTo(P, n)
  BY <1>1, <1>3, <1>9, <1>11, <1>13, <1>14, <1>15, PendantsApart
<1> QED
  BY <1>1, <1>12, <1>16

\* EqualPairReductionRule: joining siblings of all the forests loses nothing.
LEMMA EqualPairCompletes ==
    ASSUME NEW fs, Level(fs), NEW a \in Labels, NEW c \in Labels, Cherry(fs, a, c)
    PROVE  Completes(EqualPairRule(a, c).plans, fs)
<1>1. PICK A : A = TerminalOf(fs[1], a)
  OBVIOUS
<1>2. PICK C : C = TerminalOf(fs[1], c)
  OBVIOUS
<1>3. \A i \in TreeIds : IsCherry(fs[i], A, C)
    <2>1. \A i \in TreeIds : TerminalOf(fs[i], a) = A /\ TerminalOf(fs[i], c) = C
      BY <1>1, <1>2, FirstTree, SameTerminals DEF Level
    <2> QED
      BY <2>1, SiblingsAreCherry DEF Cherry, Level
<1>4. a \in A /\ c \in C
  BY <1>1, <1>2, FirstTree, TerminalOfLabel DEF Level
<1>5. EqualPairRule(a, c).plans = <<Everywhere(<<Merge(a, c)>>)>>
  BY NewRuleFields DEF EqualPairRule
<1>6. ASSUME NEW P, AgreesOn(fs, P)
      PROVE  \E Q : /\ AgreesOn(fs, Q) /\ Cardinality(Q) <= Cardinality(P)
                    /\ \E b \in Q : A \cup C \subseteq b
    <2>0. Cardinality(P) \in Nat
      BY <1>6, BlocksAreFinite DEF AgreesOn
    <2>1. CASE \E b \in P : A \cup C \subseteq b
      BY <1>6, <2>0, <2>1
    <2>2. CASE ~ \E b \in P : A \cup C \subseteq b
        <3>1. PICK Q : AgreesOn(fs, Q) /\ Joining(P, Q, A, C)
          BY <1>3, <1>6, <2>2, CherryJoins
        <3>2. Cardinality(Q) = Cardinality(P) - 1 /\ \E b \in Q : A \cup C \subseteq b
          BY <3>1 DEF Joining
        <3> QED
          BY <2>0, <3>1, <3>2
    <2> QED
      BY <2>1, <2>2
<1>7. ASSUME NEW P, AgreesOn(fs, P)
      PROVE  \E Q : /\ AgreesOn(fs, Q) /\ Cardinality(Q) <= Cardinality(P)
                    /\ Obeys(Q, fs, Everywhere(<<Merge(a, c)>>))
    <2>1. PICK Q : /\ AgreesOn(fs, Q) /\ Cardinality(Q) <= Cardinality(P)
                   /\ \E b \in Q : A \cup C \subseteq b
      BY <1>6, <1>7
    <2>2. \E b \in Q : a \in b /\ c \in b
      BY <1>4, <2>1
    <2> QED
      BY <2>1, <2>2, PlansObeyed
<1> QED
  BY <1>5, <1>7 DEF Completes

\* Two labels of a cherry of the first forest: they lie in one block or one of
\* their terminals is a block.
LEMMA CherryOfFirst ==
    ASSUME NEW fs, Level(fs), NEW P, AgreesOn(fs, P),
           NEW a \in Labels, NEW c \in Labels, AreSiblings(fs[1], a, c)
    PROVE  \/ \E b \in P : a \in b /\ c \in b
           \/ TerminalOf(fs[1], a) \in P
           \/ TerminalOf(fs[1], c) \in P
<1>1. PICK G \in Forest : G = fs[1] /\ WellFormed(G) /\ Divides(P, G)
  BY FirstTree DEF Level, AgreesOn
<1>2. IsPartition(P, Labels)
  BY DEF AgreesOn
<1>3. PICK A \in Terminals(G) : A = TerminalOf(G, a) /\ a \in A
  BY <1>1, TerminalOfLabel
<1>4. PICK C \in Terminals(G) : C = TerminalOf(G, c) /\ c \in C
  BY <1>1, TerminalOfLabel
<1>5. IsCherry(G, A, C)
  BY <1>1, <1>3, <1>4, SiblingsAreCherry
<1>6. PICK b \in P : A \subseteq b
  BY <1>1, <1>2, KeptTerminalIsBlock
<1>7. PICK d \in P : C \subseteq d
  BY <1>1, <1>2, KeptTerminalIsBlock
<1>8. b # d => b = A \/ d = C
  BY <1>1, <1>2, <1>5, <1>6, <1>7, Separated
<1> QED
  BY <1>1, <1>3, <1>4, <1>6, <1>7, <1>8

\* ACBranchingRule: labels that one of the forests holds apart.
LEMMA ACCompletes ==
    ASSUME NEW fs, Level(fs), NEW a \in Labels, NEW c \in Labels, AreSiblings(fs[1], a, c),
           NEW i \in TreeIds, ~ Connected(fs[i], a, c)
    PROVE  Completes(ACRule(a, c).plans, fs)
<1>1. ACRule(a, c).plans
          = <<Everywhere(<<Isolate(a, NoLabel)>>), Everywhere(<<Isolate(c, a)>>)>>
  BY NewRuleFields DEF ACRule
<1>2. ASSUME NEW P, AgreesOn(fs, P)
      PROVE  \/ Obeys(P, fs, Everywhere(<<Isolate(a, NoLabel)>>))
             \/ Obeys(P, fs, Everywhere(<<Isolate(c, a)>>))
    <2>1. ~ \E b \in P : a \in b /\ c \in b
      BY <1>2 DEF AgreesOn, Divides, Connected
    <2>2. TerminalOf(fs[1], a) \in P \/ TerminalOf(fs[1], c) \in P
      BY <1>2, <2>1, CherryOfFirst
    <2> QED
      BY <2>2, PlansObeyed
<1>3. \A P : AgreesOn(fs, P) => Cardinality(P) <= Cardinality(P)
  BY BlocksAreFinite DEF AgreesOn
<1> QED
  BY <1>1, <1>2, <1>3 DEF Completes

\* ABCBranchingRule: a alone, c alone, or a and c together and every b-node
\* beside their path.
LEMMA ABCCompletes ==
    ASSUME NEW fs, Level(fs), NEW a \in Labels, NEW c \in Labels, AreSiblings(fs[1], a, c)
    PROVE  Completes(ABCRule(fs, a, c).plans, fs)
<1>1. ABCRule(fs, a, c).plans
          = <<[i \in TreeIds |-> PrunesOf(fs[i], a, c)],
              Everywhere(<<Isolate(c, NoLabel)>>), Everywhere(<<Isolate(a, c)>>)>>
  BY ABCPlans
<1>2. ASSUME NEW P, AgreesOn(fs, P)
      PROVE  \/ Obeys(P, fs, [i \in TreeIds |-> PrunesOf(fs[i], a, c)])
             \/ Obeys(P, fs, Everywhere(<<Isolate(c, NoLabel)>>))
             \/ Obeys(P, fs, Everywhere(<<Isolate(a, c)>>))
    <2>1. CASE TerminalOf(fs[1], a) \in P \/ TerminalOf(fs[1], c) \in P
      BY <2>1, PlansObeyed
    <2>2. CASE \E b \in P : a \in b /\ c \in b
        <3>1. PICK b \in P : a \in b /\ c \in b
          BY <2>2
        <3>2. ASSUME NEW i \in TreeIds, NEW q \in DOMAIN PrunesOf(fs[i], a, c)
              PROVE  ObeysEdit(P, fs[i], PrunesOf(fs[i], a, c)[q])
            <4>1. /\ q \in DOMAIN PendantNodes(fs[i], a, c)
                  /\ PrunesOf(fs[i], a, c)[q] = Prune(PendantNodes(fs[i], a, c)[q])
              BY DEF PrunesOf
            <4>2. KeepsTo(P, PendantNodes(fs[i], a, c)[q])
              BY <1>2, <3>1, <4>1, TogetherKeepsPendants
            <4> QED
              BY <4>1, <4>2 DEF ObeysEdit, Prune
        <3>3. Obeys(P, fs, [i \in TreeIds |-> PrunesOf(fs[i], a, c)])
          BY <3>2 DEF Obeys
        <3> QED
          BY <3>3
    <2> QED
      BY <1>2, <2>1, <2>2, CherryOfFirst
<1>3. \A P : AgreesOn(fs, P) => Cardinality(P) <= Cardinality(P)
  BY BlocksAreFinite DEF AgreesOn
<1> QED
  BY <1>1, <1>2, <1>3 DEF Completes

\* SingleVertexTreePropagationRule: a root of one forest is a block.
LEMMA PropagationCompletes ==
    ASSUME NEW fs, Level(fs), NEW r \in PropagationRules(fs)
    PROVE  Completes(r.plans, fs)
<1>1. PICK order \in SetToSeqs(LabelsToBeReduced(fs)) : r = PropagationRule(order)
  BY DEF PropagationRules
<1>2. \A k \in DOMAIN order : order[k] \in LabelsToBeReduced(fs)
  BY <1>1 DEF SetToSeqs
<1>3. PICK plan : plan = Everywhere([k \in DOMAIN order |-> Isolate(order[k], NoLabel)])
  OBVIOUS
<1>4. r.plans = <<plan>>
  BY <1>1, <1>3, NewRuleFields DEF PropagationRule
<1>5. \A l \in LabelsToBeReduced(fs) :
          /\ l \in Labels
          /\ \E i \in TreeIds : ~ HasParent(fs[i], TerminalOf(fs[i], l))
    <2>1. \A n \in Terminals(fs[1]) : LabelOf(n) \subseteq Labels
      BY FirstTree, TerminalsAreApart DEF LabelOf, Level
    <2> QED
      BY <2>1 DEF LabelsToBeReduced
<1>6. ASSUME NEW P, AgreesOn(fs, P) PROVE Obeys(P, fs, plan)
    <2>1. ASSUME NEW i \in TreeIds, NEW k \in DOMAIN order
          PROVE  ObeysEdit(P, fs[i], Isolate(order[k], NoLabel))
        <3>1. order[k] \in Labels
          BY <1>2, <1>5
        <3>2. PICK j \in TreeIds : ~ HasParent(fs[j], TerminalOf(fs[j], order[k]))
          BY <1>2, <1>5
        <3>3. TerminalOf(fs[j], order[k]) \in P
          BY <1>6, <3>1, <3>2, TerminalOfLabel, KeptTerminalIsBlock DEF AgreesOn, Level
        <3>4. TerminalOf(fs[j], order[k]) = TerminalOf(fs[i], order[k])
          BY <3>1, SameTerminals DEF Level
        <3> QED
          BY <3>3, <3>4 DEF ObeysEdit, Isolate
    <2> QED
      BY <1>3, <2>1 DEF Obeys, Everywhere
<1>7. \A P : AgreesOn(fs, P) => Cardinality(P) <= Cardinality(P)
  BY BlocksAreFinite DEF AgreesOn
<1> QED
  BY <1>4, <1>6, <1>7 DEF Completes

-----------------------------------------------------------------------------
(* BRule and the uncle of a cherry.                                        *)

\* Two terminals whose union is a node are a cherry.
LEMMA CherryOfNodes ==
    ASSUME NEW F \in Forest, WellFormed(F), NEW t \in Terminals(F), NEW s \in Terminals(F),
           t # s, t \cup s \in F
    PROVE  IsCherry(F, t, s)
<1>1. t \in F /\ s \in F /\ t # {} /\ s # {} /\ t \cap s = {}
  BY TerminalsAreApart
<1>2. Above(t, t \cup s) /\ (t \cup s) \ t = s
  BY <1>1 DEF Above
<1>3. HasParent(F, t)
    <2>1. t \cup s \in F /\ t \subseteq t \cup s /\ t # t \cup s
      BY <1>1
    <2> QED
      BY <1>1, <2>1 DEF HasParent, NullNode
<1>4. Sibling(F, t) = s
    <2>1. PICK q \in F : q = t \cup s
      OBVIOUS
    <2>2. Above(t, q) /\ q \ t = s
      BY <1>2, <2>1
    <2> QED
      BY <1>1, <1>3, <2>2, ParentOfSibling
<1> QED
  BY <1>3, <1>4 DEF IsCherry

\* A node without x is still there when x is isolated; one with x has lost it.
LEMMA NodesOfIsolated ==
    ASSUME NEW F \in Forest, WellFormed(F), NEW x \in Terminals(F), NEW m \in F
    PROVE  /\ m \cap x = {} => m \in Isolated(F, x)
           /\ x \subseteq m /\ m # x => m \ x \in Isolated(F, x)
<1>1. CutEdge(F, x) = {Trim(x, k) : k \in F}
  BY CutEdgeTrims
<1>2. x \in F /\ x # {}
  BY TerminalsAreApart
<1>3. CASE m \cap x = {}
    <2>1. Trim(x, m) = m
      BY <1>2, <1>3 DEF Trim, Above
    <2> QED
      BY <1>1, <1>2, <1>3, <2>1 DEF Isolated
<1>4. CASE x \subseteq m /\ m # x
    <2>1. Trim(x, m) = m \ x
      BY <1>4 DEF Trim, Above
    <2>2. HasParent(F, x)
      BY <1>2, <1>4 DEF HasParent, NullNode
    <2> QED
      BY <1>1, <1>2, <1>4, <2>1, <2>2 DEF Isolated
<1> QED
  BY <1>3, <1>4

\* Where one terminal is all that separates a and c, isolating it makes them
\* a cherry.
LEMMA OnePendantCut ==
    ASSUME NEW F \in Forest, WellFormed(F), NEW a \in Labels, NEW c \in Labels,
           TerminalOf(F, a) # TerminalOf(F, c), Connected(F, a, c),
           NEW x \in Terminals(F), PendantNodes(F, a, c) = <<x>>
    PROVE  IsCherry(Isolated(F, x), TerminalOf(F, a), TerminalOf(F, c))
<1>1. IsPendant(F, a, c, x)
    <2>1. 1 \in DOMAIN <<x>> /\ <<x>>[1] = x
      OBVIOUS
    <2> QED
      BY <2>1, PendantParents
<1>2. x \in F /\ HasParent(F, x) /\ a \notin x /\ c \notin x
  BY <1>1 DEF IsPendant
<1>3. Pruned(F, a, c, {}) = F
  BY NothingPruned
<1>4. CutEdge(Pruned(F, a, c, {}), x) = Pruned(F, a, c, {} \cup x)
  BY <1>1, PruneOne
<1>5. CutEdge(F, x) = Pruned(F, a, c, x)
  BY <1>3, <1>4
<1>6. x = UNION {PendantNodes(F, a, c)[k] : k \in DOMAIN PendantNodes(F, a, c)}
    <2>1. \A y : y \in {PendantNodes(F, a, c)[k] : k \in DOMAIN PendantNodes(F, a, c)} <=> y = x
      OBVIOUS
    <2>2. {PendantNodes(F, a, c)[k] : k \in DOMAIN PendantNodes(F, a, c)} = {x}
      BY <2>1
    <2> QED
      BY <2>2
<1>7. AreSiblings(Pruned(F, a, c, x), a, c)
  BY <1>6, PruningMakesCherry
<1>8. PICK G \in Forest : G = CutEdge(F, x) /\ WellFormed(G) /\ Terminals(G) = Terminals(F)
  BY <1>2, CutKeepsForest, CutKeepsTerminals
<1>9. TerminalOf(G, a) = TerminalOf(F, a) /\ TerminalOf(G, c) = TerminalOf(F, c)
  BY <1>8, SameTerminals
<1>10. IsCherry(G, TerminalOf(G, a), TerminalOf(G, c))
  BY <1>5, <1>7, <1>8, SiblingsAreCherry
<1> QED
  BY <1>2, <1>8, <1>9, <1>10 DEF Isolated

\* A path with one pendant, and its label.
LEMMA NarrowPathOfOne ==
    ASSUME NEW F \in Forest, WellFormed(F), NEW a \in Labels, NEW c \in Labels,
           NarrowPath(F, a, c, 1)
    PROVE  \E x \in Terminals(F) : /\ PendantNodes(F, a, c) = <<x>>
                                   /\ BLabelsIn(F, a, c) = LabelOf(x)
<1>1. PICK bs : bs = PendantNodes(F, a, c)
  OBVIOUS
<1>2. Len(bs) \in 1..1 /\ \A j \in DOMAIN bs : IsTerminal(F, bs[j])
  BY <1>1 DEF NarrowPath
<1>3. bs \in Seq(F)
  BY <1>1, PendantNodesArePendants
<1>4. Len(bs) = 1 /\ DOMAIN bs = {1} /\ bs = <<bs[1]>>
  BY <1>2, <1>3
<1>5. bs[1] \in Terminals(F)
  BY <1>2, <1>4 DEF Terminals, IsTerminal
<1>6. BLabelsIn(F, a, c) = LabelOf(bs[1])
    <2>1. {LabelOf(bs[j]) : j \in DOMAIN bs} = {LabelOf(bs[1])}
      BY <1>4
    <2> QED
      BY <1>1, <2>1 DEF BLabelsIn
<1> QED
  BY <1>1, <1>4, <1>5, <1>6

\* BRule: one label separates a and c in every forest that does.
LEMMA BCompletes ==
    ASSUME NEW fs, Level(fs), NEW a \in Labels, NEW c \in Labels, AreSiblings(fs[1], a, c),
           \A i \in TreeIds : Connected(fs[i], a, c), SplitIn(fs, a, c) # {},
           BRuleFits(fs, a, c), NEW b1, BLabels(fs, a, c) \ {b1} = {}
    PROVE  Completes(BRule(b1).plans, fs)
<1>1. \A i \in SplitIn(fs, a, c) : i \in TreeIds /\ ~ AreSiblings(fs[i], a, c)
  BY DEF SplitIn, Others
<1>2. \A i \in TreeIds \ SplitIn(fs, a, c) : AreSiblings(fs[i], a, c)
  BY DEF SplitIn, Others
<1>3. \A i \in TreeIds : fs[i] \in Forest /\ WellFormed(fs[i]) /\ Terminals(fs[i]) = Terminals(fs[1])
  BY DEF Level
<1>4. PICK A : A = TerminalOf(fs[1], a)
  OBVIOUS
<1>5. PICK C : C = TerminalOf(fs[1], c)
  OBVIOUS
<1>6. \A i \in TreeIds : TerminalOf(fs[i], a) = A /\ TerminalOf(fs[i], c) = C
  BY <1>3, <1>4, <1>5, FirstTree, SameTerminals
<1>7. A # C /\ a \in A /\ c \in C /\ A \in Terminals(fs[1]) /\ C \in Terminals(fs[1])
  BY <1>3, <1>4, <1>5, FirstTree, SiblingsDiffer, TerminalOfLabel
<1>8. ASSUME NEW i \in SplitIn(fs, a, c)
      PROVE  \E x \in Terminals(fs[i]) : /\ PendantNodes(fs[i], a, c) = <<x>>
                                         /\ b1 \in x
    <2>1. PICK x \in Terminals(fs[i]) : /\ PendantNodes(fs[i], a, c) = <<x>>
                                        /\ BLabelsIn(fs[i], a, c) = LabelOf(x)
      BY <1>1, <1>3, NarrowPathOfOne DEF BRuleFits
    <2>2. x # {} /\ x \subseteq Labels
      BY <1>1, <1>3, TerminalsAreApart
    <2>3. PICK l \in x : LabelOf(x) = {l}
      BY <2>2, LabelOfExists
    <2>4. l \in BLabels(fs, a, c)
      BY <2>1, <2>3 DEF BLabels
    <2> QED
      BY <2>1, <2>3, <2>4
<1>9. PICK j \in SplitIn(fs, a, c) : TRUE
  OBVIOUS
<1>10. PICK x \in Terminals(fs[1]) : PendantNodes(fs[j], a, c) = <<x>> /\ b1 \in x
  BY <1>1, <1>3, <1>8
<1>11. b1 \in Labels /\ TerminalOf(fs[1], b1) = x
  BY <1>3, <1>10, FirstTree, TerminalOfIsUnique
<1>12. \A i \in SplitIn(fs, a, c) : PendantNodes(fs[i], a, c) = <<x>>
    <2>1. ASSUME NEW i \in SplitIn(fs, a, c) PROVE PendantNodes(fs[i], a, c) = <<x>>
        <3>1. PICK y \in Terminals(fs[1]) : PendantNodes(fs[i], a, c) = <<y>> /\ b1 \in y
          BY <1>1, <1>3, <1>8
        <3>2. y = x
          BY <1>3, <1>11, <3>1, FirstTree, TerminalOfIsUnique
        <3> QED
          BY <3>1, <3>2
    <2> QED
      BY <2>1
<1>13. x # A /\ x # C
    <2>1. 1 \in DOMAIN <<x>> /\ <<x>>[1] = x
      OBVIOUS
    <2>2. IsPendant(fs[j], a, c, x)
      BY <1>1, <1>3, <1>10, <2>1, PendantParents
    <2> QED
      BY <1>7, <2>2 DEF IsPendant
<1>14. ASSUME NEW i \in TreeIds
       PROVE  IsCherry(IsolatedIn(fs, x)[i], A, C)
    <2>1. IsolatedIn(fs, x)[i] = Isolated(fs[i], x)
      BY DEF IsolatedIn
    <2>2. CASE i \in SplitIn(fs, a, c)
      BY <1>3, <1>6, <1>7, <1>12, <2>1, <2>2, OnePendantCut
    <2>3. CASE i \notin SplitIn(fs, a, c)
        <3>1. IsCherry(fs[i], A, C)
          BY <1>2, <1>3, <1>6, <2>3, SiblingsAreCherry
        <3> QED
          BY <1>3, <1>13, <2>1, <3>1, CherryStays
    <2> QED
      BY <2>2, <2>3
<1>15. ASSUME NEW P, AgreesOn(fs, P), NEW b \in P, A \cup C \subseteq b PROVE x \in P
    <2>1. 1 \in DOMAIN <<x>> /\ <<x>>[1] = x
      OBVIOUS
    <2>2. KeepsTo(P, x)
      BY <1>1, <1>7, <1>10, <1>15, <2>1, TogetherKeepsPendants
    <2> QED
      BY <1>3, <1>15, <2>2, FirstTree, KeptTerminalIsBlock DEF AgreesOn
<1>16. ASSUME NEW P, AgreesOn(fs, P)
       PROVE  \E Q : /\ AgreesOn(fs, Q) /\ Cardinality(Q) <= Cardinality(P)
                     /\ Obeys(Q, fs, Everywhere(<<Isolate(b1, NoLabel)>>))
    <2>1. x \in P \/ ~ \E b \in P : A \cup C \subseteq b
      BY <1>15, <1>16
    <2>2. PICK Q : AgreesOn(fs, Q) /\ x \in Q /\ Cardinality(Q) <= Cardinality(P)
      BY <1>14, <1>16, <2>1, CutMakesUp
    <2> QED
      BY <1>11, <2>2, PlansObeyed
<1>17. BRule(b1).plans = <<Everywhere(<<Isolate(b1, NoLabel)>>)>>
  BY NewRuleFields DEF BRule
<1> QED
  BY <1>16, <1>17 DEF Completes

\* The uncle of a cherry and the terminal that takes the place of its parent.
LEMMA UncleMakesCherry ==
    ASSUME NEW F \in Forest, WellFormed(F), NEW t, NEW s, IsCherry(F, t, s),
           NEW u \in Terminals(F), u \cap (t \cup s) = {}, t \cup s \cup u \in F
    PROVE  IsCherry(Isolated(F, t), s, u)
<1>1. AroundCherry(F, t, s)
  BY CherryNodes
<1>2. t \in F /\ s \in F /\ t \cup s \in F /\ t # {} /\ s # {} /\ t \cap s = {}
  BY <1>1 DEF AroundCherry
<1>3. t \in Terminals(F) /\ s \in Terminals(F) /\ u \in F /\ u # {}
  BY TerminalsAreApart DEF IsCherry
<1>4. (t \cup s \cup u) \ t \in Isolated(F, t)
  BY <1>2, <1>3, NodesOfIsolated
<1>5. (t \cup s \cup u) \ t = s \cup u
  BY <1>2
<1>6. PICK P : IsPartition(P, Labels)
    <2>1. IsPartition({Labels} \ {{}}, Labels)
      BY DEF IsPartition
    <2> QED
      BY <2>1
<1>7. /\ Isolated(F, t) \in Forest /\ WellFormed(Isolated(F, t))
      /\ Terminals(Isolated(F, t)) = Terminals(F)
  BY <1>3, <1>6, IsolatedForest
<1>8. s # u
  BY <1>2
<1> QED
  BY <1>3, <1>4, <1>5, <1>7, <1>8, CherryOfNodes

\* The terminal of the label of an uncle is the sibling of the cherry.
UncleSits(F, a, c, c2) ==
    /\ c2 \in Labels
    /\ TerminalOf(F, c2) \cap (TerminalOf(F, a) \cup TerminalOf(F, c)) = {}
    /\ TerminalOf(F, a) \cup TerminalOf(F, c) \cup TerminalOf(F, c2) \in F
    /\ Sibling(F, TerminalOf(F, a) \cup TerminalOf(F, c)) = TerminalOf(F, c2)
    /\ LabelOf(TerminalOf(F, c2)) = {c2}

\* The uncle a label names.
LEMMA UncleOfLabel ==
    ASSUME NEW F \in Forest, WellFormed(F), NEW a \in Labels, NEW c \in Labels,
           AreSiblings(F, a, c), NEW c2 \in UncleLabel(F, a)
    PROVE  UncleSits(F, a, c, c2)
<1>0. \E A, C : A = TerminalOf(F, a) /\ C = TerminalOf(F, c)
  OBVIOUS
<1>0a. PICK A, C : A = TerminalOf(F, a) /\ C = TerminalOf(F, c)
  BY <1>0
<1>1. IsCherry(F, A, C)
  BY <1>0a, SiblingsAreCherry
<1>2. AroundCherry(F, A, C)
  BY <1>1, CherryNodes
<1>3. A \cup C \in F /\ Parent(F, A) = A \cup C
  BY <1>2 DEF AroundCherry
<1>4. PICK u : u = Sibling(F, A \cup C) /\ IsTerminal(F, u) /\ c2 \in LabelOf(u)
    <2>1. UncleLabel(F, a) = IF IsTerminal(F, Sibling(F, A \cup C))
                             THEN LabelOf(Sibling(F, A \cup C)) ELSE {}
      BY <1>0a, <1>3 DEF UncleLabel, Uncle
    <2> QED
      BY <2>1
<1>5. u \in Terminals(F) /\ u # {} /\ u \subseteq Labels
    <2>1. u \in Terminals(F)
      BY <1>4 DEF Terminals, IsTerminal
    <2> QED
      BY <2>1, TerminalsAreApart
<1>6. HasParent(F, A \cup C)
    <2>1. ~ HasParent(F, A \cup C) => Parent(F, A \cup C) = {}
      BY DEF Parent, NullNode
    <2>2. u = Parent(F, A \cup C) \ (A \cup C)
      BY <1>4 DEF Sibling
    <2> QED
      BY <1>5, <2>1, <2>2
<1>7. u \cap (A \cup C) = {} /\ A \cup C \cup u \in F
    <2>1. PICK m \in F : m = A \cup C
      BY <1>3
    <2>2. Parent(F, m) \in F /\ m \cap Sibling(F, m) = {} /\ Parent(F, m) = m \cup Sibling(F, m)
      BY <1>6, <2>1, Family
    <2> QED
      BY <1>4, <2>1, <2>2
<1>8. c2 \in u
  BY <1>4 DEF LabelOf
<1>9. TerminalOf(F, c2) = u /\ c2 \in Labels
  BY <1>5, <1>8, TerminalOfIsUnique
<1>10. LabelOf(u) = {c2}
    <2>1. PICK l \in u : LabelOf(u) = {l}
      BY <1>5, LabelOfExists
    <2>2. c2 = l
      BY <1>4, <2>1
    <2> QED
      BY <2>1, <2>2
<1> QED
  BY <1>0a, <1>4, <1>7, <1>9, <1>10 DEF UncleSits

-----------------------------------------------------------------------------
(* ReverseBRule.                                                           *)

\* What a block induces in a forest that splits a cherry of the first: nothing
\* that keeps the cherry whole and leaves out the sibling of one of its ends.
LEMMA SplitsApart ==
    ASSUME NEW F \in Forest, WellFormed(F), NEW o, NEW u, IsCherry(F, o, u),
           NEW d, u \subseteq d, NEW x, x # {}, x \cap o = {}, x \cap u = {},
           x \cup o \in Induced(F, d)
    PROVE  FALSE
<1>1. AroundCherry(F, o, u)
  BY CherryNodes
<1>2. o \in F /\ u \in F /\ o \cup u \in F /\ o # {} /\ u # {} /\ o \cap u = {}
  BY <1>1 DEF AroundCherry
<1>3. PICK k \in F : x \cup o = k \cap d
  BY InducedMembers
<1>4. k = o \/ k = u \/ k \cap (o \cup u) = {} \/ o \cup u \subseteq k
  BY CherryIsWhole
<1>5. o \cup u \subseteq k
    <2>1. x \subseteq k /\ o \subseteq k
      BY <1>3
    <2> QED
      BY <1>2, <1>4, <2>1
<1>6. u \subseteq k \cap d
  BY <1>5
<1> QED
  BY <1>2, <1>3, <1>6

\* ReverseBRule for x, o the other end of the cherry and u its uncle.
LEMMA ReverseBMakesUp ==
    ASSUME NEW fs, Level(fs), NEW x, NEW o, NEW u,
           IsCherry(fs[1], x, o), u \in Terminals(fs[1]), u \cap (x \cup o) = {},
           x \cup o \cup u \in fs[1],
           \A i \in TreeIds : \/ IsCherry(fs[i], o, u)
                              \/ IsCherry(fs[i], x, o) /\ x \cup o \cup u \in fs[i],
           NEW j \in TreeIds, IsCherry(fs[j], o, u),
           NEW P, AgreesOn(fs, P)
    PROVE  \E Q : AgreesOn(fs, Q) /\ x \in Q /\ Cardinality(Q) <= Cardinality(P)
<1>1. \A i \in TreeIds : fs[i] \in Forest /\ WellFormed(fs[i]) /\ Terminals(fs[i]) = Terminals(fs[1])
  BY DEF Level
<1>2. PICK G \in Forest : G = fs[1] /\ WellFormed(G) /\ Divides(P, G)
  BY FirstTree DEF Level, AgreesOn
<1>3. IsPartition(P, Labels)
  BY DEF AgreesOn
<1>4. AroundCherry(G, x, o)
  BY <1>2, CherryNodes
<1>5. x \cup o \in G /\ x # {} /\ o # {} /\ x \cap o = {} /\ x \in Terminals(G) /\ o \in Terminals(G)
  BY <1>2, <1>4 DEF AroundCherry, IsCherry
<1>6. u \in G /\ u # {} /\ x \cap u = {} /\ o \cap u = {} /\ x # o /\ x # u
  BY <1>2, <1>5, TerminalsAreApart
<1>7. ASSUME NEW i \in TreeIds
      PROVE  IsCherry(IsolatedIn(fs, x)[i], o, u)
    <2>1. IsolatedIn(fs, x)[i] = Isolated(fs[i], x)
      BY DEF IsolatedIn
    <2>2. x \in Terminals(fs[i]) /\ u \in Terminals(fs[i])
      BY <1>1, <1>2, <1>5
    <2>3. CASE IsCherry(fs[i], o, u)
      BY <1>1, <1>6, <2>1, <2>2, <2>3, CherryStays
    <2>4. CASE IsCherry(fs[i], x, o) /\ x \cup o \cup u \in fs[i]
      BY <1>1, <2>1, <2>2, <2>4, UncleMakesCherry
    <2> QED
      BY <2>3, <2>4
<1>8. ASSUME NEW d \in P, o \cup u \subseteq d
      PROVE  x \in P
    <2>1. PICK b \in P : x \subseteq b
      BY <1>2, <1>3, <1>5, KeptTerminalIsBlock
    <2>2. CASE b # d
        <3>1. b = x \/ d = o
          BY <1>2, <1>3, <1>8, <2>1, <2>2, Separated
        <3> QED
          BY <1>6, <1>8, <2>1, <3>1
    <2>3. CASE b = d
        <3>1. x \cup o = (x \cup o) \cap d
          BY <1>8, <2>1, <2>3
        <3>2. x \cup o \in Induced(G, d)
          BY <1>5, <3>1, InducedMembers
        <3>3. x \cup o \in Induced(fs[j], d)
          BY <1>2, <3>2 DEF AgreesOn
        <3> QED
          BY <1>1, <1>5, <1>6, <1>8, <3>3, SplitsApart
    <2> QED
      BY <2>2, <2>3
<1>9. x \in P \/ ~ \E b \in P : o \cup u \subseteq b
  BY <1>8
<1>10. x \in Terminals(fs[1])
  BY <1>2, <1>5
<1> QED
  BY <1>7, <1>9, <1>10, CutMakesUp

\* ReverseBRule
LEMMA ReverseBCompletes ==
    ASSUME NEW fs, Level(fs), NEW a \in Labels, NEW c \in Labels, AreSiblings(fs[1], a, c),
           SplitIn(fs, a, c) # {}, NEW l \in ReverseBLabels(fs, a, c)
    PROVE  Completes(ReverseBRule(l).plans, fs)
<1>1. \A i \in TreeIds : fs[i] \in Forest /\ WellFormed(fs[i]) /\ Terminals(fs[i]) = Terminals(fs[1])
  BY DEF Level
<1>2. PICK k : k = IF l = a THEN c ELSE a
  OBVIOUS
<1>3. l \in {a, c} /\ {l, k} = {a, c} /\ l \in Labels /\ k \in Labels
  BY <1>2 DEF ReverseBLabels
<1>4. PICK c2 \in UncleLabel(fs[1], a) :
          /\ UncleEverywhereTogether(fs, a, c, c2)
          /\ \A i \in SplitIn(fs, a, c) :
                Sibling(fs[i], TerminalOf(fs[i], c2)) = TerminalOf(fs[i], k)
  BY <1>2 DEF ReverseBLabels
<1>5. PICK x : x = TerminalOf(fs[1], l)
  OBVIOUS
<1>6. PICK o : o = TerminalOf(fs[1], k)
  OBVIOUS
<1>7. PICK u : u = TerminalOf(fs[1], c2)
  OBVIOUS
<1>8. c2 \in Labels
    <2>1. PICK F \in Forest : F = fs[1] /\ WellFormed(F)
      BY <1>1, FirstTree
    <2>2. AreSiblings(F, a, c) /\ c2 \in UncleLabel(F, a)
      BY <1>4, <2>1
    <2> QED
      BY <2>1, <2>2, UncleOfLabel DEF UncleSits
<1>9. \A i \in TreeIds : /\ TerminalOf(fs[i], l) = x /\ TerminalOf(fs[i], k) = o
                         /\ TerminalOf(fs[i], c2) = u
  BY <1>1, <1>3, <1>5, <1>6, <1>7, <1>8, FirstTree, SameTerminals
<1>10. x \in Terminals(fs[1]) /\ o \in Terminals(fs[1]) /\ u \in Terminals(fs[1])
  BY <1>1, <1>3, <1>5, <1>6, <1>7, <1>8, FirstTree, TerminalOfLabel
<1>11. \A i \in TreeIds : TerminalOf(fs[i], a) \cup TerminalOf(fs[i], c) = x \cup o
    <2>1. \A i \in TreeIds : \/ TerminalOf(fs[i], a) = x /\ TerminalOf(fs[i], c) = o
                             \/ TerminalOf(fs[i], a) = o /\ TerminalOf(fs[i], c) = x
      BY <1>2, <1>3, <1>9
    <2> QED
      BY <2>1
<1>12. ASSUME NEW i \in TreeIds, AreSiblings(fs[i], a, c)
       PROVE  IsCherry(fs[i], x, o)
    <2>1. IsCherry(fs[i], TerminalOf(fs[i], a), TerminalOf(fs[i], c))
      BY <1>1, <1>12, SiblingsAreCherry
    <2>2. IsCherry(fs[i], TerminalOf(fs[i], c), TerminalOf(fs[i], a))
      BY <1>1, <2>1, CherryIsSymmetric
    <2> QED
      BY <1>2, <1>3, <1>9, <2>1, <2>2
<1>13. ASSUME NEW i \in TreeIds, AreSiblings(fs[i], a, c), c2 \in UncleLabel(fs[i], a)
       PROVE  u \cap (x \cup o) = {} /\ x \cup o \cup u \in fs[i]
    <2>1. PICK F \in Forest : F = fs[i] /\ WellFormed(F)
      BY <1>1
    <2>2. PICK A : A = TerminalOf(F, a)
      OBVIOUS
    <2>3. PICK C : C = TerminalOf(F, c)
      OBVIOUS
    <2>4. TerminalOf(F, c2) \cap (A \cup C) = {} /\ A \cup C \cup TerminalOf(F, c2) \in F
        <3>1. AreSiblings(F, a, c) /\ c2 \in UncleLabel(F, a)
          BY <1>13, <2>1
        <3>2. /\ TerminalOf(F, c2) \cap (TerminalOf(F, a) \cup TerminalOf(F, c)) = {}
              /\ TerminalOf(F, a) \cup TerminalOf(F, c) \cup TerminalOf(F, c2) \in F
          <4>1. UncleSits(F, a, c, c2)
            BY <2>1, <3>1, UncleOfLabel
          <4> QED
            BY <4>1 DEF UncleSits
        <3> QED
          BY <2>2, <2>3, <3>2
    <2>5. TerminalOf(F, c2) = u /\ A \cup C = x \cup o
      BY <1>9, <1>11, <2>1, <2>2, <2>3
    <2> QED
      BY <2>1, <2>4, <2>5
<1>14. ASSUME NEW i \in TreeIds \ SplitIn(fs, a, c)
       PROVE  IsCherry(fs[i], x, o) /\ u \cap (x \cup o) = {} /\ x \cup o \cup u \in fs[i]
    <2>1. AreSiblings(fs[i], a, c)
      BY DEF SplitIn, Others
    <2>2. CASE i = 1
      BY <1>4, <1>12, <1>13, <2>1, <2>2
    <2>3. CASE i # 1
        <3>1. UncleLabel(fs[i], a) = {c2}
          BY <1>4, <2>3 DEF UncleEverywhereTogether, Others
        <3> QED
          BY <1>12, <1>13, <2>1, <3>1
    <2> QED
      BY <2>2, <2>3
<1>15. 1 \in TreeIds \ SplitIn(fs, a, c)
  BY FirstTree DEF SplitIn, Others
<1>16. ASSUME NEW i \in SplitIn(fs, a, c)
       PROVE  i \in TreeIds /\ IsCherry(fs[i], o, u)
    <2>1. i \in TreeIds
      BY DEF SplitIn, Others
    <2>2. PICK F \in Forest : F = fs[i] /\ WellFormed(F)
      BY <1>1, <2>1
    <2>3. Sibling(F, u) = o /\ o \in Terminals(F) /\ u \in Terminals(F)
      BY <1>1, <1>4, <1>9, <1>10, <2>1, <2>2
    <2>4. o # {}
      BY <2>2, <2>3, TerminalsAreApart
    <2>5. HasParent(F, u)
        <3>1. ~ HasParent(F, u) => Parent(F, u) = {}
          BY DEF Parent, NullNode
        <3>2. o = Parent(F, u) \ u
          BY <2>3 DEF Sibling
        <3> QED
          BY <2>4, <3>1, <3>2
    <2>6. IsCherry(F, u, o)
      BY <2>3, <2>5 DEF IsCherry
    <2> QED
      BY <2>1, <2>2, <2>6, CherryIsSymmetric
<1>17. PICK j \in SplitIn(fs, a, c) : TRUE
  OBVIOUS
<1>18. \A i \in TreeIds : \/ IsCherry(fs[i], o, u)
                          \/ IsCherry(fs[i], x, o) /\ x \cup o \cup u \in fs[i]
  BY <1>14, <1>16
<1>19. /\ IsCherry(fs[1], x, o) /\ u \cap (x \cup o) = {} /\ x \cup o \cup u \in fs[1]
       /\ j \in TreeIds /\ IsCherry(fs[j], o, u)
  BY <1>14, <1>15, <1>16, <1>17
<1>20. ASSUME NEW P, AgreesOn(fs, P)
       PROVE  \E Q : /\ AgreesOn(fs, Q) /\ Cardinality(Q) <= Cardinality(P)
                     /\ Obeys(Q, fs, Everywhere(<<Isolate(l, NoLabel)>>))
    <2>1. PICK Q : AgreesOn(fs, Q) /\ x \in Q /\ Cardinality(Q) <= Cardinality(P)
      BY <1>10, <1>18, <1>19, <1>20, ReverseBMakesUp
    <2> QED
      BY <1>3, <1>5, <2>1, PlansObeyed
<1>21. ReverseBRule(l).plans = <<Everywhere(<<Isolate(l, NoLabel)>>)>>
  BY NewRuleFields DEF ReverseBRule
<1> QED
  BY <1>20, <1>21 DEF Completes

\* A cherry of all the forests, collapsed.
CollapsedIn(fs, t, s) == [i \in TreeIds |-> CollapseAt(fs[i], t \cup s)]

\* Collapsing a cherry, seen from one forest.
LEMMA CollapsedForest ==
    ASSUME NEW F \in Forest, WellFormed(F), NEW t, NEW s, IsCherry(F, t, s),
           NEW P, IsPartition(P, Labels)
    PROVE  /\ CollapseAt(F, t \cup s) \in Forest /\ WellFormed(CollapseAt(F, t \cup s))
           /\ Terminals(CollapseAt(F, t \cup s)) = (Terminals(F) \ {t, s}) \cup {t \cup s}
           /\ Divides(P, CollapseAt(F, t \cup s)) <=>
                 Divides(P, F) /\ \E b \in P : t \cup s \subseteq b
<1>1. AroundCherry(F, t, s)
  BY CherryNodes
<1>2. t \cup s \in F /\ t # {} /\ s # {} /\ t \cup s \subseteq Labels
  BY <1>1 DEF AroundCherry
<1>3. /\ CollapseAt(F, t \cup s) \in Forest /\ WellFormed(CollapseAt(F, t \cup s))
  BY <1>2, CollapseKeepsForest
<1>4. Terminals(CollapseAt(F, t \cup s)) = (Terminals(F) \ {t, s}) \cup {t \cup s}
  BY CherryIsBelow
<1>5. /\ KeepsWhole(P, t \cup s)
             => (Divides(P, CollapseAt(F, t \cup s)) <=> Divides(P, F))
      /\ Divides(P, CollapseAt(F, t \cup s)) => KeepsWhole(P, t \cup s)
  BY CollapseDivides
<1>6. /\ UNION P = Labels
      /\ \A b, c \in P : b = c \/ b \cap c = {}
  BY DEF IsPartition
<1>7. KeepsWhole(P, t \cup s) => \E b \in P : t \cup s \subseteq b
    <2>1. PICK b \in P : b \cap (t \cup s) # {}
      BY <1>2, <1>6
    <2> QED
      BY <2>1 DEF KeepsWhole
<1>8. (\E b \in P : t \cup s \subseteq b) => KeepsWhole(P, t \cup s)
  BY <1>6 DEF KeepsWhole
<1> QED
  BY <1>3, <1>4, <1>5, <1>7, <1>8

\* What collapsing a cherry does to the partitions that agree: those stay
\* that have the cherry in one block.
LosesSplit(fs, t, s) ==
    /\ Level(CollapsedIn(fs, t, s))
    /\ t \cup s \in Terminals(CollapsedIn(fs, t, s)[1])
    /\ \A P : AgreesOn(CollapsedIn(fs, t, s), P) <=>
                  AgreesOn(fs, P) /\ \E b \in P : t \cup s \subseteq b

\* The partitions that agree once a cherry is collapsed are those with the
\* cherry in one block.
LEMMA CollapsedAgrees ==
    ASSUME NEW fs, Level(fs), NEW t, NEW s, \A i \in TreeIds : IsCherry(fs[i], t, s)
    PROVE  LosesSplit(fs, t, s)
<1>1. \A i \in TreeIds : CollapsedIn(fs, t, s)[i] = CollapseAt(fs[i], t \cup s)
  BY DEF CollapsedIn
<1>2. IsPartition({Labels} \ {{}}, Labels)
  BY DEF IsPartition
<1>3. ASSUME NEW i \in TreeIds, NEW P, IsPartition(P, Labels)
      PROVE  /\ CollapseAt(fs[i], t \cup s) \in Forest /\ WellFormed(CollapseAt(fs[i], t \cup s))
             /\ Terminals(CollapseAt(fs[i], t \cup s)) = (Terminals(fs[1]) \ {t, s}) \cup {t \cup s}
             /\ Divides(P, CollapseAt(fs[i], t \cup s)) <=>
                   Divides(P, fs[i]) /\ \E b \in P : t \cup s \subseteq b
    <2>1. PICK F \in Forest : F = fs[i] /\ WellFormed(F) /\ Terminals(F) = Terminals(fs[1])
      BY DEF Level
    <2>2. IsCherry(F, t, s)
      BY <2>1
    <2> QED
      BY <1>3, <2>1, <2>2, CollapsedForest
<1>4. Level(CollapsedIn(fs, t, s)) /\ t \cup s \in Terminals(CollapsedIn(fs, t, s)[1])
  BY <1>1, <1>2, <1>3, FirstTree DEF Level
<1>5. ASSUME NEW i \in TreeIds, NEW b, t \cup s \subseteq b \/ b \cap (t \cup s) = {}
      PROVE  /\ Induced(CollapseAt(fs[i], t \cup s), b) = Induced(fs[i], b) \ {t, s}
             /\ Induced(fs[i], b) = Induced(CollapseAt(fs[i], t \cup s), b)
                                        \cup {x \in {t, s} : x \subseteq b}
    <2>1. PICK F \in Forest : F = fs[i] /\ WellFormed(F) /\ IsCherry(F, t, s)
      BY DEF Level
    <2> QED
      BY <1>5, <2>1, InducedAfterCollapse
<1>6. ASSUME NEW P, IsPartition(P, Labels), \E d \in P : t \cup s \subseteq d,
             NEW i \in TreeIds, NEW b \in P
      PROVE  Induced(CollapsedIn(fs, t, s)[i], b) = Induced(CollapsedIn(fs, t, s)[1], b)
                   <=> Induced(fs[i], b) = Induced(fs[1], b)
    <2>1. t \cup s \subseteq b \/ b \cap (t \cup s) = {}
      BY <1>6 DEF IsPartition
    <2>2. PICK S : S = {x \in {t, s} : x \subseteq b}
      OBVIOUS
    <2>3. PICK X, Y : X = Induced(CollapseAt(fs[i], t \cup s), b) /\ Y = Induced(fs[i], b)
      OBVIOUS
    <2>4. PICK Z, W : Z = Induced(CollapseAt(fs[1], t \cup s), b) /\ W = Induced(fs[1], b)
      OBVIOUS
    <2>5. X = Y \ {t, s} /\ Y = X \cup S
      BY <1>5, <2>1, <2>2, <2>3
    <2>6. Z = W \ {t, s} /\ W = Z \cup S
      BY <1>5, <2>1, <2>2, <2>4, FirstTree
    <2>7. X = Z <=> Y = W
      BY <2>5, <2>6
    <2> QED
      BY <1>1, <2>3, <2>4, <2>7, FirstTree
<1>7. ASSUME NEW P, IsPartition(P, Labels)
      PROVE  AgreesOn(CollapsedIn(fs, t, s), P) <=>
                 AgreesOn(fs, P) /\ \E b \in P : t \cup s \subseteq b
    <2>0. \A i \in TreeIds : Divides(P, CollapsedIn(fs, t, s)[i]) <=>
                 Divides(P, fs[i]) /\ \E b \in P : t \cup s \subseteq b
        <3>1. ASSUME NEW i \in TreeIds
              PROVE  Divides(P, CollapsedIn(fs, t, s)[i]) <=>
                         Divides(P, fs[i]) /\ \E b \in P : t \cup s \subseteq b
            <4>1. Divides(P, CollapseAt(fs[i], t \cup s)) <=>
                      Divides(P, fs[i]) /\ \E b \in P : t \cup s \subseteq b
              BY <1>3, <1>7
            <4>2. PICK G : G = CollapseAt(fs[i], t \cup s) /\ G = CollapsedIn(fs, t, s)[i]
              BY <1>1
            <4> QED
              BY <4>1, <4>2
        <3> QED
          BY <3>1
    <2>1. ASSUME AgreesOn(CollapsedIn(fs, t, s), P)
          PROVE  AgreesOn(fs, P) /\ \E b \in P : t \cup s \subseteq b
        <3>1. \E b \in P : t \cup s \subseteq b
          BY <2>0, <2>1, FirstTree DEF AgreesOn
        <3>2. \A i \in TreeIds : Divides(P, fs[i])
          BY <2>0, <2>1 DEF AgreesOn
        <3>3. \A i \in TreeIds : \A b \in P : Induced(fs[i], b) = Induced(fs[1], b)
          BY <1>6, <1>7, <2>1, <3>1 DEF AgreesOn
        <3> QED
          BY <1>7, <3>1, <3>2, <3>3 DEF AgreesOn
    <2>2. ASSUME AgreesOn(fs, P), \E b \in P : t \cup s \subseteq b
          PROVE  AgreesOn(CollapsedIn(fs, t, s), P)
        <3>1. \A i \in TreeIds : Divides(P, CollapsedIn(fs, t, s)[i])
          BY <2>0, <2>2 DEF AgreesOn
        <3>2. \A i \in TreeIds : \A b \in P :
                 Induced(CollapsedIn(fs, t, s)[i], b) = Induced(CollapsedIn(fs, t, s)[1], b)
          BY <1>6, <1>7, <2>2 DEF AgreesOn
        <3> QED
          BY <1>7, <3>1, <3>2 DEF AgreesOn
    <2> QED
      BY <2>1, <2>2
<1>8. \A P : AgreesOn(CollapsedIn(fs, t, s), P) <=>
          AgreesOn(fs, P) /\ \E b \in P : t \cup s \subseteq b
  BY <1>7 DEF AgreesOn
<1> QED
  BY <1>4, <1>8 DEF LosesSplit

-----------------------------------------------------------------------------
(* TwoBRule, for two trees.                                                *)

\* Every block is within one of the other partition.
Refines(Q, P) == \A d \in Q : \E e \in P : d \subseteq e

\* A terminal split off, if it was not a block already.
LEMMA OneSplit ==
    ASSUME NEW fs, Level(fs), NEW P, AgreesOn(fs, P), NEW x \in Terminals(fs[1])
    PROVE  \E Q : /\ AgreesOn(fs, Q) /\ x \in Q /\ Refines(Q, P)
                  /\ Cardinality(Q) <= Cardinality(P) + 1
                  /\ x \in P => Cardinality(Q) = Cardinality(P)
                  /\ \A y \in Terminals(fs[1]) : y \in P => y \in Q
                  /\ \A y : y # {} /\ y \cap x = {} /\ x \cup y \in P => y \in Q
<1>0. IsPartition(P, Labels) /\ IsFiniteSet(P) /\ Cardinality(P) \in Nat
  BY BlocksAreFinite DEF AgreesOn
<1>1. PICK F \in Forest : F = fs[1] /\ WellFormed(F) /\ Divides(P, F)
  BY FirstTree DEF Level, AgreesOn
<1>2. x # {} /\ x \subseteq Labels
  BY <1>1, TerminalsAreApart
<1>3. \A b, c \in P : b = c \/ b \cap c = {}
  BY <1>0 DEF IsPartition
<1>4. CASE x \in P
    <2>1. Refines(P, P)
      BY DEF Refines
    <2>2. \A y : y # {} /\ y \cap x = {} /\ x \cup y \in P => y \in P
        <3>1. ASSUME NEW y, y # {}, y \cap x = {}, x \cup y \in P PROVE FALSE
            <4>1. x \cup y = x \/ (x \cup y) \cap x = {}
              BY <1>3, <1>4, <3>1
            <4> QED
              BY <1>2, <3>1, <4>1
        <3> QED
          BY <3>1
    <2> QED
      BY <1>0, <1>4, <2>1, <2>2
<1>5. CASE x \notin P
    <2>1. PICK b \in P : x \subseteq b
      BY <1>0, <1>1, KeptTerminalIsBlock
    <2>2. x # b
      BY <1>5
    <2>3. PICK Q : Q = SplitOff(P, b, x)
      OBVIOUS
    <2>4. /\ AgreesOn(fs, Q) /\ x \in Q /\ Cardinality(Q) = Cardinality(P) + 1
          /\ \A d \in Q : \E e \in P : d \subseteq e
      BY <2>1, <2>2, <2>3, SplitAgrees
    <2>5. Refines(Q, P)
      BY <2>4 DEF Refines
    <2>6. ASSUME NEW y \in Terminals(fs[1]), y \in P PROVE y \in Q
        <3>1. y # b
            <4>1. x = y \/ x \cap y = {}
              BY <1>1, TerminalsAreApart
            <4> QED
              BY <1>2, <2>1, <2>2, <4>1
        <3> QED
          BY <2>3, <2>6, <3>1 DEF SplitOff
    <2>7. ASSUME NEW y, y # {}, y \cap x = {}, x \cup y \in P PROVE y \in Q
        <3>1. b = x \cup y
          BY <1>2, <1>3, <2>1, <2>7
        <3>2. b \ x = y
          BY <2>7, <3>1
        <3> QED
          BY <2>3, <3>2 DEF SplitOff
    <2> QED
      BY <1>0, <1>5, <2>4, <2>5, <2>6, <2>7
<1> QED
  BY <1>4, <1>5

\* Two terminals split off.
LEMMA BothSplit ==
    ASSUME NEW fs, Level(fs), NEW P, AgreesOn(fs, P),
           NEW x \in Terminals(fs[1]), NEW y \in Terminals(fs[1]), x # y
    PROVE  \E Q : /\ AgreesOn(fs, Q) /\ x \in Q /\ y \in Q /\ Refines(Q, P)
                  /\ Cardinality(Q) <= Cardinality(P) + 2
                  /\ x \in P \/ y \in P \/ x \cup y \in P
                         => Cardinality(Q) <= Cardinality(P) + 1
<1>1. PICK Q1 : /\ AgreesOn(fs, Q1) /\ x \in Q1 /\ Refines(Q1, P)
                /\ Cardinality(Q1) <= Cardinality(P) + 1
                /\ x \in P => Cardinality(Q1) = Cardinality(P)
                /\ \A z \in Terminals(fs[1]) : z \in P => z \in Q1
                /\ \A z : z # {} /\ z \cap x = {} /\ x \cup z \in P => z \in Q1
  BY OneSplit
<1>2. PICK Q : /\ AgreesOn(fs, Q) /\ y \in Q /\ Refines(Q, Q1)
               /\ Cardinality(Q) <= Cardinality(Q1) + 1
               /\ y \in Q1 => Cardinality(Q) = Cardinality(Q1)
               /\ \A z \in Terminals(fs[1]) : z \in Q1 => z \in Q
  BY <1>1, OneSplit
<1>3. x \in Q /\ y \in Q
  BY <1>1, <1>2
<1>4. Refines(Q, P)
    <2>1. ASSUME NEW d \in Q PROVE \E e \in P : d \subseteq e
        <3>1. PICK e1 \in Q1 : d \subseteq e1
          BY <1>2 DEF Refines
        <3>2. PICK e \in P : e1 \subseteq e
          BY <1>1 DEF Refines
        <3> QED
          BY <3>1, <3>2
    <2> QED
      BY <2>1 DEF Refines
<1>5. Cardinality(P) \in Nat /\ Cardinality(Q) \in Nat /\ Cardinality(Q1) \in Nat
  BY <1>1, <1>2, BlocksAreFinite DEF AgreesOn
<1>6. y # {} /\ y \cap x = {}
  BY FirstTree, TerminalsAreApart DEF Level
<1>7. y \in P \/ x \cup y \in P => y \in Q1
  BY <1>1, <1>6
<1> QED
  BY <1>1, <1>2, <1>3, <1>4, <1>5, <1>7

\* A path with two pendants, both on the side of the first label.
LadderAt(F, A, C, x, y) ==
    /\ A \cup x \in F /\ A \cup x \cup y \in F /\ A \cup x \cup y \cup C \in F
    /\ A \cap x = {} /\ (A \cup x) \cap y = {} /\ (A \cup x \cup y) \cap C = {}
    /\ x # {} /\ y # {}
    /\ HasParent(F, x) /\ Parent(F, x) = A \cup x
    /\ HasParent(F, y) /\ Parent(F, y) = A \cup x \cup y
    /\ HasParent(F, A \cup x \cup y)
    /\ Parent(F, A \cup x \cup y) = A \cup x \cup y \cup C
    /\ Uncle(F, A) = y
    /\ Uncle(F, C) = Sibling(F, A \cup x \cup y \cup C)

\* A node with both labels holds the nodes with one of them.
LEMMA ChainIsWithin ==
    ASSUME NEW F \in Forest, WellFormed(F), NEW a, NEW c, NEW m \in F, a \in m, c \in m,
           NEW n \in Chain(F, a, c)
    PROVE  n \subseteq m
  BY DEF Chain, WellFormed, Laminar

\* Three nodes on the way up and what hangs off them.
ThreeLong(F, a, c, x, y) ==
    \E p, q, n : /\ Chain(F, a, c) = {p, q, n} /\ p \subseteq q /\ q \subseteq n
                /\ p # q /\ q # n
                /\ x = q \ p /\ y = n \ q

\* Two pendants on a side: three nodes on the way up.
LEMMA ChainOfThree ==
    ASSUME NEW F \in Forest, WellFormed(F), NEW a \in Labels, NEW c,
           NEW x, NEW y, PendantsAlong(F, a, c) = <<x, y>>
    PROVE  ThreeLong(F, a, c, x, y)
<1>1. PICK path : path = PathBelowLca(F, a, c)
  OBVIOUS
<1>2. PICK S : S = Chain(F, a, c)
  OBVIOUS
<1>3. /\ path \in Seq(S)
      /\ \A n \in S : \E k \in DOMAIN path : path[k] = n
      /\ \A j, k \in DOMAIN path : path[j] \subseteq path[k] <=> j <= k
  BY <1>1, <1>2, PathListsChain
<1>4. Len(path) \in Nat /\ DOMAIN path = 1..Len(path) /\ \A k \in DOMAIN path : path[k] \in S
  BY <1>3
<1>5. PICK ps : ps = PendantsAlong(F, a, c)
  OBVIOUS
<1>5a. ps = [k \in 1..(Len(path) - 1) |-> path[k + 1] \ path[k]]
  BY <1>1, <1>5 DEF PendantsAlong
<1>6. DOMAIN ps = 1..2 /\ ps[1] = x /\ ps[2] = y
  BY <1>5
<1>7. 1..(Len(path) - 1) = 1..2
  BY <1>5a, <1>6
<1>8. Len(path) = 3
    <2>1. 2 \in 1..(Len(path) - 1) /\ 3 \notin 1..(Len(path) - 1)
        <3>1. 2 \in 1..2 /\ 3 \notin 1..2
          OBVIOUS
        <3> QED
          BY <1>7, <3>1
    <2> QED
      BY <1>4, <2>1
<1>9. 1 \in DOMAIN path /\ 2 \in DOMAIN path /\ 3 \in DOMAIN path
  BY <1>4, <1>8
<1>10. x = path[2] \ path[1] /\ y = path[3] \ path[2]
    <2>1. 1 \in 1..(Len(path) - 1) /\ 2 \in 1..(Len(path) - 1)
      BY <1>7
    <2>2. ps[1] = path[1 + 1] \ path[1] /\ ps[2] = path[2 + 1] \ path[2]
      BY <1>5a, <2>1
    <2> QED
      BY <1>6, <2>2
<1>11. path[1] \subseteq path[2] /\ path[2] \subseteq path[3] /\ path[1] # path[2] /\ path[2] # path[3]
    <2>1. path[1] \subseteq path[2] /\ path[2] \subseteq path[3]
      BY <1>3, <1>9
    <2>2. ~ path[2] \subseteq path[1] /\ ~ path[3] \subseteq path[2]
      BY <1>3, <1>9
    <2> QED
      BY <2>1, <2>2
<1>12. S = {path[1], path[2], path[3]}
  BY <1>3, <1>4, <1>8, <1>9
<1> QED
  BY <1>2, <1>10, <1>11, <1>12 DEF ThreeLong

\* No pendants on a side: the terminal is the whole way up.
LEMMA ChainOfOne ==
    ASSUME NEW F \in Forest, WellFormed(F), NEW a \in Labels, NEW c, c \notin TerminalOf(F, a),
           PendantsAlong(F, a, c) = <<>>
    PROVE  Chain(F, a, c) = {TerminalOf(F, a)}
<1>0. TerminalOf(F, a) \in Chain(F, a, c)
  BY TerminalOfLabel DEF Chain, Terminals
<1>1. \A n \in Chain(F, a, c) : TerminalOf(F, a) \subseteq n
  BY TerminalOfLabel DEF Chain
<1>2. ASSUME NEW n \in Chain(F, a, c), NEW l \in n PROVE l \in TerminalOf(F, a)
    <2>1. PICK ps : ps = PendantsAlong(F, a, c)
      OBVIOUS
    <2>2. l \in TerminalOf(F, a) \/ \E k \in DOMAIN ps : l \in ps[k]
      BY <2>1, PendantsAlongPath
    <2>3. DOMAIN ps = {}
      BY <2>1
    <2> QED
      BY <2>2, <2>3
<1> QED
  BY <1>0, <1>1, <1>2

\* Siblings have the same parent.
LEMMA SiblingsShareParent ==
    ASSUME NEW F \in Forest, WellFormed(F), NEW n \in F, HasParent(F, n),
           NEW s, s = Sibling(F, n)
    PROVE  HasParent(F, s) /\ Parent(F, s) = Parent(F, n)
<1>1. PICK p : p = Parent(F, n)
  OBVIOUS
<1>2. p \in F /\ s \in F /\ n # {} /\ s # {} /\ n \cap s = {} /\ p = n \cup s
  BY <1>1, Family
<1>3. Above(s, p) /\ p \ s = n
  BY <1>2 DEF Above
<1>4. HasParent(F, s)
  BY <1>2, <1>3 DEF HasParent, NullNode, Above
<1> QED
  BY <1>1, <1>2, <1>3, <1>4, ParentOfSibling

\* Two pendants on the side of the first label: three nodes on the way up.
LEMMA Ladder ==
    ASSUME NEW F \in Forest, WellFormed(F), NEW a \in Labels, NEW c \in Labels,
           TerminalOf(F, a) # TerminalOf(F, c), Connected(F, a, c),
           NEW x \in F, NEW y \in F,
           PendantsAlong(F, a, c) = <<x, y>>, PendantsAlong(F, c, a) = <<>>
    PROVE  LadderAt(F, TerminalOf(F, a), TerminalOf(F, c), x, y)
<1>0. \E A, C : A = TerminalOf(F, a) /\ C = TerminalOf(F, c)
  OBVIOUS
<1>1. PICK A, C : A = TerminalOf(F, a) /\ C = TerminalOf(F, c)
  BY <1>0
<1>2. /\ A \in F /\ C \in F /\ a \in A /\ c \in C /\ A \in Terminals(F) /\ C \in Terminals(F)
      /\ \A m \in F : a \in m => A \subseteq m
      /\ \A m \in F : c \in m => C \subseteq m
  BY <1>1, TerminalOfLabel, TerminalsAreApart
<1>3. c \notin A /\ a \notin C /\ A \cap C = {}
  BY <1>1, <1>2, TerminalsAreApart
<1>4a. ThreeLong(F, a, c, x, y)
  BY ChainOfThree
<1>4. PICK p, q, n : /\ Chain(F, a, c) = {p, q, n} /\ p \subseteq q /\ q \subseteq n
                     /\ p # q /\ q # n
                     /\ x = q \ p /\ y = n \ q
  BY <1>4a DEF ThreeLong
<1>5. Chain(F, c, a) = {C}
  BY <1>1, <1>3, ChainOfOne
<1>6. p \in Chain(F, a, c) /\ q \in Chain(F, a, c) /\ n \in Chain(F, a, c) /\ A \in Chain(F, a, c)
  BY <1>2, <1>3, <1>4 DEF Chain
<1>7. p \in F /\ q \in F /\ n \in F /\ c \notin n /\ a \in p
  BY <1>6 DEF Chain
<1>8. p = A
    <2>1. A \subseteq p
      BY <1>2, <1>7
    <2>2. A = p \/ A = q \/ A = n
      BY <1>4, <1>6
    <2> QED
      BY <1>4, <2>1, <2>2
<1>9. /\ x # {} /\ y # {} /\ q = A \cup x /\ n = A \cup x \cup y
      /\ A \cap x = {} /\ q \cap y = {}
  BY <1>4, <1>8
<1>10. Above(A, q) /\ Above(q, n)
  BY <1>4, <1>8 DEF Above
<1>11. \A m \in F : a \in m => m = A \/ m = q \/ m = n \/ n \subseteq m
    <2>1. ASSUME NEW m \in F, a \in m, c \in m PROVE n \subseteq m
      BY <1>6, <2>1, ChainIsWithin
    <2>2. ASSUME NEW m \in F, a \in m, c \notin m PROVE m = A \/ m = q \/ m = n
      BY <1>4, <1>8, <2>2 DEF Chain
    <2> QED
      BY <2>1, <2>2
<1>12. HasParent(F, A) /\ Parent(F, A) = q
    <2>1. \A m \in F : Above(A, m) => q \subseteq m
      BY <1>2, <1>4, <1>11 DEF Above
    <2>2. A # {}
      BY <1>2
    <2> QED
      BY <1>2, <1>7, <1>10, <2>1, <2>2, ParentIsInnermost DEF NullNode
<1>13. HasParent(F, q) /\ Parent(F, q) = n
    <2>1. \A m \in F : Above(q, m) => n \subseteq m
      BY <1>4, <1>7, <1>8, <1>11 DEF Above
    <2>2. q # {}
      BY <1>2, <1>9
    <2> QED
      BY <1>7, <1>10, <2>1, <2>2, ParentIsInnermost DEF NullNode
<1>14. HasParent(F, n)
    <2>1. PICK m \in F : a \in m /\ c \in m
      BY DEF Connected
    <2>2. n \subseteq m /\ n # m
      BY <1>6, <1>7, <2>1, ChainIsWithin
    <2>3. n # {}
      BY <1>2, <1>9
    <2> QED
      BY <2>1, <2>2, <2>3 DEF HasParent, NullNode
<1>15. PICK top, sib : top = Parent(F, n) /\ sib = Sibling(F, n)
  OBVIOUS
<1>16. /\ top \in F /\ sib \in F /\ n \cap sib = {} /\ top = n \cup sib
       /\ \A m \in F : Above(n, m) => top \subseteq m
       /\ Above(n, top)
  BY <1>7, <1>14, <1>15, Family
<1>17. c \in top
    <2>1. a \in n
      BY <1>4, <1>7
    <2>2. a \in top
      BY <1>16, <2>1
    <2>3. c \notin top => top \in {p, q, n}
      BY <1>4, <1>16, <2>2 DEF Chain
    <2> QED
      BY <1>4, <1>16, <2>3 DEF Above
<1>18. sib = C
    <2>1. c \in sib /\ a \notin sib
      BY <1>4, <1>7, <1>16, <1>17
    <2>2. sib \in Chain(F, c, a)
      BY <1>16, <2>1 DEF Chain
    <2> QED
      BY <1>5, <2>2
<1>19. top = n \cup C /\ n \cap C = {}
  BY <1>16, <1>18
<1>20. HasParent(F, C) /\ Parent(F, C) = top
    <2>1. \A m \in F : Above(C, m) => top \subseteq m
        <3>1. ASSUME NEW m \in F, Above(C, m) PROVE top \subseteq m
            <4>1. c \in m /\ m # C
              BY <1>2, <3>1 DEF Above
            <4>2. a \in m
                <5>1. a \notin m => m \in Chain(F, c, a)
                  BY <3>1, <4>1 DEF Chain
                <5> QED
                  BY <1>5, <4>1, <5>1
            <4>3. n \subseteq m /\ n # m
              BY <1>6, <1>7, <4>1, <4>2, ChainIsWithin
            <4> QED
              BY <1>16, <3>1, <4>3 DEF Above
        <3> QED
          BY <3>1
    <2>2. C # {} /\ Above(C, top)
      BY <1>2, <1>3, <1>4, <1>7, <1>16, <1>18 DEF Above
    <2> QED
      BY <1>2, <1>16, <2>1, <2>2, ParentIsInnermost DEF NullNode
<1>21. HasParent(F, x) /\ Parent(F, x) = q
    <2>1. q \ A = x
      BY <1>9
    <2>2. Sibling(F, A) = x
      BY <1>12, <2>1 DEF Sibling
    <2> QED
      BY <1>2, <1>12, <2>2, SiblingsShareParent
<1>22. HasParent(F, y) /\ Parent(F, y) = n
    <2>1. n \ q = y
      BY <1>9
    <2>2. Sibling(F, q) = y
      BY <1>13, <2>1 DEF Sibling
    <2> QED
      BY <1>7, <1>13, <2>2, SiblingsShareParent
<1>23. Uncle(F, A) = y /\ Uncle(F, C) = Sibling(F, top)
  BY <1>9, <1>12, <1>13, <1>20 DEF Uncle, Sibling
<1> HIDE DEF LadderAt
<1>24. LadderAt(F, A, C, x, y)
    <2>1. q = A \cup x /\ n = A \cup x \cup y /\ top = A \cup x \cup y \cup C
      BY <1>9, <1>19
    <2>2. /\ q \in F /\ n \in F /\ top \in F
          /\ A \cap x = {} /\ q \cap y = {} /\ n \cap C = {}
          /\ x # {} /\ y # {}
          /\ HasParent(F, x) /\ Parent(F, x) = q
          /\ HasParent(F, y) /\ Parent(F, y) = n
          /\ HasParent(F, n)
          /\ Parent(F, n) = top
          /\ Uncle(F, A) = y
          /\ Uncle(F, C) = Sibling(F, top)
      BY <1>7, <1>9, <1>14, <1>15, <1>16, <1>19, <1>21, <1>22, <1>23
    <2> QED
      BY <2>1, <2>2 DEF LadderAt
<1> QED
  BY <1>1, <1>24

\* The forests TwoBRule is about: a cherry with its uncle in the first, and a
\* path with two pendants, below the same uncle, in the other.
TwoBShape(G, F, A, C, U, x, y) ==
    /\ {A, C, U, x, y} \subseteq Terminals(G)
    /\ A # C /\ A # U /\ C # U /\ x # A /\ x # C /\ x # U
    /\ y # A /\ y # C /\ y # U /\ x # y
    /\ A \cup C \in G /\ A \cup C \cup U \in G
    /\ LadderAt(F, A, C, x, y)
    /\ A \cup x \cup y \cup C \cup U \in F

\* Five terminals of a forest, no two with a label in common.
FiveApart(A, C, U, x, y) ==
    /\ A # {} /\ C # {} /\ U # {} /\ x # {} /\ y # {}
    /\ A \cap C = {} /\ A \cap U = {} /\ C \cap U = {}
    /\ x \cap A = {} /\ x \cap C = {} /\ x \cap U = {}
    /\ y \cap A = {} /\ y \cap C = {} /\ y \cap U = {} /\ x \cap y = {}

\* No two of the five terminals share a label.
LEMMA ShapeIsApart ==
    ASSUME NEW G \in Forest, WellFormed(G), NEW F, NEW A, NEW C, NEW U, NEW x, NEW y,
           TwoBShape(G, F, A, C, U, x, y)
    PROVE  FiveApart(A, C, U, x, y)
<1>1. \A s, t \in Terminals(G) : s # {} /\ (s # t => s \cap t = {})
  BY TerminalsAreApart
<1> QED
  BY <1>1 DEF TwoBShape, FiveApart

\* A cherry within a block.
JoinedIn(P, A, C) == \E b \in P : A \cup C \subseteq b

\* A block with the uncle and one end of the cherry: the pendants are apart.
LEMMA UncleParts ==
    ASSUME NEW fs, Level(fs), NEW P, AgreesOn(fs, P), NEW j \in TreeIds,
           NEW A, NEW C, NEW U, NEW x, NEW y, TwoBShape(fs[1], fs[j], A, C, U, x, y),
           ~ JoinedIn(P, A, C),
           NEW e \in P, U \subseteq e, A \subseteq e \/ C \subseteq e
    PROVE  x \in P \/ x \cup y \in P
<1>1. PICK G \in Forest : G = fs[1] /\ WellFormed(G) /\ Divides(P, G)
  BY FirstTree DEF Level, AgreesOn
<1>2. PICK F \in Forest : F = fs[j] /\ WellFormed(F) /\ Divides(P, F) /\ Terminals(F) = Terminals(G)
  BY <1>1 DEF Level, AgreesOn
<1>3. IsPartition(P, Labels) /\ \A b, c \in P : b = c \/ b \cap c = {}
  BY DEF AgreesOn, IsPartition
<1>4. TwoBShape(G, F, A, C, U, x, y)
  BY <1>1, <1>2
<1>5. FiveApart(A, C, U, x, y)
  BY <1>1, <1>4, ShapeIsApart
<1>6. /\ A \in Terminals(G) /\ C \in Terminals(G) /\ U \in Terminals(G)
      /\ x \in Terminals(G) /\ y \in Terminals(G)
      /\ A \cup C \in G /\ A \cup C \cup U \in G
      /\ LadderAt(F, A, C, x, y) /\ A # C
  BY <1>4 DEF TwoBShape
<1>7. Induced(F, e) = Induced(G, e)
  BY <1>1, <1>2 DEF AgreesOn
<1>8. PICK b \in P : A \subseteq b
  BY <1>1, <1>3, <1>6, KeptTerminalIsBlock
<1>9. PICK c \in P : C \subseteq c
  BY <1>1, <1>3, <1>6, KeptTerminalIsBlock
<1>10. PICK d \in P : x \subseteq d
  BY <1>1, <1>3, <1>6, KeptTerminalIsBlock
<1>11. b # c
  BY <1>8, <1>9 DEF JoinedIn
<1>12. PICK u \in U : TRUE
  BY <1>5 DEF FiveApart
<1>13. CASE A \subseteq e
    <2>1. e \cap C = {}
        <3>1. e = b
          BY <1>3, <1>5, <1>8, <1>13 DEF FiveApart
        <3> QED
          BY <1>3, <1>9, <1>11, <3>1
    <2>2. (A \cup C \cup U) \cap e = A \cup U
      BY <1>13, <2>1
    <2>3. A \cup U \in Induced(G, e)
        <3>1. (A \cup C \cup U) \cap e # {}
          BY <1>12
        <3> QED
          BY <1>6, <2>2, <3>1, InducedMembers
    <2>4. PICK a \in A : TRUE
      BY <1>5 DEF FiveApart
    <2>5. x \in F /\ HasParent(F, x) /\ Parent(F, x) = A \cup x
      BY <1>2, <1>6, TerminalsAreApart DEF LadderAt
    <2>6. a \in Parent(F, x) /\ u \notin Parent(F, x) /\ (A \cup U) \cap x = {}
      BY <1>5, <2>5 DEF FiveApart
    <2>7. PICK z \in Induced(F, e) : a \in z /\ u \in z /\ z \cap x = {}
      BY <1>7, <2>3, <2>6
    <2>8. KeepsTo(P, x)
      BY <1>2, <1>3, <2>5, <2>6, <2>7, PendantsApart
    <2> QED
      BY <1>1, <1>3, <1>6, <2>8, KeptTerminalIsBlock
<1>14. CASE C \subseteq e
    <2>1. e = c
      BY <1>3, <1>5, <1>9, <1>14 DEF FiveApart
    <2>2. A \cap e = {}
      BY <1>3, <1>8, <1>11, <2>1
    <2>3. (A \cup C \cup U) \cap e = C \cup U
      BY <1>14, <2>2
    <2>4. C \cup U \in Induced(G, e)
        <3>1. (A \cup C \cup U) \cap e # {}
          BY <1>12
        <3> QED
          BY <1>6, <2>3, <3>1, InducedMembers
    <2>5. PICK k \in C : TRUE
      BY <1>5 DEF FiveApart
    <2>6. PICK n \in F : n = A \cup x \cup y
      BY <1>6 DEF LadderAt
    <2>7. HasParent(F, n) /\ Parent(F, n) = A \cup x \cup y \cup C
      BY <1>6, <2>6 DEF LadderAt
    <2>8. k \in Parent(F, n) /\ u \notin Parent(F, n) /\ (C \cup U) \cap n = {}
      BY <1>5, <2>6, <2>7 DEF FiveApart
    <2>9. PICK z \in Induced(F, e) : k \in z /\ u \in z /\ z \cap n = {}
      BY <1>7, <2>4, <2>8
    <2>10. KeepsTo(P, n)
      BY <1>2, <1>3, <2>7, <2>8, <2>9, PendantsApart
    <2>11. b = A
        <3>1. IsCherry(G, A, C)
          BY <1>1, <1>6, CherryOfNodes
        <3>2. b = A \/ c = C
          BY <1>1, <1>3, <1>8, <1>9, <1>11, <3>1, Separated
        <3> QED
          BY <1>5, <1>12, <2>1, <3>2 DEF FiveApart
    <2>12. d \subseteq n
      BY <1>5, <1>10, <2>6, <2>10 DEF KeepsTo, FiveApart
    <2>13. d \cap A = {}
      BY <1>3, <1>5, <1>10, <2>11 DEF FiveApart
    <2>14. d \cap y = {} \/ y \subseteq d
      BY <1>1, <1>6 DEF Divides
    <2>15. d = x \/ d = x \cup y
      BY <1>10, <2>6, <2>12, <2>13, <2>14
    <2> QED
      BY <2>15
<1> QED
  BY <1>13, <1>14

\* A node with two terminals isolated.
LEMMA NodeWithoutTwo ==
    ASSUME NEW F \in Forest, WellFormed(F), NEW x \in Terminals(F), NEW y \in Terminals(F),
           x # y, NEW m \in F
    PROVE  /\ m \cap (x \cup y) = {} => m \in Isolated(Isolated(F, x), y)
           /\ x \cup y \subseteq m /\ m # x \cup y => (m \ x) \ y \in Isolated(Isolated(F, x), y)
<1>1. x # {} /\ y # {} /\ x \cap y = {}
  BY TerminalsAreApart
<1>2. PICK Q : IsPartition(Q, Labels)
    <2>1. IsPartition({Labels} \ {{}}, Labels)
      BY DEF IsPartition
    <2> QED
      BY <2>1
<1>3. PICK H \in Forest : H = Isolated(F, x) /\ WellFormed(H) /\ Terminals(H) = Terminals(F)
  BY <1>2, IsolatedForest
<1>4. CASE m \cap (x \cup y) = {}
    <2>1. m \cap x = {} /\ m \cap y = {}
      BY <1>4
    <2>2. m \in H
      BY <1>3, <2>1, NodesOfIsolated
    <2>3. m \in Isolated(H, y)
      BY <1>3, <2>1, <2>2, NodesOfIsolated
    <2>4. ~ x \cup y \subseteq m
      BY <1>1, <1>4
    <2> QED
      BY <1>3, <2>3, <2>4
<1>5. CASE x \cup y \subseteq m /\ m # x \cup y
    <2>1. PICK k : k = m \ x
      OBVIOUS
    <2>2. x \subseteq m /\ m # x
      BY <1>1, <1>5
    <2>3. k \in H
      BY <1>3, <2>1, <2>2, NodesOfIsolated
    <2>4. y \subseteq k
      BY <1>1, <1>5, <2>1
    <2>5. k # y
      BY <1>5, <2>1, <2>2
    <2>6. k \ y \in Isolated(H, y)
      BY <1>3, <2>3, <2>4, <2>5, NodesOfIsolated
    <2> QED
      BY <1>1, <1>3, <1>5, <2>1, <2>6
<1> QED
  BY <1>4, <1>5

\* The forests once both pendants are isolated.
CherriesMade(fs, hs, A, C, U, x, y) ==
    /\ Level(hs) /\ Terminals(hs[1]) = Terminals(fs[1])
    /\ \A P : AgreesOn(hs, P) <=> AgreesOn(fs, P) /\ x \in P /\ y \in P
    /\ \A i \in TreeIds : IsCherry(hs[i], A, C)
    /\ \A i \in TreeIds : A \cup C \cup U \in hs[i]

\* With both pendants isolated, the cherry and then its uncle are siblings in
\* both forests.
LEMMA ShapeMakesCherries ==
    ASSUME NEW fs, Level(fs), NEW j, TreeIds = {1, j},
           NEW A, NEW C, NEW U, NEW x, NEW y, TwoBShape(fs[1], fs[j], A, C, U, x, y)
    PROVE  CherriesMade(fs, IsolatedIn(IsolatedIn(fs, x), y), A, C, U, x, y)
<1>0. PICK hs : hs = IsolatedIn(IsolatedIn(fs, x), y)
  OBVIOUS
<1>1. PICK G \in Forest : G = fs[1] /\ WellFormed(G)
  BY FirstTree DEF Level
<1>2. TwoBShape(G, fs[j], A, C, U, x, y)
  BY <1>1
<1>3. FiveApart(A, C, U, x, y)
  BY <1>1, <1>2, ShapeIsApart
<1>4. /\ A \in Terminals(G) /\ C \in Terminals(G) /\ U \in Terminals(G)
      /\ x \in Terminals(G) /\ y \in Terminals(G)
      /\ A \cup C \in G /\ A \cup C \cup U \in G
      /\ A \cup x \cup y \cup C \in fs[j] /\ A \cup x \cup y \cup C \cup U \in fs[j]
      /\ A # C /\ x # y
  BY <1>2 DEF TwoBShape, LadderAt
<1>5. PICK gs : gs = IsolatedIn(fs, x)
  OBVIOUS
<1>6. /\ Level(gs) /\ Terminals(gs[1]) = Terminals(fs[1])
      /\ \A P : AgreesOn(gs, P) <=> AgreesOn(fs, P) /\ x \in P
  BY <1>1, <1>4, <1>5, IsolatedAgrees
<1>7. /\ Level(hs) /\ Terminals(hs[1]) = Terminals(fs[1])
      /\ \A P : AgreesOn(hs, P) <=> AgreesOn(gs, P) /\ y \in P
  BY <1>0, <1>1, <1>4, <1>5, <1>6, IsolatedAgrees
<1>8. ASSUME NEW i \in TreeIds
      PROVE  A \cup C \in hs[i] /\ A \cup C \cup U \in hs[i]
    <2>1. hs[i] = Isolated(Isolated(fs[i], x), y)
      BY <1>0, <1>8 DEF IsolatedIn
    <2>2. PICK F \in Forest : F = fs[i] /\ WellFormed(F) /\ Terminals(F) = Terminals(G)
      BY <1>1 DEF Level
    <2>3. CASE i = 1
        <3>1. PICK m, n \in F : m = A \cup C /\ n = A \cup C \cup U
          BY <1>1, <1>4, <2>2, <2>3
        <3>2. m \cap (x \cup y) = {} /\ n \cap (x \cup y) = {}
          BY <1>3, <3>1 DEF FiveApart
        <3>3. m \in Isolated(Isolated(F, x), y) /\ n \in Isolated(Isolated(F, x), y)
          BY <1>4, <2>2, <3>2, NodeWithoutTwo
        <3> QED
          BY <2>1, <2>2, <3>1, <3>3
    <2>4. CASE i = j
        <3>1. PICK m, n \in F : m = A \cup x \cup y \cup C /\ n = A \cup x \cup y \cup C \cup U
          BY <1>1, <1>4, <2>2, <2>4
        <3>2. /\ x \cup y \subseteq m /\ m # x \cup y /\ x \cup y \subseteq n /\ n # x \cup y
              /\ (m \ x) \ y = A \cup C /\ (n \ x) \ y = A \cup C \cup U
          BY <1>3, <3>1 DEF FiveApart
        <3>3. /\ (m \ x) \ y \in Isolated(Isolated(F, x), y)
              /\ (n \ x) \ y \in Isolated(Isolated(F, x), y)
          BY <1>4, <2>2, <3>2, NodeWithoutTwo
        <3> QED
          BY <2>1, <2>2, <3>2, <3>3
    <2> QED
      BY <2>3, <2>4
<1>9. ASSUME NEW i \in TreeIds
      PROVE  IsCherry(hs[i], A, C)
    <2>1. PICK H \in Forest : H = hs[i] /\ WellFormed(H) /\ Terminals(H) = Terminals(G)
      BY <1>1, <1>7 DEF Level
    <2>2. A \cup C \in H
      BY <1>8, <2>1
    <2> QED
      BY <1>4, <2>1, <2>2, CherryOfNodes
<1>10. CherriesMade(fs, hs, A, C, U, x, y)
  BY <1>6, <1>7, <1>8, <1>9 DEF CherriesMade
<1> QED
  BY <1>0, <1>10

\* TwoBRule for its terminals: two cuts, made up for by two joins.
LEMMA TwoBMakesUp ==
    ASSUME NEW fs, Level(fs), NEW j, TreeIds = {1, j},
           NEW A, NEW C, NEW U, NEW x, NEW y, TwoBShape(fs[1], fs[j], A, C, U, x, y),
           NEW P, AgreesOn(fs, P), ~ JoinedIn(P, A, C)
    PROVE  \E Q : /\ AgreesOn(fs, Q) /\ x \in Q /\ y \in Q
                  /\ Cardinality(Q) <= Cardinality(P)
<1>1. PICK G \in Forest : G = fs[1] /\ WellFormed(G)
  BY FirstTree DEF Level
<1>2. FiveApart(A, C, U, x, y)
  BY <1>1, ShapeIsApart
<1>3. /\ A \in Terminals(G) /\ C \in Terminals(G) /\ U \in Terminals(G)
      /\ x \in Terminals(G) /\ y \in Terminals(G) /\ x # y
  BY <1>1 DEF TwoBShape
<1>4. PICK hs : hs = IsolatedIn(IsolatedIn(fs, x), y)
  OBVIOUS
<1>5. /\ Level(hs) /\ Terminals(hs[1]) = Terminals(G)
      /\ \A R : AgreesOn(hs, R) <=> AgreesOn(fs, R) /\ x \in R /\ y \in R
      /\ \A i \in TreeIds : IsCherry(hs[i], A, C)
      /\ \A i \in TreeIds : A \cup C \cup U \in hs[i]
    <2>1. CherriesMade(fs, IsolatedIn(IsolatedIn(fs, x), y), A, C, U, x, y)
      BY ShapeMakesCherries
    <2> QED
      BY <1>1, <1>4, <2>1 DEF CherriesMade
<1>6. PICK P1 : /\ AgreesOn(fs, P1) /\ x \in P1 /\ y \in P1 /\ Refines(P1, P)
                /\ Cardinality(P1) <= Cardinality(P) + 2
                /\ x \in P \/ y \in P \/ x \cup y \in P
                       => Cardinality(P1) <= Cardinality(P) + 1
  BY <1>1, <1>3, BothSplit
<1>7. ~ \E b \in P1 : A \cup C \subseteq b
  BY <1>6 DEF Refines, JoinedIn
<1>8. PICK Q1 : AgreesOn(hs, Q1) /\ Joining(P1, Q1, A, C)
  BY <1>5, <1>6, <1>7, CherryJoins
<1>9. /\ Cardinality(P) \in Nat /\ Cardinality(P1) \in Nat /\ Cardinality(Q1) \in Nat
      /\ Cardinality(Q1) = Cardinality(P1) - 1
      /\ AgreesOn(fs, Q1) /\ x \in Q1 /\ y \in Q1
  BY <1>5, <1>6, <1>8, BlocksAreFinite DEF AgreesOn, Joining
<1>10. CASE x \in P \/ y \in P \/ x \cup y \in P
  BY <1>6, <1>9, <1>10
<1>11. CASE x \notin P /\ x \cup y \notin P
    <2>1. PICK b \in Q1 : /\ A \cup C \subseteq b
                          /\ \A l \in b : \E d \in P1 : l \in d /\ (A \subseteq d \/ C \subseteq d)
      BY <1>8 DEF Joining
    <2>2. IsPartition(P, Labels) /\ IsPartition(Q1, Labels) /\ Divides(P, G)
      BY <1>1, <1>9, FirstTree DEF AgreesOn
    <2>3. PICK u \in U : TRUE
      BY <1>2 DEF FiveApart
    <2>4. ASSUME u \in b PROVE FALSE
        <3>1. PICK d \in P1 : u \in d /\ (A \subseteq d \/ C \subseteq d)
          BY <2>1, <2>4
        <3>2. PICK e \in P : d \subseteq e
          BY <1>6 DEF Refines
        <3>3. U \subseteq e
            <4>1. PICK g \in P : U \subseteq g
              BY <1>1, <1>3, <2>2, KeptTerminalIsBlock
            <4>2. u \in g \cap e
              BY <2>3, <3>1, <3>2, <4>1
            <4> QED
              BY <2>2, <4>1, <4>2 DEF IsPartition
        <3>4. A \subseteq e \/ C \subseteq e
          BY <3>1, <3>2
        <3>5. j \in TreeIds
          OBVIOUS
        <3> QED
          BY <1>11, <3>2, <3>3, <3>4, <3>5, UncleParts
    <2>5. ~ \E g \in Q1 : (A \cup C) \cup U \subseteq g
        <3>1. ASSUME NEW g \in Q1, (A \cup C) \cup U \subseteq g PROVE FALSE
            <4>1. PICK a \in A : TRUE
              BY <1>2 DEF FiveApart
            <4>2. g = b
              BY <2>1, <2>2, <3>1, <4>1 DEF IsPartition
            <4> QED
              BY <2>3, <2>4, <3>1, <4>2
        <3> QED
          BY <3>1
    <2>6. PICK ks : ks = CollapsedIn(hs, A, C)
      OBVIOUS
    <2>7. /\ Level(ks) /\ A \cup C \in Terminals(ks[1])
          /\ \A R : AgreesOn(ks, R) <=> AgreesOn(hs, R) /\ \E g \in R : A \cup C \subseteq g
        <3>1. Level(hs) /\ \A i \in TreeIds : IsCherry(hs[i], A, C)
          BY <1>5
        <3>2. LosesSplit(hs, A, C)
          BY <3>1, CollapsedAgrees
        <3> QED
          BY <2>6, <3>2 DEF LosesSplit
    <2>8. PICK t : t = A \cup C
      OBVIOUS
    <2>9. ASSUME NEW i \in TreeIds PROVE IsCherry(ks[i], t, U)
        <3>1. ks[i] = CollapseAt(hs[i], t)
          BY <2>6, <2>8 DEF CollapsedIn
        <3>2. PICK H \in Forest : H = hs[i] /\ WellFormed(H) /\ Terminals(H) = Terminals(G)
          BY <1>5 DEF Level
        <3>3. IsCherry(H, A, C) /\ A \cup C \cup U \in H
          BY <1>5, <3>2
        <3>4. /\ \A m : m \in CollapseAt(H, t) <=> m \in H /\ m # A /\ m # C
              /\ Terminals(CollapseAt(H, t)) = (Terminals(H) \ {A, C}) \cup {t}
          BY <2>8, <3>2, <3>3, CherryIsBelow
        <3>5. U # A /\ U # C /\ t # U /\ t \cup U # A /\ t \cup U # C
          BY <1>2, <2>8 DEF FiveApart
        <3>6. t \cup U \in CollapseAt(H, t)
          BY <2>8, <3>3, <3>4, <3>5
        <3>7. t \in Terminals(CollapseAt(H, t)) /\ U \in Terminals(CollapseAt(H, t))
          BY <1>3, <3>2, <3>4, <3>5
        <3>8. CollapseAt(H, t) \in Forest /\ WellFormed(CollapseAt(H, t))
          BY <2>7, <3>1, <3>2 DEF Level
        <3> QED
          BY <3>1, <3>2, <3>5, <3>6, <3>7, <3>8, CherryOfNodes
    <2>10. AgreesOn(ks, Q1)
      BY <1>8, <2>1, <2>7
    <2>11. ~ \E g \in Q1 : t \cup U \subseteq g
      BY <2>5, <2>8
    <2>12. PICK Q : AgreesOn(ks, Q) /\ Joining(Q1, Q, t, U)
      BY <2>7, <2>9, <2>10, <2>11, CherryJoins
    <2>13. AgreesOn(fs, Q) /\ x \in Q /\ y \in Q
      BY <1>5, <2>7, <2>12
    <2>14. Cardinality(Q) = Cardinality(Q1) - 1
      BY <2>12 DEF Joining
    <2> QED
      BY <1>6, <1>9, <2>13, <2>14
<1> QED
  BY <1>10, <1>11

\* What is left to know once the ladder is there: the uncle is the first
\* forest's, and not the upper pendant.
LEMMA ShapeFromLadder ==
    ASSUME NEW G \in Forest, WellFormed(G), NEW F \in Forest, WellFormed(F),
           Terminals(F) = Terminals(G),
           NEW A \in Terminals(G), NEW C \in Terminals(G), NEW U \in Terminals(G),
           NEW x \in Terminals(G), NEW y \in Terminals(G),
           A \cup C \in G, A \cup C \cup U \in G, U \cap (A \cup C) = {}, A # C,
           x # U, y # U, LadderAt(F, A, C, x, y),
           Uncle(F, A) = U \/ Uncle(F, C) = U
    PROVE  TwoBShape(G, F, A, C, U, x, y)
<1>1. \A s, t \in Terminals(G) : s # {} /\ (s # t => s \cap t = {})
  BY TerminalsAreApart
<1>2. PICK top \in F : top = A \cup x \cup y \cup C
  BY DEF LadderAt
<1>3. Uncle(F, C) = U
  BY DEF LadderAt
<1>4. Sibling(F, top) = U
  BY <1>2, <1>3 DEF LadderAt
<1>5. HasParent(F, top)
    <2>1. ~ HasParent(F, top) => Parent(F, top) = {}
      BY DEF Parent, NullNode
    <2>2. U = Parent(F, top) \ top
      BY <1>4 DEF Sibling
    <2> QED
      BY <1>1, <2>1, <2>2
<1>6. Parent(F, top) \in F /\ Parent(F, top) = top \cup U
  BY <1>2, <1>4, <1>5, Family
<1>7. A \cup x \cup y \cup C \cup U \in F
  BY <1>2, <1>6
<1>8. x # A /\ y # A /\ y # x /\ x # C /\ y # C
    <2>1. /\ A \cap x = {} /\ (A \cup x) \cap y = {} /\ (A \cup x \cup y) \cap C = {}
      BY DEF LadderAt
    <2> QED
      BY <1>1, <2>1
<1>9. A # U /\ C # U
  BY <1>1
<1> QED
  BY <1>7, <1>8, <1>9 DEF TwoBShape

\* The two terminals of a path that TwoBRule fits, on one side or the other.
TwoPendants(F, a, c, x, y) ==
    /\ x \in Terminals(F) /\ y \in Terminals(F)
    /\ PendantNodes(F, a, c) = <<x, y>>
    /\ \/ PendantsAlong(F, a, c) = <<x, y>> /\ PendantsAlong(F, c, a) = <<>>
       \/ PendantsAlong(F, c, a) = <<x, y>> /\ PendantsAlong(F, a, c) = <<>>
    /\ \E l, k : /\ LabelOf(x) = {l} /\ LabelOf(y) = {k} /\ l # k
                 /\ BLabelsIn(F, a, c) = {l, k}

\* A path with two b-nodes, and their labels.
LEMMA NarrowPathOfTwo ==
    ASSUME NEW F \in Forest, WellFormed(F), NEW a \in Labels, NEW c \in Labels,
           NarrowPath(F, a, c, 2), Cardinality(BLabelsIn(F, a, c)) = 2
    PROVE  \E x, y : TwoPendants(F, a, c, x, y)
<1>1. PICK bs : bs = PendantNodes(F, a, c)
  OBVIOUS
<1>2. /\ Len(bs) \in 1..2 /\ \A j \in DOMAIN bs : IsTerminal(F, bs[j])
      /\ PendantsAlong(F, a, c) = <<>> \/ PendantsAlong(F, c, a) = <<>>
  BY <1>1 DEF NarrowPath
<1>3. bs \in Seq(F)
  BY <1>1, PendantNodesArePendants
<1>4. DOMAIN bs = 1..Len(bs)
  BY <1>3
<1>5. \A k \in DOMAIN bs : bs[k] \in Terminals(F)
  BY <1>2, <1>3 DEF Terminals, IsTerminal
<1>6. \A k \in DOMAIN bs : \E l \in bs[k] : LabelOf(bs[k]) = {l}
    <2>1. ASSUME NEW k \in DOMAIN bs PROVE \E l \in bs[k] : LabelOf(bs[k]) = {l}
        <3>1. PICK t \in Terminals(F) : t = bs[k]
          BY <1>5, <2>1
        <3>2. t # {} /\ t \subseteq Labels
          BY <3>1, TerminalsAreApart
        <3> QED
          BY <3>1, <3>2, LabelOfExists
    <2> QED
      BY <2>1
<1>7. BLabelsIn(F, a, c) = UNION {LabelOf(bs[j]) : j \in DOMAIN bs}
  BY <1>1 DEF BLabelsIn
<1>8. CASE Len(bs) = 1
    <2>1. DOMAIN bs = {1}
      BY <1>4, <1>8
    <2>2. PICK l : LabelOf(bs[1]) = {l}
      BY <1>6, <2>1
    <2>3. {LabelOf(bs[j]) : j \in DOMAIN bs} = {{l}}
      BY <2>1, <2>2
    <2>4. BLabelsIn(F, a, c) = {l}
      BY <1>7, <2>3
    <2>5. Cardinality({l}) = 1
      BY FS_Singleton
    <2> QED
      BY <2>4, <2>5
<1>9. CASE Len(bs) = 2
    <2>1. DOMAIN bs = {1, 2} /\ bs = <<bs[1], bs[2]>>
      BY <1>3, <1>4, <1>9
    <2>2. PICK l : LabelOf(bs[1]) = {l}
      BY <1>6, <2>1
    <2>3. PICK k : LabelOf(bs[2]) = {k}
      BY <1>6, <2>1
    <2>4. {LabelOf(bs[j]) : j \in DOMAIN bs} = {{l}, {k}}
      BY <2>1, <2>2, <2>3
    <2>5. BLabelsIn(F, a, c) = {l, k}
      BY <1>7, <2>4
    <2>6. l # k
        <3>1. ASSUME l = k PROVE FALSE
            <4>1. BLabelsIn(F, a, c) = {l}
              BY <2>5, <3>1
            <4>2. Cardinality({l}) = 1
              BY FS_Singleton
            <4> QED
              BY <4>1, <4>2
        <3> QED
          BY <3>1
    <2>7. \/ PendantsAlong(F, a, c) = bs /\ PendantsAlong(F, c, a) = <<>>
          \/ PendantsAlong(F, c, a) = bs /\ PendantsAlong(F, a, c) = <<>>
        <3>1. PICK p : p = PendantsAlong(F, a, c)
          OBVIOUS
        <3>2. PICK q : q = PendantsAlong(F, c, a)
          OBVIOUS
        <3>3. p \in Seq(F) /\ q \in Seq(F)
          BY <3>1, <3>2, PendantsAlongPath
        <3>4. bs = p \o q
          BY <1>1, <3>1, <3>2 DEF PendantNodes
        <3>5. p = <<>> => bs = q
          BY <3>3, <3>4
        <3>6. q = <<>> => bs = p
          BY <3>3, <3>4
        <3> QED
          BY <1>2, <3>1, <3>2, <3>5, <3>6
    <2>8. PICK x, y : x = bs[1] /\ y = bs[2]
      OBVIOUS
    <2>9. TwoPendants(F, a, c, x, y)
        <3>1. x \in Terminals(F) /\ y \in Terminals(F) /\ bs = <<x, y>>
          BY <1>5, <2>1, <2>8
        <3> QED
          BY <1>1, <2>2, <2>3, <2>5, <2>6, <2>7, <2>8, <3>1 DEF TwoPendants
    <2> QED
      BY <2>9
<1> QED
  BY <1>2, <1>8, <1>9

\* TwoBRule, for two trees: one label's uncle in the split forest is the
\* uncle of the cherry.
LEMMA TwoBCompletes ==
    ASSUME NumTrees <= 2, NEW fs, Level(fs), NEW a \in Labels, NEW c \in Labels,
           AreSiblings(fs[1], a, c),
           \A i \in TreeIds : Connected(fs[i], a, c), SplitIn(fs, a, c) # {},
           TwoBRuleFits(fs, a, c),
           NEW b1 \in BLabels(fs, a, c), NEW b2 \in BLabels(fs, a, c) \ {b1}
    PROVE  Completes(PairRule("TwoB", b1, b2).plans, fs)
<1>1. TreeIds = {1, 2} /\ SplitIn(fs, a, c) = {2}
  BY NumTreesIsPositive DEF SplitIn, Others, TreeIds
<1>2. PICK G \in Forest : G = fs[1] /\ WellFormed(G) /\ AreSiblings(G, a, c)
  BY FirstTree DEF Level
<1>3. PICK F \in Forest : F = fs[2] /\ WellFormed(F) /\ Terminals(F) = Terminals(G)
  BY <1>1, <1>2 DEF Level
<1>4. PICK c2 \in UncleLabel(G, a) :
          /\ IsUncleOf(F, c2, a) \/ IsUncleOf(F, c2, c)
          /\ NarrowPath(F, a, c, 2)
          /\ Cardinality(BLabels(fs, a, c)) = 2 /\ c2 \notin BLabels(fs, a, c)
  BY <1>1, <1>2, <1>3 DEF TwoBRuleFits
<1>5. BLabels(fs, a, c) = BLabelsIn(F, a, c)
    <2>1. {BLabelsIn(fs[i], a, c) : i \in {2}} = {BLabelsIn(F, a, c)}
      BY <1>3
    <2> QED
      BY <1>1, <2>1 DEF BLabels
<1>6. PICK x, y : TwoPendants(F, a, c, x, y)
  BY <1>3, <1>4, <1>5, NarrowPathOfTwo
<1>7. PICK l, k : LabelOf(x) = {l} /\ LabelOf(y) = {k} /\ l # k /\ BLabelsIn(F, a, c) = {l, k}
  BY <1>6 DEF TwoPendants
<1>8. x \in Terminals(G) /\ y \in Terminals(G) /\ PendantNodes(F, a, c) = <<x, y>>
  BY <1>3, <1>6 DEF TwoPendants
<1>9. PICK A, C, U : A = TerminalOf(G, a) /\ C = TerminalOf(G, c) /\ U = TerminalOf(G, c2)
  OBVIOUS
<1>10. /\ c2 \in Labels /\ U \cap (A \cup C) = {} /\ A \cup C \cup U \in G
       /\ LabelOf(U) = {c2}
    <2>1. /\ c2 \in Labels
          /\ TerminalOf(G, c2) \cap (TerminalOf(G, a) \cup TerminalOf(G, c)) = {}
          /\ TerminalOf(G, a) \cup TerminalOf(G, c) \cup TerminalOf(G, c2) \in G
          /\ LabelOf(TerminalOf(G, c2)) = {c2}
      <3>1. UncleSits(G, a, c, c2)
        BY <1>2, UncleOfLabel
      <3> QED
        BY <3>1 DEF UncleSits
    <2> QED
      BY <1>9, <2>1
<1>11. /\ TerminalOf(F, a) = A /\ TerminalOf(F, c) = C /\ TerminalOf(F, c2) = U
  BY <1>2, <1>3, <1>9, <1>10, SameTerminals
<1>12. A \in Terminals(G) /\ C \in Terminals(G) /\ U \in Terminals(G) /\ a \in A /\ c \in C
  BY <1>2, <1>9, <1>10, TerminalOfLabel
<1>13. A # C /\ A \cup C \in G
    <2>1. IsCherry(G, A, C)
      BY <1>2, <1>9, SiblingsAreCherry
    <2>2. AroundCherry(G, A, C)
      BY <1>2, <2>1, CherryNodes
    <2> QED
      BY <2>2 DEF AroundCherry
<1>14. x # U /\ y # U
    <2>1. c2 # l /\ c2 # k
      BY <1>4, <1>5, <1>7
    <2> QED
      BY <1>7, <1>10, <2>1
<1>15. Uncle(F, A) = U \/ Uncle(F, C) = U
  BY <1>4, <1>11 DEF IsUncleOf
<1>16. Connected(F, a, c) /\ Connected(F, c, a)
  BY <1>1, <1>3 DEF Connected
<1>17. x \in F /\ y \in F
  BY <1>3, <1>8, TerminalsAreApart
<1>18. TwoBShape(G, F, A, C, U, x, y) \/ TwoBShape(G, F, C, A, U, x, y)
    <2>1. CASE PendantsAlong(F, a, c) = <<x, y>> /\ PendantsAlong(F, c, a) = <<>>
        <3>1. LadderAt(F, A, C, x, y)
          BY <1>3, <1>11, <1>13, <1>16, <1>17, <2>1, Ladder
        <3> QED
          BY <1>2, <1>3, <1>8, <1>10, <1>12, <1>13, <1>14, <1>15, <3>1, ShapeFromLadder
    <2>2. CASE PendantsAlong(F, c, a) = <<x, y>> /\ PendantsAlong(F, a, c) = <<>>
        <3>1. LadderAt(F, C, A, x, y)
          BY <1>3, <1>11, <1>13, <1>16, <1>17, <2>2, Ladder
        <3>2. C \cup A \in G /\ C \cup A \cup U \in G /\ U \cap (C \cup A) = {} /\ C # A
            <4>1. C \cup A = A \cup C /\ C \cup A \cup U = A \cup C \cup U
              OBVIOUS
            <4> QED
              BY <1>10, <1>13, <4>1
        <3> QED
          BY <1>2, <1>3, <1>8, <1>12, <1>14, <1>15, <3>1, <3>2, ShapeFromLadder
    <2> QED
      BY <1>6, <2>1, <2>2 DEF TwoPendants
<1>19. ASSUME NEW P, AgreesOn(fs, P), JoinedIn(P, A, C)
       PROVE  x \in P /\ y \in P
    <2>1. PICK d \in P : a \in d /\ c \in d
      BY <1>12, <1>19 DEF JoinedIn
    <2>2. /\ 1 \in DOMAIN PendantNodes(fs[2], a, c) /\ 2 \in DOMAIN PendantNodes(fs[2], a, c)
          /\ PendantNodes(fs[2], a, c)[1] = x /\ PendantNodes(fs[2], a, c)[2] = y
      BY <1>3, <1>8
    <2>3. AreSiblings(fs[1], a, c) /\ 2 \in TreeIds
      BY <1>1
    <2>4. KeepsTo(P, x) /\ KeepsTo(P, y)
      BY <1>19, <2>1, <2>2, <2>3, TogetherKeepsPendants
    <2>5. IsPartition(P, Labels) /\ Divides(P, G)
      BY <1>2, <1>19, FirstTree DEF AgreesOn
    <2> QED
      BY <1>2, <1>8, <2>4, <2>5, KeptTerminalIsBlock
<1>20. ASSUME NEW P, AgreesOn(fs, P)
       PROVE  \E Q : /\ AgreesOn(fs, Q) /\ Cardinality(Q) <= Cardinality(P)
                     /\ x \in Q /\ y \in Q
    <2>1. CASE JoinedIn(P, A, C)
      <3>1. Cardinality(P) \in Nat
        BY <1>20, BlocksAreFinite DEF AgreesOn
      <3> QED
        BY <1>19, <1>20, <2>1, <3>1
    <2>2. CASE ~ JoinedIn(P, A, C)
        <3>1. ~ JoinedIn(P, C, A)
          BY <2>2 DEF JoinedIn
        <3>2. TwoBShape(fs[1], fs[2], A, C, U, x, y) \/ TwoBShape(fs[1], fs[2], C, A, U, x, y)
          BY <1>2, <1>3, <1>18
        <3>3. CASE TwoBShape(fs[1], fs[2], A, C, U, x, y)
          BY <1>1, <1>20, <2>2, <3>3, TwoBMakesUp
        <3>4. CASE TwoBShape(fs[1], fs[2], C, A, U, x, y)
          BY <1>1, <1>20, <3>1, <3>4, TwoBMakesUp
        <3> QED
          BY <3>2, <3>3, <3>4
    <2> QED
      BY <2>1, <2>2
<1>21. /\ b1 \in Labels /\ b2 \in Labels
       /\ TerminalOf(fs[1], b1) \in {x, y} /\ TerminalOf(fs[1], b2) \in {x, y}
    <2>1. b1 \in {l, k} /\ b2 \in {l, k}
      BY <1>5, <1>7
    <2>2. l \in x /\ k \in y
      BY <1>7 DEF LabelOf
    <2>3. l \in Labels /\ TerminalOf(G, l) = x
      BY <1>2, <1>8, <2>2, TerminalOfIsUnique
    <2>4. k \in Labels /\ TerminalOf(G, k) = y
      BY <1>2, <1>8, <2>2, TerminalOfIsUnique
    <2> QED
      BY <1>2, <2>1, <2>3, <2>4
<1>22. PairRule("TwoB", b1, b2).plans
          = <<Everywhere(<<Isolate(b1, NoLabel), Isolate(b2, NoLabel)>>)>>
  BY NewRuleFields DEF PairRule
<1>23. ASSUME NEW P, AgreesOn(fs, P)
       PROVE  \E Q : /\ AgreesOn(fs, Q) /\ Cardinality(Q) <= Cardinality(P)
                     /\ Obeys(Q, fs, Everywhere(<<Isolate(b1, NoLabel), Isolate(b2, NoLabel)>>))
    <2>1. PICK Q : AgreesOn(fs, Q) /\ Cardinality(Q) <= Cardinality(P) /\ x \in Q /\ y \in Q
      BY <1>20, <1>23
    <2>2. TerminalOf(fs[1], b1) \in Q /\ TerminalOf(fs[1], b2) \in Q
      BY <1>21, <2>1
    <2> QED
      BY <1>21, <2>1, <2>2, PlansObeyed
<1> QED
  BY <1>22, <1>23 DEF Completes

-----------------------------------------------------------------------------
(* The rule list, for two trees.                                           *)

\* A plan that protects the terminal of a label follows one that isolates it.
Backed(plans) ==
    \A p \in DOMAIN plans : \A i \in TreeIds : \A q \in DOMAIN plans[p][i] :
        plans[p][i][q].kind = "isolate" /\ plans[p][i][q].mate # NoLabel =>
            /\ plans[p][i][q].mate \in Labels
            /\ \E j \in 1..(p - 1) :
                  plans[j] = Everywhere(<<Isolate(plans[p][i][q].mate, NoLabel)>>)

\* A rule whose branches, taken together, lose nothing.
Lossless(r, fs) ==
    /\ Completes(r.plans, fs)
    /\ Backed(r.plans)
    /\ ~ IsBranching(r) => Len(r.plans) = 1

\* The edits of a plan for all trees.
LEMMA EverywhereEdits ==
    /\ \A i \in TreeIds : NoEdits[i] = <<>>
    /\ \A e : \A i \in TreeIds : Everywhere(<<e>>)[i] = <<e>>
    /\ \A e, f : \A i \in TreeIds : Everywhere(<<e, f>>)[i] = <<e, f>>
  BY DEF NoEdits, Everywhere

\* Plans that protect nothing.
LEMMA MatelessIsBacked ==
    ASSUME NEW plan, Mateless(plan)
    PROVE  Backed(<<plan>>) /\ Len(<<plan>>) = 1
<1>1. \A p \in DOMAIN <<plan>> : <<plan>>[p] = plan
  OBVIOUS
<1> QED
  BY <1>1 DEF Backed, Mateless

\* A rule of one plan that protects nothing is lossless when it completes.
LEMMA OnePlanIsLossless ==
    ASSUME NEW r, NEW fs, NEW plan, r.plans = <<plan>>, Mateless(plan),
           Completes(r.plans, fs)
    PROVE  Lossless(r, fs)
  BY MatelessIsBacked DEF Lossless

\* A plan that edits nothing is obeyed by every partition.
LEMMA NoEditsComplete ==
    ASSUME NEW fs, Level(fs)
    PROVE  Completes(<<NoEdits>>, fs)
<1>1. ASSUME NEW P, AgreesOn(fs, P)
      PROVE  \E Q : /\ AgreesOn(fs, Q) /\ Cardinality(Q) <= Cardinality(P)
                    /\ \E p \in DOMAIN <<NoEdits>> : Obeys(Q, fs, <<NoEdits>>[p])
    <2>1. Obeys(P, fs, NoEdits)
      BY PlansObeyed
    <2>2. 1 \in DOMAIN <<NoEdits>> /\ <<NoEdits>>[1] = NoEdits
      OBVIOUS
    <2>3. Cardinality(P) \in Nat
      BY <1>1, BlocksAreFinite DEF AgreesOn
    <2> QED
      BY <1>1, <2>1, <2>2, <2>3
<1> QED
  BY <1>1 DEF Completes

\* The two branching rules protect what an earlier branch isolated.
LEMMA BranchesAreBacked ==
    ASSUME NEW fs, NEW a \in Labels, NEW c \in Labels
    PROVE  Backed(ACRule(a, c).plans) /\ Backed(ABCRule(fs, a, c).plans)
<1>0. NoLabel \notin Labels
  BY LabelsAreTaxa DEF NoLabel
<1>1. \A l, m : Isolate(l, m).kind = "isolate" /\ Isolate(l, m).mate = m
  BY DEF Isolate
<1>2. \A n : Prune(n).kind = "prune"
  BY DEF Prune
<1>3. \A x : DOMAIN <<x>> = {1} /\ <<x>>[1] = x
  OBVIOUS
<1>4. Backed(ACRule(a, c).plans)
    <2>1. PICK plans : plans = ACRule(a, c).plans
      OBVIOUS
    <2>2. /\ DOMAIN plans = {1, 2}
          /\ plans[1] = Everywhere(<<Isolate(a, NoLabel)>>)
          /\ plans[2] = Everywhere(<<Isolate(c, a)>>)
        <3>1. plans = <<Everywhere(<<Isolate(a, NoLabel)>>), Everywhere(<<Isolate(c, a)>>)>>
          BY <2>1, NewRuleFields DEF ACRule
        <3> QED
          BY <3>1
    <2>3. ASSUME NEW i \in TreeIds
          PROVE  /\ \A q \in DOMAIN plans[1][i] : plans[1][i][q].mate = NoLabel
                 /\ \A q \in DOMAIN plans[2][i] : plans[2][i][q].mate = a
        <3>1. plans[1][i] = <<Isolate(a, NoLabel)>> /\ plans[2][i] = <<Isolate(c, a)>>
          BY <2>2, EverywhereEdits
        <3> QED
          BY <1>1, <1>3, <3>1
    <2>4. 1 \in 1..(2 - 1)
      OBVIOUS
    <2>5. Backed(plans)
      BY <2>2, <2>3, <2>4 DEF Backed
    <2> QED
      BY <2>1, <2>5
<1>5. Backed(ABCRule(fs, a, c).plans)
    <2>1. PICK plans : plans = ABCRule(fs, a, c).plans
      OBVIOUS
    <2>2. /\ DOMAIN plans = {1, 2, 3}
          /\ plans[1] = [i \in TreeIds |-> PrunesOf(fs[i], a, c)]
          /\ plans[2] = Everywhere(<<Isolate(c, NoLabel)>>)
          /\ plans[3] = Everywhere(<<Isolate(a, c)>>)
        <3>1. plans = <<[i \in TreeIds |-> PrunesOf(fs[i], a, c)],
                       Everywhere(<<Isolate(c, NoLabel)>>), Everywhere(<<Isolate(a, c)>>)>>
          BY <2>1, ABCPlans
        <3> QED
          BY <3>1
    <2>3. ASSUME NEW i \in TreeIds
          PROVE  /\ \A q \in DOMAIN plans[1][i] : plans[1][i][q].kind # "isolate"
                 /\ \A q \in DOMAIN plans[2][i] : plans[2][i][q].mate = NoLabel
                 /\ \A q \in DOMAIN plans[3][i] : plans[3][i][q].mate = c
        <3>1. plans[2][i] = <<Isolate(c, NoLabel)>> /\ plans[3][i] = <<Isolate(a, c)>>
          BY <2>2, EverywhereEdits
        <3>2. \A q \in DOMAIN plans[1][i] : plans[1][i][q].kind = "prune"
            <4>1. plans[1][i] = PrunesOf(fs[i], a, c)
              BY <2>2
            <4>2. PICK bs : bs = PendantNodes(fs[i], a, c)
              OBVIOUS
            <4>3. plans[1][i] = [k \in DOMAIN bs |-> Prune(bs[k])]
              BY <4>1, <4>2 DEF PrunesOf
            <4> QED
              BY <1>2, <4>3
        <3> QED
          BY <1>1, <1>3, <3>1, <3>2
    <2>4. 2 \in 1..(3 - 1)
      OBVIOUS
    <2>5. Backed(plans)
      BY <2>2, <2>3, <2>4 DEF Backed
    <2> QED
      BY <2>1, <2>5
<1> QED
  BY <1>4, <1>5

\* With two trees, one label is all that a narrow path can name.
LEMMA OneBLabel ==
    ASSUME NumTrees <= 2, NEW fs, Level(fs), NEW a \in Labels, NEW c \in Labels,
           SplitIn(fs, a, c) # {}, BRuleFits(fs, a, c)
    PROVE  \A b1 \in FirstBLabel(fs, a, c) : BLabels(fs, a, c) \ {b1} = {}
<1>1. TreeIds = {1, 2} /\ SplitIn(fs, a, c) = {2}
  BY NumTreesIsPositive DEF SplitIn, Others, TreeIds
<1>2. PICK F \in Forest : F = fs[2] /\ WellFormed(F) /\ NarrowPath(F, a, c, 1)
  BY <1>1 DEF Level, BRuleFits
<1>3. PICK x \in Terminals(F) : PendantNodes(F, a, c) = <<x>> /\ BLabelsIn(F, a, c) = LabelOf(x)
  BY <1>2, NarrowPathOfOne
<1>4. BLabels(fs, a, c) = LabelOf(x)
    <2>1. {BLabelsIn(fs[i], a, c) : i \in {2}} = {LabelOf(x)}
      BY <1>2, <1>3
    <2> QED
      BY <1>1, <2>1 DEF BLabels
<1>5. FirstBLabel(fs, a, c) = LabelOf(x)
    <2>1. {j \in {2} : \A k \in {2} : j <= k} = {2}
      OBVIOUS
    <2>2. {LabelOf(PendantNodes(fs[i], a, c)[1]) : i \in {2}} = {LabelOf(x)}
      BY <1>2, <1>3
    <2> QED
      BY <1>1, <2>1, <2>2 DEF FirstBLabel
<1>6. PICK l \in x : LabelOf(x) = {l}
  BY <1>2, TerminalsAreApart, LabelOfExists
<1> QED
  BY <1>4, <1>5, <1>6

\* The label met first is one of them.
LEMMA FirstIsBLabel ==
    ASSUME NEW fs, Level(fs), NEW a \in Labels, NEW c \in Labels,
           TwoBRuleFits(fs, a, c), NEW b1 \in FirstBLabel(fs, a, c)
    PROVE  b1 \in BLabels(fs, a, c)
<1>1. PICK i \in SplitIn(fs, a, c) : b1 \in LabelOf(PendantNodes(fs[i], a, c)[1])
  BY DEF FirstBLabel
<1>2. NarrowPath(fs[i], a, c, 2)
  BY DEF TwoBRuleFits
<1>3. PICK bs : bs = PendantNodes(fs[i], a, c)
  OBVIOUS
<1>4. Len(bs) \in 1..2
  BY <1>2, <1>3 DEF NarrowPath
<1>5. bs = PendantsAlong(fs[i], a, c) \o PendantsAlong(fs[i], c, a)
  BY <1>3 DEF PendantNodes
<1>6. DOMAIN bs = 1..Len(bs)
    <2>1. PICK F \in Forest : F = fs[i] /\ WellFormed(F)
      BY <1>1 DEF Level, SplitIn, Others
    <2>2. bs \in Seq(Node)
      BY <1>3, <2>1, PendantNodesAreNodes
    <2> QED
      BY <2>2
<1>7. 1 \in DOMAIN bs
  BY <1>4, <1>6
<1>8. b1 \in BLabelsIn(fs[i], a, c)
  BY <1>1, <1>3, <1>7 DEF BLabelsIn
<1> QED
  BY <1>8 DEF BLabels

\* The labels of a cherry, and what BRule, TwoBRule and ReverseBRule need of them.
LEMMA RulesForCherryAreLossless ==
    ASSUME NumTrees <= 2, NEW fs \in [TreeIds -> Forest], Level(fs),
           NEW a \in Labels, NEW c \in Labels, AreSiblings(fs[1], a, c)
    PROVE  \A r \in RuleForCherry(fs, a, c) : Lossless(r, fs)
<1>1. CASE SplitIn(fs, a, c) = {}
    <2>1. Cherry(fs, a, c)
      BY <1>1 DEF Cherry, SplitIn, Others
    <2>2. Completes(EqualPairRule(a, c).plans, fs)
      BY <2>1, EqualPairCompletes
    <2>3. EqualPairRule(a, c).plans = <<Everywhere(<<Merge(a, c)>>)>>
      BY NewRuleFields DEF EqualPairRule
    <2>4. Lossless(EqualPairRule(a, c), fs)
      BY <2>2, <2>3, PlansWithoutMates, OnePlanIsLossless
    <2>5. RuleForCherry(fs, a, c) = {EqualPairRule(a, c)}
      BY <1>1 DEF RuleForCherry
    <2> QED
      BY <2>4, <2>5
<1>2. CASE SplitIn(fs, a, c) # {} /\ \E i \in Others : ~ Connected(fs[i], a, c)
    <2>1. PICK i \in TreeIds : ~ Connected(fs[i], a, c)
      BY <1>2 DEF Others
    <2>2. Completes(ACRule(a, c).plans, fs)
      BY <2>1, ACCompletes
    <2>3. IsBranching(ACRule(a, c))
      BY NewRuleFields DEF ACRule, IsBranching
    <2>4. Lossless(ACRule(a, c), fs)
      BY <2>2, <2>3, BranchesAreBacked DEF Lossless
    <2>5. RuleForCherry(fs, a, c) = {ACRule(a, c)}
      BY <1>2 DEF RuleForCherry
    <2> QED
      BY <2>4, <2>5
<1>3. CASE SplitIn(fs, a, c) # {} /\ ~ \E i \in Others : ~ Connected(fs[i], a, c)
    <2>1. ASSUME NEW i \in TreeIds PROVE Connected(fs[i], a, c)
        <3>1. CASE i = 1
            <4>1. PICK F \in Forest : F = fs[1] /\ WellFormed(F)
              BY FirstTree DEF Level
            <4>2. IsCherry(F, TerminalOf(F, a), TerminalOf(F, c))
              BY <4>1, SiblingsAreCherry
            <4>3. TerminalOf(F, a) \cup TerminalOf(F, c) \in F
              BY <4>1, <4>2, CherryNodes DEF AroundCherry
            <4>4. a \in TerminalOf(F, a) /\ c \in TerminalOf(F, c)
              BY <4>1, TerminalOfLabel
            <4> QED
              BY <3>1, <4>1, <4>3, <4>4 DEF Connected
        <3>2. CASE i # 1
          BY <1>3, <3>2 DEF Others
        <3> QED
          BY <3>1, <3>2
    <2>2. CASE BRuleFits(fs, a, c)
        <3>1. ASSUME NEW b1 \in FirstBLabel(fs, a, c) PROVE Lossless(BRule(b1), fs)
            <4>1. BLabels(fs, a, c) \ {b1} = {}
              BY <1>3, <2>2, <3>1, OneBLabel
            <4>2. Completes(BRule(b1).plans, fs)
              BY <1>3, <2>1, <2>2, <4>1, BCompletes
            <4>3. BRule(b1).plans = <<Everywhere(<<Isolate(b1, NoLabel)>>)>>
              BY NewRuleFields DEF BRule
            <4> QED
              BY <4>2, <4>3, PlansWithoutMates, OnePlanIsLossless
        <3>2. \A b1 \in FirstBLabel(fs, a, c) : BLabels(fs, a, c) \ {b1} = {}
          BY <1>3, <2>2, OneBLabel
        <3>3. \A r \in BRules(fs, a, c) : \E b1 \in FirstBLabel(fs, a, c) : r = BRule(b1)
          BY <3>2 DEF BRules
        <3>4. RuleForCherry(fs, a, c) = BRules(fs, a, c)
          BY <1>3, <2>2 DEF RuleForCherry
        <3> QED
          BY <3>1, <3>3, <3>4
    <2>3. CASE ~ BRuleFits(fs, a, c) /\ ReverseBLabels(fs, a, c) # {}
        <3>1. ASSUME NEW l \in ReverseBLabels(fs, a, c) PROVE Lossless(ReverseBRule(l), fs)
            <4>1. Completes(ReverseBRule(l).plans, fs)
              BY <1>3, <3>1, ReverseBCompletes
            <4>2. ReverseBRule(l).plans = <<Everywhere(<<Isolate(l, NoLabel)>>)>>
              BY NewRuleFields DEF ReverseBRule
            <4> QED
              BY <4>1, <4>2, PlansWithoutMates, OnePlanIsLossless
        <3>2. RuleForCherry(fs, a, c) = {ReverseBRule(l) : l \in ReverseBLabels(fs, a, c)}
          BY <1>3, <2>3 DEF RuleForCherry
        <3> QED
          BY <3>1, <3>2
    <2>4. CASE /\ ~ BRuleFits(fs, a, c) /\ ReverseBLabels(fs, a, c) = {}
               /\ TwoBRuleFits(fs, a, c)
        <3>1. ASSUME NEW b1 \in FirstBLabel(fs, a, c), NEW b2 \in BLabels(fs, a, c) \ {b1}
              PROVE  Lossless(PairRule("TwoB", b1, b2), fs)
            <4>1. b1 \in BLabels(fs, a, c)
              BY <2>4, <3>1, FirstIsBLabel
            <4>2. Completes(PairRule("TwoB", b1, b2).plans, fs)
              BY <1>3, <2>1, <2>4, <3>1, <4>1, TwoBCompletes
            <4>3. PairRule("TwoB", b1, b2).plans
                      = <<Everywhere(<<Isolate(b1, NoLabel), Isolate(b2, NoLabel)>>)>>
              BY NewRuleFields DEF PairRule
            <4> QED
              BY <4>2, <4>3, PlansWithoutMates, OnePlanIsLossless
        <3>2. RuleForCherry(fs, a, c) = TwoBRules(fs, a, c)
          BY <1>3, <2>4 DEF RuleForCherry
        <3> QED
          BY <3>1, <3>2 DEF TwoBRules
    <2>5. CASE /\ ~ BRuleFits(fs, a, c) /\ ReverseBLabels(fs, a, c) = {}
               /\ ~ TwoBRuleFits(fs, a, c)
        <3>1. Completes(ABCRule(fs, a, c).plans, fs)
          BY ABCCompletes
        <3>2. IsBranching(ABCRule(fs, a, c))
          BY NewRuleFields DEF ABCRule, IsBranching
        <3>3. Lossless(ABCRule(fs, a, c), fs)
          BY <3>1, <3>2, BranchesAreBacked DEF Lossless
        <3>4. RuleForCherry(fs, a, c) = {ABCRule(fs, a, c)}
          BY <1>3, <2>5 DEF RuleForCherry
        <3> QED
          BY <3>3, <3>4
    <2> QED
      BY <2>2, <2>3, <2>4, <2>5
<1> QED
  BY <1>1, <1>2, <1>3

\* The configured rule list on two trees: whichever rule it selects, some
\* partition that is as good as any obeys one of its branches.
THEOREM SelectedRulesAreLossless ==
    ASSUME NumTrees <= 2, NEW fs \in [TreeIds -> Forest], Settled(fs),
           NEW T \in Forest, WellFormed(T), IsLabelledTree(T),
           NEW tooLarge \in BOOLEAN
    PROVE  \A r \in FirstApplicable(fs, tooLarge, AllRules(T, fs)) : Lossless(r, fs)
<1>1. Level(fs)
  BY SettledIsLevel
<1>2. ASSUME NEW r, r.plans = <<NoEdits>> PROVE Lossless(r, fs)
  BY <1>1, <1>2, NoEditsComplete, PlansWithoutMates, OnePlanIsLossless
<1>3. Lossless(CutBranchRule, fs) /\ Lossless(CheckSingleVertexTreesRule, fs)
      /\ Lossless(DebugAssertFalseRule, fs)
  BY <1>2, NewRuleFields DEF CutBranchRule, CheckSingleVertexTreesRule, DebugAssertFalseRule
<1>4. ASSUME NEW r \in PropagationRules(fs) PROVE Lossless(r, fs)
    <2>1. Completes(r.plans, fs)
      BY <1>1, <1>4, PropagationCompletes
    <2>2. PICK order : r = PropagationRule(order)
      BY <1>4 DEF PropagationRules
    <2>3. PICK edits : edits = [k \in DOMAIN order |-> Isolate(order[k], NoLabel)]
      OBVIOUS
    <2>4. r.plans = <<Everywhere(edits)>>
      BY <2>2, <2>3, NewRuleFields DEF PropagationRule
    <2>5. Mateless(Everywhere(edits))
      BY <2>3 DEF Mateless, Everywhere, Isolate
    <2> QED
      BY <2>1, <2>4, <2>5, OnePlanIsLossless
<1>5. ASSUME NEW r \in AllRules(T, fs) PROVE Lossless(r, fs)
    <2>1. PICK p \in FirstCherry(T, fs[1]) : r \in RuleForCherry(fs, p[1], p[2])
      BY <1>5 DEF AllRules
    <2>2. PICK F \in Forest : F = fs[1] /\ WellFormed(F)
      BY FirstTree DEF Settled
    <2>3. p[1] \in Labels /\ p[2] \in Labels /\ AreSiblings(fs[1], p[1], p[2])
      BY <2>1, <2>2, CherryIsFound
    <2> QED
      BY <1>1, <2>1, <2>3, RulesForCherryAreLossless
<1> QED
  BY <1>3, <1>4, <1>5 DEF FirstApplicable

-----------------------------------------------------------------------------
(* A plan carried out keeps the partitions that obey it, and no other.     *)

\* What a cut does to the partitions a forest may still be divided into.
LEMMA CutOnlyLoses ==
    ASSUME NEW e \in Edit, e.kind # "merge", NEW v \in States, WellFormed(v[1]),
           NEW u, Does(e, v, u), NEW P, IsPartition(P, Labels), Divides(P, u[1])
    PROVE  Divides(P, v[1]) /\ \A b \in P : Induced(u[1], b) = Induced(v[1], b)
<1>1. Blocks(P)
  BY DEF Blocks, IsPartition
<1>2. CASE u = v
  BY <1>2
<1>3. CASE /\ Goal(v[1], e) \in v[1] /\ HasParent(v[1], Goal(v[1], e))
           /\ u = <<CutEdge(v[1], Goal(v[1], e)), v[2] \cup Shielded(v[1], e)>>
    <2>1. PICK F \in Forest : F = v[1] /\ WellFormed(F)
      BY DEF States
    <2>2. PICK n \in F : n = Goal(F, e) /\ HasParent(F, n)
      BY <1>3, <2>1
    <2>3. u[1] = CutEdge(F, n)
      BY <1>3, <2>1, <2>2
    <2>4. Divides(P, F) /\ KeepsTo(P, n)
      BY <1>1, <2>1, <2>2, <2>3, CutDivides
    <2>5. ASSUME NEW b \in P PROVE Induced(CutEdge(F, n), b) = Induced(F, b)
      BY <2>1, <2>2, <2>4, InducedAfterCut DEF KeepsTo
    <2> QED
      BY <2>1, <2>3, <2>4, <2>5
<1> QED
  BY <1>2, <1>3 DEF Does

\* A cut that a partition obeys keeps it.
LEMMA ObeyedCutKeeps ==
    ASSUME NEW e \in Edit, e.kind # "merge", NEW v \in States, WellFormed(v[1]),
           NEW u, Does(e, v, u), NEW P, IsPartition(P, Labels),
           Divides(P, v[1]), KeepsTo(P, Goal(v[1], e))
    PROVE  Divides(P, u[1]) /\ \A b \in P : Induced(u[1], b) = Induced(v[1], b)
<1>1. Blocks(P)
  BY DEF Blocks, IsPartition
<1>2. CASE u = v
  BY <1>2
<1>3. CASE /\ Goal(v[1], e) \in v[1] /\ HasParent(v[1], Goal(v[1], e))
           /\ u = <<CutEdge(v[1], Goal(v[1], e)), v[2] \cup Shielded(v[1], e)>>
    <2>1. PICK F \in Forest : F = v[1] /\ WellFormed(F)
      BY DEF States
    <2>2. PICK n \in F : n = Goal(F, e) /\ HasParent(F, n) /\ KeepsTo(P, n) /\ Divides(P, F)
      BY <1>3, <2>1
    <2>3. u[1] = CutEdge(F, n)
      BY <1>3, <2>1, <2>2
    <2>4. Divides(P, CutEdge(F, n))
      BY <1>1, <2>1, <2>2, CutDivides
    <2>5. ASSUME NEW b \in P PROVE Induced(CutEdge(F, n), b) = Induced(F, b)
      BY <2>1, <2>2, InducedAfterCut DEF KeepsTo
    <2> QED
      BY <2>1, <2>3, <2>4, <2>5
<1> QED
  BY <1>2, <1>3 DEF Does

\* A block that is a terminal keeps to it.
LEMMA BlockIsKept ==
    ASSUME NEW P, IsPartition(P, Labels), NEW t \in P
    PROVE  KeepsTo(P, t)
  BY DEF IsPartition, KeepsTo

\* What an obeyed edit cuts off is kept to.
LEMMA ObeyedGoal ==
    ASSUME NEW e \in Edit, e.kind # "merge", e.kind = "isolate" => e.label \in Labels,
           NEW F \in Forest, WellFormed(F), NEW G \in Forest, WellFormed(G),
           Terminals(G) = Terminals(F),
           NEW P, IsPartition(P, Labels), ObeysEdit(P, F, e)
    PROVE  KeepsTo(P, Goal(G, e))
<1>1. CASE e.kind = "isolate"
    <2>1. Goal(G, e) = TerminalOf(F, e.label)
      BY <1>1, SameTerminals DEF Goal
    <2>2. TerminalOf(F, e.label) \in P
      BY <1>1 DEF ObeysEdit
    <2> QED
      BY <2>1, <2>2, BlockIsKept
<1>2. CASE e.kind \in {"prune", "detach"}
    <2>1. Goal(G, e) = e.node /\ KeepsTo(P, e.node)
      BY <1>2 DEF ObeysEdit, Goal
    <2> QED
      BY <2>1
<1> QED
  BY <1>1, <1>2 DEF Edit, EditKinds

\* How a forest and one cut out of it divide the labels alike.
Alike(P, F, G) == Divides(P, G) /\ \A b \in P : Induced(G, b) = Induced(F, b)

\* A run of cuts loses partitions and gains none.
LEMMA CutsOnlyLose ==
    ASSUME NEW es \in Seq(Edit), NEW d \in 0..Len(es),
           \A j \in 1..d : es[j].kind # "merge",
           NEW v \in States, WellFormed(v[1]), NEW u, Ran(es, d, v, u),
           NEW P, IsPartition(P, Labels), Divides(P, u[1])
    PROVE  Divides(P, v[1]) /\ \A b \in P : Induced(u[1], b) = Induced(v[1], b)
<1> DEFINE Good(x) == /\ x \in States /\ WellFormed(x[1])
                      /\ Divides(P, x[1]) =>
                            Divides(P, v[1]) /\ \A b \in P : Induced(x[1], b) = Induced(v[1], b)
           S == [j \in 0..d |-> {x \in States : Good(x)}]
<1>0. d \in Nat /\ \A j \in 1..d : es[j] \in Edit /\ j \in 0..d /\ j - 1 \in 0..d
  OBVIOUS
<1>1. v \in S[0]
  BY <1>0
<1>2. ASSUME NEW j \in 1..d, NEW x \in S[j - 1], NEW y, Does(es[j], x, y)
      PROVE  y \in S[j]
  <2>1. x \in States /\ Good(x)
    BY <1>0
  <2>2. y \in States /\ WellFormed(y[1])
    BY <1>0, <1>2, <2>1, CutDoes DEF CutDown
  <2>3. ASSUME Divides(P, y[1])
        PROVE  Divides(P, v[1]) /\ \A b \in P : Induced(y[1], b) = Induced(v[1], b)
    <3>1. Divides(P, x[1]) /\ \A b \in P : Induced(y[1], b) = Induced(x[1], b)
      BY <1>0, <1>2, <2>1, <2>3, CutOnlyLoses
    <3> QED
      BY <2>1, <3>1
  <2>4. Good(y)
    BY <2>2, <2>3
  <2> QED
    BY <1>0, <2>2, <2>4
<1> HIDE DEF S
<1>3. u \in S[d]
  BY <1>0, <1>1, <1>2, RanHandsOn
<1>4. Good(u)
  BY <1>0, <1>3 DEF S
<1> QED
  BY <1>4

\* A run of cuts that a partition obeys keeps it.
LEMMA ObeyedCutsKeep ==
    ASSUME NEW es \in Seq(Edit), NEW d \in 0..Len(es),
           \A j \in 1..d : /\ es[j].kind # "merge"
                           /\ es[j].kind = "isolate" => es[j].label \in Labels,
           NEW v \in States, WellFormed(v[1]), NEW u, Ran(es, d, v, u),
           NEW P, IsPartition(P, Labels), Divides(P, v[1]),
           \A j \in 1..d : ObeysEdit(P, v[1], es[j])
    PROVE  Divides(P, u[1]) /\ \A b \in P : Induced(u[1], b) = Induced(v[1], b)
<1> DEFINE Good(x) == /\ x \in States /\ CutDown(v[1], x[1])
                      /\ Divides(P, x[1])
                      /\ \A b \in P : Induced(x[1], b) = Induced(v[1], b)
           S == [j \in 0..d |-> {x \in States : Good(x)}]
<1>0. d \in Nat /\ \A j \in 1..d : es[j] \in Edit /\ j \in 0..d /\ j - 1 \in 0..d
  OBVIOUS
<1>1. v \in S[0]
  BY <1>0 DEF CutDown, States
<1>2. ASSUME NEW j \in 1..d, NEW x \in S[j - 1], NEW y, Does(es[j], x, y)
      PROVE  y \in S[j]
  <2>1. x \in States /\ Good(x)
    BY <1>0
  <2>2. y \in States /\ CutDown(x[1], y[1])
    BY <1>0, <1>2, <2>1, CutDoes DEF CutDown
  <2>3. CutDown(v[1], y[1])
    BY <2>1, <2>2 DEF CutDown
  <2>4. KeepsTo(P, Goal(x[1], es[j]))
    <3>1. PICK F \in Forest : F = v[1]
      BY DEF States
    <3>2. PICK G \in Forest : G = x[1] /\ WellFormed(G) /\ Terminals(G) = Terminals(F)
      BY <2>1, <3>1 DEF CutDown
    <3>3. es[j] \in Edit /\ es[j].kind # "merge" /\ (es[j].kind = "isolate" => es[j].label \in Labels)
          /\ ObeysEdit(P, F, es[j])
      BY <1>0, <3>1
    <3>4. KeepsTo(P, Goal(G, es[j]))
      BY <3>1, <3>2, <3>3, ObeyedGoal
    <3> QED
      BY <3>2, <3>4
  <2>5. Divides(P, y[1]) /\ \A b \in P : Induced(y[1], b) = Induced(x[1], b)
    BY <1>0, <1>2, <2>1, <2>4, ObeyedCutKeeps DEF CutDown
  <2>6. Good(y)
    BY <2>1, <2>2, <2>3, <2>5
  <2> QED
    BY <1>0, <2>2, <2>6
<1> HIDE DEF S
<1>3. u \in S[d]
  BY <1>0, <1>1, <1>2, RanHandsOn
<1>4. Good(u)
  BY <1>0, <1>3 DEF S
<1> QED
  BY <1>4

\* The edits of a plan that isolate name labels.
Names(plan) ==
    \A i \in TreeIds : \A q \in DOMAIN plan[i] :
        plan[i][q].kind = "isolate" => plan[i][q].label \in Labels

\* A plan of cuts keeps just the partitions that obey it, as far as they go.
LEMMA CutPlanRuns ==
    ASSUME NEW plan \in Plan, Cutting(plan), Names(plan), NEW fs, Level(fs),
           NEW gs, NEW prot, NEW qrot, RunsTo(plan, fs, prot, gs, qrot),
           NEW P
    PROVE  /\ AgreesOn(gs, P) => AgreesOn(fs, P)
           /\ AgreesOn(fs, P) /\ Obeys(P, fs, plan) => AgreesOn(gs, P)
<1>1. ASSUME NEW i \in TreeIds, IsPartition(P, Labels)
      PROVE  /\ Divides(P, gs[i]) => Alike(P, gs[i], fs[i])
             /\ Divides(P, fs[i]) /\ Obeys(P, fs, plan) => Alike(P, fs[i], gs[i])
    <2>1. PICK es \in Seq(Edit) : es = plan[i] /\ Len(es) \in 0..Len(es)
      BY PlansAreTyped
    <2>2. \A j \in 1..Len(es) : j \in DOMAIN plan[i]
      BY <2>1
    <2>3. \A j \in 1..Len(es) : /\ es[j].kind # "merge"
                                /\ es[j].kind = "isolate" => es[j].label \in Labels
      BY <2>1, <2>2 DEF Cutting, Names
    <2>4. PICK v \in States : v = StateOf(fs, prot, i) /\ v[1] = fs[i] /\ WellFormed(v[1])
        <3>1. fs[i] \in Forest /\ WellFormed(fs[i])
          BY DEF Level
        <3>2. StateOf(fs, prot, i) \in States /\ StateOf(fs, prot, i)[1] = fs[i]
          BY <3>1, StatesOfForests
        <3> QED
          BY <3>1, <3>2
    <2>5. PICK u : u = StateOf(gs, qrot, i) /\ u[1] = gs[i]
        <3>1. StateOf(gs, qrot, i)[1] = gs[i]
          BY DEF StateOf
        <3> QED
          BY <3>1
    <2>6. Ran(es, Len(es), v, u)
      BY <2>1, <2>4, <2>5 DEF RunsTo
    <2>7. ASSUME Divides(P, u[1])
          PROVE  Divides(P, v[1]) /\ \A b \in P : Induced(u[1], b) = Induced(v[1], b)
      BY <1>1, <2>1, <2>3, <2>4, <2>6, <2>7, CutsOnlyLose
    <2>8. ASSUME Divides(P, v[1]), Obeys(P, fs, plan)
          PROVE  Divides(P, u[1]) /\ \A b \in P : Induced(u[1], b) = Induced(v[1], b)
        <3>1. \A j \in 1..Len(es) : ObeysEdit(P, v[1], es[j])
          BY <2>1, <2>2, <2>4, <2>8 DEF Obeys
        <3> QED
          BY <1>1, <2>1, <2>3, <2>4, <2>6, <2>8, <3>1, ObeyedCutsKeep
    <2> QED
      BY <2>4, <2>5, <2>7, <2>8 DEF Alike
<1>2. ASSUME AgreesOn(gs, P) PROVE AgreesOn(fs, P)
  BY <1>1, <1>2, FirstTree DEF AgreesOn, Alike
<1>3. ASSUME AgreesOn(fs, P), Obeys(P, fs, plan) PROVE AgreesOn(gs, P)
  BY <1>1, <1>3, FirstTree DEF AgreesOn, Alike
<1> QED
  BY <1>2, <1>3

\* A plan that merges a cherry keeps just the partitions that do not split it.
LEMMA MergePlanRuns ==
    ASSUME NEW a \in Labels, NEW c \in Labels, NEW fs, Level(fs), Cherry(fs, a, c),
           NEW gs, NEW prot, NEW qrot,
           RunsTo(Everywhere(<<Merge(a, c)>>), fs, prot, gs, qrot), NEW P
    PROVE  /\ AgreesOn(gs, P) => AgreesOn(fs, P)
           /\ AgreesOn(fs, P) /\ Obeys(P, fs, Everywhere(<<Merge(a, c)>>)) => AgreesOn(gs, P)
<1>1. PICK A : A = TerminalOf(fs[1], a)
  OBVIOUS
<1>2. PICK C : C = TerminalOf(fs[1], c)
  OBVIOUS
<1>3. ASSUME NEW i \in TreeIds
      PROVE  IsCherry(fs[i], A, C) /\ gs[i] = CollapseAt(fs[i], A \cup C)
    <2>1. PICK F \in Forest : F = fs[i] /\ WellFormed(F) /\ Terminals(F) = Terminals(fs[1])
      BY DEF Level
    <2>2. PICK G \in Forest : G = fs[1] /\ WellFormed(G)
      BY FirstTree DEF Level
    <2>3. TerminalOf(F, a) = A /\ TerminalOf(F, c) = C
      BY <1>1, <1>2, <2>1, <2>2, SameTerminals
    <2>4. AreSiblings(F, a, c)
      BY <2>1 DEF Cherry
    <2>5. IsCherry(F, A, C)
      BY <2>1, <2>3, <2>4, SiblingsAreCherry
    <2>6. PICK v \in States : v = StateOf(fs, prot, i) /\ v[1] = F
        <3>1. StateOf(fs, prot, i) \in States /\ StateOf(fs, prot, i)[1] = fs[i]
          BY <2>1, StatesOfForests
        <3> QED
          BY <2>1, <3>1
    <2>7. PICK u : u = StateOf(gs, qrot, i) /\ u[1] = gs[i]
        <3>1. StateOf(gs, qrot, i)[1] = gs[i]
          BY DEF StateOf
        <3> QED
          BY <3>1
    <2>8. Ran(<<Merge(a, c)>>, 1, v, u)
        <3>1. Everywhere(<<Merge(a, c)>>)[i] = <<Merge(a, c)>>
          BY EverywhereEdits
        <3>2. Len(<<Merge(a, c)>>) = 1
          OBVIOUS
        <3> QED
          BY <2>6, <2>7, <3>1, <3>2 DEF RunsTo
    <2>9. MergesTo(v[1], u[1], A, C)
        <3>1. WellFormed(v[1]) /\ AreSiblings(v[1], a, c)
              /\ A = TerminalOf(v[1], a) /\ C = TerminalOf(v[1], c)
          BY <2>1, <2>3, <2>4, <2>6
        <3> QED
          BY <2>8, <3>1, MergeRan
    <2> QED
      BY <2>1, <2>5, <2>6, <2>7, <2>9 DEF MergesTo
<1>4. PICK ks : ks = CollapsedIn(fs, A, C)
  OBVIOUS
<1>5. \A i \in TreeIds : ks[i] = gs[i]
  BY <1>3, <1>4 DEF CollapsedIn
<1>6. AgreesOn(ks, P) <=> AgreesOn(fs, P) /\ \E b \in P : A \cup C \subseteq b
    <2>1. LosesSplit(fs, A, C)
      BY <1>3, CollapsedAgrees
    <2> QED
      BY <1>4, <2>1 DEF LosesSplit
<1>7. AgreesOn(gs, P) <=> AgreesOn(ks, P)
  BY <1>5, FirstTree DEF AgreesOn
<1>8. ASSUME AgreesOn(fs, P), Obeys(P, fs, Everywhere(<<Merge(a, c)>>))
      PROVE  \E b \in P : A \cup C \subseteq b
    <2>1. PICK es : es = Everywhere(<<Merge(a, c)>>)[1]
      OBVIOUS
    <2>2. es = <<Merge(a, c)>>
      BY <2>1, FirstTree, EverywhereEdits
    <2>3. 1 \in DOMAIN es /\ es[1] = Merge(a, c)
      BY <2>2
    <2>4. ObeysEdit(P, fs[1], Merge(a, c))
      BY <1>8, <2>1, <2>3, FirstTree DEF Obeys
    <2>5. PICK b \in P : a \in b /\ c \in b
        <3>1. Merge(a, c).kind = "merge" /\ Merge(a, c).label = a /\ Merge(a, c).mate = c
          BY DEF Merge
        <3> QED
          BY <2>4, <3>1 DEF ObeysEdit
    <2>6. PICK G \in Forest : G = fs[1] /\ WellFormed(G)
      BY FirstTree DEF Level
    <2>7. A \in Terminals(G) /\ a \in A /\ C \in Terminals(G) /\ c \in C
      BY <1>1, <1>2, <2>6, TerminalOfLabel
    <2>8. Divides(P, G)
      BY <1>8, <2>6, FirstTree DEF AgreesOn
    <2>9. A \subseteq b /\ C \subseteq b
      BY <2>5, <2>7, <2>8 DEF Divides
    <2> QED
      BY <2>5, <2>9
<1> QED
  BY <1>6, <1>7, <1>8

\* Where a rule fits, what its plans isolate has a label.
LEMMA FittingNames ==
    ASSUME NEW r \in Rule, NEW fs, Fits(r, fs), PlansFit(r.name, r.plans),
           NEW p \in DOMAIN r.plans, r.name # "EqualPair"
    PROVE  Cutting(r.plans[p]) /\ Names(r.plans[p])
<1>1. Cutting(r.plans[p])
  BY DEF PlansFit
<1>2. CASE r.name \in {"CutBranch", "CheckSingleVertexTrees"}
    <2>1. r.plans = <<NoEdits>>
      BY <1>2 DEF Fits
    <2>2. r.plans[p] = NoEdits
      BY <2>1
    <2>3. Names(NoEdits)
      BY EverywhereEdits DEF Names
    <2> QED
      BY <1>1, <2>2, <2>3
<1>3. CASE r.name \in Isolating
    <2>1. IsolatesAll(r.plans[p], fs)
      BY <1>3 DEF Fits
    <2>2. Names(r.plans[p])
      BY <2>1 DEF IsolatesAll, Names
    <2> QED
      BY <1>1, <2>2
<1>4. CASE r.name = "ABC"
    <2>1. r.a \in Labels /\ r.c \in Labels /\ r.plans = ABCRule(fs, r.a, r.c).plans
      BY <1>4 DEF Fits
    <2>2. PICK plans : plans = r.plans
      OBVIOUS
    <2>3. plans = <<[i \in TreeIds |-> PrunesOf(fs[i], r.a, r.c)],
                    Everywhere(<<Isolate(r.c, NoLabel)>>), Everywhere(<<Isolate(r.a, r.c)>>)>>
      BY <2>1, <2>2, ABCPlans
    <2>4. /\ DOMAIN plans = {1, 2, 3}
          /\ plans[1] = [i \in TreeIds |-> PrunesOf(fs[i], r.a, r.c)]
          /\ plans[2] = Everywhere(<<Isolate(r.c, NoLabel)>>)
          /\ plans[3] = Everywhere(<<Isolate(r.a, r.c)>>)
      BY <2>3
    <2>5. Names(plans[1])
        <3>1. ASSUME NEW i \in TreeIds, NEW q \in DOMAIN plans[1][i]
              PROVE  plans[1][i][q].kind # "isolate"
            <4>1. PICK bs : bs = PendantNodes(fs[i], r.a, r.c)
              OBVIOUS
            <4>2. plans[1][i] = [k \in DOMAIN bs |-> Prune(bs[k])]
              BY <2>4, <4>1 DEF PrunesOf
            <4> QED
              BY <3>1, <4>2 DEF Prune
        <3> QED
          BY <3>1 DEF Names
    <2>6. Names(plans[2]) /\ Names(plans[3])
        <3>1. \A x : DOMAIN <<x>> = {1} /\ <<x>>[1] = x
          OBVIOUS
        <3>2. \A l, m : Isolate(l, m).label = l
          BY DEF Isolate
        <3>3. \A i \in TreeIds : plans[2][i] = <<Isolate(r.c, NoLabel)>>
                                 /\ plans[3][i] = <<Isolate(r.a, r.c)>>
          BY <2>4, EverywhereEdits
        <3> QED
          BY <2>1, <3>1, <3>2, <3>3 DEF Names
    <2> QED
      BY <1>1, <2>2, <2>4, <2>5, <2>6
<1>5. CASE r.name = "ForcedCherryCut"
    <2>1. r.plans = ForcedCherryCutRule(fs, r.a, r.c).plans
      BY <1>5 DEF Fits
    <2>2. PICK x, y, z : r.plans = <<[i \in TreeIds |->
              IF i = 2 THEN <<Detach(x), Detach(y), Detach(z)>> ELSE <<>>]>>
        <3>1. PICK x : x = TerminalOf(fs[2], r.a)
          OBVIOUS
        <3>2. PICK y : y = Sibling(fs[2], TerminalOf(fs[2], r.a))
          OBVIOUS
        <3>3. PICK z : z = TerminalOf(fs[2], r.c)
          OBVIOUS
        <3>4. r.plans = <<[i \in TreeIds |->
                  IF i = 2 THEN <<Detach(x), Detach(y), Detach(z)>> ELSE <<>>]>>
          BY <2>1, <3>1, <3>2, <3>3, NewRuleFields DEF ForcedCherryCutRule
        <3> QED
          BY <3>4
    <2>3. \A i \in TreeIds : r.plans[p][i] = <<Detach(x), Detach(y), Detach(z)>>
                             \/ r.plans[p][i] = <<>>
      BY <2>2
    <2>4. ASSUME NEW i \in TreeIds, NEW q \in DOMAIN r.plans[p][i]
          PROVE  r.plans[p][i][q].kind # "isolate"
      BY <2>3, <2>4 DEF Detach
    <2>5. Names(r.plans[p])
      BY <2>4 DEF Names
    <2> QED
      BY <1>1, <2>5
<1>6. r.name \in RuleNames /\ r.name # "DebugAssertFalse"
  BY DEF Rule, Fits
<1> QED
  BY <1>2, <1>3, <1>4, <1>5, <1>6 DEF RuleNames, Isolating

\* A rule applied in full keeps just the partitions that obey the branch taken.
LEMMA RuleRuns ==
    ASSUME NEW r \in Rule, PlansFit(r.name, r.plans), NEW fs, Fits(r, fs), Settled(fs),
           NEW p \in DOMAIN r.plans, NEW gs, NEW prot, NEW qrot,
           RunsTo(r.plans[p], fs, prot, gs, qrot), NEW P
    PROVE  /\ AgreesOn(gs, P) => AgreesOn(fs, P)
           /\ AgreesOn(fs, P) /\ Obeys(P, fs, r.plans[p]) => AgreesOn(gs, P)
<1>1. Level(fs)
  BY SettledIsLevel
<1>2. CASE r.name = "EqualPair"
    <2>1. r.a \in Labels /\ r.c \in Labels /\ Cherry(fs, r.a, r.c)
          /\ r.plans = <<Everywhere(<<Merge(r.a, r.c)>>)>>
      BY <1>2 DEF Fits
    <2>2. r.plans[p] = Everywhere(<<Merge(r.a, r.c)>>)
      BY <2>1
    <2> QED
      BY <1>1, <2>1, <2>2, MergePlanRuns
<1>3. CASE r.name # "EqualPair"
    <2>1. r.plans[p] \in Plan
      BY DEF Rule
    <2>2. Cutting(r.plans[p]) /\ Names(r.plans[p])
      BY <1>3, FittingNames
    <2> QED
      BY <1>1, <2>1, <2>2, CutPlanRuns
<1> QED
  BY <1>2, <1>3

\* Forests that only hold terminals.
LEMMA OnlyTerminals ==
    ASSUME NEW F \in Forest, WellFormed(F), Hanging(F) = {}
    PROVE  F = Terminals(F)
<1>1. Terminals(F) \subseteq F
  BY DEF Terminals
<1>2. ASSUME NEW n \in F PROVE n \in Terminals(F)
    <2>1. PICK t \in Terminals(F) : t \subseteq n
      BY TerminalInside
    <2>2. ~ HasParent(F, t)
      BY DEF Hanging
    <2>3. t # {}
      BY TerminalsAreApart
    <2>4. t = n
      BY <2>1, <2>2, <2>3 DEF HasParent, NullNode
    <2> QED
      BY <2>4
<1> QED
  BY <1>1, <1>2

\* At the end of a branch the trees are a partition that agrees with them.
LEMMA EndAgrees ==
    ASSUME NEW fs, Settled(fs), AtEnd(fs)
    PROVE  AgreesOn(fs, Roots(fs[1]))
<1>1. PICK G \in Forest : G = fs[1] /\ WellFormed(G) /\ Hanging(G) = {}
  BY FirstTree DEF Settled, AtEnd
<1>2. G = Terminals(G) /\ Roots(G) = G
  BY <1>1, OnlyTerminals, RootsAtEnd
<1>3. \A i \in TreeIds : fs[i] = G
    <2>1. ASSUME NEW i \in TreeIds PROVE fs[i] = G
        <3>1. PICK F \in Forest : F = fs[i] /\ WellFormed(F) /\ Hanging(F) = {}
                                  /\ Terminals(F) = Terminals(G)
          BY <1>1 DEF Settled, AtEnd
        <3>2. F = Terminals(F)
          BY <3>1, OnlyTerminals
        <3> QED
          BY <1>2, <3>1, <3>2
    <2> QED
      BY <2>1
<1>4. \A t \in G : t # {} /\ \A m \in G : m # t => t \cap m = {}
    <2>1. ASSUME NEW t \in G, NEW m \in G, m # t PROVE t \cap m = {}
      BY <1>1, <1>2, <2>1, TerminalsAreApart
    <2>2. \A t \in G : t # {}
      BY <1>1, <1>2, TerminalsAreApart
    <2> QED
      BY <2>1, <2>2
<1>5. IsPartition(G, Labels)
  BY <1>1, <1>4 DEF IsPartition, WellFormed
<1>6. SpansAreDisjoint(G, G)
    <2>1. ASSUME NEW t \in G, NEW m \in G, m # t PROVE Span(G, t) \cap Span(G, m) = {}
        <3>1. Span(G, t) \subseteq {t} /\ Span(G, m) \subseteq {m}
          BY <1>1, <1>2, SpanOfTerminal
        <3> QED
          BY <2>1, <3>1
    <2> QED
      BY <2>1 DEF SpansAreDisjoint
<1>7. Divides(G, G)
    <2>1. \A b \in G : \A t \in Terminals(G) : t \subseteq b \/ t \cap b = {}
      BY <1>2, <1>4
    <2> QED
      BY <1>6, <2>1 DEF Divides
<1>8. AgreesOn(fs, G)
  BY <1>3, <1>5, <1>7, FirstTree DEF AgreesOn
<1> QED
  BY <1>1, <1>2, <1>8
=============================================================================
