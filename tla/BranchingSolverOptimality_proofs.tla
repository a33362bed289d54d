------------------- MODULE BranchingSolverOptimality_proofs -------------------
(***************************************************************************)
(* What the answers of the branching solver are worth: on two trees, a     *)
(* search that says it is exhausted has found a maximum agreement forest,  *)
(* a bounded-depth search stops with one, and what is written is one or    *)
(* meets the certified threshold.                                          *)
(*                                                                         *)
(* The argument: every rule that is entered is lossless, so that a branch  *)
(* holds no agreement forest smaller than the incumbent once each of its   *)
(* edits has been undone, and a rule all of whose branches are spent       *)
(* leaves the branch it was entered in spent.                              *)
(***************************************************************************)
EXTENDS BranchingSolver_proofs

-----------------------------------------------------------------------------
(* The optimum.                                                            *)

\* The trees of an instance.
AreTrees(ts) ==
    \A i \in TreeIds : ts[i] \in Forest /\ WellFormed(ts[i]) /\ IsLabelledTree(ts[i])

\* On the input, agreeing is what makes a partition an agreement forest.
LEMMA AgreesOnInput ==
    ASSUME NEW ts, DOMAIN ts = TreeIds, AreTrees(ts), NEW P
    PROVE  AgreesOn(ts, P) <=> IsAgreementForest(P, ts)
<1>1. UNION ts[1] = Labels
  BY FirstTree DEF AreTrees, WellFormed
<1>2. ASSUME NEW i \in TreeIds, IsPartition(P, Labels)
      PROVE  Divides(P, ts[i]) <=> SpansAreDisjoint(ts[i], P)
    <2>1. PICK T \in Forest : T = ts[i] /\ WellFormed(T) /\ IsLabelledTree(T)
      BY DEF AreTrees
    <2>2. \A b \in P : \E m \in T : b \subseteq m
        <3>1. Labels \in T
          BY <2>1 DEF IsLabelledTree
        <3>2. \A b \in P : b \subseteq Labels
          BY <1>2 DEF IsPartition
        <3> QED
          BY <3>1, <3>2
    <2>3. \A b \in P : \A t \in Terminals(T) : t \subseteq b \/ t \cap b = {}
        <3>1. Terminals(T) = {{l} : l \in Labels}
          BY <2>1, LabelledTreeTerminals
        <3> QED
          BY <3>1
    <2> QED
      BY <2>1, <2>2, <2>3 DEF Divides
<1>3. (\A i \in TreeIds : SpansAreDisjoint(ts[i], P))
          <=> \A i \in TreeIds : \A b, c \in P : b # c => Span(ts[i], b) \cap Span(ts[i], c) = {}
  BY DEF SpansAreDisjoint
<1> QED
  BY <1>1, <1>2, <1>3 DEF AgreesOn, IsAgreementForest

\* Every partition is one of those the optimum is taken over.
LEMMA PartitionIsListed ==
    ASSUME NEW P, IsPartition(P, Labels)
    PROVE  P \in PartitionsOf(Labels)
<1> DEFINE least(b) == CHOOSE k \in b : LabelOf(b) = {k} /\ \A j \in b : k <= j
           block(l) == CHOOSE b \in P : l \in b
           f == [l \in Labels |-> least(block(l))]
<1>1. ASSUME NEW b \in P
      PROVE  least(b) \in b /\ b \subseteq Labels /\ \A j \in b : least(b) <= j
    <2>1. b \in SUBSET Labels /\ b # {}
      BY DEF IsPartition
    <2>2. \E k \in b : LabelOf(b) = {k} /\ \A j \in b : k <= j
      BY <2>1, LabelOfExists
    <2> QED
      BY <2>1, <2>2
<1>2. ASSUME NEW l \in Labels
      PROVE  block(l) \in P /\ l \in block(l)
    <2>1. \E b \in P : l \in b
      BY DEF IsPartition
    <2> QED
      BY <2>1
<1>3. \A b \in P : \A l \in b : block(l) = b
    <2>1. ASSUME NEW b \in P, NEW l \in b PROVE block(l) = b
        <3>1. l \in Labels
          BY <1>1
        <3>2. block(l) \in P /\ l \in block(l)
          BY <1>2, <3>1
        <3> HIDE DEF block
        <3> QED
          BY <3>2 DEF IsPartition
    <2> QED
      BY <2>1
<1>4. f \in {g \in [Labels -> Labels] : \A l \in Labels : g[l] <= l}
    <2>1. ASSUME NEW l \in Labels PROVE f[l] \in Labels /\ f[l] <= l
        <3>1. f[l] = least(block(l))
          OBVIOUS
        <3> HIDE DEF f, least, block
        <3> QED
          BY <1>1, <1>2, <3>1
    <2> HIDE DEF least, block
    <2> QED
      BY <2>1
<1>5. \A b \in P : least(b) \in {f[l] : l \in Labels} /\ {l \in Labels : f[l] = least(b)} = b
    <2>1. ASSUME NEW b \in P
          PROVE  least(b) \in {f[l] : l \in Labels} /\ {l \in Labels : f[l] = least(b)} = b
        <3>1. \A l \in Labels : f[l] = least(block(l))
          OBVIOUS
        <3> HIDE DEF f, least, block
        <3>2. \A l \in b : l \in Labels /\ f[l] = least(b)
          BY <1>1, <1>3, <3>1
        <3>3. ASSUME NEW l \in Labels, f[l] = least(b) PROVE l \in b
            <4>1. block(l) \in P /\ l \in block(l) /\ least(block(l)) = least(b)
              BY <1>2, <3>1, <3>3
            <4>2. least(b) \in b /\ least(b) \in block(l)
              BY <1>1, <4>1
            <4> QED
              BY <4>1, <4>2 DEF IsPartition
        <3>4. least(b) \in b
          BY <1>1
        <3> QED
          BY <3>2, <3>3, <3>4
    <2> QED
      BY <2>1
<1>6. \A l \in Labels : f[l] = least(block(l))
  OBVIOUS
<1> HIDE DEF f, least, block
<1> DEFINE class(k) == {l \in Labels : f[l] = k}
<1>7. \A b \in P : class(least(b)) = b
  BY <1>5
<1> HIDE DEF class
<1>8. \A l \in Labels : class(f[l]) = block(l)
  BY <1>2, <1>6, <1>7
<1>9. \A x : x \in P <=> \E k \in {f[l] : l \in Labels} : x = class(k)
    <2>1. \A x \in P : \E k \in {f[l] : l \in Labels} : x = class(k)
      BY <1>5, <1>7
    <2>2. \A k \in {f[l] : l \in Labels} : class(k) \in P
      BY <1>2, <1>8
    <2> QED
      BY <2>1, <2>2
<1>10. P = {class(k) : k \in {f[l] : l \in Labels}}
  BY <1>9
<1>11. P = {{l \in Labels : f[l] = k} : k \in {f[l] : l \in Labels}}
  BY <1>10 DEF class
<1> QED
  BY <1>4, <1>11 DEF PartitionsOf

\* The optimum is the size of an agreement forest, and none is smaller.
LEMMA OptimumIsLeast ==
    ASSUME NEW ts, DOMAIN ts = TreeIds, AreTrees(ts), NEW P, AgreesOn(ts, P)
    PROVE  /\ \E Q : AgreesOn(ts, Q) /\ Cardinality(Q) = Optimum(ts)
           /\ Optimum(ts) <= Cardinality(P)
           /\ Optimum(ts) \in Nat
<1> DEFINE sizes == AgreementForestSizes(ts)
<1>1. \A k : k \in sizes <=> \E Q : AgreesOn(ts, Q) /\ Cardinality(Q) = k
    <2>1. \A Q : AgreesOn(ts, Q) <=> Q \in PartitionsOf(Labels) /\ IsAgreementForest(Q, ts)
      BY AgreesOnInput, PartitionIsListed DEF AgreesOn
    <2> QED
      BY <2>1 DEF AgreementForestSizes
<1>2. \A Q : AgreesOn(ts, Q) => Cardinality(Q) \in Nat
  BY BlocksAreFinite DEF AgreesOn
<1> HIDE DEF sizes
<1>3. sizes \in SUBSET Nat /\ sizes # {}
  BY <1>1, <1>2
<1>4. \E k \in sizes : \A j \in sizes : k <= j
  BY <1>3, SmallestExists
<1>5. Optimum(ts) = CHOOSE k \in sizes : \A j \in sizes : k <= j
  BY DEF Optimum, sizes
<1>6. Optimum(ts) \in sizes /\ \A j \in sizes : Optimum(ts) <= j
  BY <1>4, <1>5
<1> QED
  BY <1>1, <1>3, <1>6

\* Taking every label for itself is an agreement forest.
LEMMA SingletonsAgree ==
    ASSUME NEW ts, AreTrees(ts)
    PROVE  /\ AgreesOn(ts, {{l} : l \in Labels})
           /\ Cardinality({{l} : l \in Labels}) <= Cardinality(Labels)
<1>1. PICK P : P = {{l} : l \in Labels}
  OBVIOUS
<1>2. \A b \in P : b # {} /\ b \subseteq Labels
  BY <1>1
<1>3. IsPartition(P, Labels)
  BY <1>1 DEF IsPartition
<1>4. ASSUME NEW i \in TreeIds
      PROVE  /\ Divides(P, ts[i])
             /\ \A b \in P : Induced(ts[i], b) = {b}
    <2>1. PICK T \in Forest : T = ts[i] /\ WellFormed(T) /\ IsLabelledTree(T)
      BY DEF AreTrees
    <2>2. Terminals(T) = P
      BY <1>1, <2>1, LabelledTreeTerminals
    <2>3. \A b \in P : b \in T
      BY <2>2 DEF Terminals
    <2>4. \A b \in P : \A t \in Terminals(T) : t \subseteq b \/ t \cap b = {}
      BY <1>3, <2>2 DEF IsPartition
    <2>5. SpansAreDisjoint(T, P)
        <3>1. ASSUME NEW b \in P, NEW c \in P, b # c PROVE Span(T, b) \cap Span(T, c) = {}
            <4>1. Span(T, b) \subseteq {b} /\ Span(T, c) \subseteq {c}
              BY <2>1, <2>2, SpanOfTerminal
            <4> QED
              BY <3>1, <4>1
        <3> QED
          BY <3>1 DEF SpansAreDisjoint
    <2>6. Divides(P, T)
      BY <2>3, <2>4, <2>5 DEF Divides
    <2>7. ASSUME NEW b \in P PROVE Induced(T, b) = {b}
        <3>1. PICK l \in Labels : b = {l}
          BY <1>1
        <3>2. \A x : x \in Induced(T, b) => x = b
          BY <3>1 DEF Induced
        <3>3. b \in Induced(T, b)
          BY <1>2, <2>3 DEF Induced
        <3> QED
          BY <3>2, <3>3
    <2> QED
      BY <2>1, <2>6, <2>7
<1>5. AgreesOn(ts, P)
  BY <1>3, <1>4, FirstTree DEF AgreesOn
<1>6. Cardinality(P) <= Cardinality(Labels)
    <2> DEFINE f == [l \in Labels |-> {l}]
    <2>1. f \in Surjection(Labels, P)
      BY <1>1 DEF Surjection
    <2> HIDE DEF f
    <2> QED
      BY <2>1, LabelsAreTaxa, FS_Surjection
<1> QED
  BY <1>1, <1>5, <1>6

-----------------------------------------------------------------------------
(* What a search has found out.                                            *)

\* Partitions of this many blocks or more are of no use to the search.
Limit == IF Bounded THEN maxSize + 1 ELSE best

\* No partition of fewer than n blocks takes this branch, or any branch at all.
Fruitless(fs, plan, n) ==
    \A P : AgreesOn(fs, P) /\ Obeys(P, fs, plan) => n <= Cardinality(P)
Hopeless(fs, n) == \A P : AgreesOn(fs, P) => n <= Cardinality(P)

\* An edge is protected because an earlier branch isolated what is below it.
Earned(r, fs) ==
    \A s \in r.shields : \E l \in Labels : \E j \in 1..(r.branch - 1) :
        /\ s[2] = TerminalOf(fs[s[1]], l)
        /\ r.plans[j] = Everywhere(<<Isolate(l, NoLabel)>>)

\* What is known of a rule and the forests it was applied to.
Claim(r, fs, n) ==
    /\ Lossless(r, fs)
    /\ \A j \in 1..(r.branch - 1) : Fruitless(fs, r.plans[j], n)
    /\ Earned(r, fs)
    /\ r.name = "CutBranch" => Hopeless(fs, n)
    /\ r.name = "CheckSingleVertexTrees" /\ Bounded => NumComponents(fs[1]) < n

\* Every rule of the stack claims its own.
Claims(h) == \A k \in 1..Len(Stack) : Claim(Stack[k], h[k][0], Limit)

\* The branch taken last is done with.
Spent(h) ==
    IF Stack = <<>> THEN Hopeless(trees, Limit)
    ELSE Fruitless(h[Len(Stack)][0], PlanOf(TopRule), Limit)

\* What is known of the rule that waits in the queue.
Promise(r, fs, n) ==
    /\ Lossless(r, fs)
    /\ IsBranching(r) \/ IsReduction(r)
    /\ \A j \in 1..r.branch : Fruitless(fs, r.plans[j], n)

\* The head of the queue keeps the promise.
Promised == applyNext # <<>> => Promise(Head(applyNext), forests, Limit)

\* Every branch done with, nothing is left.
LEMMA NoBranchLeft ==
    ASSUME NEW n \in Nat, NEW plans, NEW fs, Completes(plans, fs),
           \A p \in DOMAIN plans : Fruitless(fs, plans[p], n)
    PROVE  Hopeless(fs, n)
<1>1. ASSUME NEW P, AgreesOn(fs, P) PROVE n <= Cardinality(P)
    <2>1. PICK Q : /\ AgreesOn(fs, Q) /\ Cardinality(Q) <= Cardinality(P)
                   /\ \E p \in DOMAIN plans : Obeys(Q, fs, plans[p])
      BY <1>1 DEF Completes
    <2>2. n <= Cardinality(Q)
      BY <2>1 DEF Fruitless
    <2>3. Cardinality(P) \in Nat /\ Cardinality(Q) \in Nat
      BY <1>1, <2>1, BlocksAreFinite DEF AgreesOn
    <2> QED
      BY <2>1, <2>2, <2>3
<1> QED
  BY <1>1 DEF Hopeless

\* A protected edge is not one a good partition cuts.
LEMMA ShieldsHold ==
    ASSUME NEW r, NEW fs, NEW n, Level(fs), Claim(r, fs, n),
           NEW s \in r.shields, s[1] \in TreeIds, NEW P, AgreesOn(fs, P), s[2] \in P
    PROVE  n <= Cardinality(P)
<1>1. PICK l \in Labels, j \in 1..(r.branch - 1) :
          /\ s[2] = TerminalOf(fs[s[1]], l)
          /\ r.plans[j] = Everywhere(<<Isolate(l, NoLabel)>>)
  BY DEF Claim, Earned
<1>2. PICK F \in Forest : F = fs[s[1]] /\ WellFormed(F) /\ Terminals(F) = Terminals(fs[1])
  BY DEF Level
<1>3. PICK G \in Forest : G = fs[1] /\ WellFormed(G)
  BY FirstTree DEF Level
<1>4. TerminalOf(G, l) \in P
  BY <1>1, <1>2, <1>3, SameTerminals
<1>5. Obeys(P, fs, Everywhere(<<Isolate(l, NoLabel)>>))
  BY <1>3, <1>4, PlansObeyed
<1>6. Fruitless(fs, Everywhere(<<Isolate(l, NoLabel)>>), n)
  BY <1>1 DEF Claim
<1> QED
  BY <1>5, <1>6 DEF Fruitless

\* A forest of more trees than a partition has blocks rules it out.
LEMMA TooLargeIsHopeless ==
    ASSUME best \in Nat, maxSize \in Nat, Level(forests)
    PROVE  /\ Limit \in Nat
           /\ TooLarge => Hopeless(forests, Limit)
           /\ ~ TooLarge => NumComponents(forests[1]) < Limit
<1>0. Limit \in Nat
  BY DEF Limit
<1>1. ASSUME TooLarge PROVE Hopeless(forests, Limit)
    <2>1. PICK i \in TreeIds : IF Bounded THEN NumComponents(forests[i]) > maxSize
                                          ELSE NumComponents(forests[i]) >= best
      BY <1>1 DEF TooLarge
    <2>2. PICK F \in Forest : F = forests[i] /\ WellFormed(F)
      BY DEF Level
    <2>3. NumComponents(F) \in Nat
      BY <2>2, ComponentsAreCounted
    <2>4. Limit <= NumComponents(F)
      BY <2>1, <2>2, <2>3 DEF Limit
    <2>5. ASSUME NEW P, AgreesOn(forests, P) PROVE Limit <= Cardinality(P)
        <3>1. IsPartition(P, Labels) /\ Divides(P, F)
          BY <2>2, <2>5 DEF AgreesOn
        <3>2. NumComponents(F) <= Cardinality(P)
          BY <2>2, <3>1, RootsAreFew DEF NumComponents
        <3>3. Cardinality(P) \in Nat
          BY <3>1, BlocksAreFinite
        <3> QED
          BY <1>0, <2>3, <2>4, <3>2, <3>3
    <2> QED
      BY <2>5 DEF Hopeless
<1>2. ASSUME ~ TooLarge PROVE NumComponents(forests[1]) < Limit
    <2>1. NumComponents(forests[1]) \in Nat
      BY FirstTree, ComponentsAreCounted DEF Level
    <2> QED
      BY <1>2, <2>1, FirstTree DEF TooLarge, Limit
<1> QED
  BY <1>0, <1>1, <1>2

\* Every rule on the stack has been entered.
LEMMA StackIsEntered ==
    ASSUME Shape
    PROVE  \A k \in 1..Len(Stack) : Entered(Stack[k])
<1>1. applied \in Seq(Rule) /\ current \in Seq(Rule)
  BY DEF Shape, TypeOK
<1>2. ASSUME NEW k \in 1..Len(Stack) PROVE Entered(Stack[k])
    <2>1. CASE k <= Len(applied)
        <3>1. Stack[k] = applied[k] /\ k \in DOMAIN applied
          BY <1>1, <1>2, <2>1 DEF Stack
        <3> QED
          BY <3>1 DEF Shape
    <2>2. CASE ~ k <= Len(applied)
        <3>1. Stack[k] = current[k - Len(applied)] /\ k - Len(applied) \in DOMAIN current
          BY <1>1, <1>2, <2>2 DEF Stack
        <3> QED
          BY <3>1 DEF Shape
    <2> QED
      BY <2>1, <2>2
<1> QED
  BY <1>2

\* From one rule on the stack to the next.
LEMMA StageRuns ==
    ASSUME Shape, NEW h, Stages(h), NEW k \in 1..Len(Stack), NEW gs, NEW prot, NEW qrot,
           RunsTo(PlanOf(Stack[k]), h[k][0], prot, gs, qrot)
    PROVE  /\ \A P : AgreesOn(gs, P) => AgreesOn(h[k][0], P)
           /\ \A P : AgreesOn(h[k][0], P) /\ Obeys(P, h[k][0], PlanOf(Stack[k]))
                         => AgreesOn(gs, P)
           /\ \A n : Hopeless(gs, n) => Fruitless(h[k][0], PlanOf(Stack[k]), n)
<1>1. Settled(h[k][0]) /\ Fits(Stack[k], h[k][0])
  BY DEF Stages, Aligned
<1>2. Entered(Stack[k])
  BY StackIsEntered
<1>3. PICK p \in DOMAIN Stack[k].plans : PlanOf(Stack[k]) = Stack[k].plans[p]
  BY <1>2, PlanOfEntered
<1>4. Stack[k] \in Rule /\ PlansFit(Stack[k].name, Stack[k].plans)
  BY <1>2, PlanOfEntered
<1>5. PICK r \in Rule : r = Stack[k]
  BY <1>4
<1>6. PICK fs : fs = h[k][0]
  OBVIOUS
<1>7. ASSUME NEW P
      PROVE  /\ AgreesOn(gs, P) => AgreesOn(fs, P)
             /\ AgreesOn(fs, P) /\ Obeys(P, fs, r.plans[p]) => AgreesOn(gs, P)
    <2>1. PlansFit(r.name, r.plans) /\ Fits(r, fs) /\ Settled(fs) /\ p \in DOMAIN r.plans
      BY <1>1, <1>3, <1>4, <1>5, <1>6
    <2>2. RunsTo(r.plans[p], fs, prot, gs, qrot)
      BY <1>3, <1>5, <1>6
    <2> QED
      BY <2>1, <2>2, RuleRuns
<1>8. \A n : Hopeless(gs, n) => Fruitless(fs, r.plans[p], n)
  BY <1>7 DEF Hopeless, Fruitless
<1> QED
  BY <1>3, <1>5, <1>6, <1>7, <1>8

\* What agrees with the forests of a rule agreed with those of every rule
\* below it on the stack, and so with the input.
LEMMA Descent ==
    ASSUME Shape, NEW h, IsHistory(h), Stages(h), NEW k \in 1..Len(Stack),
           NEW P, AgreesOn(h[k][0], P)
    PROVE  (\A j \in 1..k : AgreesOn(h[j][0], P)) /\ AgreesOn(trees, P)
<1>0. Len(Stack) \in Nat
  BY StackHasTop
<1> DEFINE bad == {d \in 0..(k - 1) : ~ AgreesOn(h[k - d][0], P)}
<1>1. bad = {}
    <2>1. SUFFICES ASSUME bad # {} PROVE FALSE
      OBVIOUS
    <2>2. bad \in SUBSET Nat
      BY <1>0
    <2>3. \E d \in bad : \A e \in bad : d <= e
      BY <2>1, <2>2, SmallestExists
    <2>4. PICK d \in bad : \A e \in bad : d <= e
      BY <2>3
    <2>5. d \in 1..(k - 1)
      BY <1>0, <2>4
    <2>6. d - 1 \in 0..(k - 1) /\ ~ d <= d - 1
      BY <1>0, <2>5
    <2>7. d - 1 \notin bad
      BY <2>4, <2>6
    <2>8. AgreesOn(h[k - (d - 1)][0], P)
      BY <2>6, <2>7
    <2>9. /\ k - d \in 1..(Len(Stack) - 1) /\ k - d \in 1..Len(Stack)
          /\ (k - d) + 1 = k - (d - 1)
      BY <1>0, <2>5
    <2>10. PICK j \in 1..(Len(Stack) - 1) : j = k - d /\ j \in 1..Len(Stack) /\ j + 1 = k - (d - 1)
      BY <2>9
    <2>11. RunsTo(PlanOf(Stack[j]), h[j][0], Held(j), h[j + 1][0], Held(j + 1))
      BY DEF Stages
    <2>12. AgreesOn(h[j + 1][0], P)
      BY <2>8, <2>10
    <2>13. PICK m \in 1..Len(Stack) : m = j
      BY <2>10
    <2>14. PICK gs, prot, qrot : gs = h[j + 1][0] /\ RunsTo(PlanOf(Stack[m]), h[m][0], prot, gs, qrot)
      BY <2>11, <2>13
    <2>15. AgreesOn(gs, P) => AgreesOn(h[m][0], P)
      BY <2>14, StageRuns
    <2> QED
      BY <2>4, <2>10, <2>12, <2>13, <2>14, <2>15
<1>2. ASSUME NEW j \in 1..k PROVE AgreesOn(h[j][0], P)
    <2>1. k - j \in 0..(k - 1) /\ k - (k - j) = j
      BY <1>0
    <2>2. k - j \notin bad
      BY <1>1
    <2> QED
      BY <2>1, <2>2
<1>3. 1 \in 1..k /\ h[1][0] = trees
  BY <1>0 DEF IsHistory
<1> QED
  BY <1>2, <1>3

\* What a smaller number of blocks cannot do, an even smaller one cannot.
LEMMA FewerIsFruitless ==
    ASSUME NEW n \in Nat, NEW m \in Nat, m <= n, NEW fs
    PROVE  /\ \A plan : Fruitless(fs, plan, n) => Fruitless(fs, plan, m)
           /\ Hopeless(fs, n) => Hopeless(fs, m)
<1>1. ASSUME NEW P, AgreesOn(fs, P), n <= Cardinality(P)
      PROVE  m <= Cardinality(P)
    <2>1. Cardinality(P) \in Nat
      BY <1>1, BlocksAreFinite DEF AgreesOn
    <2> QED
      BY <1>1, <2>1
<1>2. ASSUME NEW plan, Fruitless(fs, plan, n) PROVE Fruitless(fs, plan, m)
  BY <1>1, <1>2 DEF Fruitless
<1>3. Hopeless(fs, n) => Hopeless(fs, m)
  BY <1>1 DEF Hopeless
<1> QED
  BY <1>2, <1>3

\* A claim is about what the rule is, not about how far it got.
LEMMA ClaimGoesOn ==
    ASSUME NEW r, NEW s, SameRule(s, r), NEW fs, NEW n \in Nat, NEW m \in Nat, m <= n,
           Bounded => m = n, Claim(r, fs, n), Earned(s, fs)
    PROVE  Claim(s, fs, m)
<1>1. /\ s.name = r.name /\ s.plans = r.plans /\ s.branch = r.branch
  BY DEF SameRule
<1>2. /\ Lossless(r, fs)
      /\ \A j \in 1..(r.branch - 1) : Fruitless(fs, r.plans[j], n)
      /\ r.name = "CutBranch" => Hopeless(fs, n)
      /\ r.name = "CheckSingleVertexTrees" /\ Bounded => NumComponents(fs[1]) < n
  BY DEF Claim
<1>3. Lossless(s, fs)
  BY <1>1, <1>2 DEF Lossless, IsBranching
<1>4. \A j \in 1..(s.branch - 1) : Fruitless(fs, s.plans[j], m)
  BY <1>1, <1>2, FewerIsFruitless
<1>5. s.name = "CutBranch" => Hopeless(fs, m)
  BY <1>1, <1>2, FewerIsFruitless
<1>6. s.name = "CheckSingleVertexTrees" /\ Bounded => NumComponents(fs[1]) < m
  BY <1>1, <1>2
<1> QED
  BY <1>3, <1>4, <1>5, <1>6 DEF Claim

\* A protection given up takes no reason with it.
LEMMA FewerShieldsAreEarned ==
    ASSUME NEW r, NEW s, SameRule(s, r), s.shields \subseteq r.shields, NEW fs, Earned(r, fs)
    PROVE  Earned(s, fs)
BY DEF Earned, SameRule

\* The limit never rises while rules are on the stack.
LimitHolds ==
    /\ Limit \in Nat /\ Limit' \in Nat /\ Limit' <= Limit
    /\ Bounded => Limit' = Limit

\* Claims are kept by rules that stay what they are and earn their shields.
LEMMA ClaimsGoOn ==
    ASSUME Len(Stack) \in Nat, Len(Stack') \in Nat, Len(Stack') <= Len(Stack), LimitHolds,
           NEW h, Claims(h), NEW g, Resumes(g, h),
           \A k \in 1..Len(Stack') :
               SameRule(Stack'[k], Stack[k]) /\ Earned(Stack'[k], h[k][0])
    PROVE  Claims(g)'
<1>1. ASSUME NEW k \in 1..Len(Stack')
      PROVE  Claim(Stack'[k], g[k][0], Limit')
    <2>1. k \in 1..Len(Stack)
      OBVIOUS
    <2>2. PICK r, s, fs, n, m : r = Stack[k] /\ s = Stack'[k] /\ fs = h[k][0]
                                /\ n = Limit /\ m = Limit'
      OBVIOUS
    <2>3. Claim(r, fs, n) /\ SameRule(s, r) /\ Earned(s, fs)
      BY <1>1, <2>1, <2>2 DEF Claims
    <2>4. n \in Nat /\ m \in Nat /\ m <= n /\ (Bounded => m = n)
      BY <2>2 DEF LimitHolds
    <2>5. Claim(s, fs, m)
      BY <2>3, <2>4, ClaimGoesOn
    <2>6. g[k][0] = fs
      BY <2>1, <2>2 DEF Resumes
    <2> QED
      BY <2>2, <2>5, <2>6
<1>2. Claims(g)' <=> \A k \in 1..Len(Stack') : Claim(Stack'[k], g[k][0], Limit')
  BY DEF Claims
<1> QED
  BY <1>1, <1>2

\* A step that protects nothing new keeps every claim.
LEMMA ClaimsAreKept ==
    ASSUME Shape, Shape', Rests \/ Reverts \/ Pops, LimitHolds,
           NEW h, Claims(h), NEW g, Resumes(g, h)
    PROVE  Claims(g)'
<1>0. /\ Stack \in Seq(Rule) /\ Len(Stack) \in Nat
      /\ Len(Stack') \in Nat /\ DOMAIN Stack = 1..Len(Stack)
      /\ Stack # <<>> => Len(Stack) \in 1..Len(Stack) /\ TopRule = Stack[Len(Stack)]
  BY StackHasTop, StackLength
<1>1. /\ Len(Stack') <= Len(Stack)
      /\ \A k \in 1..Len(Stack') :
             SameRule(Stack'[k], Stack[k]) /\ Stack'[k].shields \subseteq Stack[k].shields
  <2>1. CASE Rests
    BY <1>0, <2>1 DEF Rests, SameRule
  <2>2. CASE Reverts
    <3>1. /\ Stack # <<>>
          /\ Stack' = [Stack EXCEPT ![Len(Stack)] =
                          [TopRule EXCEPT !.changes = Front(TopRule.changes)]]
      BY <2>2 DEF Reverts
    <3>2. PICK r \in Rule : r = TopRule
      BY <1>0, <3>1
    <3>3. PICK s : s = [r EXCEPT !.changes = Front(r.changes)]
      OBVIOUS
    <3>4. SameRule(s, r) /\ s.shields = r.shields
      BY <3>2, <3>3 DEF SameRule, Rule
    <3>5. Stack' = [Stack EXCEPT ![Len(Stack)] = s]
      BY <3>1, <3>2, <3>3
    <3>6. Len(Stack') = Len(Stack)
      BY <1>0, <3>5
    <3>7. ASSUME NEW k \in 1..Len(Stack)
          PROVE  SameRule(Stack'[k], Stack[k]) /\ Stack'[k].shields \subseteq Stack[k].shields
        <4>1. CASE k = Len(Stack)
          BY <1>0, <3>1, <3>2, <3>4, <3>5, <4>1
        <4>2. CASE k # Len(Stack)
            <5>1. Stack'[k] = Stack[k]
              BY <1>0, <3>5, <4>2
            <5> QED
              BY <5>1 DEF SameRule
        <4> QED
          BY <4>1, <4>2
    <3> QED
      BY <1>0, <3>6, <3>7
  <2>3. CASE Pops
    <3>1. Stack # <<>> /\ Stack' = Front(Stack)
      BY <2>3 DEF Pops
    <3>2. Len(Stack') = Len(Stack) - 1 /\ \A k \in 1..Len(Stack') : Stack'[k] = Stack[k]
      BY <1>0, <3>1 DEF Front
    <3> QED
      BY <1>0, <3>2 DEF SameRule
  <2> QED
    BY <2>1, <2>2, <2>3
<1>2. ASSUME NEW k \in 1..Len(Stack') PROVE Earned(Stack'[k], h[k][0])
    <2>1. k \in 1..Len(Stack)
      BY <1>0, <1>1
    <2>2. PICK r, s, fs : r = Stack[k] /\ s = Stack'[k] /\ fs = h[k][0]
      OBVIOUS
    <2>3. Claim(r, fs, Limit)
      BY <2>1, <2>2 DEF Claims
    <2>4. Earned(r, fs)
      BY <2>3 DEF Claim
    <2>5. SameRule(s, r) /\ s.shields \subseteq r.shields
      BY <1>1, <2>2
    <2>6. Earned(s, fs)
      BY <2>4, <2>5, FewerShieldsAreEarned
    <2> QED
      BY <2>2, <2>6
<1> QED
  BY <1>0, <1>1, <1>2, ClaimsGoOn

\* A rule that is entered joins the claims.
LEMMA NewClaim ==
    ASSUME Len(Stack) \in Nat, Len(Stack') = Len(Stack) + 1, Limit' = Limit, Limit \in Nat,
           NEW h, Claims(h), NEW g, Resumes(g, h),
           \A k \in 1..Len(Stack) : Stack'[k] = Stack[k],
           Claim(Stack'[Len(Stack')], g[Len(Stack')][0], Limit)
    PROVE  Claims(g)'
<1>1. ASSUME NEW k \in 1..Len(Stack')
      PROVE  Claim(Stack'[k], g[k][0], Limit')
    <2>1. CASE k \in 1..Len(Stack)
        <3>1. Claim(Stack[k], h[k][0], Limit)
          BY <2>1 DEF Claims
        <3>2. Stack'[k] = Stack[k] /\ g[k][0] = h[k][0]
          BY <2>1 DEF Resumes
        <3> QED
          BY <3>1, <3>2
    <2>2. CASE k \notin 1..Len(Stack)
        <3>1. k = Len(Stack')
          BY <2>2
        <3> QED
          BY <3>1
    <2> QED
      BY <2>1, <2>2
<1>2. Claims(g)' <=> \A k \in 1..Len(Stack') : Claim(Stack'[k], g[k][0], Limit')
  BY DEF Claims
<1> QED
  BY <1>1, <1>2

-----------------------------------------------------------------------------
(* Entering a rule.                                                        *)

\* A rule from the queue keeps its promise when it is entered.
LEMMA QueuedClaim ==
    ASSUME NEW r, Ready(r), Enterable(r), NEW fs, NEW n, Promise(r, fs, n)
    PROVE  Claim(Entering(r), fs, n)
<1>1. r \in Rule /\ r.branch \in Nat
  BY DEF Ready, Rule
<1>2. /\ Entering(r).name = r.name /\ Entering(r).plans = r.plans
      /\ Entering(r).branch = IF IsBranching(r) THEN r.branch + 1 ELSE r.branch
  BY <1>1 DEF Entering, Rule
<1>3. Entering(r).shields = {}
  BY EnteringEnters
<1>4. /\ Lossless(r, fs) /\ (IsBranching(r) \/ IsReduction(r))
      /\ \A j \in 1..r.branch : Fruitless(fs, r.plans[j], n)
  BY DEF Promise
<1> DEFINE s == Entering(r)
<1> HIDE DEF s
<1>5. s.name = r.name /\ s.plans = r.plans /\ s.shields = {}
      /\ s.branch = IF IsBranching(r) THEN r.branch + 1 ELSE r.branch
  BY <1>2, <1>3 DEF s
<1>6. Lossless(s, fs)
  BY <1>4, <1>5 DEF Lossless, IsBranching
<1>7. \A j \in 1..(s.branch - 1) : Fruitless(fs, s.plans[j], n)
  BY <1>1, <1>4, <1>5
<1>8. s.name \notin {"CutBranch", "CheckSingleVertexTrees"}
  BY <1>4, <1>5 DEF IsBranching, IsReduction
<1>9. Earned(s, fs)
  BY <1>5 DEF Earned
<1>10. Claim(s, fs, n)
  BY <1>6, <1>7, <1>8, <1>9 DEF Claim
<1> QED
  BY <1>10 DEF s

\* The forests between two rules share their terminals.
LEMMA HereIsLevel ==
    ASSUME Shape, pc \in Complete, NEW h, Track(h)
    PROVE  Settled(forests) /\ Level(forests)
BY SettledIsLevel DEF Track, Reached, Here, Aligned

\* So does the rule that is selected.
LEMMA SelectedClaim ==
    ASSUME NumTrees <= 2, Shape, pc = "top", Searching, NEW h, Track(h), NEW r \in ActiveRules
    PROVE  Claim(Entering(r), forests, Limit)
<1>1. /\ 1 \in TreeIds /\ forests \in [TreeIds -> Forest] /\ TooLarge \in BOOLEAN
      /\ trees \in Instances /\ best \in Nat /\ maxSize \in Nat
  BY NumTreesIsPositive DEF Shape, TypeOK, TooLarge, TreeIds
<1>2. trees[1] \in Forest /\ WellFormed(trees[1]) /\ IsLabelledTree(trees[1])
  BY <1>1, InputIsAligned
<1>3. Settled(forests) /\ Level(forests)
  BY HereIsLevel DEF Complete
<1>4. r \in FirstApplicable(forests, TooLarge, AllRules(trees[1], forests))
  BY DEF ActiveRules
<1>5. Lossless(r, forests)
  BY <1>1, <1>2, <1>3, <1>4, SelectedRulesAreLossless
<1>6. r.branch = 0 /\ Ready(r)
  BY SelectedFitsHere, SelectedIsReady
<1>7. /\ TooLarge => Hopeless(forests, Limit)
      /\ ~ TooLarge => NumComponents(forests[1]) < Limit
  BY <1>1, <1>3, TooLargeIsHopeless
<1>8. r.name = "CutBranch" => TooLarge
  <2>1. ASSUME ~ TooLarge PROVE r.name # "CutBranch"
    <3>1. TooLarge = FALSE
      BY <1>1, <2>1
    <3> QED
      BY <1>4, <3>1, SelectedRuleSearchesOn
  <2> QED
    BY <2>1
<1>9. r.name = "CheckSingleVertexTrees" => ~ TooLarge
  <2>1. ASSUME TooLarge PROVE r.name # "CheckSingleVertexTrees"
    <3>1. r = CutBranchRule
      BY <1>4, <2>1 DEF FirstApplicable
    <3> QED
      BY <3>1 DEF CutBranchRule, NewRule
  <2> QED
    BY <2>1
<1> DEFINE s == Entering(r)
<1>10. /\ s.name = r.name /\ s.plans = r.plans /\ s.shields = {}
       /\ s.branch \in {0, 1}
  BY <1>6 DEF Entering, Ready, Rule
<1> HIDE DEF s
<1>11. Lossless(s, forests)
  BY <1>5, <1>10 DEF Lossless, IsBranching
<1>12. \A j \in 1..(s.branch - 1) : Fruitless(forests, s.plans[j], Limit)
  BY <1>10
<1>13. Earned(s, forests)
  BY <1>10 DEF Earned
<1>14. /\ s.name = "CutBranch" => Hopeless(forests, Limit)
       /\ s.name = "CheckSingleVertexTrees" /\ Bounded => NumComponents(forests[1]) < Limit
  BY <1>7, <1>8, <1>9, <1>10
<1>15. Claim(s, forests, Limit)
  BY <1>11, <1>12, <1>13, <1>14 DEF Claim
<1> QED
  BY <1>15 DEF s

\* With that the claims cover the rule that is entered.
LEMMA EnteringClaims ==
    ASSUME Shape, Shape', ShieldsAreOwned, NEW h, Track(h), Claims(h), pc \in Complete,
           NEW r, Ready(r), Fits(r, forests), EnterRule(r), Claim(Entering(r), forests, Limit),
           UNCHANGED <<trees, forests, applied, protected>>, Limit' = Limit, Limit \in Nat,
           NEW g, Resumes(g, h), IsHistory(g)'
    PROVE  Claims(g)'
<1>1. TopRule' = Entering(r) /\ g[Len(Stack')][0] = forests
  BY EnteringTracks
<1>2. current' = <<Entering(r)>> /\ Enterable(r)
  BY DEF EnterRule, Entering
<1>3. Entering(r) \in Rule
  BY <1>2, EnteringEnters DEF Entered
<1>4. Stack = applied /\ applied \in Seq(Rule)
  BY StackIsTyped DEF Complete, Shape, TypeOK
<1>5. Stack' = Append(Stack, Entering(r))
  BY <1>2, <1>3, <1>4 DEF Stack
<1> DEFINE s == Entering(r)
<1> HIDE DEF s
<1>6. /\ Len(Stack) \in Nat /\ Len(Stack') = Len(Stack) + 1
      /\ \A k \in 1..Len(Stack) : Stack'[k] = Stack[k]
      /\ Stack'[Len(Stack')] = s
  BY <1>3, <1>4, <1>5 DEF s
<1>7. Claim(s, forests, Limit)
  BY DEF s
<1>8. Claim(Stack'[Len(Stack')], g[Len(Stack')][0], Limit)
  BY <1>1, <1>6, <1>7
<1> QED
  BY <1>6, <1>8, NewClaim

\* While apply() cuts, the terminals stay what they were when it was entered.
LEMMA CutsSoFar ==
    ASSUME Shape, EditsLeft, IsCut, NEW h, Track(h), NEW F, F = h[Len(Stack)][0][ThisTree]
    PROVE  /\ F \in Forest /\ WellFormed(F)
           /\ ThisForest \in Forest /\ WellFormed(ThisForest)
           /\ Terminals(ThisForest) = Terminals(F)
           /\ ThisEdit.kind = "isolate" => ThisEdit.label \in Labels
<1>n. PICK n \in Nat : n = Len(Stack)
  BY StackIsTyped
<1> DEFINE plan == PlanOf(TopRule)
<1>1. /\ ThisForest = forests[cursor[1]] /\ ThisTree = cursor[1]
      /\ ThisEdit = plan[cursor[1]][cursor[2]] /\ cursor[1] \in TreeIds /\ cursor[2] \in Nat
      /\ cursor[2] <= Len(plan[cursor[1]]) /\ plan \in Plan /\ pc = "applying"
      /\ TopRule = Rule0
  BY EditGoal DEF ThisTree
<1>2. n \in 1..n /\ TopRule = Stack[n] /\ Entered(TopRule)
  BY <1>1, <1>n, StackHasTop
<1>3. /\ TopRule \in Rule /\ PlansFit(TopRule.name, TopRule.plans)
      /\ \E p \in DOMAIN TopRule.plans : plan = TopRule.plans[p]
  BY <1>2, PlanOfEntered
<1>4. Partly(plan, cursor, h[n][0], Held(n), forests, protected)
  BY <1>1, <1>n DEF Track, Reached, Underway
<1>5. Fits(TopRule, h[n][0]) /\ Settled(h[n][0])
  BY <1>n, <1>2 DEF Track, Stages, Aligned
<1>6. PICK p \in DOMAIN TopRule.plans : plan = TopRule.plans[p]
  BY <1>3
<1>7. TopRule.name # "EqualPair"
  BY <1>1, EditIsTyped DEF IsReduction
<1>8. PICK fs : fs = h[n][0]
  OBVIOUS
<1>9. PICK r \in Rule : r = TopRule
  BY <1>3
<1>10. Cutting(plan) /\ Names(plan)
  <2>1. Fits(r, fs) /\ PlansFit(r.name, r.plans) /\ p \in DOMAIN r.plans /\ r.name # "EqualPair"
    BY <1>3, <1>5, <1>7, <1>8, <1>9
  <2>2. Cutting(r.plans[p]) /\ Names(r.plans[p])
    BY <2>1, FittingNames
  <2> QED
    BY <1>6, <1>9, <2>2
<1> HIDE DEF plan
<1>11. PICK i \in TreeIds : i = cursor[1]
  BY <1>1
<1>12. PICK d \in Nat : d + 1 = cursor[2]
  <2>1. cursor[2] \in 1..(Len(plan[cursor[1]]) + 1)
    BY <1>1, <1>4 DEF Partly
  <2>2. cursor[2] - 1 \in Nat /\ (cursor[2] - 1) + 1 = cursor[2]
    BY <1>1, <2>1
  <2> QED
    BY <2>2
<1>13. Made(plan, cursor, i) = d
  BY <1>1, <1>11, <1>12 DEF Made, TreeIds
<1>14. Ran(plan[i], d, StateOf(fs, Held(n), i), StateOf(forests, protected, i))
  BY <1>4, <1>8, <1>13 DEF Partly
<1>15. plan[i] \in Seq(Edit) /\ Len(plan[i]) \in Nat /\ DOMAIN plan[i] = 1..Len(plan[i])
  BY <1>1 DEF Plan
<1>16. d \in 0..Len(plan[i]) /\ d + 1 \in DOMAIN plan[i]
  BY <1>1, <1>11, <1>12, <1>15
<1>17. F = fs[i] /\ F \in Forest /\ WellFormed(F)
  BY <1>1, <1>5, <1>8, <1>11, <1>n DEF Settled
<1>18. \A j \in 1..d : plan[i][j].kind # "merge"
  BY <1>10, <1>15, <1>16 DEF Cutting
<1>v. PICK v : v = StateOf(fs, Held(n), i)
  OBVIOUS
<1>u. PICK u : u = StateOf(forests, protected, i)
  OBVIOUS
<1>19. v \in States /\ v[1] = F
  <2>1. fs[i] \in Forest
    BY <1>17
  <2>2. StateOf(fs, Held(n), i) \in States
    BY <2>1, StatesOfForests
  <2>3. StateOf(fs, Held(n), i)[1] = fs[i]
    BY DEF StateOf
  <2> QED
    BY <1>17, <1>v, <2>2, <2>3
<1>20. u[1] = ThisForest
  BY <1>1, <1>11, <1>u DEF StateOf
<1>21. PICK es : es = plan[i]
  OBVIOUS
<1>22. CutDown(v[1], u[1])
  <2>1. /\ es \in Seq(Edit) /\ d \in 0..Len(es) /\ \A j \in 1..d : es[j].kind # "merge"
        /\ v \in States /\ WellFormed(v[1]) /\ Ran(es, d, v, u)
    BY <1>14, <1>15, <1>16, <1>17, <1>18, <1>19, <1>21, <1>u, <1>v
  <2> QED
    BY <2>1, CutsRun
<1>23. ThisEdit.kind = "isolate" => ThisEdit.label \in Labels
  BY <1>1, <1>10, <1>11, <1>12, <1>16 DEF Names
<1> QED
  BY <1>17, <1>19, <1>20, <1>22, <1>23 DEF CutDown

-----------------------------------------------------------------------------
(* Editing.                                                                *)

\* The branch a rule is in, and how many there are.
LEMMA BranchOfEntered ==
    ASSUME NEW r, Entered(r)
    PROVE  /\ r.plans \in Seq(Plan) /\ r.branch \in Nat
           /\ IsBranching(r) => r.branch \in DOMAIN r.plans /\ PlanOf(r) = r.plans[r.branch]
           /\ ~ IsBranching(r) => 1 \in DOMAIN r.plans /\ PlanOf(r) = r.plans[1]
<1>1. r.plans \in Seq(Plan) /\ r.plans # <<>> /\ r.branch \in Nat
  BY DEF Entered, Rule
<1>2. IsBranching(r) => r.branch \in 1..Len(r.plans)
  BY DEF Entered
<1> QED
  BY <1>1, <1>2 DEF PlanOf

\* What a cut protects was isolated by an earlier branch.
LEMMA NewShieldsAreEarned ==
    ASSUME Shape, CutNode, NEW h, Track(h), Claims(h), NEW s \in NewShields,
           NEW fs, fs = h[Len(Stack)][0]
    PROVE  \E l \in Labels : \E j \in 1..(TopRule.branch - 1) :
               /\ s[2] = TerminalOf(fs[s[1]], l)
               /\ TopRule.plans[j] = Everywhere(<<Isolate(l, NoLabel)>>)
<1>1. /\ ThisEdit.kind = "isolate" /\ ThisEdit.mate # NoLabel
      /\ s = <<ThisTree, TerminalOf(ThisForest, ThisEdit.mate)>>
  <2>1. NewShields # {}
    OBVIOUS
  <2>2. ThisEdit.kind = "isolate" /\ ThisEdit.mate # NoLabel
    BY <2>1 DEF NewShields
  <2> QED
    BY <2>2 DEF NewShields
<1>2. EditsLeft /\ IsCut
  BY DEF CutNode
<1>3. /\ ThisEdit = PlanOf(TopRule)[ThisTree][cursor[2]] /\ ThisTree \in TreeIds
      /\ cursor[2] \in Nat /\ cursor[2] <= Len(PlanOf(TopRule)[ThisTree])
      /\ PlanOf(TopRule) \in Plan /\ Stack # <<>> /\ TopRule = Rule0 /\ pc = "applying"
  BY <1>2, EditGoal DEF ThisTree
<1>4. Entered(TopRule) /\ Len(Stack) \in 1..Len(Stack) /\ TopRule = Stack[Len(Stack)]
  BY <1>3, StackHasTop
<1>5. PICK r : r = TopRule
  OBVIOUS
<1>6. Claim(r, fs, Limit)
  BY <1>4, <1>5 DEF Claims
<1>7. Backed(r.plans)
  BY <1>6 DEF Claim, Lossless
<1>8. PICK p \in DOMAIN r.plans : PlanOf(r) = r.plans[p] /\ (IsBranching(r) => p = r.branch)
                                  /\ (~ IsBranching(r) => p = 1)
  BY <1>4, <1>5, BranchOfEntered
<1>9. r.plans \in Seq(Plan) /\ r.branch \in Nat
  BY <1>4, <1>5, BranchOfEntered
<1>10. cursor[2] \in DOMAIN PlanOf(TopRule)[ThisTree]
  <2>1. PlanOf(TopRule)[ThisTree] \in Seq(Edit)
    BY <1>3 DEF Plan
  <2>2. cursor[2] # 0
    BY <1>3 DEF Shape
  <2> QED
    BY <1>3, <2>1, <2>2
<1>11. PICK i, q : /\ i \in TreeIds /\ i = ThisTree /\ q = cursor[2]
                   /\ q \in DOMAIN r.plans[p][i] /\ ThisEdit = r.plans[p][i][q]
  BY <1>3, <1>5, <1>8, <1>10
<1>12. PICK l \in Labels : l = ThisEdit.mate
  BY <1>1, <1>7, <1>11 DEF Backed
<1>13. PICK j \in 1..(p - 1) : r.plans[j] = Everywhere(<<Isolate(l, NoLabel)>>)
  BY <1>1, <1>7, <1>11, <1>12 DEF Backed
<1>14. j \in 1..(r.branch - 1)
  BY <1>8, <1>9, <1>13
<1>15. PICK F : F = fs[ThisTree]
  OBVIOUS
<1>16. /\ F \in Forest /\ WellFormed(F) /\ ThisForest \in Forest /\ WellFormed(ThisForest)
       /\ Terminals(ThisForest) = Terminals(F)
  <2>1. F = h[Len(Stack)][0][ThisTree]
    BY <1>15
  <2> QED
    BY <1>2, <2>1, CutsSoFar
<1>17. PICK G \in Forest : G = ThisForest
  BY <1>16
<1>18. TerminalOf(G, l) = TerminalOf(F, l)
  BY <1>16, <1>17, SameTerminals
<1>19. s[1] = ThisTree /\ s[2] = TerminalOf(fs[s[1]], l)
  BY <1>1, <1>12, <1>15, <1>17, <1>18
<1> QED
  BY <1>5, <1>13, <1>14, <1>19

\* An edit keeps every claim.
LEMMA EditKeepsClaims ==
    ASSUME Shape, Shape', CutNode \/ CollapseNode, LimitHolds,
           NEW h, Track(h), Claims(h), NEW g, Resumes(g, h)
    PROVE  Claims(g)'
<1>1. /\ EditsLeft /\ pc = "applying" /\ pc' = "applying" /\ UNCHANGED applied
  BY DEF CutNode, CollapseNode, EditsLeft, InForestLoop, InApply
<1>2. /\ Stack \in Seq(Rule) /\ Stack # <<>> /\ Len(Stack) \in 1..Len(Stack)
      /\ DOMAIN Stack = 1..Len(Stack) /\ Len(Stack) \in Nat
      /\ TopRule = Stack[Len(Stack)] /\ TopRule = Rule0
  BY <1>1, StackHasTop
<1>3. PICK r \in Rule : r = TopRule
  BY <1>1, StackHasTop DEF Entered
<1>4. PICK fs : fs = h[Len(Stack)][0]
  OBVIOUS
<1>5. Claim(r, fs, Limit)
  BY <1>2, <1>3, <1>4 DEF Claims
<1>6. \E s : /\ current' = <<s>> /\ SameRule(s, r)
             /\ s.shields \subseteq r.shields \cup (IF CutNode THEN NewShields ELSE {})
  <2>1. CASE CutNode
    <3> DEFINE s == [r EXCEPT
             !.changes = Append(r.changes,
               [kind |-> "cut", tree |-> ThisTree, node |-> EditTarget,
                sibling |-> Sibling(ThisForest, EditTarget), kids |-> {}]),
             !.shields = r.shields \cup NewShields]
    <3>1. current' = <<s>>
      BY <1>2, <1>3, <2>1 DEF CutNode
    <3>2. SameRule(s, r) /\ s.shields = r.shields \cup NewShields
      BY DEF SameRule, Rule
    <3> HIDE DEF s
    <3> QED
      BY <2>1, <3>1, <3>2
  <2>2. CASE CollapseNode /\ ~ CutNode
    <3> DEFINE s == [r EXCEPT
             !.changes = Append(r.changes,
               [kind |-> "collapse", tree |-> ThisTree, node |-> EditTarget,
                sibling |-> NullNode,
                kids |-> Below(ThisForest, EditTarget)])]
    <3>1. current' = <<s>>
      BY <1>2, <1>3, <2>2 DEF CollapseNode
    <3>2. SameRule(s, r) /\ s.shields = r.shields
      BY DEF SameRule, Rule
    <3> HIDE DEF s
    <3> QED
      BY <2>2, <3>1, <3>2
  <2> QED
    BY <2>1, <2>2
<1>7. PICK s : /\ current' = <<s>> /\ SameRule(s, r)
               /\ s.shields \subseteq r.shields \cup (IF CutNode THEN NewShields ELSE {})
  BY <1>6
<1>8. Earned(s, fs)
  <2>1. ASSUME NEW z \in s.shields
        PROVE  \E l \in Labels : \E j \in 1..(r.branch - 1) :
                   /\ z[2] = TerminalOf(fs[z[1]], l)
                   /\ r.plans[j] = Everywhere(<<Isolate(l, NoLabel)>>)
    <3>1. CASE z \in r.shields
      BY <1>5, <3>1 DEF Claim, Earned
    <3>2. CASE z \notin r.shields
      <4>1. CutNode /\ z \in NewShields
        BY <1>7, <3>2
      <4> QED
        BY <1>3, <1>4, <4>1, NewShieldsAreEarned
    <3> QED
      BY <3>1, <3>2
  <2>2. s.branch = r.branch /\ s.plans = r.plans
    BY <1>7 DEF SameRule
  <2> QED
    BY <2>1, <2>2 DEF Earned
<1>9. Stack' = [Stack EXCEPT ![Len(Stack)] = s]
  BY <1>1, <1>7, TopIsReplaced
<1>10. Len(Stack') = Len(Stack)
  BY <1>2, <1>9
<1>11. ASSUME NEW k \in 1..Len(Stack')
       PROVE  SameRule(Stack'[k], Stack[k]) /\ Earned(Stack'[k], h[k][0])
  <2>1. CASE k = Len(Stack)
    <3>1. Stack'[k] = s /\ Stack[k] = r /\ h[k][0] = fs
      BY <1>2, <1>3, <1>4, <1>9, <2>1
    <3> QED
      BY <1>7, <1>8, <3>1
  <2>2. CASE k # Len(Stack)
    <3>1. Stack'[k] = Stack[k] /\ k \in 1..Len(Stack)
      BY <1>2, <1>9, <1>10, <2>2
    <3>2. Claim(Stack[k], h[k][0], Limit)
      BY <3>1 DEF Claims
    <3>3. Earned(Stack[k], h[k][0])
      BY <3>2 DEF Claim
    <3> QED
      BY <3>1, <3>3 DEF SameRule
  <2> QED
    BY <2>1, <2>2
<1> QED
  BY <1>2, <1>10, <1>11, ClaimsGoOn

-----------------------------------------------------------------------------
(* The end of a branch.                                                    *)

\* A protected edge in the way: the branch cuts what an earlier branch, of
\* this rule or of one below, has cut already.
LEMMA BlockedIsFruitless ==
    ASSUME Shape, ShieldsAreOwned, ApplyBlocked, NEW h, Track(h), Claims(h),
           NEW fs, fs = h[Len(Stack)][0], NEW plan, plan = PlanOf(TopRule),
           NEW n, n = Limit
    PROVE  Fruitless(fs, plan, n)
<1>1. EditsLeft /\ IsCut /\ <<ThisTree, EditTarget>> \in protected
  BY DEF ApplyBlocked
<1>2. /\ EditTarget = Goal(ThisForest, ThisEdit)
      /\ ThisEdit = plan[ThisTree][cursor[2]] /\ ThisTree \in TreeIds
      /\ cursor[2] \in Nat /\ cursor[2] <= Len(plan[ThisTree]) /\ ThisEdit \in Edit
      /\ plan \in Plan /\ Stack # <<>> /\ pc = "applying"
  BY <1>1, EditGoal DEF ThisTree
<1>3. Len(Stack) \in Nat /\ DOMAIN Stack = 1..Len(Stack) /\ Len(Stack) \in 1..Len(Stack)
  BY <1>2, StackHasTop
<1>4. PICK i \in TreeIds : i = ThisTree
  BY <1>2
<1>5. PICK F \in Forest : F = fs[i] /\ WellFormed(F) /\ WellFormed(ThisForest)
                          /\ Terminals(ThisForest) = Terminals(F) /\ ThisForest \in Forest
                          /\ (ThisEdit.kind = "isolate" => ThisEdit.label \in Labels)
  <2>1. fs[i] = h[Len(Stack)][0][ThisTree]
    BY <1>4
  <2> QED
    BY <1>1, <2>1, CutsSoFar
<1>6. PICK G \in Forest : G = ThisForest
  BY <1>5
<1>7. PICK e \in Edit : e = ThisEdit
  BY <1>2
<1>8. cursor[2] \in DOMAIN plan[i]
  <2>1. plan[i] \in Seq(Edit)
    BY <1>2 DEF Plan
  <2>2. cursor[2] # 0
    BY <1>2 DEF Shape
  <2> QED
    BY <1>2, <1>4, <2>1, <2>2
<1>9. ASSUME NEW P, AgreesOn(fs, P), Obeys(P, fs, plan)
      PROVE  n <= Cardinality(P)
  <2>1. ObeysEdit(P, F, e) /\ IsPartition(P, Labels)
    <3>1. ObeysEdit(P, fs[i], plan[i][cursor[2]])
      BY <1>8, <1>9 DEF Obeys
    <3> QED
      BY <1>2, <1>4, <1>5, <1>7, <1>9, <3>1 DEF AgreesOn
  <2>2. e.kind # "merge" /\ (e.kind = "isolate" => e.label \in Labels)
    BY <1>1, <1>5, <1>7 DEF IsCut
  <2>3. KeepsTo(P, Goal(G, e))
    <3>1. WellFormed(F) /\ WellFormed(G) /\ Terminals(G) = Terminals(F)
      BY <1>5, <1>6
    <3> QED
      BY <2>1, <2>2, <3>1, ObeyedGoal
  <2>4. KeepsTo(P, EditTarget)
    BY <1>2, <1>6, <1>7, <2>3
  <2>5. PICK k \in DOMAIN Stack : <<ThisTree, EditTarget>> \in Stack[k].shields
    BY <1>1 DEF ShieldsAreOwned
  <2>6. PICK m \in 1..Len(Stack) : m = k
    BY <1>3
  <2>7. PICK r, gs, s : r = Stack[m] /\ gs = h[m][0] /\ s = <<ThisTree, EditTarget>>
    OBVIOUS
  <2>8. Claim(r, gs, n) /\ s \in r.shields /\ s[1] = i /\ s[2] = EditTarget
    BY <1>4, <2>5, <2>6, <2>7 DEF Claims
  <2>9. Level(gs)
    BY <2>7, SettledIsLevel DEF Track, Stages, Aligned
  <2>10. AgreesOn(gs, P)
    <3>1. AgreesOn(h[Len(Stack)][0], P)
      BY <1>9
    <3>2. \A j \in 1..Len(Stack) : AgreesOn(h[j][0], P)
      BY <1>3, <3>1, Descent DEF Track
    <3> QED
      BY <2>7, <3>2
  <2>11. s[2] \in P
    <3>1. PICK l \in Labels : s[2] = TerminalOf(gs[i], l)
      BY <2>8 DEF Claim, Earned
    <3>2. PICK H \in Forest : H = gs[i] /\ WellFormed(H)
      BY <2>9 DEF Level
    <3>3. s[2] \in Terminals(H)
      BY <3>1, <3>2, TerminalOfLabel
    <3>4. Divides(P, H)
      BY <2>10, <3>2 DEF AgreesOn
    <3>5. KeepsTo(P, s[2])
      BY <2>4, <2>8
    <3> QED
      BY <2>1, <3>2, <3>3, <3>4, <3>5, KeptTerminalIsBlock
  <2> QED
    BY <2>8, <2>9, <2>10, <2>11, ShieldsHold
<1> QED
  BY <1>9 DEF Fruitless

-----------------------------------------------------------------------------
(* Returning and backtracking.                                             *)

\* Where apply() has left the forests: what agrees with them agrees with those
\* it was called on and with the input, and nothing is lost on the way.
LEMMA ForwardHere ==
    ASSUME Shape, NEW h, Track(h), Here(h), Stack # <<>>, NEW fs, fs = h[Len(Stack)][0]
    PROVE  /\ \A P : AgreesOn(forests, P) => AgreesOn(fs, P) /\ AgreesOn(trees, P)
           /\ \A P : AgreesOn(fs, P) /\ Obeys(P, fs, PlanOf(TopRule)) => AgreesOn(forests, P)
<1>1. PICK n \in 1..Len(Stack) : n = Len(Stack) /\ TopRule = Stack[n]
  BY StackHasTop
<1>2. PICK gs, prot, qrot : gs = forests /\ RunsTo(PlanOf(Stack[n]), h[n][0], prot, gs, qrot)
  BY <1>1 DEF Here
<1>3. /\ \A P : AgreesOn(gs, P) => AgreesOn(h[n][0], P)
      /\ \A P : AgreesOn(h[n][0], P) /\ Obeys(P, h[n][0], PlanOf(Stack[n]))
                    => AgreesOn(gs, P)
  BY <1>2, StageRuns DEF Track
<1>4. \A P : AgreesOn(h[n][0], P) => AgreesOn(trees, P)
  BY Descent DEF Track
<1> QED
  BY <1>1, <1>2, <1>3, <1>4

\* A solution candidate: the branch has no smaller one.
LEMMA CandidateIsFruitless ==
    ASSUME Shape, ApplyDone, NEW h, Track(h), NEW fs, fs = h[Len(Stack)][0],
           NEW plan, plan = PlanOf(TopRule), NEW n \in Nat, n <= Weight
    PROVE  Fruitless(fs, plan, n)
<1>1. Here(h) /\ Stack # <<>>
  BY DoneIsHere, StackHasTop DEF ApplyDone, InApply
<1>2. forests \in [TreeIds -> Forest] /\ Level(forests)
  BY <1>1, SettledIsLevel DEF Here, Aligned, Shape, TypeOK
<1>3. PICK F \in Forest : F = forests[1] /\ WellFormed(F)
  BY <1>2, FirstTree DEF Level
<1>4. Weight = Cardinality(Roots(F)) /\ NumComponents(F) \in Nat
  BY <1>3, ComponentsAreCounted DEF Weight, NumComponents
<1>5. ASSUME NEW P, AgreesOn(fs, P), Obeys(P, fs, plan) PROVE n <= Cardinality(P)
  <2>1. AgreesOn(forests, P)
    BY <1>1, <1>5, ForwardHere
  <2>2. IsPartition(P, Labels) /\ Divides(P, F)
    BY <1>3, <2>1, FirstTree DEF AgreesOn
  <2>3. Cardinality(Roots(F)) <= Cardinality(P)
    BY <1>3, <2>2, RootsAreFew
  <2>4. Cardinality(P) \in Nat
    BY <2>2, BlocksAreFinite
  <2> QED
    BY <1>4, <2>3, <2>4 DEF NumComponents
<1> QED
  BY <1>5 DEF Fruitless

\* Nothing hangs any more: the components are an agreement forest of the input.
LEMMA EndIsAttained ==
    ASSUME Shape, NEW h, Track(h), Here(h), AtEnd(forests)
    PROVE  AgreesOn(trees, Roots(forests[1]))
<1>1. Settled(forests)
  BY DEF Here, Aligned
<1>2. AgreesOn(forests, Roots(forests[1]))
  BY <1>1, EndAgrees
<1>3. PICK P : P = Roots(forests[1])
  OBVIOUS
<1>4. CASE Stack # <<>>
  <2>1. \A Q : AgreesOn(forests, Q) => AgreesOn(trees, Q)
    BY <1>4, ForwardHere
  <2> QED
    BY <1>2, <2>1
<1>5. CASE Stack = <<>>
  <2>1. Len(Stack) = 0
    BY <1>5
  <2>2. h[0 + 1][0] = forests /\ h[1][0] = trees
    BY <2>1 DEF Track, IsHistory
  <2>3. forests = trees
    BY <2>2
  <2> QED
    BY <1>2, <2>3
<1> QED
  BY <1>4, <1>5

\* The bounded search returns forests it has not found too large.
LEMMA BoundedSolutionIsSmall ==
    ASSUME Shape, ReturnBoundedSolution, NEW h, Track(h), Claims(h)
    PROVE  Weight <= maxSize
<1>1. /\ ApplyDone /\ Rule0.name = "CheckSingleVertexTrees" /\ Bounded /\ pc = "applying"
  BY DEF ReturnBoundedSolution, Returns, ApplyDone, InApply
<1>2. Here(h) /\ Stack # <<>> /\ TopRule = Rule0 /\ Entered(TopRule)
  BY <1>1, DoneIsHere, StackHasTop
<1>3. PICK n \in 1..Len(Stack) : n = Len(Stack) /\ TopRule = Stack[n]
  BY <1>2, StackHasTop
<1>4. PICK fs : fs = h[n][0]
  OBVIOUS
<1>5. Claim(TopRule, fs, Limit) /\ Fits(TopRule, fs)
  BY <1>3, <1>4 DEF Claims, Track, Stages
<1>6. NumComponents(fs[1]) < maxSize + 1
  BY <1>1, <1>2, <1>5 DEF Claim, Limit
<1>7. TopRule.plans = <<NoEdits>>
  BY <1>1, <1>2, <1>5 DEF Fits
<1>8. PlanOf(TopRule) = NoEdits
  <2>1. ~ IsBranching(TopRule)
    BY <1>1, <1>2 DEF IsBranching
  <2> QED
    BY <1>7, <2>1 DEF PlanOf
<1>9. \E prot, qrot : RunsTo(NoEdits, fs, prot, forests, qrot)
  BY <1>2, <1>3, <1>4, <1>8 DEF Here
<1>10. forests[1] = fs[1]
  BY <1>9, NoEditsSettle, FirstTree
<1>11. maxSize \in Nat /\ NumComponents(forests[1]) \in Nat
  <2>1. forests[1] \in Forest
    BY FirstTree DEF Shape, TypeOK
  <2>2. WellFormed(forests[1])
    BY <1>2, FirstTree DEF Here, Aligned, Settled
  <2> QED
    BY <2>1, <2>2, ComponentsAreCounted DEF Shape, TypeOK
<1> QED
  BY <1>6, <1>10, <1>11 DEF Weight

\* A rule that has taken all its branches: nothing is left where it started.
LEMMA AllBranchesTaken ==
    ASSUME NEW r, Entered(r), NEW fs, NEW n \in Nat, Claim(r, fs, n),
           Fruitless(fs, PlanOf(r), n), ~ IsBranching(r) \/ IsFullyExplored(r)
    PROVE  Hopeless(fs, n)
<1>1. Lossless(r, fs) /\ \A j \in 1..(r.branch - 1) : Fruitless(fs, r.plans[j], n)
  BY DEF Claim
<1>2. /\ r.plans \in Seq(Plan) /\ r.branch \in Nat
      /\ IsBranching(r) => r.branch \in DOMAIN r.plans /\ PlanOf(r) = r.plans[r.branch]
      /\ ~ IsBranching(r) => 1 \in DOMAIN r.plans /\ PlanOf(r) = r.plans[1]
  BY BranchOfEntered
<1>3. ASSUME NEW p \in DOMAIN r.plans PROVE Fruitless(fs, r.plans[p], n)
  <2>1. CASE IsBranching(r)
    <3>1. r.branch >= Len(r.plans)
      BY <2>1 DEF IsFullyExplored
    <3>2. p = r.branch \/ p \in 1..(r.branch - 1)
      BY <1>2, <3>1
    <3> QED
      BY <1>1, <1>2, <2>1, <3>2
  <2>2. CASE ~ IsBranching(r)
    <3>1. Len(r.plans) = 1
      BY <1>1, <2>2 DEF Lossless
    <3>2. p = 1
      BY <1>2, <3>1
    <3> QED
      BY <1>2, <2>2, <3>2
  <2> QED
    BY <2>1, <2>2
<1>4. Completes(r.plans, fs)
  BY <1>1 DEF Lossless
<1>5. PICK plans : plans = r.plans
  OBVIOUS
<1> QED
  BY <1>3, <1>4, <1>5, NoBranchLeft

\* The rule below it has then taken its branch in vain.
LEMMA DiscardedIsSpent ==
    ASSUME Shape, NEW h, Track(h), Claims(h), Stack # <<>>, Spent(h), Limit \in Nat,
           ~ IsBranching(TopRule) \/ IsFullyExplored(TopRule)
    PROVE  IF Len(Stack) = 1 THEN Hopeless(trees, Limit)
           ELSE Fruitless(h[Len(Stack) - 1][0], PlanOf(Stack[Len(Stack) - 1]), Limit)
<1>1. PICK n \in 1..Len(Stack) : n = Len(Stack) /\ TopRule = Stack[n] /\ n \in Nat
  BY StackHasTop
<1>2. PICK r, fs, m : r = TopRule /\ fs = h[n][0] /\ m = Limit /\ m \in Nat
  OBVIOUS
<1>3. Entered(r) /\ Claim(r, fs, m) /\ Fruitless(fs, PlanOf(r), m)
  BY <1>1, <1>2, StackIsEntered DEF Claims, Spent
<1>4. Hopeless(fs, m)
  BY <1>2, <1>3, AllBranchesTaken
<1>5. CASE Len(Stack) = 1
  <2>1. fs = trees
    BY <1>1, <1>2, <1>5 DEF Track, IsHistory
  <2> QED
    BY <1>2, <1>4, <1>5, <2>1
<1>6. CASE Len(Stack) # 1
  <2>1. n - 1 \in 1..(Len(Stack) - 1) /\ (n - 1) + 1 = n /\ n - 1 \in 1..Len(Stack)
    BY <1>1, <1>6
  <2>2. PICK k \in 1..Len(Stack) : k = n - 1 /\ k \in 1..(Len(Stack) - 1) /\ k + 1 = n
    BY <2>1
  <2>3. RunsTo(PlanOf(Stack[k]), h[k][0], Held(k), h[k + 1][0], Held(k + 1))
    BY <2>2 DEF Track, Stages
  <2>4. PICK prot, qrot : RunsTo(PlanOf(Stack[k]), h[k][0], prot, fs, qrot)
    BY <1>2, <2>2, <2>3
  <2>5. \A x : Hopeless(fs, x) => Fruitless(h[k][0], PlanOf(Stack[k]), x)
    BY <2>4, StageRuns DEF Track
  <2> QED
    BY <1>1, <1>2, <1>4, <1>6, <2>2, <2>5
<1> QED
  BY <1>5, <1>6

\* A rule undone with a branch left: it is queued where it started.
LEMMA RequeuedPromise ==
    ASSUME Shape, NEW h, Track(h), Claims(h), Stack # <<>>, Spent(h),
           TopRule.changes = <<>>, IsBranching(TopRule)
    PROVE  Promise([TopRule EXCEPT !.shields = {}], forests, Limit)
<1>1. PICK n \in 1..Len(Stack) : n = Len(Stack) /\ TopRule = Stack[n] /\ n \in Nat
  BY StackHasTop
<1>2. PICK r, fs, m : r = TopRule /\ fs = h[n][0] /\ m = Limit
  OBVIOUS
<1>3. Entered(r) /\ Claim(r, fs, m) /\ Fruitless(fs, PlanOf(r), m)
  BY <1>1, <1>2, StackIsEntered DEF Claims, Spent
<1>4. forests = fs
  <2>1. h[n + 1][0] = forests /\ h[n + 1][0] = h[n][Len(Stack[n].changes)]
    BY <1>1 DEF Track, IsHistory
  <2>2. Len(Stack[n].changes) = 0
    BY <1>1
  <2> QED
    BY <1>2, <2>1, <2>2
<1>5. /\ r.plans \in Seq(Plan) /\ r.branch \in Nat /\ PlanOf(r) = r.plans[r.branch]
  BY <1>2, <1>3, BranchOfEntered
<1>6. Lossless(r, fs) /\ \A j \in 1..(r.branch - 1) : Fruitless(fs, r.plans[j], m)
  BY <1>3 DEF Claim
<1>7. \A j \in 1..r.branch : Fruitless(fs, r.plans[j], m)
  <2> SUFFICES ASSUME NEW j \in 1..r.branch PROVE Fruitless(fs, r.plans[j], m)
    OBVIOUS
  <2>1. j = r.branch \/ j \in 1..(r.branch - 1)
    BY <1>5
  <2> QED
    BY <1>3, <1>5, <1>6, <2>1
<1> DEFINE s == [r EXCEPT !.shields = {}]
<1>8. s.name = r.name /\ s.plans = r.plans /\ s.branch = r.branch
  BY <1>3 DEF Entered, Rule
<1> HIDE DEF s
<1>9. Promise(s, fs, m)
  <2>1. Lossless(s, fs) /\ IsBranching(s)
    BY <1>2, <1>6, <1>8 DEF Lossless, IsBranching
  <2> QED
    BY <1>7, <1>8, <2>1 DEF Promise
<1> QED
  BY <1>2, <1>4, <1>9 DEF s

\* ABCBranchingRule has made a and c a cherry everywhere: collapsing it loses
\* nothing.
LEMMA SuggestedPromise ==
    ASSUME Shape, ApplyDone, NEW h, Track(h), Rule0.name = "ABC", Rule0.branch = 1, NEW n
    PROVE  Promise(EqualPairRule(Rule0.a, Rule0.c), forests, n)
<1>1. /\ Fits(EqualPairRule(Rule0.a, Rule0.c), forests) /\ Here(h)
  BY DoneIsHere
<1>2. PICK a, c : a = Rule0.a /\ c = Rule0.c
  OBVIOUS
<1> DEFINE r == EqualPairRule(a, c)
<1>3. /\ r.name = "EqualPair" /\ r.a = a /\ r.c = c /\ r.branch = 0
      /\ r.plans = <<Everywhere(<<Merge(a, c)>>)>>
  BY DEF EqualPairRule, NewRule
<1>4. Level(forests)
  BY <1>1, SettledIsLevel DEF Here, Aligned
<1>5. Fits(r, forests)
  BY <1>1, <1>2
<1>6. a \in Labels /\ c \in Labels /\ Cherry(forests, a, c) /\ Mateless(r.plans[1])
  <2> HIDE DEF r
  <2> QED
    BY <1>3, <1>5 DEF Fits
<1>7. Completes(r.plans, forests)
  BY <1>4, <1>6, EqualPairCompletes
<1> HIDE DEF r
<1>8. Lossless(r, forests)
  BY <1>3, <1>6, <1>7, OnePlanIsLossless
<1>9. Promise(r, forests, n)
  BY <1>3, <1>8 DEF Promise, IsReduction
<1> QED
  BY <1>2, <1>9 DEF r

-----------------------------------------------------------------------------
(* What has been found is kept.                                            *)

\* The search proper, before its answer is put in place.
Seeking ==
    /\ Searching
    /\ timeout => Bounded
    /\ \/ pc \in {"idle", "top", "endOfBranch", "backtracking", "stopped"}
       \/ pc = "applying" /\ ~ Replaying

\* What it has found out.
Ended == /\ result = "Exhausted" => Hopeless(trees, Limit)
         /\ result = "Solved" /\ Bounded => Weight <= maxSize

\* What is known of the search, rule by rule.
Found(h) ==
    /\ Claims(h)
    /\ pc \in {"endOfBranch", "backtracking"} => Spent(h)
    /\ pc \in {"top", "stopped"} => Promised
    /\ pc = "stopped" => Ended

\* A branch done with is so for the rule that took it.
LEMMA SpentNow ==
    ASSUME Stack' = Stack, Stack # <<>>, Len(Stack) \in 1..Len(Stack),
           NEW h, NEW g, Resumes(g, h), NEW fs, fs = h[Len(Stack)][0],
           NEW plan, plan = PlanOf(TopRule), NEW n, n = Limit', Fruitless(fs, plan, n)
    PROVE  Spent(g)'
<1>1. g[Len(Stack')][0] = fs /\ Stack' # <<>>
  BY DEF Resumes
<1>2. PlanOf(TopRule') = plan
  BY DEF TopRule
<1>3. Spent(g)' <=> IF Stack' = <<>> THEN Hopeless(trees', Limit')
                    ELSE Fruitless(g[Len(Stack')][0], PlanOf(TopRule'), Limit')
  BY DEF Spent
<1> QED
  BY <1>1, <1>2, <1>3

\* It stays done with while the rule is undone.
LEMMA SpentIsKept ==
    ASSUME Shape, Shape', KeepsRules, Len(Stack') = Len(Stack), UNCHANGED trees, Limit' = Limit,
           NEW h, Spent(h), NEW g, Resumes(g, h)
    PROVE  Spent(g)'
<1>1. /\ Len(Stack) \in Nat /\ (Stack # <<>> => Len(Stack) \in 1..Len(Stack))
      /\ Stack \in Seq(Rule)
  BY StackHasTop
<1>2. Stack' = <<>> <=> Stack = <<>>
  <2>1. Stack' \in Seq(Rule)
    <3>1. applied' \in Seq(Rule) /\ current' \in Seq(Rule)
      BY DEF Shape, TypeOK
    <3> QED
      BY <3>1 DEF Stack
  <2> QED
    BY <1>1, <2>1
<1>3. Spent(g)' <=> IF Stack' = <<>> THEN Hopeless(trees', Limit')
                    ELSE Fruitless(g[Len(Stack')][0], PlanOf(TopRule'), Limit')
  BY DEF Spent
<1>4. CASE Stack = <<>>
  BY <1>2, <1>3, <1>4 DEF Spent
<1>5. CASE Stack # <<>>
  <2>1. SameRule(Stack'[Len(Stack)], Stack[Len(Stack)])
    BY <1>1, <1>5 DEF KeepsRules
  <2>2. PICK r, s : r = TopRule /\ s = TopRule'
    OBVIOUS
  <2>3. SameRule(s, r)
    BY <2>1, <2>2 DEF TopRule
  <2>4. PlanOf(s) = PlanOf(r)
    BY <2>3, SameRuleFits
  <2>5. g[Len(Stack')][0] = h[Len(Stack)][0]
    BY <1>1, <1>5 DEF Resumes
  <2>6. Fruitless(h[Len(Stack)][0], PlanOf(TopRule), Limit)
    BY <1>5 DEF Spent
  <2> QED
    BY <1>2, <1>3, <1>5, <2>2, <2>4, <2>5, <2>6
<1> QED
  BY <1>4, <1>5

\* The promise of the queue.
LEMMA PromisedNow ==
    ASSUME NEW r, NEW fs, fs = forests', NEW n, n = Limit', Promise(r, fs, n),
           applyNext' = <<r>>
    PROVE  Promised'
<1>1. Head(applyNext') = r
  OBVIOUS
<1>2. Promised' <=> (applyNext' # <<>> => Promise(Head(applyNext'), forests', Limit'))
  BY DEF Promised
<1> QED
  BY <1>1, <1>2

\* An empty queue promises nothing.
LEMMA NothingPromised ==
    ASSUME applyNext' = <<>> PROVE Promised'
BY DEF Promised

\* The promise is kept while the queue and the forests are.
LEMMA PromiseIsKept ==
    ASSUME UNCHANGED <<applyNext, forests>>, Limit' = Limit, Promised PROVE Promised'
<1>1. Promised' <=> (applyNext' # <<>> => Promise(Head(applyNext'), forests', Limit'))
  BY DEF Promised
<1> QED
  BY <1>1 DEF Promised

\* The limit follows the incumbent and the depth.
LEMMA LimitStays ==
    ASSUME Shape, UNCHANGED <<best, maxSize>>
    PROVE  LimitHolds /\ Limit' = Limit /\ Limit \in Nat
BY DEF LimitHolds, Limit, Shape, TypeOK

\* Steps that leave the stack alone and end no branch.
LEMMA RestingFinds ==
    ASSUME Shape, Shape', Queue, Deepening, Seeking, Seeking',
           NEW h, Track(h), Found(h), NEW g, Resumes(g, h),
           \/ CallAdvanceSearch \/ ReturnSolved \/ ReturnPaused \/ NextForest \/ SkipEdit
           \/ AbandonBranch \/ RollBackBranch \/ RaiseThreshold \/ Sigterm \/ UNCHANGED vars
    PROVE  Found(g)'
<1>1. Rests /\ UNCHANGED <<best, maxSize>>
  BY DEF CallAdvanceSearch, ReturnSolved, ReturnPaused, NextForest, SkipEdit,
         AbandonBranch, RollBackBranch, RaiseThreshold, Sigterm, vars, search, Rests, Stack,
         Ending
<1>2. LimitHolds /\ Limit' = Limit
  BY <1>1, LimitStays
<1>3. Claims(g)'
  BY <1>1, <1>2, ClaimsAreKept DEF Found
<1>4. KeepsRules /\ Len(Stack') = Len(Stack) /\ UNCHANGED trees
  <2>1. KeepsRules /\ UNCHANGED trees
    BY <1>1, StackKeepsRules
  <2> QED
    BY <1>1, <2>1 DEF Rests
<1>5. Spent(h) => Spent(g)'
  BY <1>2, <1>4, SpentIsKept
<1>6. ~ TimedOut
  <2>1. timeout => solution = <<>>
    BY DEF Seeking, Deepening
  <2> QED
    BY <2>1 DEF TimedOut
<1>7. ASSUME pc' \in {"endOfBranch", "backtracking"} PROVE Spent(g)'
  <2>1. pc \in {"endOfBranch", "backtracking"}
    BY <1>7 DEF CallAdvanceSearch, ReturnSolved, ReturnPaused, NextForest, SkipEdit,
         AbandonBranch, RollBackBranch, RaiseThreshold, Sigterm, vars, InForestLoop, InApply,
         EditsLeft
  <2> QED
    BY <1>5, <2>1 DEF Found
<1>8. ASSUME pc' \in {"top", "stopped"} PROVE Promised'
  <2>1. UNCHANGED <<applyNext, forests>> /\ pc \in {"idle", "top", "stopped"}
    BY <1>8 DEF CallAdvanceSearch, ReturnSolved, ReturnPaused, NextForest, SkipEdit,
         AbandonBranch, RollBackBranch, RaiseThreshold, Sigterm, vars, InForestLoop, InApply,
         EditsLeft
  <2>2. CASE pc = "idle"
    BY <2>1, <2>2, NothingPromised DEF Queue
  <2>3. CASE pc # "idle"
    BY <1>2, <2>1, <2>3, PromiseIsKept DEF Found
  <2> QED
    BY <2>2, <2>3
<1>9. ASSUME pc' = "stopped" PROVE Ended'
  <2>1. CASE ReturnSolved
    <3>1. result' = "Solved" /\ solution # <<>>
      BY <1>6, <2>1 DEF ReturnSolved, Certified
    <3>2. ~ Bounded
      BY <3>1 DEF Deepening
    <3> QED
      BY <3>1, <3>2 DEF Ended
  <2>2. CASE ReturnPaused
    BY <2>2 DEF ReturnPaused, Ended
  <2>3. CASE ~ ReturnSolved /\ ~ ReturnPaused
    <3>1. pc = "stopped" /\ UNCHANGED <<result, forests, trees, maxSize>>
      BY <1>9, <2>3 DEF CallAdvanceSearch, NextForest, SkipEdit,
         AbandonBranch, RollBackBranch, RaiseThreshold, Sigterm, vars, InForestLoop, InApply,
         EditsLeft, search
    <3>2. Ended
      BY <3>1 DEF Found
    <3>3. Weight' = Weight
      BY <3>1 DEF Weight
    <3> QED
      BY <1>2, <3>1, <3>2, <3>3 DEF Ended
  <2> QED
    BY <2>1, <2>2, <2>3
<1> QED
  BY <1>3, <1>7, <1>8, <1>9 DEF Found

\* Steps that enter a rule.
LEMMA EnteringFinds ==
    ASSUME NumTrees <= 2, Shape, Shape', ShieldsAreOwned, Queue, Seeking,
           NEW h, Track(h), Found(h), NEW g, Track(g)', Resumes(g, h),
           ApplyQueuedRule \/ ApplyActiveRule
    PROVE  Found(g)'
<1>1. /\ pc = "top" /\ pc' = "applying" /\ UNCHANGED <<trees, forests, applied, protected>>
      /\ UNCHANGED <<best, maxSize>>
  BY DEF ApplyQueuedRule, ApplyActiveRule, SelectsRule, EnterRule, search
<1>2. Limit' = Limit /\ Limit \in Nat
  BY <1>1, LimitStays
<1>3. \E r : /\ Ready(r) /\ Fits(r, forests) /\ EnterRule(r)
             /\ Claim(Entering(r), forests, Limit)
  <2>1. CASE ApplyQueuedRule
    <3>1. applyNext # <<>> /\ EnterRule(Head(applyNext))
      BY <2>1 DEF ApplyQueuedRule
    <3>2. Ready(Head(applyNext))
      <4>1. applyNext \in Seq(Rule) /\ \A k \in DOMAIN applyNext : Ready(applyNext[k])
        BY DEF Shape, TypeOK
      <4>2. 1 \in DOMAIN applyNext /\ Head(applyNext) = applyNext[1]
        BY <3>1, <4>1
      <4> QED
        BY <4>1, <4>2
    <3>3. Fits(Head(applyNext), forests) /\ Enterable(Head(applyNext))
      BY <1>1, <3>1 DEF Queue
    <3>4. Promise(Head(applyNext), forests, Limit)
      BY <1>1, <3>1 DEF Found, Promised
    <3>5. PICK r : r = Head(applyNext)
      OBVIOUS
    <3>6. Claim(Entering(r), forests, Limit)
      BY <3>2, <3>3, <3>4, <3>5, QueuedClaim
    <3>7. EnterRule(r)
      BY <3>1, <3>5
    <3> QED
      BY <3>2, <3>3, <3>5, <3>6, <3>7
  <2>2. CASE ApplyActiveRule
    <3>1. PICK r \in ActiveRules : EnterRule(r)
      BY <2>2 DEF ApplyActiveRule
    <3>2. Ready(r) /\ Fits(r, forests)
      BY <1>1, <3>1, SelectedIsReady, SelectedFitsHere
    <3>3. Claim(Entering(r), forests, Limit)
      BY <1>1, <3>1, SelectedClaim DEF Seeking
    <3> QED
      BY <3>1, <3>2, <3>3
  <2> QED
    BY <2>1, <2>2
<1>4. PICK r : /\ Ready(r) /\ Fits(r, forests) /\ EnterRule(r)
               /\ Claim(Entering(r), forests, Limit)
  BY <1>3
<1>5. IsHistory(g)' /\ Claims(h)
  BY DEF Track, Found
<1>6. Claims(g)'
  BY <1>1, <1>2, <1>4, <1>5, EnteringClaims DEF Complete
<1> QED
  BY <1>1, <1>6 DEF Found

\* Edits.
LEMMA EditingFinds ==
    ASSUME Shape, Shape', NEW h, Track(h), Found(h), NEW g, Resumes(g, h),
           CutNode \/ CollapseNode
    PROVE  Found(g)'
<1>1. UNCHANGED <<best, maxSize>> /\ pc' = "applying"
  BY DEF CutNode, CollapseNode, EditsLeft, InForestLoop, InApply, search
<1>2. Claims(g)'
  BY <1>1, LimitStays, EditKeepsClaims DEF Found
<1> QED
  BY <1>1, <1>2 DEF Found

\* Returns of apply().
LEMMA ReturningFinds ==
    ASSUME Shape, Shape', ShieldsAreOwned, Queue, Seeking,
           NEW h, Track(h), Found(h), NEW g, Resumes(g, h),
           \/ ApplyBlocked \/ ReturnContinue \/ ReturnCutBranch
           \/ ReturnBoundedSolution \/ ReturnSolutionCandidate
    PROVE  Found(g)'
<1>1. pc = "applying" /\ ~ Replaying
  <2>1. pc = "applying"
    BY DEF ApplyBlocked, ReturnContinue, ReturnCutBranch, ReturnBoundedSolution,
           ReturnSolutionCandidate, Returns, ApplyDone, EditsLeft, InForestLoop, InApply
  <2> QED
    BY <2>1 DEF Seeking
<1>2. Stack # <<>> /\ Len(Stack) \in 1..Len(Stack) /\ TopRule = Rule0
      /\ TopRule = Stack[Len(Stack)]
  BY <1>1, StackHasTop
<1>3. Claims(h)
  BY DEF Found
<1>4. PICK n : n = Limit
  OBVIOUS
<1>5. PICK fs, plan : fs = h[Len(Stack)][0] /\ plan = PlanOf(TopRule)
  OBVIOUS
<1>6. applyNext = <<>>
  BY <1>1 DEF Queue
<1>7. ASSUME Rests, LimitHolds, Fruitless(fs, plan, Limit'), pc' = "endOfBranch"
      PROVE  Found(g)'
  <2>1. Stack' = Stack
    BY <1>7 DEF Rests
  <2>2. PICK m : m = Limit'
    OBVIOUS
  <2>3. Fruitless(fs, plan, m)
    BY <1>7, <2>2
  <2>4. Spent(g)'
    BY <1>2, <1>5, <2>1, <2>2, <2>3, SpentNow
  <2>5. Claims(g)'
    BY <1>3, <1>7, ClaimsAreKept
  <2> QED
    BY <1>7, <2>4, <2>5 DEF Found
<1>8. CASE ApplyBlocked
  <2>1. Rests /\ pc' = "endOfBranch" /\ UNCHANGED <<best, maxSize>>
    BY <1>1, <1>8, LeavingRests DEF ApplyBlocked, search
  <2>2. Limit' = n /\ LimitHolds
    BY <1>4, <2>1, LimitStays
  <2>3. Fruitless(fs, plan, n)
    BY <1>3, <1>4, <1>5, <1>8, BlockedIsFruitless
  <2> QED
    BY <1>7, <2>1, <2>2, <2>3
<1>9. CASE ReturnContinue
  <2>1. /\ ApplyDone /\ LeaveApply /\ pc' = "top" /\ UNCHANGED <<trees, forests, protected>>
        /\ UNCHANGED <<best, maxSize>> /\ applyNext' = applyNext \o Suggestions
    BY <1>9 DEF ReturnContinue, Returns, search
  <2>2. Rests
    BY <1>1, <2>1, LeavingRests
  <2>3. Claims(g)'
    BY <1>3, <2>1, <2>2, LimitStays, ClaimsAreKept
  <2>4. Suggestions \in Seq(Rule)
    BY <1>1, SuggestionsAreReady
  <2>5. applyNext' = Suggestions
    BY <1>6, <2>1, <2>4
  <2>6. Promised'
    <3>1. CASE Rule0.name = "ABC" /\ Rule0.branch = 1
      <4>1. PICK r, fs2, m : r = EqualPairRule(Rule0.a, Rule0.c) /\ fs2 = forests' /\ m = Limit'
        OBVIOUS
      <4>2. Promise(EqualPairRule(Rule0.a, Rule0.c), forests, m)
        BY <2>1, <3>1, SuggestedPromise
      <4>3. Promise(r, fs2, m)
        BY <2>1, <4>1, <4>2
      <4>4. applyNext' = <<r>>
        BY <2>5, <3>1, <4>1 DEF Suggestions
      <4> QED
        BY <4>1, <4>3, <4>4, PromisedNow
    <3>2. CASE ~ (Rule0.name = "ABC" /\ Rule0.branch = 1)
      <4>1. applyNext' = <<>>
        BY <2>5, <3>2 DEF Suggestions
      <4> QED
        BY <4>1, NothingPromised
    <3> QED
      BY <3>1, <3>2
  <2> QED
    BY <2>1, <2>3, <2>6 DEF Found
<1>10. CASE ReturnCutBranch
  <2>1. /\ ApplyDone /\ LeaveApply /\ UNCHANGED <<trees, forests, protected, best>>
        /\ Rule0.name \in {"CutBranch", "DebugAssertFalse"}
    BY <1>10 DEF ReturnCutBranch, Returns
  <2>2. Rule0.name = "CutBranch"
    BY <2>1, DoneIsHere
  <2>3. pc' = "endOfBranch" /\ UNCHANGED maxSize
    BY <1>10, <2>2 DEF ReturnCutBranch
  <2>4. Rests
    BY <1>1, <2>1, <2>3, LeavingRests
  <2>5. Limit' = n /\ LimitHolds
    BY <1>4, <2>1, <2>3, LimitStays
  <2>6. Claim(TopRule, fs, n)
    BY <1>2, <1>3, <1>4, <1>5 DEF Claims
  <2>7. Hopeless(fs, n)
    BY <1>2, <2>2, <2>6 DEF Claim
  <2>8. Fruitless(fs, plan, n)
    BY <2>7 DEF Hopeless, Fruitless
  <2> QED
    BY <1>7, <2>3, <2>4, <2>5, <2>8
<1>11. CASE ReturnBoundedSolution
  <2>1. /\ LeaveApply /\ UNCHANGED <<trees, forests, protected, best, maxSize, applyNext>>
        /\ pc' = "stopped" /\ result' = "Solved"
    BY <1>11 DEF ReturnBoundedSolution, Returns, search
  <2>2. Rests
    BY <1>1, <2>1, LeavingRests
  <2>3. Claims(g)'
    BY <1>3, <2>1, <2>2, LimitStays, ClaimsAreKept
  <2>4. Weight <= maxSize
    BY <1>3, <1>11, BoundedSolutionIsSmall
  <2>5. Ended'
    BY <2>1, <2>4 DEF Ended, Weight
  <2>6. Promised'
    BY <1>6, <2>1, NothingPromised
  <2> QED
    BY <2>1, <2>3, <2>5, <2>6 DEF Found
<1>12. CASE ReturnSolutionCandidate
  <2>1. /\ ApplyDone /\ LeaveApply /\ UNCHANGED <<trees, forests, protected, maxSize>>
        /\ pc' = "endOfBranch" /\ ~ Bounded
        /\ best' = IF best > Weight THEN Weight ELSE best
    BY <1>12 DEF ReturnSolutionCandidate, Returns
  <2>2. Rests
    BY <1>1, <2>1, LeavingRests
  <2>3. Weight \in Nat /\ best \in Nat
    <3>1. Settled(forests)
      BY <2>1, DoneIsHere DEF Here, Aligned
    <3> QED
      BY <3>1, FirstTree, ComponentsAreCounted DEF Weight, Settled, Shape, TypeOK
  <2>4. Limit = best /\ Limit' = best'
    BY <2>1 DEF Limit
  <2>5. LimitHolds /\ Limit' <= Weight /\ Limit' \in Nat
    BY <2>1, <2>3, <2>4 DEF LimitHolds
  <2>6. PICK m \in Nat : m = Limit'
    BY <2>5
  <2>7. Fruitless(fs, plan, m)
    BY <1>5, <2>1, <2>5, <2>6, CandidateIsFruitless
  <2> QED
    BY <1>7, <2>1, <2>2, <2>5, <2>6, <2>7
<1> QED
  BY <1>8, <1>9, <1>10, <1>11, <1>12

\* Steps of rollBackBranch.
LEMMA BacktrackingFinds ==
    ASSUME Shape, Shape', Queue, Deepening, Seeking, Seeking',
           NEW h, Track(h), Found(h), NEW g, Resumes(g, h),
           UndoChange \/ DiscardRule \/ EnterNextBranch \/ NothingLeft
    PROVE  Found(g)'
<1>1. pc = "backtracking"
  BY DEF UndoChange, DiscardRule, EnterNextBranch, NothingLeft, Unapplying, Seeking
<1>2. /\ Stack = applied /\ applied \in Seq(Rule) /\ Len(Stack) \in Nat
      /\ Stack # <<>> => /\ Len(Stack) \in 1..Len(Stack) /\ TopRule = Stack[Len(Stack)]
                         /\ TopRule = LastRule
  BY <1>1, StackIsTyped, StackHasTop DEF LastRule, Shape, TypeOK
<1>3. Claims(h) /\ Spent(h)
  BY <1>1 DEF Found
<1>4. applyNext = <<>>
  BY <1>1 DEF Queue
<1>a. pc' # "applying" => Stack' = applied'
  <2>1. pc' # "applying" => current' = <<>>
    BY DEF Shape
  <2>2. applied' \in Seq(Rule)
    BY DEF Shape, TypeOK
  <2> QED
    BY <2>1, <2>2 DEF Stack
<1>5. CASE UndoChange
  <2>1. Reverts /\ UNCHANGED <<best, maxSize>> /\ pc' = "backtracking"
    <3>1. /\ pc' = pc
          /\ applied # <<>> /\ LastRule.changes # <<>>
          /\ forests' = Reverted(forests, Last(LastRule.changes))
          /\ applied' = [applied EXCEPT ![Len(applied)] =
                            [LastRule EXCEPT !.changes = Front(LastRule.changes)]]
          /\ UNCHANGED <<trees, protected, best, maxSize>>
      BY <1>5 DEF UndoChange, search, LastRule, Reverted
    <3>2. Stack' = applied'
      BY <1>1, <1>a, <3>1
    <3> QED
      BY <1>1, <1>2, <3>1, <3>2 DEF Reverts, Ending
  <2>2. LimitHolds /\ Limit' = Limit
    BY <2>1, LimitStays
  <2>3. Claims(g)'
    BY <1>3, <2>1, <2>2, ClaimsAreKept
  <2>4. KeepsRules /\ UNCHANGED trees /\ Len(Stack') = Len(Stack)
    <3>1. KeepsRules /\ UNCHANGED trees
      BY <2>1, StackKeepsRules
    <3>2. Len(Stack') = Len(Stack)
      BY <1>2, <2>1 DEF Reverts
    <3> QED
      BY <3>1, <3>2
  <2>5. Spent(g)'
    BY <1>3, <2>2, <2>4, SpentIsKept
  <2> QED
    BY <2>1, <2>3, <2>5 DEF Found
<1>6. CASE DiscardRule
  <2>1. Pops /\ UNCHANGED <<best, maxSize, trees>> /\ pc' = "backtracking"
        /\ Stack # <<>> /\ (~ IsBranching(TopRule) \/ IsFullyExplored(TopRule))
    BY <1>1, <1>2, <1>6, <1>a DEF DiscardRule, PopRule, search, Pops, Ending
  <2>2. LimitHolds /\ Limit' = Limit /\ Limit \in Nat
    BY <2>1, LimitStays
  <2>3. Claims(g)'
    BY <1>3, <2>1, <2>2, ClaimsAreKept
  <2>4. IF Len(Stack) = 1 THEN Hopeless(trees, Limit)
        ELSE Fruitless(h[Len(Stack) - 1][0], PlanOf(Stack[Len(Stack) - 1]), Limit)
    BY <1>3, <2>1, <2>2, DiscardedIsSpent
  <2>5. /\ Len(Stack') = Len(Stack) - 1 /\ \A k \in 1..Len(Stack') : Stack'[k] = Stack[k]
        /\ Stack' \in Seq(Rule)
    <3>1. Stack' = Front(Stack) /\ Stack # <<>> /\ Stack \in Seq(Rule)
      BY <1>2, <2>1 DEF Pops
    <3>2. Len(Stack') = Len(Stack) - 1 /\ \A k \in 1..Len(Stack') : Stack'[k] = Stack[k]
      <4>1. PICK s, t : s = Stack /\ t = Stack'
        OBVIOUS
      <4>2. s \in Seq(Rule) /\ s # <<>> /\ t = Front(s)
        BY <3>1, <4>1
      <4>3. PICK n \in Nat : n = Len(s) /\ n # 0
        BY <4>2
      <4>4. Len(Front(s)) = n - 1 /\ \A k \in 1..(n - 1) : Front(s)[k] = s[k]
        BY <4>2, <4>3 DEF Front
      <4> QED
        BY <4>1, <4>2, <4>3, <4>4
    <3>3. Stack' \in Seq(Rule)
      <4>1. applied' \in Seq(Rule) /\ current' \in Seq(Rule)
        BY DEF Shape, TypeOK
      <4> QED
        BY <4>1 DEF Stack
    <3> QED
      BY <3>2, <3>3
  <2>6. Spent(g)' <=> IF Stack' = <<>> THEN Hopeless(trees', Limit')
                      ELSE Fruitless(g[Len(Stack')][0], PlanOf(Stack'[Len(Stack')]), Limit')
    BY DEF Spent, TopRule
  <2>7. CASE Len(Stack) = 1
    <3>1. Stack' = <<>>
      BY <2>5, <2>7
    <3> QED
      BY <2>1, <2>2, <2>3, <2>4, <2>6, <2>7, <3>1 DEF Found
  <2>8. CASE Len(Stack) # 1
    <3>1. PICK k \in 1..Len(Stack) : k = Len(Stack') /\ k = Len(Stack) - 1 /\ k \in 1..Len(Stack')
      BY <1>2, <2>1, <2>5, <2>8
    <3>2. Stack' # <<>> /\ g[k][0] = h[k][0] /\ Stack'[k] = Stack[k]
      BY <2>5, <3>1 DEF Resumes
    <3>3. Fruitless(h[k][0], PlanOf(Stack[k]), Limit)
      BY <2>4, <2>8, <3>1
    <3>4. Spent(g)'
      BY <2>2, <2>6, <3>1, <3>2, <3>3
    <3> QED
      BY <2>1, <2>3, <3>4 DEF Found
  <2> QED
    BY <2>7, <2>8
<1>7. CASE EnterNextBranch
  <2>1. Pops /\ UNCHANGED <<best, maxSize, trees, forests>> /\ pc' = "top"
        /\ Stack # <<>> /\ IsBranching(TopRule) /\ TopRule.changes = <<>>
        /\ applyNext' = <<[TopRule EXCEPT !.shields = {}]>>
    BY <1>1, <1>2, <1>7, <1>a DEF EnterNextBranch, PopRule, search, Pops, Ending
  <2>2. LimitHolds /\ Limit' = Limit /\ Limit \in Nat
    BY <2>1, LimitStays
  <2>3. Claims(g)'
    BY <1>3, <2>1, <2>2, ClaimsAreKept
  <2>4. Promise([TopRule EXCEPT !.shields = {}], forests, Limit)
    BY <1>3, <2>1, RequeuedPromise
  <2>5. PICK r, fs, n : r = [TopRule EXCEPT !.shields = {}] /\ fs = forests' /\ n = Limit'
    OBVIOUS
  <2>6. Promise(r, fs, n) /\ applyNext' = <<r>>
    BY <2>1, <2>2, <2>4, <2>5
  <2>7. Promised'
    BY <2>5, <2>6, PromisedNow
  <2> QED
    BY <2>1, <2>3, <2>7 DEF Found
<1>8. CASE NothingLeft
  <2>1. /\ applied = <<>> /\ SearchSpaceDone /\ UNCHANGED <<trees, best, applied, applyNext, current>>
    BY <1>8 DEF NothingLeft
  <2>2. Stack = <<>> /\ Stack' = <<>>
    BY <1>2, <2>1 DEF Stack
  <2>3. Len(Stack') = 0
    BY <2>2
  <2>4. Claims(g)'
    BY <2>3 DEF Claims
  <2>5. Hopeless(trees, Limit)
    BY <1>3, <2>2 DEF Spent
  <2>6. Promised'
    BY <1>4, <2>1, NothingPromised
  <2>7. CASE Bounded
    <3>1. pc' = "top"
      BY <2>1, <2>7 DEF SearchSpaceDone
    <3> QED
      BY <2>4, <2>6, <3>1 DEF Found
  <2>8. CASE ~ Bounded
    <3>1. pc' = "stopped" /\ result' = "Exhausted" /\ UNCHANGED maxSize
      BY <2>1, <2>8 DEF SearchSpaceDone
    <3>2. Limit' = Limit
      BY <2>1, <3>1 DEF Limit
    <3>3. Ended'
      BY <2>1, <2>5, <3>1, <3>2 DEF Ended
    <3> QED
      BY <2>4, <2>6, <3>1, <3>3 DEF Found
  <2> QED
    BY <2>7, <2>8
<1> QED
  BY <1>5, <1>6, <1>7, <1>8

\* Nothing but the search goes on with the search.
LEMMA SeekingSteps ==
    ASSUME Shape, [Next]_vars, Seeking, Seeking'
    PROVE  \/ \/ CallAdvanceSearch \/ ReturnSolved \/ ReturnPaused \/ NextForest \/ SkipEdit
              \/ AbandonBranch \/ RollBackBranch \/ RaiseThreshold \/ Sigterm \/ UNCHANGED vars
           \/ ApplyQueuedRule \/ ApplyActiveRule
           \/ CutNode \/ CollapseNode
           \/ \/ ApplyBlocked \/ ReturnContinue \/ ReturnCutBranch
              \/ ReturnBoundedSolution \/ ReturnSolutionCandidate
           \/ UndoChange \/ DiscardRule \/ EnterNextBranch \/ NothingLeft
<1>1. ~ Finalize
  BY DEF Seeking, Finalize
<1>2. ~ ReplayedRule
  BY DEF Seeking, ReplayedRule, ApplyDone, InApply
<1>3. ~ StartReplay /\ ~ ReplayRule /\ ~ EndReplay /\ ~ TakeSeed /\ ~ SeedSearch
      /\ ~ UnapplyReductions /\ ~ UndoReductionChange /\ ~ NextReduction
  BY DEF Seeking, StartReplay, ReplayRule, EndReplay, TakeSeed, SeedSearch,
         UnapplyReductions, UndoReductionChange, NextReduction
<1> QED
  BY <1>1, <1>2, <1>3 DEF Next, SolverStep, OtherStep, AdvanceSearch, Apply, RollBack, Finish,
                          Terminated

\* What has been found is kept by every step of the search.
LEMMA SeekingGoesOn ==
    ASSUME NumTrees <= 2, Shape, Shape', ShieldsAreOwned, Queue, Deepening, [Next]_vars,
           Seeking, Seeking', NEW h, Track(h), Found(h), NEW g, Track(g)', Resumes(g, h)
    PROVE  Found(g)'
BY SeekingSteps, RestingFinds, EnteringFinds, EditingFinds, ReturningFinds, BacktrackingFinds

\* A timeout is reported for good.
LEMMA TimeoutStays ==
    ASSUME [Next]_vars
    PROVE  timeout => timeout'
BY DEF Next, SolverStep, OtherStep, AdvanceSearch, Apply, RollBack, Finish,
              Terminated, CallAdvanceSearch, ReturnSolved, ReturnPaused, ApplyQueuedRule,
              ApplyActiveRule, NextForest, SkipEdit, CutNode, CollapseNode, ApplyBlocked,
              ReplayedRule, ReturnContinue, ReturnCutBranch, ReturnBoundedSolution, Returns,
              ReturnSolutionCandidate, TakeSeed,
              ReturnToReplay, SearchSpaceDone, UndoChange, DiscardRule, AbandonBranch,
              RollBackBranch, EnterNextBranch, NothingLeft, Finalize, StartReplay, ReplayRule,
              EndReplay, SeedSearch, UnapplyReductions, UndoReductionChange, NextReduction,
              Sigterm, RaiseThreshold, vars, search

\* The search, once seeded, is the stage for good.
LEMMA StageStays ==
    ASSUME [Next]_vars
    PROVE  SeedSearch \/ stage' = stage
BY DEF Next, SolverStep, OtherStep, AdvanceSearch, Apply, RollBack, Finish,
              Terminated, CallAdvanceSearch, ReturnSolved, ReturnPaused, ApplyQueuedRule,
              ApplyActiveRule, NextForest, SkipEdit, CutNode, CollapseNode, ApplyBlocked,
              ReplayedRule, ReturnContinue, ReturnCutBranch, ReturnBoundedSolution, Returns,
              ReturnSolutionCandidate, TakeSeed,
              ReturnToReplay, SearchSpaceDone, UndoChange, DiscardRule, AbandonBranch,
              RollBackBranch, EnterNextBranch, NothingLeft, Finalize, StartReplay, ReplayRule,
              EndReplay, SeedSearch, UnapplyReductions, UndoReductionChange, NextReduction,
              Sigterm, RaiseThreshold, vars, search

\* Where the answer is being put in place, or is in place.
Placing ==
    \/ pc \in {"unwinding", "replaying", "finished", "restoring", "output"}
    \/ pc = "applying" /\ Replaying

\* The steps of finalize, and of what follows it.
LEMMA PlacingSteps ==
    ASSUME Shape, [Next]_vars, Placing \/ pc = "reseeding"
    PROVE  \/ NextForest \/ SkipEdit \/ CutNode \/ CollapseNode
           \/ ApplyBlocked \/ ReplayedRule
           \/ UndoChange \/ DiscardRule \/ StartReplay \/ ReplayRule \/ EndReplay
           \/ TakeSeed \/ SeedSearch
           \/ UnapplyReductions \/ UndoReductionChange \/ NextReduction
           \/ Sigterm \/ UNCHANGED vars
<1>1. ~ CallAdvanceSearch /\ ~ ReturnSolved /\ ~ ReturnPaused /\ ~ ApplyQueuedRule
      /\ ~ ApplyActiveRule /\ ~ AbandonBranch /\ ~ RollBackBranch /\ ~ EnterNextBranch
      /\ ~ NothingLeft /\ ~ Finalize /\ ~ RaiseThreshold
  BY DEF Placing, CallAdvanceSearch, ReturnSolved, ReturnPaused, ApplyQueuedRule,
         ApplyActiveRule, SelectsRule, AbandonBranch, RollBackBranch, EnterNextBranch,
         NothingLeft, Finalize, RaiseThreshold
<1>2. ~ ReturnContinue /\ ~ ReturnCutBranch /\ ~ ReturnBoundedSolution
      /\ ~ ReturnSolutionCandidate
  BY DEF Placing, ReturnContinue, ReturnCutBranch, ReturnBoundedSolution,
         ReturnSolutionCandidate, Returns, ApplyDone, InApply
<1> QED
  BY <1>1, <1>2 DEF Next, SolverStep, OtherStep, AdvanceSearch, Apply, RollBack, Finish,
                    Terminated

\* They do not lead back into the search, and keep the answer.
LEMMA PlacingGoesOn ==
    ASSUME Shape, [Next]_vars, Placing \/ pc = "reseeding"
    PROVE  /\ Placing' \/ pc' = "reseeding" \/ SeedSearch
           /\ Placing' => Placing
           /\ ~ TakeSeed => UNCHANGED <<best, threshold, trees>>
<1>1. index \in Nat /\ (pc = "replaying" => index > 0)
  BY DEF Shape, TypeOK
<1>2. ~ TakeSeed => UNCHANGED <<best, threshold, trees>>
  BY PlacingSteps
     DEF NextForest, SkipEdit, CutNode, CollapseNode, ApplyBlocked, ReplayedRule, UndoChange,
         DiscardRule, StartReplay, ReplayRule, EndReplay, SeedSearch, UnapplyReductions,
         UndoReductionChange, NextReduction, Sigterm, vars, search, ReturnToReplay
<1>3. CASE NextForest \/ SkipEdit \/ CutNode \/ CollapseNode \/ ApplyBlocked \/ ReplayedRule
  <2>1. pc = "applying" /\ Replaying
    BY <1>3 DEF Placing, NextForest, SkipEdit, CutNode, CollapseNode, ApplyBlocked, ReplayedRule,
         EditsLeft, InForestLoop, InApply, ApplyDone
  <2>2. CASE ApplyBlocked \/ ReplayedRule
    <3>1. pc' = "replaying"
      BY <2>1, <2>2 DEF ApplyBlocked, ReplayedRule, ReturnToReplay
    <3> QED
      BY <1>2, <2>1, <2>2, <3>1 DEF Placing
  <2>3. CASE NextForest \/ SkipEdit \/ CutNode \/ CollapseNode
    <3>1. UNCHANGED <<pc, index>>
      BY <2>3 DEF NextForest, SkipEdit, CutNode, CollapseNode
    <3>2. Placing' /\ Placing
      BY <2>1, <3>1 DEF Placing, Replaying
    <3> QED
      BY <1>2, <3>2
  <2> QED
    BY <1>3, <2>2, <2>3
<1>4. CASE UndoChange \/ DiscardRule \/ UndoReductionChange \/ Sigterm \/ UNCHANGED vars
  <2>1. UNCHANGED <<pc, index>>
    BY <1>4 DEF UndoChange, DiscardRule, UndoReductionChange, Sigterm, vars
  <2>2. Placing' <=> Placing
    BY <2>1 DEF Placing, Replaying
  <2> QED
    BY <1>2, <2>1, <2>2
<1>5. CASE StartReplay \/ ReplayRule \/ EndReplay \/ UnapplyReductions \/ NextReduction
  <2>1. Placing
    BY <1>5 DEF Placing, StartReplay, ReplayRule, EndReplay, UnapplyReductions, NextReduction
  <2>2. Placing'
    <3>1. CASE ReplayRule
      <4>1. pc' = "applying" /\ index' = index /\ index > 0
        BY <1>1, <3>1 DEF ReplayRule, EnterRule
      <4>2. Replaying'
        BY <4>1 DEF Replaying
      <4> QED
        BY <4>1, <4>2 DEF Placing
    <3>2. CASE ~ ReplayRule
      <4>1. pc' \in {"replaying", "finished", "restoring", "output"}
        BY <1>5, <3>2 DEF StartReplay, EndReplay, UnapplyReductions, NextReduction
      <4> QED
        BY <4>1 DEF Placing
    <3> QED
      BY <3>1, <3>2
  <2> QED
    BY <1>2, <2>1, <2>2
<1>6. CASE TakeSeed
  <2>1. pc = "finished" /\ pc' = "reseeding"
    BY <1>6 DEF TakeSeed
  <2> QED
    BY <1>6, <2>1 DEF Placing
<1>7. CASE SeedSearch
  <2>1. pc' = "idle"
    BY <1>7 DEF SeedSearch
  <2> QED
    BY <1>2, <1>7, <2>1 DEF Placing
<1> QED
  BY PlacingSteps, <1>3, <1>4, <1>5, <1>6, <1>7

\* Only the step that seeds it starts the search.
LEMMA SeekingStarts ==
    ASSUME Shape, Deepening, [Next]_vars, pc = "abandoning" => timeout, ~ Seeking, Seeking'
    PROVE  SeedSearch
<1>1. SUFFICES ASSUME ~ SeedSearch PROVE FALSE
  OBVIOUS
<1>2. Searching /\ (timeout => Bounded)
  BY <1>1, TimeoutStays, StageStays DEF Seeking, Searching
<1>3. pc \in PcValues /\ pc # "abandoning"
  BY <1>2 DEF Shape, TypeOK, Deepening
<1>4. Placing \/ pc = "reseeding"
  BY <1>2, <1>3 DEF Seeking, Placing, PcValues
<1>5. Placing' \/ pc' = "reseeding"
  BY <1>1, <1>4, PlacingGoesOn
<1> QED
  BY <1>5 DEF Seeking, Placing, Replaying

\* The search starts with nothing found and nothing promised.
LEMMA StartFinds ==
    ASSUME Shape, SeedSearch, NEW h
    PROVE  Found(h)'
<1>1. applied' = <<>> /\ current' = <<>> /\ pc' = "idle"
  BY DEF SeedSearch, Shape
<1>2. Len(Stack') = 0
  BY <1>1 DEF Stack
<1>3. Claims(h)'
  BY <1>2 DEF Claims
<1> QED
  BY <1>1, <1>3 DEF Found

-----------------------------------------------------------------------------
(* The invariant.                                                          *)

\* A size that an agreement forest of the input has.
Attains(n) == \E P : AgreesOn(trees, P) /\ Cardinality(P) = n

\* The incumbent is the size of an agreement forest of the input.
Attained == solution # <<>> /\ ~ Bounded => Attains(best)

\* What is being put in place.
Verdict ==
    /\ pc = "abandoning" => timeout
    /\ pc = "stopped" => result # "None"
    /\ Ending => Searching
    /\ Searching /\ ~ Bounded /\ ~ timeout =>
          /\ pc = "stopped" /\ result = "Solved" => best <= threshold
          /\ Placing => best <= threshold \/ best = Optimum(trees)

\* The inductive invariant.  No agreement forest is smaller than the depth
\* reached; a search that goes on has found out what its rules claim; and what
\* is put in place is certified or optimal.
Searched ==
    /\ Bounded => Hopeless(trees, maxSize)
    /\ Seeking => \E h : Track(h) /\ Found(h)
    /\ Attained
    /\ Verdict

\* The input is made of trees.
LEMMA InputIsTrees ==
    ASSUME Shape
    PROVE  DOMAIN trees = TreeIds /\ AreTrees(trees)
<1>1. trees \in Instances
  BY DEF Shape, TypeOK
<1>2. DOMAIN trees = TreeIds
  BY <1>1, InstancesAreForests
<1>3. AreTrees(trees)
  BY <1>1, InputIsAligned DEF AreTrees
<1> QED
  BY <1>2, <1>3

\* What is attained and cannot be beaten is the optimum.
LEMMA UnbeatenIsOptimal ==
    ASSUME Shape, NEW n \in Nat, Attains(n)
    PROVE  /\ Optimum(trees) \in Nat /\ Optimum(trees) <= n
           /\ Hopeless(trees, n) => n = Optimum(trees)
<1>1. PICK P : AgreesOn(trees, P) /\ Cardinality(P) = n
  BY DEF Attains
<1>2. /\ \E Q : AgreesOn(trees, Q) /\ Cardinality(Q) = Optimum(trees)
      /\ Optimum(trees) <= n /\ Optimum(trees) \in Nat
  BY <1>1, InputIsTrees, OptimumIsLeast
<1> QED
  BY <1>2 DEF Hopeless

\* An agreement forest has a component.
LEMMA OneIsHopeless ==
    ASSUME Shape, NEW fs
    PROVE  Hopeless(fs, 1)
<1> SUFFICES ASSUME NEW P, AgreesOn(fs, P)
             PROVE  1 <= Cardinality(P)
  BY DEF Hopeless
<1>1. IsFiniteSet(P) /\ Cardinality(P) \in Nat
  BY BlocksAreFinite DEF AgreesOn
<1>2. P # {}
  <2>1. UNION P = Labels
    BY DEF AgreesOn, IsPartition
  <2>2. Labels \in trees[1] /\ WellFormed(trees[1])
    BY FirstTree, InstancesAreTrees, InstancesAreForests DEF Shape, TypeOK
  <2> QED
    BY <2>1, <2>2 DEF WellFormed, NullNode
<1> QED
  BY <1>1, <1>2, FS_EmptySet

\* The forests of a solution are an agreement forest.
LEMMA EndAttains ==
    ASSUME Shape, NEW h, Track(h), Here(h), AtEnd(forests)
    PROVE  Attains(Weight)
BY EndIsAttained DEF Attains, Weight, NumComponents

\* What advanceSearch says when the search space is exhausted.
LEMMA ExhaustedMeansOptimal ==
    ASSUME Course, Searched
    PROVE  timeout \/ ExhaustedIsOptimal
<1> SUFFICES ASSUME ~ timeout, pc = "stopped", result = "Exhausted", Searching
             PROVE  best = Optimum(trees)
  BY DEF ExhaustedIsOptimal
<1>1. Shape /\ ~ Bounded /\ solution # <<>> /\ best \in Nat
  BY DEF Course, Deepening, Unsolved, Shape, TypeOK
<1>2. Hopeless(trees, best)
  BY <1>1 DEF Searched, Seeking, Found, Ended, Limit
<1>3. Attains(best)
  BY <1>1 DEF Searched, Attained
<1> QED
  BY <1>1, <1>2, <1>3, UnbeatenIsOptimal

\* The first solution a bounded-depth search stops with is optimal.
LEMMA BoundedMeansOptimal ==
    ASSUME Course, Searched
    PROVE  FirstBoundedSolutionIsOptimal
<1> SUFFICES ASSUME pc = "stopped", result = "Solved", Bounded
             PROVE  Weight = Optimum(trees)
  BY DEF FirstBoundedSolutionIsOptimal
<1>1. Shape /\ Seeking /\ AtEnd(forests) /\ maxSize \in Nat
  BY DEF Course, Deepening, Seeking, Shape, TypeOK
<1>2. PICK h : Track(h) /\ Found(h)
  BY <1>1 DEF Searched
<1>3. Here(h) /\ IsHistory(h)
  BY <1>2 DEF Track, Reached, Complete
<1>4. Attains(Weight)
  BY <1>1, <1>2, <1>3, EndAttains
<1>5. Weight <= maxSize /\ Hopeless(trees, maxSize)
  BY <1>2 DEF Found, Ended, Searched
<1>6. Weight \in Nat
  <2>1. 1 \in TreeIds
    BY FirstTree
  <2> QED
    BY <1>4, BlocksAreFinite DEF Attains, AgreesOn
<1>7. Hopeless(trees, Weight)
  BY <1>1, <1>5, <1>6, FewerIsFruitless
<1> QED
  BY <1>1, <1>4, <1>6, <1>7, UnbeatenIsOptimal

\* What is written is certified or optimal.
LEMMA EmittedMeansOptimal ==
    ASSUME Searched
    PROVE  EmittedIsCertifiedOrOptimal
BY DEF EmittedIsCertifiedOrOptimal, Searched, Verdict, Placing, Ending

\* The trees stay, and the size of the seed is that of the solution.
LEMMA AnswerIsKept ==
    ASSUME Course, [Next]_vars, ~ (ReturnSolutionCandidate /\ best > Weight)
    PROVE  UNCHANGED <<solution, trees, best>>
<1>1. CASE Ending
  BY <1>1 DEF Ending, Next, SolverStep, OtherStep, AdvanceSearch, Apply, RollBack, Finish,
              Terminated, CallAdvanceSearch, ReturnSolved, ReturnPaused, ApplyQueuedRule,
              ApplyActiveRule, SelectsRule, NextForest, SkipEdit, CutNode, CollapseNode,
              ApplyBlocked, InApply, EditsLeft, InForestLoop, ApplyDone,
              ReplayedRule, ReturnContinue, ReturnCutBranch, ReturnBoundedSolution, Returns,
              ReturnSolutionCandidate, Unapplying,
              UndoChange, DiscardRule, AbandonBranch,
              RollBackBranch, EnterNextBranch, NothingLeft, Finalize, StartReplay, ReplayRule,
              EndReplay, TakeSeed, SeedSearch, UnapplyReductions, UndoReductionChange,
              NextReduction, Sigterm, RaiseThreshold, vars, search
<1>2. CASE ~ Ending
  <2>1. PICK h, f, p : Track(h) /\ Replays(h, f, p)
    BY <1>2 DEF Course, Trail
  <2> QED
    BY <1>2, <2>1, SolutionIsKept DEF Course
<1> QED
  BY <1>1, <1>2

\* A candidate is attained.
LEMMA CandidateAttains ==
    ASSUME Course, ReturnSolutionCandidate
    PROVE  Attains(Weight)
<1>1. pc = "applying" /\ ApplyDone /\ Rule0.name = "CheckSingleVertexTrees"
  BY DEF ReturnSolutionCandidate, Returns, ApplyDone, InApply
<1>2. PICK h : Track(h)
  BY <1>1 DEF Course, Trail, Ending
<1>3. Here(h) /\ AtEnd(forests)
  BY <1>1, <1>2, DoneIsHere DEF Course
<1> QED
  BY <1>2, <1>3, EndAttains DEF Course

\* The incumbent stays the size of an agreement forest.
LEMMA NextKeepsAttained ==
    ASSUME Course, [Next]_vars, Attained
    PROVE  Attained'
<1>1. CASE ReturnSolutionCandidate /\ best > Weight
  <2>1. best' = Weight /\ trees' = trees
    BY <1>1 DEF ReturnSolutionCandidate
  <2>2. Attains(best')
    BY <1>1, <2>1, CandidateAttains
  <2>3. Attains(best)'
    BY <2>1, <2>2 DEF Attains
  <2> QED
    BY <2>3 DEF Attained
<1>2. CASE ~ (ReturnSolutionCandidate /\ best > Weight)
  <2>1. UNCHANGED <<solution, trees, best>>
    BY <1>2, AnswerIsKept
  <2> QED
    BY <2>1 DEF Attained, Attains
<1> QED
  BY <1>1, <1>2

\* The search deepens only when the depth is spent.
LEMMA DepthIsKept ==
    ASSUME Course, [Next]_vars
    PROVE  maxSize' = maxSize \/ (NothingLeft /\ Bounded /\ maxSize' = maxSize + 1)
<1>1. CASE ReturnCutBranch
  <2>1. pc = "applying" /\ ApplyDone
    BY <1>1 DEF ReturnCutBranch, Returns, ApplyDone, InApply
  <2>2. PICK h : Track(h)
    BY <2>1 DEF Course, Trail, Ending
  <2>3. Rule0.name # "DebugAssertFalse"
    BY <2>1, <2>2, DoneIsHere DEF Course
  <2> QED
    BY <1>1, <2>3 DEF ReturnCutBranch, Returns
<1>2. CASE NothingLeft
  BY <1>2 DEF NothingLeft, SearchSpaceDone
<1>3. CASE ~ ReturnCutBranch /\ ~ NothingLeft
  BY <1>3 DEF Next, SolverStep, OtherStep, AdvanceSearch, Apply, RollBack, Finish,
              Terminated, CallAdvanceSearch, ReturnSolved, ReturnPaused, ApplyQueuedRule,
              ApplyActiveRule, NextForest, SkipEdit, CutNode, CollapseNode, ApplyBlocked,
              ReplayedRule, ReturnContinue, ReturnBoundedSolution,
              ReturnSolutionCandidate, TakeSeed, ReturnToReplay, UndoChange, DiscardRule,
              AbandonBranch, RollBackBranch, EnterNextBranch, Finalize, StartReplay, ReplayRule,
              EndReplay, SeedSearch, UnapplyReductions, UndoReductionChange, NextReduction,
              Sigterm, RaiseThreshold, vars, search
<1> QED
  BY <1>1, <1>2, <1>3

\* The depth grows only past sizes no agreement forest has.
LEMMA NextKeepsDepth ==
    ASSUME Course, [Next]_vars, Searched, Bounded
    PROVE  Hopeless(trees, maxSize)'
<1>1. trees' = trees
  <2>1. CASE ReturnSolutionCandidate
    BY <2>1 DEF ReturnSolutionCandidate
  <2>2. CASE ~ ReturnSolutionCandidate
    BY <2>2, AnswerIsKept
  <2> QED
    BY <2>1, <2>2
<1>2. Hopeless(trees, maxSize)
  BY DEF Searched
<1>3. CASE maxSize' = maxSize
  BY <1>1, <1>2, <1>3 DEF Hopeless
<1>4. CASE NothingLeft /\ maxSize' = maxSize + 1
  <2>1. pc = "backtracking" /\ applied = <<>> /\ current = <<>> /\ Seeking
    BY <1>4 DEF NothingLeft, Course, Shape, Deepening, Seeking
  <2>2. Stack = <<>>
    BY <2>1 DEF Stack
  <2>3. Hopeless(trees, maxSize + 1)
    BY <2>1, <2>2 DEF Searched, Found, Spent, Limit
  <2> QED
    BY <1>1, <1>4, <2>3 DEF Hopeless
<1> QED
  BY <1>3, <1>4, DepthIsKept

\* The search goes on where it is.
LEMMA NextKeepsSeeking ==
    ASSUME NumTrees <= 2, Course, Course', [Next]_vars, Searched, Seeking'
    PROVE  \E h : (Track(h) /\ Found(h))'
<1>c. /\ Shape /\ Shape' /\ ShieldsAreOwned /\ ShieldsAreOwned' /\ Queue /\ Deepening
      /\ Trail
  BY DEF Course
<1>1. CASE Seeking
  <2>1. PICK h : Track(h) /\ Found(h)
    BY <1>1 DEF Searched
  <2>2. ~ Replaying \/ pc # "applying"
    BY <1>1 DEF Seeking, Ending
  <2>3. ~ (ApplyBlocked /\ Replaying) /\ ~ Ending /\ pc # "replaying"
    BY <1>1, <2>2 DEF Seeking, Ending, ApplyBlocked, EditsLeft, InForestLoop, InApply
  <2>4. pc = "top" /\ applyNext # <<>> => Fits(Head(applyNext), forests)
    BY <1>c DEF Queue
  <2>5. PICK g : Track(g)' /\ Resumes(g, h)
    BY <1>c, <2>1, <2>3, <2>4, TrackGoesOn
  <2>6. Found(g)'
    BY <1>1, <1>c, <2>1, <2>5, SeekingGoesOn
  <2> QED
    BY <2>5, <2>6
<1>2. CASE ~ Seeking
  <2>1. SeedSearch
    BY <1>2, <1>c, SeekingStarts DEF Searched, Verdict
  <2>2. pc = "reseeding" /\ ~ Ending
    BY <2>1 DEF SeedSearch, Ending
  <2>3. PICK h : Track(h)
    BY <1>c, <2>2 DEF Trail
  <2>4. ~ (ApplyBlocked /\ Replaying)
    BY <2>2 DEF ApplyBlocked, EditsLeft, InForestLoop, InApply
  <2>5. PICK g : Track(g)' /\ Resumes(g, h)
    BY <1>c, <2>2, <2>3, <2>4, TrackGoesOn
  <2>6. Found(g)'
    BY <1>c, <2>1, StartFinds
  <2> QED
    BY <2>5, <2>6
<1> QED
  BY <1>1, <1>2

\* Where the steps that end something come from.
LEMMA WhereItEnds ==
    ASSUME Shape, [Next]_vars
    PROVE  /\ pc' = "abandoning" => pc = "abandoning" \/ TimedOut
           /\ pc' = "stopped" => \/ pc = "stopped" /\ result' = result
                                 \/ result' # "None" /\ pc # "stopped"
           /\ Ending' => Ending \/ Searching
BY DEF Ending, Next, SolverStep, OtherStep, AdvanceSearch, Apply, RollBack, Finish,
              Terminated, CallAdvanceSearch, ReturnSolved, ReturnPaused, ApplyQueuedRule,
              ApplyActiveRule, SelectsRule, EnterRule, NextForest, SkipEdit, CutNode,
              CollapseNode, ApplyBlocked, InApply, EditsLeft, InForestLoop, ApplyDone,
              ReplayedRule, ReturnContinue, ReturnCutBranch, ReturnBoundedSolution, Returns,
              ReturnSolutionCandidate, ReturnToReplay, SearchSpaceDone, Unapplying,
              UndoChange, DiscardRule, AbandonBranch,
              RollBackBranch, EnterNextBranch, NothingLeft, Finalize, StartReplay, ReplayRule,
              EndReplay, TakeSeed, SeedSearch, UnapplyReductions, UndoReductionChange,
              NextReduction, Sigterm, RaiseThreshold, vars, search

\* The answer is decided where the search stops.
LEMMA SolvedIsCertified ==
    ASSUME Course, [Next]_vars, Verdict, Searching', ~ Bounded, ~ timeout',
           pc' = "stopped", result' = "Solved"
    PROVE  best' <= threshold'
<1>1. ~ timeout
  BY TimeoutStays
<1>2. CASE pc = "stopped"
  <2>1. UNCHANGED <<pc, result, stage, best>>
    BY <1>2 DEF Next, SolverStep, OtherStep, AdvanceSearch, Apply, RollBack, Finish,
              Terminated, CallAdvanceSearch, ReturnSolved, ReturnPaused, ApplyQueuedRule,
              ApplyActiveRule, SelectsRule, EnterRule, NextForest, SkipEdit, CutNode,
              CollapseNode, ApplyBlocked, InApply, EditsLeft, InForestLoop, ApplyDone,
              ReplayedRule, ReturnContinue, ReturnCutBranch, ReturnBoundedSolution, Returns,
              ReturnSolutionCandidate, Unapplying,
              UndoChange, DiscardRule, AbandonBranch,
              RollBackBranch, EnterNextBranch, NothingLeft, Finalize, StartReplay, ReplayRule,
              EndReplay, TakeSeed, SeedSearch, UnapplyReductions, UndoReductionChange,
              NextReduction, Sigterm, RaiseThreshold, vars, search
  <2>2. threshold' = threshold
    BY <1>2, <2>1 DEF Next, SolverStep, OtherStep, AdvanceSearch, Apply, RollBack, Finish,
              Terminated, CallAdvanceSearch, ReturnSolved, ReturnPaused, ApplyQueuedRule,
              ApplyActiveRule, SelectsRule, EnterRule, NextForest, SkipEdit, CutNode,
              CollapseNode, ApplyBlocked, InApply, EditsLeft, InForestLoop, ApplyDone,
              ReplayedRule, ReturnContinue, ReturnCutBranch, ReturnBoundedSolution, Returns,
              ReturnSolutionCandidate, Unapplying,
              UndoChange, DiscardRule, AbandonBranch,
              RollBackBranch, EnterNextBranch, NothingLeft, Finalize, StartReplay, ReplayRule,
              EndReplay, TakeSeed, SeedSearch, UnapplyReductions, UndoReductionChange,
              NextReduction, Sigterm, RaiseThreshold, vars, search
  <2> QED
    BY <1>1, <1>2, <2>1, <2>2 DEF Verdict, Searching
<1>3. CASE ReturnSolved
  BY <1>1, <1>3 DEF ReturnSolved, TimedOut, Certified, search
<1>4. pc = "stopped" \/ ReturnSolved
  BY DEF Next, SolverStep, OtherStep, AdvanceSearch, Apply, RollBack, Finish,
              Terminated, CallAdvanceSearch, ReturnPaused, ApplyQueuedRule,
              ApplyActiveRule, SelectsRule, EnterRule, NextForest, SkipEdit, CutNode,
              CollapseNode, ApplyBlocked, InApply, EditsLeft, InForestLoop, ApplyDone,
              ReplayedRule, ReturnContinue, ReturnCutBranch, ReturnBoundedSolution, Returns,
              ReturnSolutionCandidate, ReturnToReplay, SearchSpaceDone, Unapplying,
              UndoChange, DiscardRule, AbandonBranch,
              RollBackBranch, EnterNextBranch, NothingLeft, Finalize, StartReplay, ReplayRule,
              EndReplay, TakeSeed, SeedSearch, UnapplyReductions, UndoReductionChange,
              NextReduction, Sigterm, RaiseThreshold, vars, search
<1> QED
  BY <1>2, <1>3, <1>4

\* What is put in place is the answer.
LEMMA PlacingStarts ==
    ASSUME Course, [Next]_vars, ~ Placing, Placing'
    PROVE  Finalize /\ UNCHANGED <<stage, best, threshold, trees>>
<1>1. pc # "reseeding"
  <2> SUFFICES ASSUME pc = "reseeding" PROVE FALSE
    OBVIOUS
  <2> QED
    BY PlacingGoesOn DEF Course
<1>2. pc # "top" \/ ~ Replaying
  <2>1. CASE pc = "top"
    <3>1. PICK h, f, p : Replays(h, f, p)
      BY <2>1 DEF Course, Trail, Ending
    <3> QED
      BY <2>1, <3>1 DEF Replays, Replaying
  <2> QED
    BY <2>1
<1>3. CASE pc = "applying"
  <2>1. ~ Replaying
    BY <1>3 DEF Placing
  <2>2. \/ pc' = pc /\ index' = index
        \/ pc' \in {"endOfBranch", "top", "stopped"}
    BY <1>3, <2>1 DEF Next, SolverStep, OtherStep, AdvanceSearch, Apply, RollBack, Finish,
              Terminated, CallAdvanceSearch, ReturnSolved, ReturnPaused, ApplyQueuedRule,
              ApplyActiveRule, SelectsRule, EnterRule, NextForest, SkipEdit, CutNode,
              CollapseNode, ApplyBlocked,
              ReplayedRule, ReturnContinue, ReturnCutBranch, ReturnBoundedSolution, Returns,
              ReturnSolutionCandidate, SearchSpaceDone, Unapplying,
              UndoChange, DiscardRule, AbandonBranch,
              RollBackBranch, EnterNextBranch, NothingLeft, Finalize, StartReplay, ReplayRule,
              EndReplay, TakeSeed, SeedSearch, UnapplyReductions, UndoReductionChange,
              NextReduction, Sigterm, RaiseThreshold, vars, search
  <2> QED
    BY <1>3, <2>1, <2>2 DEF Placing, Replaying
<1>4. CASE pc # "applying"
  <2>1. Finalize \/ pc' \notin {"unwinding", "replaying", "finished", "restoring", "output"}
    BY <1>1, <1>4 DEF Placing, Next, SolverStep, OtherStep, AdvanceSearch, Apply, RollBack, Finish,
              Terminated, CallAdvanceSearch, ReturnSolved, ReturnPaused, ApplyQueuedRule,
              ApplyActiveRule, SelectsRule, EnterRule, NextForest, SkipEdit, CutNode,
              CollapseNode, ApplyBlocked, InApply, EditsLeft, InForestLoop, ApplyDone,
              ReplayedRule, ReturnContinue, ReturnCutBranch, ReturnBoundedSolution, Returns,
              ReturnSolutionCandidate, SearchSpaceDone, Unapplying,
              UndoChange, DiscardRule, AbandonBranch,
              RollBackBranch, EnterNextBranch, NothingLeft, StartReplay, ReplayRule,
              EndReplay, TakeSeed, SeedSearch, UnapplyReductions, UndoReductionChange,
              NextReduction, Sigterm, RaiseThreshold, vars, search
  <2>2. pc' = "applying" => index' = index /\ pc = "top"
    BY <1>1, <1>4 DEF Placing, Next, SolverStep, OtherStep, AdvanceSearch, Apply, RollBack, Finish,
              Terminated, CallAdvanceSearch, ReturnSolved, ReturnPaused, ApplyQueuedRule,
              ApplyActiveRule, SelectsRule, EnterRule, NextForest, SkipEdit, CutNode,
              CollapseNode, ApplyBlocked, InApply, EditsLeft, InForestLoop, ApplyDone,
              ReplayedRule, ReturnContinue, ReturnCutBranch, ReturnBoundedSolution, Returns,
              ReturnSolutionCandidate, SearchSpaceDone, Unapplying,
              UndoChange, DiscardRule, AbandonBranch, Finalize,
              RollBackBranch, EnterNextBranch, NothingLeft, StartReplay, ReplayRule,
              EndReplay, TakeSeed, SeedSearch, UnapplyReductions, UndoReductionChange,
              NextReduction, Sigterm, RaiseThreshold, vars, search
  <2>3. pc' # "applying" \/ ~ Replaying'
    BY <1>2, <2>2 DEF Replaying
  <2>4. Finalize
    BY <2>1, <2>3 DEF Placing
  <2> QED
    BY <2>4 DEF Finalize, search
<1> QED
  BY <1>3, <1>4

\* What is put in place was decided where the search stopped.
LEMMA NextKeepsVerdict ==
    ASSUME Course, [Next]_vars, Searched
    PROVE  Verdict'
<1>c. Shape /\ Verdict
  BY DEF Course, Searched
<1>1. pc' = "abandoning" => timeout'
  BY <1>c, WhereItEnds, TimeoutStays DEF Verdict, TimedOut
<1>2. pc' = "stopped" => result' # "None"
  BY <1>c, WhereItEnds DEF Verdict
<1>3. Ending' => Searching'
  <2>1. Searching => Searching'
    BY StageStays DEF Searching, SeedSearch
  <2> QED
    BY <1>c, <2>1, WhereItEnds DEF Verdict
<1>4. ASSUME Searching', ~ Bounded, ~ timeout'
      PROVE  /\ pc' = "stopped" /\ result' = "Solved" => best' <= threshold'
             /\ Placing' => best' <= threshold' \/ best' = Optimum(trees)'
  <2>1. ~ timeout
    BY <1>4, TimeoutStays
  <2>2. pc' = "stopped" /\ result' = "Solved" => best' <= threshold'
    BY <1>4, <1>c, SolvedIsCertified
  <2>3. ASSUME Placing' PROVE best' <= threshold' \/ best' = Optimum(trees)'
    <3>1. CASE Placing
      <4>1. Searching
        <5>1. ~ SeedSearch
          BY <3>1 DEF SeedSearch, Placing
        <5> QED
          BY <1>4, <5>1, StageStays DEF Searching
      <4>2. UNCHANGED <<best, threshold, trees>>
        BY <1>c, <3>1, <4>1, PlacingGoesOn DEF TakeSeed
      <4>3. best <= threshold \/ best = Optimum(trees)
        BY <1>4, <1>c, <2>1, <3>1, <4>1 DEF Verdict
      <4> QED
        BY <4>2, <4>3
    <3>2. CASE ~ Placing
      <4>1. Finalize /\ UNCHANGED <<stage, best, threshold, trees>>
        BY <2>3, <3>2, PlacingStarts
      <4>2. pc = "stopped" /\ Searching /\ (result = "Paused" => best <= threshold)
        BY <1>4, <4>1 DEF Finalize, IncumbentCertifies, Searching
      <4>3. result \in {"Solved", "Paused", "Exhausted"}
        BY <1>c, <4>2 DEF Verdict, Shape, TypeOK, RunResults
      <4>4. result = "Exhausted" => best = Optimum(trees)
        BY <2>1, <4>2, ExhaustedMeansOptimal DEF ExhaustedIsOptimal
      <4>5. best <= threshold \/ best = Optimum(trees)
        BY <1>4, <1>c, <2>1, <4>2, <4>3, <4>4 DEF Verdict
      <4> QED
        BY <4>1, <4>5
    <3> QED
      BY <3>1, <3>2
  <2> QED
    BY <2>2, <2>3
<1> QED
  BY <1>1, <1>2, <1>3, <1>4 DEF Verdict

-----------------------------------------------------------------------------
(* The theorems.                                                           *)

\* It starts with nothing found.
LEMMA InitHasSearched ==
    ASSUME Init PROVE Searched
<1>1. /\ Stack = <<>> /\ pc = "idle" /\ result = "None" /\ solution = <<>> /\ ~ timeout
      /\ maxSize = 1
  BY DEF Init, Stack
<1>2. Shape /\ Trail
  BY InitHasCourse DEF Course
<1>3. Hopeless(trees, maxSize)
  BY <1>1, <1>2, OneIsHopeless
<1>4. PICK h : Track(h)
  BY <1>1, <1>2 DEF Trail, Ending
<1>5. Len(Stack) = 0
  BY <1>1
<1>6. Found(h)
  BY <1>1, <1>5 DEF Found, Claims
<1>7. index = 0
  BY DEF Init
<1>8. Verdict
  BY <1>1, <1>7 DEF Verdict, Placing, Ending
<1>9. Attained
  BY <1>1 DEF Attained
<1> QED
  BY <1>3, <1>4, <1>6, <1>8, <1>9 DEF Searched

\* Every step keeps the invariant.
LEMMA NextKeepsSearched ==
    ASSUME NumTrees <= 2, Course, Course', [Next]_vars, Searched
    PROVE  Searched'
<1>1. Bounded => Hopeless(trees, maxSize)'
  BY NextKeepsDepth
<1>2. Seeking' => \E h : (Track(h) /\ Found(h))'
  BY NextKeepsSeeking
<1>3. Attained' /\ Verdict'
  BY NextKeepsAttained, NextKeepsVerdict DEF Searched
<1> QED
  BY <1>1, <1>2, <1>3 DEF Searched

\* It holds in every run.
LEMMA SpecKeepsSearched ==
    ASSUME NumTrees <= 2
    PROVE  Spec => [](Course /\ Searched)
<1>1. Init => Searched
  BY InitHasSearched
<1>2. Course /\ Course' /\ [Next]_vars /\ Searched => Searched'
  BY NextKeepsSearched
<1> QED
  BY <1>1, <1>2, SpecKeepsCourse, PTL DEF Spec

\* No signal is sent where none is armed.
LEMMA NoSignalNoTimeout ==
    ASSUME ~ SigtermArmed
    PROVE  Spec => [](~ timeout)
<1>1. Init => ~ timeout
  BY DEF Init
<1>2. ~ timeout /\ [Next]_vars => ~ timeout'
  BY DEF Next, SolverStep, OtherStep, AdvanceSearch, Apply, RollBack, Finish,
              Terminated, CallAdvanceSearch, ReturnSolved, ReturnPaused, ApplyQueuedRule,
              ApplyActiveRule, NextForest, SkipEdit, CutNode, CollapseNode, ApplyBlocked,
              ReplayedRule, ReturnContinue, ReturnCutBranch, ReturnBoundedSolution, Returns,
              ReturnSolutionCandidate, TakeSeed,
              ReturnToReplay, SearchSpaceDone, UndoChange, DiscardRule, AbandonBranch,
              RollBackBranch, EnterNextBranch, NothingLeft, Finalize, StartReplay, ReplayRule,
              EndReplay, SeedSearch, UnapplyReductions, UndoReductionChange, NextReduction,
              Sigterm, RaiseThreshold, vars, search
<1> QED
  BY <1>1, <1>2, PTL DEF Spec

\* What RunResult::Exhausted says is true on two trees, unless the search was
\* told to stop.
THEOREM ExhaustedUnlessToldToStop ==
    ASSUME NumTrees <= 2
    PROVE  Spec => [](timeout \/ ExhaustedIsOptimal)
<1>1. Course /\ Searched => timeout \/ ExhaustedIsOptimal
  BY ExhaustedMeansOptimal
<1> QED
  BY <1>1, SpecKeepsSearched, PTL

\* RunResult::Exhausted, "search tree fully explored; incumbent is the true
\* optimum", is true of two trees where no signal is armed.
THEOREM ExhaustedMeansExhausted ==
    ASSUME NumTrees <= 2, ~ SigtermArmed
    PROVE  Spec => []ExhaustedIsOptimal
BY ExhaustedUnlessToldToStop, NoSignalNoTimeout, PTL

\* A bounded-depth search of two trees stops with a maximum agreement forest,
\* whether or not SIGTERM arrives.
THEOREM DeepeningIsOptimal ==
    ASSUME NumTrees <= 2
    PROVE  Spec => []FirstBoundedSolutionIsOptimal
<1>1. Course /\ Searched => FirstBoundedSolutionIsOptimal
  BY BoundedMeansOptimal
<1> QED
  BY <1>1, SpecKeepsSearched, PTL

\* Through pauses, adopted bounds, the early exit and the replay in finalize:
\* what is written for two trees meets the threshold in force or is a maximum
\* agreement forest.
THEOREM EmittedIsWorthIt ==
    ASSUME NumTrees <= 2
    PROVE  Spec => []EmittedIsCertifiedOrOptimal
<1>1. Searched => EmittedIsCertifiedOrOptimal
  BY EmittedMeansOptimal
<1> QED
  BY <1>1, SpecKeepsSearched, PTL

-----------------------------------------------------------------------------
(* The contract the coordinator relies on.                                 *)

\* What advanceSearch returned is kept for the caller, and a call that is
\* running has returned nothing final.
AnswerFits ==
    /\ pc = "reseeding" => ~ Searching
    /\ Searching /\ Seeking /\ pc # "stopped" => result \in {"None", "Paused"}
    /\ threshold < Infinity

\* It holds at the start.
LEMMA InitFits ==
    ASSUME Init
    PROVE  AnswerFits
<1>1. threshold < Infinity
  BY InfinityIsBeyond DEF Init, NoThreshold
<1> QED
  BY <1>1 DEF Init, AnswerFits

\* Raising it is the only step that changes the threshold.
LEMMA ThresholdStays ==
    ASSUME [Next]_vars
    PROVE  RaiseThreshold \/ threshold' = threshold
BY DEF Next, SolverStep, OtherStep, AdvanceSearch, Apply, RollBack, Finish,
              Terminated, CallAdvanceSearch, ReturnSolved, ReturnPaused, ApplyQueuedRule,
              ApplyActiveRule, NextForest, SkipEdit, CutNode, CollapseNode, ApplyBlocked,
              ReplayedRule, ReturnContinue, ReturnCutBranch, ReturnBoundedSolution, Returns,
              ReturnSolutionCandidate, TakeSeed,
              ReturnToReplay, SearchSpaceDone, UndoChange, DiscardRule, AbandonBranch,
              RollBackBranch, EnterNextBranch, NothingLeft, Finalize, StartReplay, ReplayRule,
              EndReplay, SeedSearch, UnapplyReductions, UndoReductionChange, NextReduction,
              Sigterm, vars, search

\* While a call is running the result is kept.
LEMMA RunningKeepsResult ==
    ASSUME Course, [Next]_vars, Seeking, Seeking', pc' # "stopped"
    PROVE  \/ result' = result /\ pc # "stopped"
           \/ CallAdvanceSearch
<1>1. Shape
  BY DEF Course
<1> QED
  BY <1>1, SeekingSteps
     DEF CallAdvanceSearch, ReturnSolved, ReturnPaused, NextForest, SkipEdit, AbandonBranch,
         RollBackBranch, RaiseThreshold, Sigterm, vars, ApplyQueuedRule, ApplyActiveRule,
         SelectsRule, EnterRule, CutNode, CollapseNode, ApplyBlocked, ReturnContinue,
         ReturnCutBranch, Returns, ReturnBoundedSolution, ReturnSolutionCandidate, UndoChange,
         DiscardRule, EnterNextBranch, NothingLeft, SearchSpaceDone, EditsLeft, InForestLoop,
         InApply, ApplyDone, ReturnToReplay

\* It is kept by every step.
LEMMA NextKeepsFits ==
    ASSUME Course, [Next]_vars, Searched, AnswerFits, ~ timeout', ~ Bounded
    PROVE  AnswerFits'
<1>c. Shape /\ Deepening
  BY DEF Course
<1>1. threshold' < Infinity
  BY ThresholdStays, InfinityIsBeyond DEF AnswerFits, RaiseThreshold
<1>2. pc' = "reseeding" => ~ Searching'
  <2> SUFFICES ASSUME pc' = "reseeding" PROVE ~ Searching'
    OBVIOUS
  <2>1. TakeSeed \/ pc = "reseeding"
    BY DEF Next, SolverStep, OtherStep, AdvanceSearch, Apply, RollBack, Finish,
              Terminated, CallAdvanceSearch, ReturnSolved, ReturnPaused, ApplyQueuedRule,
              ApplyActiveRule, SelectsRule, EnterRule, NextForest, SkipEdit, CutNode,
              CollapseNode, ApplyBlocked, InApply, EditsLeft, InForestLoop, ApplyDone,
              ReplayedRule, ReturnContinue, ReturnCutBranch, ReturnBoundedSolution, Returns,
              ReturnSolutionCandidate, ReturnToReplay, SearchSpaceDone, Unapplying,
              UndoChange, DiscardRule, AbandonBranch,
              RollBackBranch, EnterNextBranch, NothingLeft, Finalize, StartReplay, ReplayRule,
              EndReplay, SeedSearch, UnapplyReductions, UndoReductionChange,
              NextReduction, Sigterm, RaiseThreshold, vars
  <2>2. ~ Searching
    BY <2>1 DEF TakeSeed, AnswerFits
  <2>3. ~ SeedSearch
    BY DEF SeedSearch
  <2> QED
    BY <2>2, <2>3, StageStays DEF Searching
<1>3. ASSUME Searching', Seeking', pc' # "stopped"
      PROVE  result' \in {"None", "Paused"}
  <2>1. CASE Seeking
    <3>1. CASE CallAdvanceSearch
      <4>1. CASE pc = "idle"
        BY <2>1, <3>1, <4>1 DEF AnswerFits, Seeking, CallAdvanceSearch
      <4>2. CASE pc # "idle"
        BY <3>1, <4>2 DEF CallAdvanceSearch
      <4> QED
        BY <4>1, <4>2
    <3>2. CASE ~ CallAdvanceSearch
      BY <1>3, <2>1, <3>2, RunningKeepsResult DEF AnswerFits, Seeking
    <3> QED
      BY <3>1, <3>2
  <2>2. CASE ~ Seeking
    <3>1. SeedSearch
      BY <1>3, <1>c, <2>2, SeekingStarts DEF Searched, Verdict
    <3> QED
      BY <3>1 DEF SeedSearch
  <2> QED
    BY <2>1, <2>2
<1> QED
  BY <1>1, <1>2, <1>3 DEF AnswerFits

\* How a step of the search looks to the caller.
LEMMA AnswersGoOn ==
    ASSUME Course, Course', [Next]_vars, Searched, AnswerFits, AnswerFits',
           ~ timeout, ~ timeout', ~ Bounded
    PROVE  \/ Answer' = Answer
           \/ /\ CallAdvanceSearch \/ Finalize
              /\ Answer \in {"Idle", "Paused"} /\ Answer' = "Running"
           \/ ReturnSolved /\ Searching /\ Answer = "Running" /\ Answer' = "Solved"
           \/ ReturnPaused /\ Searching /\ Answer = "Running" /\ Answer' = "Paused"
           \/ /\ pc' = "stopped" /\ result' = "Exhausted" /\ Searching'
              /\ Answer = "Running" /\ Answer' = "Exhausted"
<1>c. /\ Shape /\ Shape' /\ Deepening
      /\ stage \in {"approximation", "search"} /\ stage' \in {"approximation", "search"}
      /\ pc \in PcValues /\ pc' \in PcValues
  BY DEF Course, Shape, TypeOK
<1>1. CASE SeedSearch
  BY <1>1, <1>c DEF SeedSearch, AnswerFits, Answer, Searching
<1>2. CASE ~ SeedSearch /\ ~ Searching
  <2>1. stage = "approximation" /\ stage' = "approximation"
    BY <1>2, <1>c, StageStays DEF Searching
  <2> QED
    BY <2>1 DEF Answer
<1>3. CASE ~ SeedSearch /\ Searching
  <2>1. stage = "search" /\ stage' = "search" /\ Searching'
    BY <1>3, <1>c, StageStays DEF Searching
  <2>2. pc # "abandoning"
    BY DEF Searched, Verdict
  <2>3. pc # "reseeding"
    BY <1>3 DEF AnswerFits
  <2>4. CASE Placing
    <3>1. Placing'
      BY <1>3, <1>c, <2>1, <2>3, <2>4, PlacingGoesOn DEF TakeSeed, AnswerFits
    <3>2. result' = result
      BY <1>c, <2>4, PlacingSteps
         DEF NextForest, SkipEdit, CutNode, CollapseNode, ApplyBlocked, ReplayedRule,
             UndoChange, DiscardRule, StartReplay, ReplayRule, EndReplay, TakeSeed, SeedSearch,
             UnapplyReductions, UndoReductionChange, NextReduction, Sigterm, vars,
             ReturnToReplay, Placing, EditsLeft, InForestLoop, InApply, Replaying
    <3>3. pc \notin {"idle", "stopped"} /\ pc' \notin {"idle", "stopped"}
      BY <2>4, <3>1 DEF Placing
    <3> QED
      BY <2>1, <3>2, <3>3 DEF Answer
  <2>5. CASE ~ Placing
    <3>1. Seeking
      BY <1>3, <1>c, <2>2, <2>3, <2>5 DEF Placing, Seeking, PcValues
    <3>2. CASE Finalize
      <4>1. /\ pc = "stopped" /\ pc' = "unwinding" /\ result' = result
            /\ result \in {"Solved", "Paused", "Exhausted"}
        BY <1>c, <3>2 DEF Finalize, Searched, Verdict, Shape, TypeOK, RunResults
      <4> QED
        BY <2>1, <3>2, <4>1 DEF Answer
    <3>3. CASE CallAdvanceSearch
      <4>1. /\ pc \in {"idle", "stopped"} /\ pc' = "top" /\ result' = result
            /\ result \in {"None", "Paused"} /\ (pc = "stopped" => result = "Paused")
        BY <1>3, <3>1, <3>3 DEF CallAdvanceSearch, AnswerFits
      <4> QED
        BY <2>1, <3>3, <4>1 DEF Answer
    <3>4. CASE ReturnSolved \/ ReturnPaused
      <4>1. pc = "top" /\ pc' = "stopped" /\ result \in {"None", "Paused"}
        BY <1>3, <3>1, <3>4 DEF ReturnSolved, ReturnPaused, AnswerFits
      <4> QED
        BY <1>3, <2>1, <3>4, <4>1 DEF Answer, ReturnSolved, ReturnPaused
    <3>5. CASE NothingLeft
      <4>1. /\ pc = "backtracking" /\ pc' = "stopped" /\ result \in {"None", "Paused"}
            /\ result' = "Exhausted"
        BY <1>3, <2>2, <3>1, <3>5 DEF NothingLeft, SearchSpaceDone, AnswerFits
      <4> QED
        BY <2>1, <4>1 DEF Answer
    <3>6. CASE /\ ~ Finalize /\ ~ CallAdvanceSearch /\ ~ ReturnSolved /\ ~ ReturnPaused
               /\ ~ NothingLeft
      <4>1. pc = "applying" /\ ApplyDone => Rule0.name # "DebugAssertFalse"
        <5> SUFFICES ASSUME pc = "applying", ApplyDone PROVE Rule0.name # "DebugAssertFalse"
          OBVIOUS
        <5>1. PICK h : Track(h)
          BY DEF Course, Trail, Ending
        <5> QED
          BY <1>c, <5>1, DoneIsHere
      <4>2. /\ result' = result
            /\ \/ pc' = pc
               \/ pc \notin {"idle", "stopped"} /\ pc' \notin {"idle", "stopped"}
        BY <1>3, <2>5, <3>1, <3>6, <4>1
           DEF Seeking, Next, SolverStep, OtherStep, AdvanceSearch, Apply, RollBack, Finish,
              Terminated, ApplyQueuedRule,
              ApplyActiveRule, SelectsRule, EnterRule, NextForest, SkipEdit, CutNode,
              CollapseNode, ApplyBlocked, InApply, EditsLeft, InForestLoop, ApplyDone,
              ReplayedRule, ReturnContinue, ReturnCutBranch, ReturnBoundedSolution, Returns,
              ReturnSolutionCandidate, Unapplying,
              UndoChange, DiscardRule, AbandonBranch,
              RollBackBranch, EnterNextBranch, StartReplay, ReplayRule,
              EndReplay, TakeSeed, UnapplyReductions, UndoReductionChange,
              NextReduction, Sigterm, RaiseThreshold, vars
      <4> QED
        BY <2>1, <4>2 DEF Answer
    <3> QED
      BY <3>2, <3>3, <3>4, <3>5, <3>6
  <2> QED
    BY <2>4, <2>5
<1> QED
  BY <1>1, <1>2, <1>3

\* A seed or a candidate is no smaller than the optimum.
LEMMA AnswerIsAttained ==
    ASSUME Course, Searched, ~ Bounded
    PROVE  best \in Nat /\ Optimum(trees) <= best /\ Optimum(trees) \in Nat
<1>1. Shape /\ best \in Nat
  BY DEF Course, Shape, TypeOK
<1>2. CASE solution # <<>>
  <2>1. Attains(best)
    BY <1>2 DEF Searched, Attained
  <2> QED
    BY <1>1, <2>1, UnbeatenIsOptimal
<1>3. CASE solution = <<>>
  <2>1. best = Infinity
    BY <1>3 DEF Course, Unsolved
  <2>2. PICK P : AgreesOn(trees, P) /\ Cardinality(P) <= Cardinality(Labels)
    BY <1>1, InputIsTrees, SingletonsAgree
  <2>3. Optimum(trees) \in Nat /\ Optimum(trees) <= Cardinality(P) /\ Cardinality(P) \in Nat
    BY <1>1, <2>2, InputIsTrees, OptimumIsLeast, BlocksAreFinite DEF AgreesOn
  <2>4. Cardinality(Labels) \in Nat
    BY LabelsAreTaxa, FS_CardinalityType
  <2> QED
    BY <2>1, <2>2, <2>3, <2>4, InfinityIsBeyond
<1> QED
  BY <1>2, <1>3

\* The start is a start of the contract.
LEMMA InitKeepsContract ==
    ASSUME Init, ~ Bounded
    PROVE  Contract!SearchInit
<1>1. Course /\ Searched
  BY InitHasCourse, InitHasSearched
<1>2. best \in Nat /\ Optimum(trees) <= best /\ Optimum(trees) \in Nat
  BY <1>1, AnswerIsAttained
<1>3. Answer = "Idle"
  BY DEF Init, Answer
<1>4. threshold \in Int
  BY <1>1 DEF Course, Shape, TypeOK
<1> QED
  BY <1>2, <1>3, <1>4 DEF Contract!SearchInit

\* A better candidate is a seed to the caller who has not called yet, and an
\* improvement to the one who has.
LEMMA CandidateKeepsContract ==
    ASSUME Course, Course', [Next]_vars, Searched, AnswerFits, ~ timeout, ~ Bounded,
           ReturnSolutionCandidate, best > Weight
    PROVE  Contract!Seed \/ Contract!Improve
<1>1. /\ best' = Weight /\ UNCHANGED <<trees, threshold, stage, result>> /\ pc' = "endOfBranch"
      /\ pc = "applying" /\ ~ Replaying
  BY DEF ReturnSolutionCandidate, Returns, ApplyDone, InApply
<1>2. stage \in {"approximation", "search"} /\ best \in Nat /\ Shape
  BY DEF Course, Shape, TypeOK
<1>3. Attains(Weight)
  BY CandidateAttains
<1>4. Weight \in Nat
  BY <1>3, BlocksAreFinite DEF Attains, AgreesOn
<1>5. Optimum(trees) \in Nat /\ Optimum(trees) <= best'
  BY <1>1, <1>2, <1>3, <1>4, UnbeatenIsOptimal
<1>6. Optimum(trees)' = Optimum(trees)
  BY <1>1
<1>7. CASE stage = "approximation"
  <2>1. Answer = "Idle" /\ Answer' = "Idle"
    BY <1>1, <1>7 DEF Answer
  <2>2. Contract!Seed
    BY <1>1, <1>2, <1>4, <1>5, <2>1 DEF Contract!Seed
  <2> QED
    BY <2>2
<1>8. CASE stage = "search"
  <2>1. result \in {"None", "Paused"}
    BY <1>1, <1>8 DEF AnswerFits, Searching, Seeking
  <2>2. Answer = "Running" /\ Answer' = "Running"
    BY <1>1, <1>8, <2>1 DEF Answer
  <2>3. Contract!Improve
    BY <1>1, <1>2, <1>4, <1>5, <2>2 DEF Contract!Improve
  <2> QED
    BY <2>3
<1> QED
  BY <1>2, <1>7, <1>8

\* A step of the search is a step of the contract or none.
LEMMA NextKeepsContract ==
    ASSUME Course, Course', [Next]_vars, Searched, AnswerFits, AnswerFits',
           ~ timeout, ~ timeout', ExhaustedIsOptimal', ~ Bounded, CertifiedEarlyExit
    PROVE  [Contract!SearchNext]_(Contract!contractVars)
<1>1. /\ best \in Nat /\ Optimum(trees) <= best /\ Optimum(trees) \in Nat
      /\ threshold \in Int
  BY AnswerIsAttained DEF Course, Shape, TypeOK
<1>2. CASE ReturnSolutionCandidate /\ best > Weight
  BY <1>2, CandidateKeepsContract DEF Contract!SearchNext
<1>3. CASE RaiseThreshold
  <2>1. /\ UNCHANGED <<trees, best, stage, result, pc>> /\ threshold' > threshold
        /\ pc = "stopped" /\ result = "Paused"
    BY <1>3 DEF RaiseThreshold
  <2>2. Answer' = Answer /\ Answer \in {"Idle", "Paused"}
    BY <2>1 DEF Answer
  <2>3. Contract!Raise
    BY <2>1, <2>2 DEF Contract!Raise
  <2> QED
    BY <2>3 DEF Contract!SearchNext
<1>4. CASE ~ (ReturnSolutionCandidate /\ best > Weight) /\ ~ RaiseThreshold
  <2>1. UNCHANGED <<trees, best, threshold>>
    BY <1>4, AnswerIsKept, ThresholdStays
  <2>2. CASE Answer' = Answer
    BY <2>1, <2>2 DEF Contract!contractVars
  <2>3. CASE Answer \in {"Idle", "Paused"} /\ Answer' = "Running"
    BY <2>1, <2>3 DEF Contract!Call, Contract!SearchNext
  <2>4. CASE ReturnSolved /\ Searching /\ Answer = "Running" /\ Answer' = "Solved"
    <3>1. best <= threshold
      BY <2>4 DEF ReturnSolved, Certified, TimedOut
    <3> QED
      BY <2>1, <2>4, <3>1 DEF Contract!ReturnSolved, Contract!Certifies, Contract!SearchNext
  <2>5. CASE ReturnPaused /\ Searching /\ Answer = "Running" /\ Answer' = "Paused"
    <3>1. solution = <<>> \/ ~ best <= threshold
      BY <2>5 DEF ReturnPaused, Certified
    <3>2. solution = <<>> => best = Infinity
      BY DEF Course, Unsolved
    <3>3. threshold < Infinity
      BY DEF AnswerFits
    <3>4. ~ best <= threshold
      BY <1>1, <3>1, <3>2, <3>3, InfinityIsBeyond
    <3> QED
      BY <2>1, <2>5, <3>4 DEF Contract!ReturnPaused, Contract!Certifies, Contract!SearchNext
  <2>6. CASE /\ pc' = "stopped" /\ result' = "Exhausted" /\ Searching'
             /\ Answer = "Running" /\ Answer' = "Exhausted"
    <3>1. best' = Optimum(trees)'
      BY <2>6 DEF ExhaustedIsOptimal
    <3>2. best = Optimum(trees)
      BY <2>1, <3>1
    <3> QED
      BY <2>1, <2>6, <3>2 DEF Contract!ReturnExhausted, Contract!SearchNext
  <2> QED
    BY <2>2, <2>3, <2>4, <2>5, <2>6, AnswersGoOn
<1> QED
  BY <1>2, <1>3, <1>4

\* What LowerBoundSolver relies on is what BranchingSolver does, on two trees,
\* without a bound on the depth and a signal to stop, where the early exit is
\* on.
THEOREM SearchKeepsContract ==
    ASSUME NumTrees <= 2, ~ Bounded, ~ SigtermArmed, CertifiedEarlyExit
    PROVE  Spec => KeepsSearchContract
<1> DEFINE Inv == /\ Course /\ Searched /\ ~ timeout /\ ExhaustedIsOptimal
<1>1. Spec => []Inv
  BY SpecKeepsSearched, ExhaustedMeansExhausted, NoSignalNoTimeout, PTL
<1>2. Init => AnswerFits
  BY InitFits
<1>3. Inv /\ Inv' /\ AnswerFits /\ [Next]_vars => AnswerFits'
  BY NextKeepsFits
<1>4. Inv /\ Inv' /\ AnswerFits /\ AnswerFits' /\ [Next]_vars
          => [Contract!SearchNext]_(Contract!contractVars)
  BY NextKeepsContract
<1>5. Init => Contract!SearchInit
  BY InitKeepsContract
<1>6. Spec => Contract!Spec
  <2> HIDE DEF Inv
  <2> QED
    BY <1>1, <1>2, <1>3, <1>4, <1>5, PTL DEF Spec, Contract!Spec
<1> QED
  BY <1>6 DEF KeepsSearchContract
=============================================================================
