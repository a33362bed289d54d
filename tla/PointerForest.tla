----------------------------- MODULE PointerForest -----------------------------
(***************************************************************************)
(* One graph::Forest with its pointers, under DeleteEdgeAction and         *)
(* CollapseSubtreeAction and the undo of both.                             *)
(*                                                                         *)
(* A node is named by the label set it had in the tree that was read; its  *)
(* subtreeTerminals change, its name does not.  The null pointer is        *)
(* NullNode.  Each element of actions is one action object with the        *)
(* members its doAction filled in, and two members for the properties      *)
(* only: the edit as ForestEdits describes it and all pointers as they     *)
(* were before.                                                            *)
(***************************************************************************)
EXTENDS LaminarForest, SequencesExt

CONSTANTS
    FirstForests,   \* the trees that were read
    WordSize,       \* bits in a word of subtreeTerminals, 64 in the code
    CtzOfZero       \* what the build's __builtin_ctzll gives for a zero word,
                    \* which the language leaves undefined

ASSUME WordsHaveBits == WordSize \in Nat \ {0} /\ CtzOfZero \in Nat

\* A line of the instance is one tree, and each label is one of its leaves.
ASSUME FirstForestsAreTrees ==
    \A T \in FirstForests :
        /\ T \in Forest /\ WellFormed(T)
        /\ Roots(T) = {Labels}
        /\ \A l \in Labels : {l} \in T

VARIABLES
    parent, sibling, leftChild, rightChild,
    subtreeTerminals,
    roots,              \* Forest::roots, a vector ordered by smallest label
    labelToTerminal, terminalToLabel,
    actions,            \* the actions applied, oldest first
    restoring           \* unapplyReductions has begun

links == <<parent, sibling, leftChild, rightChild>>
labelling == <<labelToTerminal, terminalToLabel>>
pointers == <<links, subtreeTerminals, roots, labelling>>
vars == <<pointers, actions, restoring>>

Nodes == DOMAIN parent

-----------------------------------------------------------------------------
(* Node and Forest.                                                        *)

Smallest(s) == CHOOSE l \in s : \A k \in s : l <= k

Word(s, i) == {l \in s : (l - 1) \div WordSize = i}

CountTrailingZeros(w) ==
    IF w = {} THEN CtzOfZero ELSE (Smallest(w) - 1) % WordSize

\* Mutant: the bit positions of the first words alone are compared.
HasSmallestTerminalInWord(s, r) ==
    CountTrailingZeros(Word(s, 0)) < CountTrailingZeros(Word(r, 0))

\* hasSmallestTerminal, on the two bit masks: the first words that differ.
HasSmallestTerminal(s, r) ==
    LET differing == {i \in {(l - 1) \div WordSize : l \in s \cup r} :
                         Word(s, i) # Word(r, i)}
    IN  /\ differing # {}
        /\ CountTrailingZeros(Word(s, Smallest(differing)))
               < CountTrailingZeros(Word(r, Smallest(differing)))

\* std::lower_bound in the ordered roots, from the i-th on.
LowerBound(rs, i, x, terminals) ==
    Smallest({k \in i..(Len(rs) + 1) :
                 k = Len(rs) + 1
                     \/ ~ HasSmallestTerminal(terminals[rs[k]], terminals[x])})

\* What is reached from x, next giving the nodes one step on.
Reached(x, next) ==
    LET from[k \in 0..Cardinality(DOMAIN next)] ==
            [n \in DOMAIN next |->
                {n} \cup (IF k = 0 THEN {}
                          ELSE UNION {from[k - 1][m] : m \in next[n]})]
    IN  from[Cardinality(DOMAIN next)][x]

\* The node and everything above it, through the parent pointers.
Upwards(x) == Reached(x, [n \in Nodes |-> {parent[n]} \ {NullNode}])

\* What is reached from the roots, through the child pointers.
Reachable ==
    UNION {Reached(r, [n \in Nodes |-> {leftChild[n], rightChild[n]} \ {NullNode}]) :
               r \in Range(roots)}

\* The children of the nodes in S, in the order the terminals ask for.
SwappedIn(S, lefts, rights, terminals) ==
    {n \in S : HasSmallestTerminal(terminals[rights[n]], terminals[lefts[n]])}

-----------------------------------------------------------------------------
(* sortChildrenAndCollectTerminals on the tree that was read.              *)

InitialChildren(T, n) == {m \in T : m # n /\ Parent(T, m) = n}

InitialLeft(T, n) ==
    UNION {m \in InitialChildren(T, n) : Smallest(m) = Smallest(n)}

Init ==
    \E T \in FirstForests :
        /\ parent = [n \in T |-> Parent(T, n)]
        /\ sibling = [n \in T |-> Sibling(T, n)]
        /\ leftChild = [n \in T |-> InitialLeft(T, n)]
        /\ rightChild = [n \in T |->
                            IF IsTerminal(T, n) THEN NullNode
                            ELSE n \ InitialLeft(T, n)]
        /\ subtreeTerminals = [n \in T |-> n]
        /\ roots = <<Labels>>
        /\ labelToTerminal = [l \in Labels |-> {l}]
        /\ terminalToLabel = [n \in Terminals(T) |-> Smallest(n)]
        /\ actions = <<>>
        /\ restoring = FALSE

-----------------------------------------------------------------------------
(* DeleteEdgeAction::doAction                                              *)

\* The action object; the root positions are 0 until they are found.
NewCut(child) ==
    [kind |-> "cut", child |-> child, sibling |-> sibling[child],
     parent |-> parent[child], left |-> leftChild[parent[child]],
     right |-> rightChild[parent[child]],
     parentIsRoot |-> parent[child] \in Range(roots),
     leftRoot |-> 0, rightRoot |-> 0,
     edit |-> [kind |-> "cut", node |-> subtreeTerminals[child],
               others |-> {subtreeTerminals[sibling[child]]}],
     before |-> pointers]

Recorded(a, leftRoot, rightRoot) ==
    Append(actions, [a EXCEPT !.leftRoot = leftRoot, !.rightRoot = rightRoot])

DoParentIsRoot(a) ==
    LET i == Smallest({k \in DOMAIN roots : roots[k] = a.parent})
        replaced == [roots EXCEPT ![i] = a.left]
        j == LowerBound(replaced, i, a.right, subtreeTerminals)
    IN  /\ roots' = InsertAt(replaced, j, a.right)
        /\ sibling' = [sibling EXCEPT ![a.sibling] = NullNode,
                                      ![a.child] = NullNode]
        /\ parent' = [parent EXCEPT ![a.sibling] = NullNode,
                                    ![a.child] = NullNode]
        /\ actions' = Recorded(a, i, j)
        /\ UNCHANGED <<leftChild, rightChild, subtreeTerminals>>

\* The parent leaves the tree and keeps its own pointers.  Every node above
\* loses the labels of the child, by XOR, and has its children sorted again.
DoParentIsInner(a) ==
    LET grandParent == parent[a.parent]
        above == Upwards(a.parent)
        terminals == [n \in Nodes |->
                         IF n \in above
                         THEN SymDiff(subtreeTerminals[n], subtreeTerminals[a.child])
                         ELSE subtreeTerminals[n]]
        lefts == [leftChild EXCEPT
                     ![grandParent] = IF @ = a.parent THEN a.sibling ELSE @]
        rights == [rightChild EXCEPT
                     ![grandParent] = IF leftChild[grandParent] = a.parent
                                      THEN @ ELSE a.sibling]
        swapped == SwappedIn(above, lefts, rights, terminals)
        root == CHOOSE n \in above : parent[n] = NullNode
        i == Smallest({k \in DOMAIN roots : roots[k] = root})
        rootFirst == HasSmallestTerminal(terminals[root], terminals[a.child])
        kept == IF rootFirst THEN roots ELSE [roots EXCEPT ![i] = a.child]
        added == IF rootFirst THEN a.child ELSE root
        j == LowerBound(kept, i, added, terminals)
    IN  /\ leftChild' = [n \in Nodes |-> IF n \in swapped THEN rights[n] ELSE lefts[n]]
        /\ rightChild' = [n \in Nodes |-> IF n \in swapped THEN lefts[n] ELSE rights[n]]
        /\ parent' = [parent EXCEPT ![a.sibling] = grandParent,
                                    ![a.child] = NullNode]
        /\ sibling' = [sibling EXCEPT ![a.sibling] = sibling[a.parent],
                                      ![sibling[a.parent]] = a.sibling,
                                      ![a.child] = NullNode]
        /\ subtreeTerminals' = terminals
        /\ roots' = InsertAt(kept, j, added)
        /\ actions' = Recorded(a, i, j)

DeleteEdge(child) ==
    /\ ~ restoring
    /\ parent[child] # NullNode
    /\ IF NewCut(child).parentIsRoot
       THEN DoParentIsRoot(NewCut(child))
       ELSE DoParentIsInner(NewCut(child))
    /\ UNCHANGED <<labelling, restoring>>

-----------------------------------------------------------------------------
(* DeleteEdgeAction::undoAction                                            *)

\* Mutant: the root in front of the added one is erased.
UndoParentIsRootShifted(a) ==
    /\ sibling' = [sibling EXCEPT ![a.sibling] = a.child, ![a.child] = a.sibling]
    /\ parent' = [parent EXCEPT ![a.sibling] = a.parent, ![a.child] = a.parent]
    /\ roots' = RemoveAt([roots EXCEPT ![a.leftRoot] = a.parent],
                         a.leftRoot + 1)
    /\ UNCHANGED <<leftChild, rightChild, subtreeTerminals>>

UndoParentIsRoot(a) ==
    /\ sibling' = [sibling EXCEPT ![a.sibling] = a.child, ![a.child] = a.sibling]
    /\ parent' = [parent EXCEPT ![a.sibling] = a.parent, ![a.child] = a.parent]
    /\ roots' = RemoveAt([roots EXCEPT ![a.leftRoot] = a.parent], a.rightRoot)
    /\ UNCHANGED <<leftChild, rightChild, subtreeTerminals>>

UndoParentIsInner(a) ==
    LET grandParent == parent[a.parent]
        above == Upwards(a.parent)
        terminals == [n \in Nodes |->
                         IF n \in above
                         THEN subtreeTerminals[n] \cup subtreeTerminals[a.child]
                         ELSE subtreeTerminals[n]]
        lefts == [leftChild EXCEPT
                     ![grandParent] = IF @ = a.sibling THEN a.parent ELSE @]
        rights == [rightChild EXCEPT
                     ![grandParent] = IF leftChild[grandParent] = a.sibling
                                      THEN @ ELSE a.parent]
        swapped == SwappedIn(above, lefts, rights, terminals)
        root == CHOOSE n \in above : parent[n] = NullNode
    IN  /\ leftChild' = [n \in Nodes |-> IF n \in swapped THEN rights[n] ELSE lefts[n]]
        /\ rightChild' = [n \in Nodes |-> IF n \in swapped THEN lefts[n] ELSE rights[n]]
        /\ parent' = [parent EXCEPT ![a.sibling] = a.parent,
                                    ![a.child] = a.parent]
        /\ sibling' = [sibling EXCEPT ![a.sibling] = a.child,
                                      ![a.child] = a.sibling,
                                      ![sibling[a.parent]] = a.parent]
        /\ subtreeTerminals' = terminals
        /\ roots' = RemoveAt([roots EXCEPT ![a.leftRoot] = root], a.rightRoot)

UndoDeleteEdge(a) ==
    /\ IF a.parentIsRoot THEN UndoParentIsRoot(a) ELSE UndoParentIsInner(a)
    /\ UNCHANGED labelling

-----------------------------------------------------------------------------
(* CollapseSubtreeAction                                                   *)

\* A label's old terminal is kept only if it stands under that label, and
\* only the first time it is met.
CollapsedTerminals(node) ==
    LET below == subtreeTerminals[node]
        firstLabel(n) == Smallest({l \in below : labelToTerminal[l] = n})
    IN  {n \in {labelToTerminal[l] : l \in below} :
            n \in DOMAIN terminalToLabel /\ terminalToLabel[n] = firstLabel(n)}

CollapseSubtree(node) ==
    LET below == subtreeTerminals[node]
        old == {labelToTerminal[l] : l \in below}
        label == Smallest(below)
    IN  /\ ~ restoring
        /\ leftChild[node] # NullNode
        /\ leftChild' = [leftChild EXCEPT ![node] = NullNode]
        /\ rightChild' = [rightChild EXCEPT ![node] = NullNode]
        /\ labelToTerminal' = [l \in Labels |->
               IF l \in below THEN node ELSE labelToTerminal[l]]
        /\ terminalToLabel' =
               [n \in ((DOMAIN terminalToLabel) \ old) \cup {node} |->
                   IF n = node THEN label ELSE terminalToLabel[n]]
        /\ actions' = Append(actions,
               [kind |-> "collapse", node |-> node, left |-> leftChild[node],
                right |-> rightChild[node], collapsedLabel |-> label,
                collapsedLabelToTerminals |-> [l \in below |-> labelToTerminal[l]],
                collapsedTerminals |->
                    [n \in CollapsedTerminals(node) |-> terminalToLabel[n]],
                edit |-> [kind |-> "collapse", node |-> below,
                          others |-> {subtreeTerminals[n] :
                              n \in {m \in Reachable \ {node} :
                                        subtreeTerminals[m] \subseteq below}}],
                before |-> pointers])
        /\ UNCHANGED <<parent, sibling, subtreeTerminals, roots, restoring>>

\* The node is looked up again under its label.
UndoCollapseSubtree(a) ==
    LET node == labelToTerminal[a.collapsedLabel]
        oldLabels == a.collapsedLabelToTerminals
        oldNodes == a.collapsedTerminals
    IN  /\ leftChild' = [leftChild EXCEPT ![node] = a.left]
        /\ rightChild' = [rightChild EXCEPT ![node] = a.right]
        /\ parent' = [parent EXCEPT ![a.left] = node, ![a.right] = node]
        /\ labelToTerminal' = [l \in Labels |->
               IF l \in DOMAIN oldLabels THEN oldLabels[l] ELSE labelToTerminal[l]]
        /\ terminalToLabel' =
               [n \in (DOMAIN oldNodes \cup DOMAIN terminalToLabel) \ {node} |->
                   IF n \in DOMAIN oldNodes THEN oldNodes[n] ELSE terminalToLabel[n]]
        /\ UNCHANGED <<sibling, subtreeTerminals, roots>>

-----------------------------------------------------------------------------
(* How the solvers use them.                                               *)

Undo(a) ==
    IF a.kind = "cut" THEN UndoDeleteEdge(a) ELSE UndoCollapseSubtree(a)

\* The unapply of a rule, and unwinding a branch.
UndoLast ==
    /\ ~ restoring
    /\ actions # <<>>
    /\ Undo(Last(actions))
    /\ actions' = Front(actions)
    /\ UNCHANGED restoring

Collapses == {k \in DOMAIN actions : actions[k].kind = "collapse"}

\* Mutant: the oldest collapse is undone first.
UndoFirstCollapse ==
    \E k \in Collapses :
        /\ \A j \in Collapses : k <= j
        /\ Undo(actions[k])
        /\ actions' = RemoveAt(actions, k)
        /\ restoring' = TRUE

\* unapplyReductions: the collapses newest first, with the cuts left.
UndoLastCollapse ==
    \E k \in Collapses :
        /\ \A j \in Collapses : j <= k
        /\ Undo(actions[k])
        /\ actions' = RemoveAt(actions, k)
        /\ restoring' = TRUE

\* All reductions are undone: the forest is written out.
Rest == restoring /\ Collapses = {} /\ UNCHANGED vars

Next ==
    \/ \E n \in Reachable : DeleteEdge(n) \/ CollapseSubtree(n)
    \/ UndoLast
    \/ UndoLastCollapse
    \/ Rest

Spec == Init /\ [][Next]_vars

-----------------------------------------------------------------------------
(* Properties.                                                             *)

ProperLeaf(n) ==
    /\ rightChild[n] = NullNode
    /\ n \in DOMAIN terminalToLabel
    /\ terminalToLabel[n] = Smallest(subtreeTerminals[n])
    /\ subtreeTerminals[n] = {l \in Labels : labelToTerminal[l] = n}

ProperInner(n) ==
    LET l == leftChild[n]
        r == rightChild[n]
    IN  /\ r # NullNode /\ l # r
        /\ parent[l] = n /\ parent[r] = n
        /\ sibling[l] = r /\ sibling[r] = l
        /\ subtreeTerminals[l] \cap subtreeTerminals[r] = {}
        /\ subtreeTerminals[n] = subtreeTerminals[l] \cup subtreeTerminals[r]
        /\ Smallest(subtreeTerminals[l]) < Smallest(subtreeTerminals[r])

\* What Forest::isValid checks, after any edits and undone edits, the undo
\* of reductions under cuts included: the pointers agree in both directions,
\* bit masks and label maps fit the leaves, children and roots are in order.
IsValid ==
    /\ \A n \in Reachable :
          IF leftChild[n] = NullNode THEN ProperLeaf(n) ELSE ProperInner(n)
    /\ \A k \in DOMAIN roots :
          parent[roots[k]] = NullNode /\ sibling[roots[k]] = NullNode
    /\ \A j, k \in DOMAIN roots :
          j < k => Smallest(subtreeTerminals[roots[j]])
                       < Smallest(subtreeTerminals[roots[k]])
    /\ DOMAIN terminalToLabel = {n \in Reachable : leftChild[n] = NullNode}
    /\ UNION {subtreeTerminals[roots[k]] : k \in DOMAIN roots} = Labels

\* Undoing the newest action gives back every pointer, bit mask, root
\* position and map entry as they were, those of unreachable nodes included,
\* so the actions under it find what they recorded.
UndoRestores == [][UndoLast => pointers' = Last(actions).before]_vars

\* The label sets of the nodes reached change as cutting and collapsing on
\* label sets do, the edits the search is modelled with.
Edits == INSTANCE ForestEdits WITH
    forest <- {subtreeTerminals[n] : n \in Reachable},
    edits <- [k \in DOMAIN actions |-> actions[k].edit],
    restoring <- restoring

ImplementsForestEdits == Edits!Spec
=============================================================================
