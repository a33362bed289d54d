---------------------------- MODULE LaminarForest ----------------------------
(***************************************************************************)
(* The forests the solver edits, seen through the label sets of their      *)
(* nodes.                                                                  *)
(*                                                                         *)
(* Every graph::Node carries subtreeTerminals, the set of labels below it; *)
(* the nodes reachable from Forest::Roots() are told apart by that set.    *)
(* A forest is therefore a laminar family: a set of nonempty label sets,   *)
(* any two of which are nested or disjoint.  Parent, sibling, root and     *)
(* terminal are relations of the family.  The empty set stands for the     *)
(* null pointer.                                                           *)
(*                                                                         *)
(* Internal nodes keep exactly two children (DeleteEdgeAction splices a    *)
(* node left with one child out), so a nonroot node has one sibling.       *)
(***************************************************************************)
EXTENDS Integers, FiniteSets, Sequences

CONSTANT Labels                 \* the taxon labels

ASSUME LabelsAreTaxa == Labels \subseteq Nat \ {0} /\ IsFiniteSet(Labels)

Node == SUBSET Labels
Forest == SUBSET Node

NullNode == {}

-----------------------------------------------------------------------------
(* Navigation: what Node::parent, Node::sibling, Forest::rootOf,           *)
(* Forest::LabelToTerminal and Forest::TerminalToLabel return.             *)

Roots(F) == {n \in F : \A m \in F : n \subseteq m => m = n}

\* The terminal a label is mapped to: the innermost node that holds it.
TerminalOf(F, l) == {k \in Labels : \A m \in F : l \in m => k \in m}

IsTerminal(F, n) == n \in F /\ \A m \in F : m \subseteq n => m = n

Terminals(F) == {n \in F : IsTerminal(F, n)}

HasParent(F, n) == n # NullNode /\ \E m \in F : n \subseteq m /\ n # m

Parent(F, n) ==
    IF HasParent(F, n)
    THEN {k \in Labels : \A m \in F : (n \subseteq m /\ n # m) => k \in m}
    ELSE NullNode

Sibling(F, n) == Parent(F, n) \ n

Uncle(F, n) == Sibling(F, Parent(F, n))

\* TerminalToLabel: the smallest label of a terminal, as a set so that a
\* node without a label gives the empty set.
LabelOf(n) == {l \in n : \A k \in n : l <= k}

AreSiblings(F, a, c) ==
    /\ HasParent(F, TerminalOf(F, a))
    /\ Sibling(F, TerminalOf(F, a)) = TerminalOf(F, c)

Connected(F, a, c) == \E m \in F : a \in m /\ c \in m

\* The nodes on the way from the terminal of x up to, not including, the
\* lowest node that also holds y; a chain, innermost first.
PathBelowLca(F, x, y) ==
    LET chain == {n \in F : x \in n /\ y \notin n}
    IN  [k \in 1..Cardinality(chain) |->
            UNION {n \in chain :
                      Cardinality({m \in chain : m \subseteq n}) = k}]

PendantsAlong(F, x, y) ==
    LET path == PathBelowLca(F, x, y)
    IN  [k \in 1..(Len(path) - 1) |-> path[k + 1] \ path[k]]

\* Mutant: x is walked twice.
PendantNodesOfOneSide(F, x, y) == PendantsAlong(F, x, y) \o PendantsAlong(F, x, y)

PendantNodes(F, x, y) == PendantsAlong(F, x, y) \o PendantsAlong(F, y, x)

\* Leaf order of a left-first walk in which the child with the smaller label
\* goes left, as Forest keeps its children.
Before(T, l, m) ==
    LET childWith(x, y) == UNION {n \in T : x \in n /\ y \notin n}
    IN  \E k \in childWith(l, m) : \A j \in childWith(m, l) : k < j

-----------------------------------------------------------------------------
(* Edits and their undo.                                                   *)

\* DeleteEdgeAction: n becomes a root; its labels leave every ancestor, which
\* splices the parent out (it coincides with the sibling afterwards).
CutEdge(F, n) == {IF n \subseteq m /\ n # m THEN m \ n ELSE m : m \in F}

\* Mutant: the parent is not put back.
UncutEdgeWithoutParent(F, n, sib) ==
    {IF sib \subseteq m /\ sib # m THEN m \cup n ELSE m : m \in F}

\* Its undo, from the sibling recorded by doAction: n joins every node above
\* the sibling again and the parent reappears between them.
UncutEdge(F, n, sib) ==
    {IF sib \subseteq m /\ sib # m THEN m \cup n ELSE m : m \in F}
        \cup {sib \cup n}

\* CollapseSubtreeAction: everything below n leaves the forest.
Below(F, n) == {m \in F : m \subseteq n /\ m # n}

CollapseAt(F, n) == F \ Below(F, n)

UncollapseAt(F, kids) == F \cup kids

-----------------------------------------------------------------------------
(* Shape.                                                                  *)

Laminar(F) ==
    \A m, n \in F : m \cap n = {} \/ m \subseteq n \/ n \subseteq m

\* A forest over all the labels whose inner nodes have two children.
WellFormed(F) ==
    /\ NullNode \notin F
    /\ Laminar(F)
    /\ UNION F = Labels
    /\ \A n \in F : HasParent(F, n) => {Parent(F, n), Sibling(F, n)} \subseteq F
=============================================================================
