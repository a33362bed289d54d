------------------------------ MODULE ForestEdits ------------------------------
(***************************************************************************)
(* What the two actions on a forest promise, on label sets: a stack of     *)
(* cuts and collapses, undone newest first, or only its collapses undone   *)
(* with the cuts left in place, which is how a solution is handed out.     *)
(***************************************************************************)
EXTENDS LaminarForest

CONSTANT FirstForests   \* the forests edits start from

VARIABLES
    forest,
    edits,      \* the edits applied, oldest first
    restoring   \* reductions are being undone under the cuts

Init ==
    /\ forest \in FirstForests
    /\ edits = <<>>
    /\ restoring = FALSE

Cut(n) ==
    /\ ~ restoring
    /\ n \in forest
    /\ HasParent(forest, n)
    /\ forest' = CutEdge(forest, n)
    /\ edits' = Append(edits, [kind |-> "cut", node |-> n,
                               others |-> {Sibling(forest, n)}])
    /\ UNCHANGED restoring

Collapse(n) ==
    /\ ~ restoring
    /\ n \in forest
    /\ ~ IsTerminal(forest, n)
    /\ forest' = CollapseAt(forest, n)
    /\ edits' = Append(edits, [kind |-> "collapse", node |-> n,
                               others |-> Below(forest, n)])
    /\ UNCHANGED restoring

Undone(F, edit) ==
    IF edit.kind = "cut"
    THEN UncutEdge(F, edit.node, UNION edit.others)
    ELSE UncollapseAt(F, edit.others)

UndoLast ==
    /\ ~ restoring
    /\ edits # <<>>
    /\ forest' = Undone(forest, edits[Len(edits)])
    /\ edits' = SubSeq(edits, 1, Len(edits) - 1)
    /\ UNCHANGED restoring

Collapses == {k \in DOMAIN edits : edits[k].kind = "collapse"}

UndoLastCollapse ==
    \E k \in Collapses :
        /\ \A j \in Collapses : j <= k
        /\ forest' = Undone(forest, edits[k])
        /\ edits' = SubSeq(edits, 1, k - 1) \o SubSeq(edits, k + 1, Len(edits))
        /\ restoring' = TRUE

Next ==
    \/ \E n \in Node : Cut(n) \/ Collapse(n)
    \/ UndoLast
    \/ UndoLastCollapse

Spec == Init /\ [][Next]_<<forest, edits, restoring>>
=============================================================================
