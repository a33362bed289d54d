--------------------------- MODULE AgreementForest ---------------------------
(***************************************************************************)
(* What the solver has to compute, stated without any of its operations:   *)
(* a maximum agreement forest of the input trees.                          *)
(*                                                                         *)
(* A partition of the labels is an agreement forest of a set of trees when *)
(* every block induces the same subtree in all of them and, in each tree,  *)
(* the subtrees spanned by the blocks share no node.                       *)
(***************************************************************************)
EXTENDS LaminarForest

Induced(T, block) == {n \cap block : n \in T} \ {{}}

\* The nodes of T on the subtree spanned by a block.
Span(T, block) ==
    {n \in T : /\ n \cap block # {}
               /\ ~ \E m \in T : block \subseteq m /\ m \subseteq n /\ m # n}

IsPartition(P, S) ==
    /\ UNION P = S
    /\ {} \notin P
    /\ \A b, c \in P : b = c \/ b \cap c = {}

\* trees : a function from 1..t to trees
IsAgreementForest(P, trees) ==
    /\ IsPartition(P, UNION trees[1])
    /\ \A i \in DOMAIN trees : \A b \in P :
          Induced(trees[i], b) = Induced(trees[1], b)
    /\ \A i \in DOMAIN trees : \A b, c \in P :
          b # c => Span(trees[i], b) \cap Span(trees[i], c) = {}

\* Every partition of a set of labels, each as the kernel of a labelling.
PartitionsOf(S) ==
    {{{l \in S : f[l] = k} : k \in {f[l] : l \in S}} :
        f \in {g \in [S -> S] : \A l \in S : g[l] <= l}}

AgreementForestSizes(trees) ==
    {Cardinality(P) : P \in {Q \in PartitionsOf(Labels) : IsAgreementForest(Q, trees)}}

\* k*, the size of a maximum agreement forest.
Optimum(trees) ==
    LET sizes == AgreementForestSizes(trees)
    IN  CHOOSE k \in sizes : \A j \in sizes : k <= j
=============================================================================
