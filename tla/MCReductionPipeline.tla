------------------------- MODULE MCReductionPipeline -------------------------
(***************************************************************************)
(* Pairs and triples of trees with a chain or with clusters in common.     *)
(***************************************************************************)
EXTENDS ReductionPipeline, BinaryTrees

\* The labels of the trees and those the clusters may add.
Twenty == 1..20

\* A node of T with a caterpillar of further labels grafted above it.
Grafted(T, n, from, to) ==
    {IF n \subseteq m /\ m # n THEN m \cup (from..to) ELSE m : m \in T}
        \cup {{l} : l \in from..to}
        \cup {n \cup (from..l) : l \in from..to}

\* Where a chain may hang: above an inner node that is not the root.
Grafts(S, from, to) ==
    UNION {{Grafted(T, n, from, to) :
                n \in {m \in T : HasParent(T, m) /\ Cardinality(m) > 1}} :
           T \in TreesOver(S)}

Singles(S) == {{l} : l \in S}

\* A chain of four above a cherry of a caterpillar, against every place.
ChainedPairs ==
    {Grafted(Singles(1..4) \cup {1..2, 1..3, 1..4}, 1..2, 5, 8)}
        \X Grafts(1..4, 5, 8)

\* The tree T with the tree U in place of its label x.
Expanded(T, x, U) ==
    U \cup {IF x \in n THEN (n \ {x}) \cup UNION U ELSE n : n \in T}

\* A cluster of four labels on which the trees differ, below one of two tops.
ClusteredPairs ==
    {<<Expanded(Singles(1..3) \cup {2..3, 1..3}, 1, Singles(4..7) \cup {low, high, 4..7}),
       Expanded(top, 1, bottom)>> :
        low \in {4..5}, high \in {6..7, 4..6},
        top \in TreesOver(1..3), bottom \in TreesOver(4..7)}

\* Clusters in clusters.
NestedPairs ==
    LET first(a, b, c) == Singles({a, b, c}) \cup {{a, b}, {a, b, c}}
    IN  {<<Expanded(first(1, 2, 8), 8, Expanded(first(3, 4, 9), 9, first(5, 6, 7))),
           Expanded(top, 8, Expanded(middle, 9, bottom))>> :
            top \in TreesOver({1, 2, 8}), middle \in TreesOver({3, 4, 9}),
            bottom \in TreesOver(5..7)}

\* A cluster that three trees arrange differently.
ClusteredTriples ==
    {<<Expanded(Singles(1..3) \cup {2..3, 1..3}, 1, Singles(4..6) \cup {4..5, 4..6}),
       Expanded(top, 1, second), Expanded(top, 1, third)>> :
        top \in TreesOver(1..3), second \in TreesOver(4..6),
        third \in TreesOver(4..6)}

CallsOn(instances, pipelines, signals) ==
    [trees: instances, clustered: pipelines, sigtermArmed: signals]

\* The exact pipelines on everything, interrupted ones where no chain is.
SomeCalls ==
    CallsOn(ChainedPairs \cup ClusteredPairs \cup NestedPairs
                \cup ClusteredTriples, BOOLEAN, {FALSE})
        \cup CallsOn(NestedPairs \cup ClusteredTriples, BOOLEAN, {TRUE})

\* The chain 9, 4, 8, 6 lies above 3, 10 in the first tree and above 1, 11 in
\* the second; a component may pass it in each tree.
CrossedChain ==
    {<<Singles(1..11) \cup {{7, 11}, {1, 7, 11}, {1, 5, 7, 11}, {3, 10},
            {3, 9, 10}, {3, 4, 9, 10}, {3, 4, 8, 9, 10}, {3, 4, 6, 8, 9, 10},
            {2, 3, 4, 6, 8, 9, 10}, 1..11},
       Singles(1..11) \cup {{1, 11}, {1, 9, 11}, {1, 4, 9, 11},
            {1, 4, 8, 9, 11}, {1, 4, 6, 8, 9, 11}, {7, 10},
            (1..11) \ {2, 3, 5}, (1..11) \ {2, 3}, {2, 3}, 1..11}>>}

\* The chain 3, 2, 1, 8 below 5 in both trees: its last element is taken out.
ChainBelowAnother ==
    {<<Singles(1..9) \cup {{6, 7}, {3, 6, 7}, {2, 3, 6, 7}, {1, 2, 3, 6, 7},
            {1, 2, 3, 6, 7, 8}, {1, 2, 3, 5, 6, 7, 8}, {4, 9}, 1..9},
       Singles(1..9) \cup {{6, 9}, {4, 7}, {4, 6, 7, 9}, {3, 4, 6, 7, 9},
            {2, 3, 4, 6, 7, 9}, {1, 2, 3, 4, 6, 7, 9}, (1..9) \ {5}, 1..9}>>}

CrossedChainCalls == CallsOn(CrossedChain, BOOLEAN, {FALSE})

ChainBelowAnotherCalls == CallsOn(ChainBelowAnother, {FALSE}, {TRUE})
=============================================================================
