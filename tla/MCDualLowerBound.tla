--------------------------- MODULE MCDualLowerBound ---------------------------
(***************************************************************************)
(* Instances for the dual bounds: pairs and triples of small trees, and    *)
(* the two instances of res/lowerbound that a bound once exceeded.         *)
(***************************************************************************)
EXTENDS DualLowerBound, BinaryTrees

Thirteen == 1..13

\* A leaf, and two trees joined below a root.
L(i) == {{i}}
J(A, B) == A \cup B \cup {UNION A \cup UNION B}

\* redblue_unsound01.nw and redblue_unsound02.nw.
Unsound01 ==
    LET common(x) == J(J(x, L(5)), L(12))
    IN  <<J(J(L(8),
                    J(J(L(1), J(L(6), L(9))),
                         J(J(J(L(3), L(4)), common(J(L(2), L(7)))), L(10)))),
               L(11)),
          J(J(L(2),
                    J(J(L(3), L(9)),
                         J(J(J(L(1), L(4)), common(J(L(8), L(7)))),
                              J(L(6), L(10))))),
               L(11))>>

Unsound02 ==
    <<J(J(L(12),
                J(L(11),
                     J(J(J(L(1), J(L(10), L(5))),
                               J(J(L(3), L(8)), L(9))),
                          J(J(L(4), L(13)), L(7))))),
           J(L(6), L(2))),
      J(J(J(L(11), J(J(J(L(1), L(10)), J(L(4), L(8))), L(7))),
                J(L(3), L(12))),
           J(L(5), J(L(2), J(L(6), J(L(13), L(9))))))>>

\* Pairs on which resolvePair meets red leaves in two trees, or siblings, or
\* nothing active outside their colour, and triplets end up in three trees.
RarePairs ==
    {<<J(J(J(J(J(L(4), L(1)), L(2)), L(5)), L(3)), L(6)),
       J(J(J(L(4), L(3)), J(J(L(1), L(2)), L(5))), L(6))>>,
     <<J(J(J(J(L(3), J(L(5), L(6))), J(L(4), L(2))), J(L(8), L(7))), L(1)),
       J(J(J(L(1), J(L(5), J(L(8), L(2)))), J(J(L(4), L(3)), L(7))), L(6))>>,
     <<J(L(2), J(L(6), J(L(3), J(J(L(5), L(4)), L(1))))),
       J(L(5), J(L(2), J(J(L(6), J(L(3), L(1))), L(4))))>>,
     <<J(L(3), J(J(L(6), J(J(L(1), L(2)), L(5))), L(4))),
       J(J(J(J(L(6), J(L(1), L(5))), L(4)), L(3)), L(2))>>,
     <<J(L(3), J(J(J(L(2), L(5)), J(L(1), L(6))), L(4))),
       J(J(J(L(4), J(L(1), L(2))), J(L(5), L(6))), L(3))>>,
     <<J(L(2), J(J(L(6), L(3)), J(J(L(4), L(1)), L(5)))),
       J(L(2), J(J(L(6), J(L(5), L(4))), J(L(3), L(1))))>>}

\* Maximum agreement forests of the instances with more than six labels.
OptimalForests ==
    {{{2}, {5}, {6}, {8}, {1, 3, 4, 7}},
     {{1}, {2}, {3}, {6}, {8}, {4, 5, 7, 9, 10, 11, 12}},
     {{3}, {4}, {5}, {9}, {13}, {1, 2, 6, 7, 8, 10, 11, 12}}}

SixBalanced == {{l} : l \in Six} \cup {{1, 3}, {2, 4}, {5, 6}, 1..4, Six}

With(cherries) == {T \in TreesOver(Six) : cherries \subseteq T}

Instances ==
    ({SixBalanced} \X TreesOver(Six))
        \cup ({SixBalanced} \X With({{1, 5}, {2, 6}}) \X With({{3, 6}, {4, 5}}))
        \cup RarePairs
        \cup {Unsound01, Unsound02}

PartitionsAndOptima == PartitionsOf(Six) \cup OptimalForests
=============================================================================
