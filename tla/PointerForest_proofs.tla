------------------------- MODULE PointerForest_proofs -------------------------
(***************************************************************************)
(* The pointers of a forest stay those of a forest, the undo of an action  *)
(* sets every pointer back, and what is reached by the pointers changes    *)
(* as the edits on label sets do.                                          *)
(*                                                                         *)
(* Throughout, N are the nodes that exist, M the nodes reached once every  *)
(* collapse is opened, and L those reached now; par, sib, lc, rc and st    *)
(* are the parent, sibling and child pointers and the label sets.          *)
(***************************************************************************)
EXTENDS PointerForest, LaminarForest_proofs, SequenceTheorems

-----------------------------------------------------------------------------
(* Following pointers.                                                     *)

\* What f gives for a node after k steps, next giving the nodes one step on.
Widens(f, c, N, next) ==
    f = [k \in 0..c |->
            [n \in N |-> {n} \cup (IF k = 0 THEN {}
                                   ELSE UNION {f[k - 1][m] : m \in next[n]})]]

\* The recursion of Reached has a solution.
LEMMA WideningExists ==
    ASSUME NEW N, NEW next \in [N -> SUBSET N], NEW c \in Nat
    PROVE  \E f : Widens(f, c, N, next)
<1> DEFINE S == {j \in Nat : \E f : Widens(f, j, N, next)}
<1>1. 0 \in S
  <2> DEFINE f == [k \in 0..0 |-> [n \in N |-> {n}]]
  <2>1. Widens(f, 0, N, next)
    BY DEF Widens
  <2> QED
    BY <2>1
<1>2. ASSUME NEW j \in 1..c, j - 1 \in S
      PROVE  j \in S
  <2>1. PICK g : Widens(g, j - 1, N, next)
    BY <1>2
  <2> DEFINE top == [n \in N |-> {n} \cup UNION {g[j - 1][m] : m \in next[n]}]
             f == [k \in 0..j |-> IF k < j THEN g[k] ELSE top]
  <2>2. ASSUME NEW k \in 0..j
        PROVE  f[k] = [n \in N |-> {n} \cup (IF k = 0 THEN {}
                                   ELSE UNION {f[k - 1][m] : m \in next[n]})]
    <3>1. CASE k < j
      <4>1. k \in 0..(j - 1) /\ f[k] = g[k]
        BY <3>1
      <4>2. g[k] = [n \in N |-> {n} \cup (IF k = 0 THEN {}
                                   ELSE UNION {g[k - 1][m] : m \in next[n]})]
        BY <2>1, <4>1 DEF Widens
      <4>3. CASE k = 0
        BY <4>1, <4>2, <4>3
      <4>4. CASE k # 0
        <5>1. f[k - 1] = g[k - 1]
          BY <4>1, <4>4
        <5> HIDE DEF f
        <5> QED
          BY <4>1, <4>2, <4>4, <5>1
      <4> QED
        BY <4>3, <4>4
    <3>2. CASE k = j
      <4>1. f[k] = top /\ f[k - 1] = g[k - 1] /\ k # 0
        BY <3>2
      <4> HIDE DEF f
      <4> QED
        BY <4>1, <3>2
    <3> QED
      BY <3>1, <3>2
  <2>3. Widens(f, j, N, next)
    <3> HIDE DEF top
    <3> QED
      BY <2>2 DEF Widens
  <2> QED
    BY <2>3
<1>3. 0..c \subseteq S
  <2> HIDE DEF S
  <2> QED
    BY <1>1, <1>2, HandedOn
<1> QED
  BY <1>3

\* The nodes one step on from those in W.
Successors(next, W) == UNION {next[n] : n \in W}

\* One step more adds the nodes one step on.
LEMMA WideningStep ==
    ASSUME NEW N, NEW next \in [N -> SUBSET N], NEW c \in Nat,
           NEW f, Widens(f, c, N, next)
    PROVE  /\ \A n \in N : f[0][n] = {n}
           /\ \A k \in 0..c : f[k] \in [N -> SUBSET N]
           /\ \A k \in 1..c : \A n \in N :
                 f[k][n] = f[k - 1][n] \cup Successors(next, f[k - 1][n])
<1>0. \A n \in N : f[0][n] = {n}
  BY DEF Widens
<1>k. \A k \in 1..c : \A n \in N :
         f[k][n] = {n} \cup UNION {f[k - 1][m] : m \in next[n]}
  <2> SUFFICES ASSUME NEW k \in 1..c, NEW n \in N
               PROVE  f[k][n] = {n} \cup UNION {f[k - 1][m] : m \in next[n]}
    OBVIOUS
  <2>1. k \in 0..c /\ k # 0
    OBVIOUS
  <2>2. f[k] = [i \in N |-> {i} \cup (IF k = 0 THEN {}
                                ELSE UNION {f[k - 1][m] : m \in next[i]})]
    BY <2>1 DEF Widens
  <2> QED
    BY <2>1, <2>2
<1>d. \A k \in 0..c : DOMAIN f[k] = N /\ f[k] = [n \in N |-> f[k][n]]
  BY DEF Widens
<1> DEFINE Inside == {k \in Nat : k <= c => \A n \in N : f[k][n] \subseteq N}
<1>1. 0..c \subseteq Inside
  <2>1. 0 \in Inside
    BY <1>0
  <2>2. \A j \in 1..c : j - 1 \in Inside => j \in Inside
    BY <1>k
  <2> HIDE DEF Inside
  <2> QED
    BY <2>1, <2>2, HandedOn
<1>2. \A k \in 0..c : f[k] \in [N -> SUBSET N]
  <2> SUFFICES ASSUME NEW k \in 0..c
               PROVE  f[k] \in [N -> SUBSET N]
    OBVIOUS
  <2>1. \A n \in N : f[k][n] \subseteq N
    BY <1>1
  <2>2. DOMAIN f[k] = N /\ f[k] = [n \in N |-> f[k][n]]
    BY <1>d
  <2> QED
    BY <2>1, <2>2
<1> DEFINE Grows == {k \in Nat : k \in 1..c => \A n \in N :
                        f[k][n] = f[k - 1][n] \cup Successors(next, f[k - 1][n])}
<1>3. 0 \in Grows
  OBVIOUS
<1>4. ASSUME NEW j \in 1..c, j - 1 \in Grows
      PROVE  j \in Grows
  <2> SUFFICES ASSUME NEW n \in N
               PROVE  f[j][n] = f[j - 1][n] \cup Successors(next, f[j - 1][n])
    OBVIOUS
  <2>1. f[j][n] = {n} \cup UNION {f[j - 1][m] : m \in next[n]}
    BY <1>k
  <2>2. CASE j = 1
    <3>1. f[0][n] = {n} /\ \A m \in next[n] : f[0][m] = {m}
      BY <1>0
    <3>2. f[j][n] = {n} \cup next[n] /\ f[j - 1][n] = {n}
      BY <2>1, <2>2, <3>1
    <3> QED
      BY <3>2 DEF Successors
  <2>3. CASE j # 1
    <3>1. j - 1 \in 1..c /\ (j - 1) - 1 = j - 2
      BY <2>3
    <3>2. \A m \in N : f[j - 1][m] = f[j - 2][m] \cup Successors(next, f[j - 2][m])
      BY <1>4, <3>1
    <3>3. f[j - 1][n] = {n} \cup UNION {f[j - 2][m] : m \in next[n]}
      BY <1>k, <3>1
    <3>4. next[n] \subseteq N
      OBVIOUS
    <3>5. \A m \in next[n] : m \in f[j - 2][m]
      <4>1. j - 2 \in 0..c
        BY <3>1
      <4>2. \A m \in N : m \in f[j - 2][m]
        BY <4>1 DEF Widens
      <4> QED
        BY <3>4, <4>2
    <3>6. Successors(next, f[j - 1][n])
             = next[n] \cup UNION {Successors(next, f[j - 2][m]) : m \in next[n]}
      BY <3>3 DEF Successors
    <3> DEFINE A == UNION {f[j - 1][m] : m \in next[n]}
               B == UNION {f[j - 2][m] : m \in next[n]}
               C == UNION {Successors(next, f[j - 2][m]) : m \in next[n]}
    <3>7. A = B \cup C
      <4>1. \A m \in next[n] :
               f[j - 1][m] = f[j - 2][m] \cup Successors(next, f[j - 2][m])
        BY <3>2, <3>4
      <4>2. \A y : y \in A <=> \E m \in next[n] : y \in f[j - 1][m]
        OBVIOUS
      <4>3. \A y : y \in B <=> \E m \in next[n] : y \in f[j - 2][m]
        OBVIOUS
      <4>4. \A y : y \in C <=> \E m \in next[n] : y \in Successors(next, f[j - 2][m])
        OBVIOUS
      <4> HIDE DEF A, B, C
      <4>5. \A y : y \in A <=> y \in B \cup C
        BY <4>1, <4>2, <4>3, <4>4
      <4> QED
        BY <4>5
    <3>8. next[n] \subseteq UNION {f[j - 2][m] : m \in next[n]}
      BY <3>5
    <3>9. /\ f[j][n] = {n} \cup A /\ f[j - 1][n] = {n} \cup B
          /\ Successors(next, f[j - 1][n]) = next[n] \cup C
          /\ A = B \cup C /\ next[n] \subseteq B
      <4>1. f[j][n] = {n} \cup A /\ f[j - 1][n] = {n} \cup B
        BY <2>1, <3>3
      <4>2. Successors(next, f[j - 1][n]) = next[n] \cup C
        BY <3>6
      <4>3. A = B \cup C
        BY <3>7
      <4> QED
        BY <3>8, <4>1, <4>2, <4>3
    <3> HIDE DEF A, B, C
    <3> QED
      BY <3>9
  <2> QED
    BY <2>2, <2>3
<1>5. 0..c \subseteq Grows
  <2> HIDE DEF Grows
  <2> QED
    BY <1>3, <1>4, HandedOn
<1> QED
  BY <1>0, <1>2, <1>5

\* Reached is the smallest set with x in it that no step leaves.
LEMMA ReachedIsLeast ==
    ASSUME NEW N, IsFiniteSet(N), NEW next \in [N -> SUBSET N], NEW x \in N
    PROVE  /\ x \in Reached(x, next) /\ Reached(x, next) \subseteq N
           /\ \A n \in Reached(x, next) : next[n] \subseteq Reached(x, next)
           /\ \A X : (x \in X /\ \A n \in X \cap N : next[n] \subseteq X)
                         => Reached(x, next) \subseteq X
<1> DEFINE c == Cardinality(N)
<1>c. c \in Nat
  BY FS_CardinalityType
<1>1. PICK f : Widens(f, c, N, next) /\ Reached(x, next) = f[c][x]
  <2> DEFINE g == CHOOSE h : Widens(h, c, N, next)
  <2>1. Widens(g, c, N, next)
    <3>1. \E h : Widens(h, c, N, next)
      BY <1>c, WideningExists
    <3> QED
      BY <3>1, Zenon
  <2>2. DOMAIN next = N
    OBVIOUS
  <2>3. Reached(x, next) = g[c][x]
    BY <2>2, Zenon DEF Reached, Widens
  <2> QED
    BY <2>1, <2>3
<1> HIDE DEF c
<1>2. /\ f[0][x] = {x}
      /\ \A k \in 0..c : f[k][x] \in SUBSET N
      /\ \A k \in 1..c : f[k][x] = f[k - 1][x] \cup Successors(next, f[k - 1][x])
  <2>1. /\ \A n \in N : f[0][n] = {n}
        /\ \A k \in 0..c : f[k] \in [N -> SUBSET N]
        /\ \A k \in 1..c : \A n \in N :
              f[k][n] = f[k - 1][n] \cup Successors(next, f[k - 1][n])
    BY <1>c, <1>1, WideningStep
  <2> QED
    BY <2>1
<1> DEFINE w == [k \in 0..c |-> f[k][x]]
<1>3. /\ w[0] = {x}
      /\ \A k \in 0..c : w[k] \in SUBSET N
      /\ \A k \in 1..c : w[k] = w[k - 1] \cup Successors(next, w[k - 1])
      /\ Reached(x, next) = w[c]
  BY <1>c, <1>1, <1>2
<1> HIDE DEF w
<1>4. x \in w[c]
  <2> DEFINE S == {k \in Nat : k <= c => x \in w[k]}
  <2>0. 0 \in S
    BY <1>3
  <2>1. ASSUME NEW j \in 1..c, j - 1 \in S
        PROVE  j \in S
    <3>1. x \in w[j - 1] /\ w[j] = w[j - 1] \cup Successors(next, w[j - 1])
      BY <1>c, <1>3, <2>1
    <3> QED
      BY <3>1
  <2>2. 0..c \subseteq S
    <3> HIDE DEF S
    <3> QED
      BY <1>c, <2>0, <2>1, HandedOn
  <2> QED
    BY <1>c, <2>2
<1>5. ASSUME NEW X, x \in X, \A n \in X \cap N : next[n] \subseteq X
      PROVE  w[c] \subseteq X
  <2> DEFINE S == {k \in Nat : k <= c => w[k] \subseteq X}
  <2>1. 0 \in S
    BY <1>3, <1>5
  <2>2. ASSUME NEW j \in 1..c, j - 1 \in S
        PROVE  j \in S
    <3>1. w[j - 1] \subseteq X /\ w[j - 1] \subseteq N
      BY <1>c, <1>3, <2>2
    <3>2. Successors(next, w[j - 1]) \subseteq X
      BY <1>5, <3>1 DEF Successors
    <3> QED
      BY <1>3, <3>1, <3>2
  <2>3. 0..c \subseteq S
    <3> HIDE DEF S
    <3> QED
      BY <1>c, <2>1, <2>2, HandedOn
  <2> QED
    BY <1>c, <2>3
<1>6. Successors(next, w[c]) \subseteq w[c]
  <2> SUFFICES ASSUME ~ Successors(next, w[c]) \subseteq w[c]
               PROVE  FALSE
    OBVIOUS
  <2>1. ASSUME NEW k \in 0..c, Successors(next, w[k]) \subseteq w[k]
        PROVE  FALSE
    <3> DEFINE S == {i \in Nat : k + i <= c =>
                        Successors(next, w[k + i]) \subseteq w[k + i]}
    <3>1. 0 \in S
      BY <2>1
    <3>2. ASSUME NEW i \in 1..(c - k), i - 1 \in S
          PROVE  i \in S
      <4>1. k + i \in 1..c /\ (k + i) - 1 = k + (i - 1) /\ k + (i - 1) <= c
        BY <1>c
      <4>2. Successors(next, w[k + (i - 1)]) \subseteq w[k + (i - 1)]
        BY <3>2, <4>1
      <4>3. w[k + i] = w[k + (i - 1)] \cup Successors(next, w[k + (i - 1)])
        BY <1>3, <4>1
      <4>4. w[k + i] = w[k + (i - 1)]
        BY <4>2, <4>3
      <4> QED
        BY <4>2, <4>4
    <3>3. c - k \in Nat
      BY <1>c
    <3>4. 0..(c - k) \subseteq S
      <4> HIDE DEF S
      <4> QED
        BY <3>1, <3>2, <3>3, HandedOn
    <3>5. c - k \in S /\ k + (c - k) = c
      BY <1>c, <3>3, <3>4
    <3> QED
      BY <3>5, <1>c
  <2> DEFINE S == {k \in Nat : k <= c =>
                      IsFiniteSet(w[k]) /\ Cardinality(w[k]) >= k + 1}
  <2>2. 0 \in S
    <3>1. IsFiniteSet({x}) /\ Cardinality({x}) = 1
      BY FS_Singleton
    <3>2. IsFiniteSet(w[0]) /\ Cardinality(w[0]) = 1
      BY <1>3, <3>1
    <3>3. 0 \in Nat /\ Cardinality(w[0]) >= 0 + 1
      BY <3>2
    <3> QED
      BY <3>2, <3>3
  <2>3. ASSUME NEW j \in 1..c, j - 1 \in S
        PROVE  j \in S
    <3>1. j - 1 \in 0..c /\ IsFiniteSet(w[j - 1]) /\ Cardinality(w[j - 1]) >= j
          /\ j \in 0..c
      BY <1>c, <2>3
    <3>2. ~ Successors(next, w[j - 1]) \subseteq w[j - 1]
      BY <2>1, <3>1
    <3>3. w[j] = w[j - 1] \cup Successors(next, w[j - 1])
      BY <1>3
    <3>4. w[j - 1] \subseteq w[j] /\ w[j - 1] # w[j]
      BY <3>2, <3>3
    <3>5. IsFiniteSet(w[j])
      <4>1. w[j] \in SUBSET N
        BY <1>3, <3>1
      <4> QED
        BY <4>1, FS_Subset
    <3>7. Cardinality(w[j - 1]) \in Nat /\ Cardinality(w[j]) \in Nat
      BY <3>1, <3>5, FS_CardinalityType
    <3>6. Cardinality(w[j - 1]) < Cardinality(w[j])
      <4>1. w[j - 1] \in SUBSET w[j]
        BY <3>4
      <4>2. /\ Cardinality(w[j - 1]) <= Cardinality(w[j])
            /\ Cardinality(w[j]) = Cardinality(w[j - 1]) => w[j] = w[j - 1]
        BY <4>1, <3>5, FS_Subset
      <4> QED
        BY <3>4, <3>7, <4>2
    <3>8. Cardinality(w[j]) >= j + 1
      BY <3>1, <3>6, <3>7
    <3> QED
      BY <3>5, <3>8
  <2>4. 0..c \subseteq S
    <3> HIDE DEF S
    <3> QED
      BY <1>c, <2>2, <2>3, HandedOn
  <2>5. Cardinality(w[c]) >= c + 1
    BY <1>c, <2>4
  <2>6. w[c] \in SUBSET N
    BY <1>c, <1>3
  <2>7. Cardinality(w[c]) <= c /\ Cardinality(w[c]) \in Nat
    BY <2>6, FS_Subset, FS_CardinalityType DEF c
  <2> QED
    BY <1>c, <2>5, <2>7
<1>7. \A n \in w[c] : next[n] \subseteq w[c]
  BY <1>6 DEF Successors
<1> QED
  BY <1>c, <1>3, <1>4, <1>5, <1>7

-----------------------------------------------------------------------------
(* The order hasSmallestTerminal puts bit masks in.                        *)

\* Division by the word size keeps the order, and the remainder keeps it
\* inside one word.
LEMMA WordsAreOrdered ==
    ASSUME NEW a \in Nat, NEW b \in Nat, a < b
    PROVE  /\ a \div WordSize \in Nat /\ a % WordSize \in 0..(WordSize - 1)
           /\ a \div WordSize <= b \div WordSize
           /\ a \div WordSize = b \div WordSize => a % WordSize < b % WordSize
<1> DEFINE W == WordSize
<1>1. W \in Nat /\ W > 0
  BY WordsHaveBits
<1> HIDE DEF W
<1>2. ASSUME NEW x \in Nat
      PROVE  \E q \in Nat, r \in 0..(W - 1) :
                q = x \div W /\ r = x % W /\ x = W * q + r
  <2>1. x \div W \in Nat /\ x % W \in 0..(W - 1)
    BY <1>1
  <2>2. PICK q \in Nat : q = x \div W
    BY <2>1
  <2>3. PICK r \in 0..(W - 1) : r = x % W
    BY <2>1
  <2>4. r = x - W * q
    BY <1>1, <2>2, <2>3
  <2>5. W * q \in Int
    BY <1>1
  <2>6. x = W * q + r
    BY <1>1, <2>4, <2>5
  <2> QED
    BY <2>2, <2>3, <2>6
<1>a. PICK qa \in Nat, ra \in 0..(W - 1) :
         qa = a \div W /\ ra = a % W /\ a = W * qa + ra
  BY <1>2
<1>b. PICK qb \in Nat, rb \in 0..(W - 1) :
         qb = b \div W /\ rb = b % W /\ b = W * qb + rb
  BY <1>2
<1>3. /\ qa \in Nat /\ qb \in Nat /\ ra \in 0..(W - 1) /\ rb \in 0..(W - 1)
      /\ a = W * qa + ra /\ b = W * qb + rb
  BY <1>a, <1>b
<1>4. qa <= qb
  <2> SUFFICES ASSUME qb + 1 <= qa PROVE FALSE
    BY <1>3
  <2>1. PICK d \in Nat : qa = qb + 1 + d
    <3>1. qa - (qb + 1) \in Nat /\ qa = qb + 1 + (qa - (qb + 1))
      BY <1>3
    <3> QED
      BY <3>1
  <2>2. W * qa = W * qb + W + W * d /\ W * d \in Nat
    BY <1>1, <1>3, <2>1
  <2>3. W * qb \in Nat
    BY <1>1, <1>3
  <2> QED
    BY <1>1, <1>3, <2>2, <2>3
<1>5. qa = qb => ra < rb
  <2>1. W * qa \in Nat
    BY <1>1, <1>3
  <2> QED
    BY <1>3, <2>1
<1> QED
  BY <1>a, <1>b, <1>3, <1>4, <1>5 DEF W

\* Smallest picks the smallest.
LEMMA SmallestPicks ==
    ASSUME NEW S \in SUBSET Nat, S # {}
    PROVE  Smallest(S) \in S /\ \A k \in S : Smallest(S) <= k
BY SmallestExists, Zenon DEF Smallest

\* A smallest element is the one Smallest picks.
LEMMA SmallestIs ==
    ASSUME NEW S \in SUBSET Nat, NEW l \in S, \A k \in S : l <= k
    PROVE  Smallest(S) = l
<1>1. Smallest(S) \in S /\ \A k \in S : Smallest(S) <= k
  BY SmallestPicks
<1>2. Smallest(S) <= l /\ l <= Smallest(S) /\ Smallest(S) \in Nat /\ l \in Nat
  BY <1>1
<1> QED
  BY <1>2

\* What is below the word size is in the first word.
LEMMA FirstWord ==
    ASSUME NEW a \in Nat, a < WordSize
    PROVE  a \div WordSize = 0
<1>1. WordSize \in Nat /\ WordSize > 0
  BY WordsHaveBits
<1>2. PICK W : W = WordSize
  OBVIOUS
<1>3. W \in Nat /\ W > 0 /\ a < W
  BY <1>1, <1>2
<1>4. a \div W = 0
  BY <1>3
<1> QED
  BY <1>2, <1>4

\* There is one word, or a zero word counts as many trailing zeros as a word
\* has bits at least.
ZeroWordsAreHarmless == CtzOfZero >= WordSize \/ \A l \in Labels : l <= WordSize

\* On disjoint sets hasSmallestTerminal compares the smallest labels.
LEMMA ComparesSmallest ==
    ASSUME ZeroWordsAreHarmless,
           NEW s \in SUBSET Labels, NEW r \in SUBSET Labels,
           s # {}, r # {}, s \cap r = {}
    PROVE  /\ HasSmallestTerminal(s, r) <=> Smallest(s) < Smallest(r)
           /\ Smallest(s) \in s /\ Smallest(r) \in r
           /\ Smallest(s) \in Nat /\ Smallest(r) \in Nat /\ Smallest(s) # Smallest(r)
<1> DEFINE word(l) == (l - 1) \div WordSize
           bit(l) == (l - 1) % WordSize
           D == {i \in {word(l) : l \in s \cup r} : Word(s, i) # Word(r, i)}
<1>0. Labels \subseteq Nat \ {0}
  BY LabelsAreTaxa
<1>1. /\ Smallest(s) \in s /\ \A k \in s : Smallest(s) <= k
      /\ Smallest(r) \in r /\ \A k \in r : Smallest(r) <= k
  <2>1. s \in SUBSET Nat /\ r \in SUBSET Nat
    BY <1>0
  <2> QED
    BY <2>1, SmallestPicks
<1>w. \A l, k \in Labels :
         l < k => /\ word(l) \in Nat /\ bit(l) \in 0..(WordSize - 1)
                  /\ word(l) <= word(k)
                  /\ word(l) = word(k) => bit(l) < bit(k)
  <2> SUFFICES ASSUME NEW l \in Labels, NEW k \in Labels, l < k
               PROVE  /\ word(l) \in Nat /\ bit(l) \in 0..(WordSize - 1)
                      /\ word(l) <= word(k)
                      /\ word(l) = word(k) => bit(l) < bit(k)
    OBVIOUS
  <2>1. l - 1 \in Nat /\ k - 1 \in Nat /\ l - 1 < k - 1
    BY <1>0
  <2> QED
    BY <2>1, WordsAreOrdered
<1>n. \A l \in Labels : word(l) \in Nat /\ bit(l) \in 0..(WordSize - 1)
  <2> SUFFICES ASSUME NEW l \in Labels
               PROVE  word(l) \in Nat /\ bit(l) \in 0..(WordSize - 1)
    OBVIOUS
  <2>1. l - 1 \in Nat /\ (l - 1) + 1 \in Nat /\ l - 1 < (l - 1) + 1
    BY <1>0
  <2> QED
    BY <2>1, WordsAreOrdered
<1>i. \A S, i : Word(S, i) = {l \in S : word(l) = i}
  BY DEF Word
<1>c. WordSize \in Nat \ {0} /\ CtzOfZero \in Nat
  BY WordsHaveBits
<1>o. (\A l \in Labels : l <= WordSize) => \A l \in Labels : word(l) = 0
  <2> SUFFICES ASSUME NEW l \in Labels, l <= WordSize PROVE word(l) = 0
    OBVIOUS
  <2>1. l - 1 \in Nat /\ l - 1 < WordSize
    BY <1>0, <1>c
  <2> QED
    BY <2>1, FirstWord
<1>h. HasSmallestTerminal(s, r)
         <=> D # {} /\ CountTrailingZeros(Word(s, Smallest(D)))
                          < CountTrailingZeros(Word(r, Smallest(D)))
  BY DEF HasSmallestTerminal
<1>d. \A i : i \in D <=> (\E l \in s \cup r : i = word(l)) /\ Word(s, i) # Word(r, i)
  OBVIOUS
<1> HIDE DEF D, word, bit
\* The word of the smallest of all the labels is the first that differs.
<1>2. ASSUME NEW x \in SUBSET Labels, NEW y \in SUBSET Labels, x \cup y = s \cup r,
             x \cap y = {}, y # {}, NEW l \in x, \A k \in x \cup y : l <= k
      PROVE  /\ D # {} /\ Smallest(D) = word(l)
             /\ CountTrailingZeros(Word(x, word(l))) = bit(l)
             /\ CountTrailingZeros(Word(y, word(l))) > bit(l)
             /\ CountTrailingZeros(Word(x, word(l))) \in Nat
             /\ CountTrailingZeros(Word(y, word(l))) \in Nat
  <2>1. l \in Word(x, word(l)) /\ l \notin Word(y, word(l))
    BY <1>i, <1>2
  <2>2. l \in Labels /\ l \in Nat
    BY <1>0
  <2>3. word(l) \in D
    <3>1. {Word(x, word(l)), Word(y, word(l))} = {Word(s, word(l)), Word(r, word(l))}
          \/ Word(s, word(l)) # Word(r, word(l))
      <4>1. l \in s \cup r /\ ~ (l \in s /\ l \in r)
        BY <1>2
      <4>2. l \in Word(s, word(l)) <=> l \in s
        BY <1>i
      <4>3. l \in Word(r, word(l)) <=> l \in r
        BY <1>i
      <4> QED
        BY <4>1, <4>2, <4>3
    <3>2. Word(s, word(l)) # Word(r, word(l))
      <4>1. l \in s \cup r /\ ~ (l \in s /\ l \in r)
        BY <1>2
      <4>2. l \in Word(s, word(l)) <=> l \in s
        BY <1>i
      <4>3. l \in Word(r, word(l)) <=> l \in r
        BY <1>i
      <4> QED
        BY <4>1, <4>2, <4>3
    <3> QED
      BY <1>2, <1>d, <3>2
  <2>4. \A i \in D : i \in Nat /\ word(l) <= i
    <3> SUFFICES ASSUME NEW i \in D PROVE i \in Nat /\ word(l) <= i
      OBVIOUS
    <3>1. PICK k \in s \cup r : i = word(k)
      BY <1>d
    <3>2. k \in Labels /\ k \in Nat /\ l <= k
      BY <1>0, <1>2, <3>1
    <3>3. word(k) \in Nat /\ word(l) \in Nat
      BY <1>n, <2>2, <3>2
    <3> QED
      BY <1>w, <2>2, <3>1, <3>2, <3>3
  <2>5. Smallest(D) = word(l)
    BY <2>3, <2>4, SmallestIs
  <2>6. Smallest(Word(x, word(l))) = l
    <3>1. Word(x, word(l)) \in SUBSET Nat
      BY <1>0, <1>i
    <3>2. \A k \in Word(x, word(l)) : l <= k
      BY <1>2, <1>i
    <3> QED
      BY <2>1, <3>1, <3>2, SmallestIs
  <2>7. CountTrailingZeros(Word(x, word(l))) = bit(l)
    <3>1. CountTrailingZeros(Word(x, word(l)))
             = (Smallest(Word(x, word(l))) - 1) % WordSize
      BY <2>1 DEF CountTrailingZeros
    <3> QED
      BY <2>6, <3>1 DEF bit
  <2>8. CountTrailingZeros(Word(y, word(l))) > bit(l)
        /\ CountTrailingZeros(Word(y, word(l))) \in Nat
    <3>1. CASE Word(y, word(l)) = {}
      <4>1. CountTrailingZeros(Word(y, word(l))) = CtzOfZero
        BY <3>1 DEF CountTrailingZeros
      <4>2. bit(l) \in 0..(WordSize - 1)
        BY <1>n, <2>2
      <4>3. CASE CtzOfZero >= WordSize
        BY <1>c, <4>1, <4>2, <4>3
      <4>4. CASE \A k \in Labels : k <= WordSize
        <5>1. PICK k \in y : k \in Labels
          BY <1>2
        <5>2. word(k) = word(l)
          BY <1>o, <2>2, <4>4, <5>1
        <5> QED
          BY <1>i, <3>1, <5>1, <5>2
      <4> QED
        BY <4>3, <4>4 DEF ZeroWordsAreHarmless
    <3>2. CASE Word(y, word(l)) # {}
      <4> DEFINE k == Smallest(Word(y, word(l)))
      <4>1. Word(y, word(l)) \in SUBSET Nat
        BY <1>0, <1>i
      <4>2. k \in Word(y, word(l))
        BY <3>2, <4>1, SmallestPicks
      <4>3. CountTrailingZeros(Word(y, word(l))) = bit(k)
        BY <3>2 DEF CountTrailingZeros, bit
      <4> HIDE DEF k
      <4>4. k \in y /\ word(k) = word(l) /\ k \in Labels /\ k \in Nat
        BY <1>0, <1>i, <4>2
      <4>5. l < k
        BY <1>2, <2>2, <4>4
      <4>6. bit(l) < bit(k) /\ bit(k) \in 0..(WordSize - 1)
        BY <1>n, <1>w, <2>2, <4>4, <4>5
      <4> QED
        BY <1>c, <4>3, <4>6
    <3> QED
      BY <3>1, <3>2
  <2>9. bit(l) \in Nat
    BY <1>c, <1>n, <2>2
  <2> QED
    BY <2>3, <2>5, <2>7, <2>8, <2>9
<1>3. Smallest(s) \in Nat /\ Smallest(r) \in Nat /\ Smallest(s) # Smallest(r)
  BY <1>0, <1>1
<1>4. CASE Smallest(s) < Smallest(r)
  <2>1. \A k \in s \cup r : Smallest(s) <= k
    <3>1. \A k \in s \cup r : k \in Nat
      BY <1>0
    <3> QED
      BY <1>1, <1>3, <1>4, <3>1
  <2>2. /\ D # {} /\ Smallest(D) = word(Smallest(s))
        /\ CountTrailingZeros(Word(s, word(Smallest(s)))) = bit(Smallest(s))
        /\ CountTrailingZeros(Word(r, word(Smallest(s)))) > bit(Smallest(s))
        /\ CountTrailingZeros(Word(s, word(Smallest(s)))) \in Nat
        /\ CountTrailingZeros(Word(r, word(Smallest(s)))) \in Nat
    BY <1>1, <1>2, <2>1
  <2> QED
    BY <1>1, <1>3, <1>4, <1>h, <2>2
<1>5. CASE Smallest(r) < Smallest(s)
  <2>1. \A k \in r \cup s : Smallest(r) <= k
    <3>1. \A k \in s \cup r : k \in Nat
      BY <1>0
    <3> QED
      BY <1>1, <1>3, <1>5, <3>1
  <2>2. r \cup s = s \cup r /\ r \cap s = {}
    OBVIOUS
  <2>3. /\ D # {} /\ Smallest(D) = word(Smallest(r))
        /\ CountTrailingZeros(Word(r, word(Smallest(r)))) = bit(Smallest(r))
        /\ CountTrailingZeros(Word(s, word(Smallest(r)))) > bit(Smallest(r))
        /\ CountTrailingZeros(Word(r, word(Smallest(r)))) \in Nat
        /\ CountTrailingZeros(Word(s, word(Smallest(r)))) \in Nat
    BY <1>1, <1>2, <2>1, <2>2
  <2> QED
    BY <1>1, <1>3, <1>5, <1>h, <2>3
<1> QED
  BY <1>3, <1>4, <1>5

-----------------------------------------------------------------------------
(* The shape of the links between the nodes that are reached.              *)

\* N are all the nodes there are, L the ones reached.
Typed(N, L, par, sib, lc, rc, st) ==
    /\ IsFiniteSet(N) /\ N \in SUBSET Node /\ NullNode \notin N /\ L \in SUBSET N
    /\ par \in [N -> N \cup {NullNode}] /\ sib \in [N -> N \cup {NullNode}]
    /\ lc \in [N -> N \cup {NullNode}] /\ rc \in [N -> N \cup {NullNode}]
    /\ st \in [N -> Node]

\* The label sets are told apart, nested or disjoint, and cover the labels.
Apart(L, st) ==
    /\ \A n \in L : st[n] # {}
    /\ \A n, m \in L : st[n] = st[m] => n = m
    /\ \A n, m \in L : st[n] \cap st[m] = {} \/ st[n] \subseteq st[m]
                       \/ st[m] \subseteq st[n]
    /\ \A l \in Labels : \E n \in L : l \in st[n]

\* n is the parent of two siblings that share its labels.
Splits(L, par, sib, lc, rc, st, n) ==
    /\ lc[n] \in L /\ rc[n] \in L /\ lc[n] # rc[n]
    /\ par[lc[n]] = n /\ par[rc[n]] = n
    /\ sib[lc[n]] = rc[n] /\ sib[rc[n]] = lc[n]
    /\ st[lc[n]] \cap st[rc[n]] = {}
    /\ st[n] = st[lc[n]] \cup st[rc[n]]

\* n has no children and is above no other node.
Bottom(L, rc, st, n) ==
    /\ rc[n] = NullNode
    /\ \A m \in L : st[m] \subseteq st[n] => m = n

\* Each node splits into its children, or is at the bottom.
Downwards(L, par, sib, lc, rc, st) ==
    \A n \in L : IF lc[n] = NullNode THEN Bottom(L, rc, st, n)
                 ELSE Splits(L, par, sib, lc, rc, st, n)

\* n is a child of its parent.
Hangs(L, par, lc, rc, n) ==
    /\ par[n] \in L /\ lc[par[n]] # NullNode
    /\ n \in {lc[par[n]], rc[par[n]]}

\* Each node is a child of its parent, or has no sibling either.
Hooked(L, par, sib, lc, rc) ==
    \A n \in L : IF par[n] = NullNode THEN sib[n] = NullNode
                 ELSE Hangs(L, par, lc, rc, n)

\* The child with the smaller label is the left one.
InChildOrder(L, lc, rc, st) ==
    \A n \in L : lc[n] # NullNode => Smallest(st[lc[n]]) < Smallest(st[rc[n]])

\* The pointers between the nodes L, among all nodes N, are those of a forest.
Linked(N, L, par, sib, lc, rc, st) ==
    /\ Typed(N, L, par, sib, lc, rc, st)
    /\ Apart(L, st)
    /\ Downwards(L, par, sib, lc, rc, st)
    /\ Hooked(L, par, sib, lc, rc)

\* A node below another one is below one of its children.
LEMMA BelowAChild ==
    ASSUME NEW N, NEW L, NEW par, NEW sib, NEW lc, NEW rc, NEW st,
           Linked(N, L, par, sib, lc, rc, st),
           NEW q \in L, lc[q] # NullNode,
           NEW m \in L, m # q, st[m] \subseteq st[q]
    PROVE  st[m] \subseteq st[lc[q]] \/ st[m] \subseteq st[rc[q]]
<1> DEFINE x == lc[q]
           y == rc[q]
<1>1. /\ x \in L /\ y \in L /\ st[x] \cap st[y] = {} /\ st[q] = st[x] \cup st[y]
  BY DEF Linked, Downwards, Splits
<1>2. /\ st[m] \cap st[x] = {} \/ st[m] \subseteq st[x] \/ st[x] \subseteq st[m]
      /\ st[m] \cap st[y] = {} \/ st[m] \subseteq st[y] \/ st[y] \subseteq st[m]
      /\ st[m] # st[q]
  BY <1>1 DEF Linked, Apart
<1> QED
  BY <1>1, <1>2

\* A leaf has nothing below it; a child is smaller than its parent.
LEMMA Downward ==
    ASSUME NEW N, NEW L, NEW par, NEW sib, NEW lc, NEW rc, NEW st,
           Linked(N, L, par, sib, lc, rc, st), NEW n \in L
    PROVE  /\ lc[n] = NullNode => Bottom(L, rc, st, n)
           /\ lc[n] # NullNode => /\ Splits(L, par, sib, lc, rc, st, n)
                                  /\ st[lc[n]] # {} /\ st[rc[n]] # {}
                                  /\ rc[n] # NullNode /\ lc[n] # n /\ rc[n] # n
<1>1. CASE lc[n] # NullNode
  <2>1. Splits(L, par, sib, lc, rc, st, n)
    BY <1>1 DEF Linked, Downwards
  <2>2. st[lc[n]] # {} /\ st[rc[n]] # {} /\ rc[n] # NullNode
    BY <2>1 DEF Splits, Linked, Apart, Typed
  <2> QED
    BY <1>1, <2>1, <2>2 DEF Splits
<1> QED
  BY <1>1 DEF Linked, Downwards

\* What is above a node is above its parent.
LEMMA Upward ==
    ASSUME NEW N, NEW L, NEW par, NEW sib, NEW lc, NEW rc, NEW st,
           Linked(N, L, par, sib, lc, rc, st), NEW n \in L, par[n] # NullNode
    PROVE  /\ par[n] \in L /\ sib[n] \in L /\ par[n] # n /\ sib[n] # n
           /\ lc[par[n]] # NullNode
           /\ {n, sib[n]} = {lc[par[n]], rc[par[n]]}
           /\ sib[sib[n]] = n /\ par[sib[n]] = par[n] /\ par[n] # sib[n]
           /\ st[n] # {} /\ st[sib[n]] # {}
           /\ st[n] \cap st[sib[n]] = {} /\ st[par[n]] = st[n] \cup st[sib[n]]
           /\ \A m \in L : st[n] \subseteq st[m] /\ m # n => st[par[n]] \subseteq st[m]
<1> DEFINE q == par[n]
<1>1. q \in L /\ lc[q] # NullNode /\ n \in {lc[q], rc[q]}
  BY DEF Linked, Hooked, Hangs
<1>2. Splits(L, par, sib, lc, rc, st, q) /\ st[lc[q]] # {} /\ st[rc[q]] # {}
      /\ lc[q] # q /\ rc[q] # q
  BY <1>1, Downward
<1>3. /\ q \in L /\ sib[n] \in L /\ q # n /\ sib[n] # n /\ q # sib[n]
      /\ {n, sib[n]} = {lc[q], rc[q]}
      /\ sib[sib[n]] = n /\ par[sib[n]] = q
      /\ st[n] # {} /\ st[sib[n]] # {}
      /\ st[n] \cap st[sib[n]] = {} /\ st[q] = st[n] \cup st[sib[n]]
  BY <1>1, <1>2 DEF Splits
<1>4. ASSUME NEW m \in L, st[n] \subseteq st[m], m # n
      PROVE  st[q] \subseteq st[m]
  <2> SUFFICES ASSUME ~ st[q] \subseteq st[m] PROVE FALSE
    OBVIOUS
  <2>1. st[m] \cap st[q] = {} \/ st[m] \subseteq st[q] \/ st[q] \subseteq st[m]
    BY <1>1 DEF Linked, Apart
  <2>2. st[m] \subseteq st[q] /\ m # q
    BY <1>3, <1>4, <2>1
  <2>3. st[m] \subseteq st[lc[q]] \/ st[m] \subseteq st[rc[q]]
    BY <1>1, <2>2, BelowAChild
  <2>4. st[m] \subseteq st[n] \/ st[m] \subseteq st[sib[n]]
    BY <1>3, <2>3
  <2>5. st[m] = st[n]
    BY <1>3, <1>4, <2>4
  <2> QED
    BY <1>4, <2>5 DEF Linked, Apart
<1> QED
  BY <1>1, <1>3, <1>4

\* A node without a parent is below no other.
LEMMA Topmost ==
    ASSUME NEW N, NEW L, NEW par, NEW sib, NEW lc, NEW rc, NEW st,
           Linked(N, L, par, sib, lc, rc, st), NEW n \in L, par[n] = NullNode,
           NEW m \in L, st[n] \subseteq st[m]
    PROVE  m = n
<1> SUFFICES ASSUME m # n PROVE FALSE
  OBVIOUS
<1> DEFINE M == {st[k] : k \in {j \in L : st[n] \subseteq st[j] /\ j # n}}
<1>1. M \in SUBSET Node /\ M # {}
  BY DEF Linked, Typed
<1>2. PICK z \in M : \A y \in M : y \subseteq z => y = z
  BY <1>1, InnermostExists
<1>3. PICK q \in L : z = st[q] /\ st[n] \subseteq st[q] /\ q # n
  BY <1>2
<1>4. \A k \in L : (st[n] \subseteq st[k] /\ k # n /\ st[k] \subseteq st[q])
                      => st[k] = st[q]
  BY <1>2, <1>3
<1> HIDE DEF M
<1>5. lc[q] # NullNode
  BY <1>3, Downward DEF Bottom
<1>6. /\ Splits(L, par, sib, lc, rc, st, q) /\ st[lc[q]] # {} /\ st[rc[q]] # {}
      /\ st[n] \subseteq st[lc[q]] \/ st[n] \subseteq st[rc[q]]
  BY <1>3, <1>5, Downward, BelowAChild
<1>7. ASSUME NEW x \in {lc[q], rc[q]}, st[n] \subseteq st[x]
      PROVE  FALSE
  <2>1. par[x] = q /\ x \in L /\ q \in N /\ st[x] \subseteq st[q] /\ st[x] # st[q]
    BY <1>6, <1>7 DEF Splits, Linked, Typed
  <2>2. x # n
    BY <2>1 DEF Linked, Typed
  <2> QED
    BY <1>4, <1>7, <2>1, <2>2
<1> QED
  BY <1>6, <1>7

\* The label sets of the nodes in L.
LabelSets(st, L) == {st[n] : n \in L}

\* The label sets of linked nodes are a forest, with the parents, siblings
\* and leaves the pointers say.
LEMMA LinkedForest ==
    ASSUME NEW N, NEW L, NEW par, NEW sib, NEW lc, NEW rc, NEW st,
           Linked(N, L, par, sib, lc, rc, st),
           NEW F, F = LabelSets(st, L)
    PROVE  /\ F \in Forest /\ WellFormed(F)
           /\ \A n \in L : par[n] = NullNode => ~ HasParent(F, st[n])
           /\ \A n \in L : par[n] # NullNode =>
                 /\ HasParent(F, st[n]) /\ Parent(F, st[n]) = st[par[n]]
                 /\ Sibling(F, st[n]) = st[sib[n]]
           /\ \A n \in L : IsTerminal(F, st[n]) <=> lc[n] = NullNode
<1>0. F = {st[n] : n \in L}
  BY DEF LabelSets
<1>1. F \in Forest /\ NullNode \notin F
  BY <1>0 DEF Linked, Typed, Apart, Forest, NullNode
<1>2. ASSUME NEW n \in L, par[n] = NullNode
      PROVE  ~ HasParent(F, st[n])
  <2>1. \A m \in L : st[n] \subseteq st[m] => m = n
    BY <1>2, Topmost
  <2> QED
    BY <1>0, <2>1 DEF HasParent
<1>3. ASSUME NEW n \in L, par[n] # NullNode
      PROVE  /\ HasParent(F, st[n]) /\ Parent(F, st[n]) = st[par[n]]
             /\ Sibling(F, st[n]) = st[sib[n]]
             /\ st[par[n]] \in F /\ st[sib[n]] \in F
  <2>1. /\ par[n] \in L /\ sib[n] \in L /\ st[n] # {} /\ st[sib[n]] # {}
        /\ st[n] \cap st[sib[n]] = {} /\ st[par[n]] = st[n] \cup st[sib[n]]
        /\ \A m \in L : st[n] \subseteq st[m] /\ m # n => st[par[n]] \subseteq st[m]
    BY <1>3, Upward
  <2>2. /\ st[n] \in F /\ st[par[n]] \in F /\ Above(st[n], st[par[n]])
        /\ \A z \in F : Above(st[n], z) => st[par[n]] \subseteq z
    BY <1>0, <2>1 DEF Above
  <2>3. HasParent(F, st[n]) /\ Parent(F, st[n]) = st[par[n]]
    <3>1. PICK a \in F, q \in F : a = st[n] /\ q = st[par[n]]
      BY <2>2
    <3>2. a # NullNode /\ Above(a, q) /\ \A m \in F : Above(a, m) => q \subseteq m
      BY <2>1, <2>2, <3>1 DEF NullNode
    <3>3. HasParent(F, a) /\ Parent(F, a) = q
      BY <1>1, <3>2, ParentIsInnermost
    <3> QED
      BY <3>1, <3>3
  <2> QED
    BY <1>0, <2>1, <2>2, <2>3 DEF Sibling
<1>4. ASSUME NEW n \in L
      PROVE  IsTerminal(F, st[n]) <=> lc[n] = NullNode
  <2>1. CASE lc[n] = NullNode
    <3>1. \A m \in L : st[m] \subseteq st[n] => m = n
      BY <2>1, Downward DEF Bottom
    <3> QED
      BY <1>0, <2>1, <3>1 DEF IsTerminal
  <2>2. CASE lc[n] # NullNode
    <3>1. /\ lc[n] \in L /\ st[lc[n]] \subseteq st[n] /\ st[lc[n]] # st[n]
      BY <2>2, Downward DEF Splits
    <3> QED
      BY <1>0, <2>2, <3>1 DEF IsTerminal
  <2> QED
    BY <2>1, <2>2
<1>5. Laminar(F) /\ UNION F = Labels
  <2>1. Laminar(F)
    BY <1>0 DEF Laminar, Linked, Apart
  <2>2. UNION F \subseteq Labels
    BY <1>1 DEF Forest, Node
  <2>3. Labels \subseteq UNION F
    BY <1>0 DEF Linked, Apart
  <2> QED
    BY <2>1, <2>2, <2>3
<1>6. \A z \in F : HasParent(F, z) => {Parent(F, z), Sibling(F, z)} \subseteq F
  <2> SUFFICES ASSUME NEW n \in L, HasParent(F, st[n])
               PROVE  Parent(F, st[n]) \in F /\ Sibling(F, st[n]) \in F
    BY <1>0
  <2>1. par[n] # NullNode
    BY <1>2
  <2> QED
    BY <1>3, <2>1
<1> QED
  BY <1>1, <1>2, <1>3, <1>4, <1>5, <1>6 DEF WellFormed

\* n is a node of A with the fewest, or the most, labels.
Innermost(A, st, n) == n \in A /\ \A m \in A : st[m] \subseteq st[n] => st[m] = st[n]
Outermost(A, st, n) == n \in A /\ \A m \in A : st[n] \subseteq st[m] => st[m] = st[n]

\* One of the nodes of A has the fewest labels.
LEMMA InnermostNode ==
    ASSUME NEW A, NEW st, A # {}, \A n \in A : st[n] \in Node
    PROVE  \E n : Innermost(A, st, n)
<1>1. {st[n] : n \in A} \in SUBSET Node /\ {st[n] : n \in A} # {}
  OBVIOUS
<1>2. PICK z \in {st[n] : n \in A} :
         \A y \in {st[n] : n \in A} : y \subseteq z => y = z
  BY <1>1, InnermostExists
<1> QED
  BY <1>2 DEF Innermost

\* One of the nodes of A has the most labels.
LEMMA OutermostNode ==
    ASSUME NEW A, NEW st, A # {}, \A n \in A : st[n] \in Node
    PROVE  \E n : Outermost(A, st, n)
<1>1. {st[n] : n \in A} \in SUBSET Node /\ {st[n] : n \in A} # {}
  OBVIOUS
<1>2. PICK z \in {st[n] : n \in A} :
         \A y \in {st[n] : n \in A} : z \subseteq y => y = z
  BY <1>1, OutermostExists
<1> QED
  BY <1>2 DEF Outermost

\* The parent pointers lead from a node to the nodes with its labels.
LEMMA UpwardsReaches ==
    ASSUME NEW N, NEW L, NEW par, NEW sib, NEW lc, NEW rc, NEW st,
           Linked(N, L, par, sib, lc, rc, st), NEW p \in L
    PROVE  Reached(p, [n \in N |-> {par[n]} \ {NullNode}])
              = {m \in L : st[p] \subseteq st[m]}
<1> DEFINE next == [n \in N |-> {par[n]} \ {NullNode}]
           up == {m \in L : st[p] \subseteq st[m]}
           R == Reached(p, next)
<1>1. IsFiniteSet(N) /\ next \in [N -> SUBSET N] /\ p \in N /\ L \subseteq N
      /\ \A n \in L : st[n] \in Node
  BY DEF Linked, Typed
<1>2. /\ p \in R /\ R \subseteq N
      /\ \A n \in R : next[n] \subseteq R
      /\ \A X : (p \in X /\ \A n \in X \cap N : next[n] \subseteq X) => R \subseteq X
  BY <1>1, ReachedIsLeast
<1>3. \A n \in N : next[n] = {par[n]} \ {NullNode}
  OBVIOUS
<1> HIDE DEF R, next
<1>4. R \subseteq up
  <2>1. ASSUME NEW n \in up
        PROVE  next[n] \subseteq up
    <3>1. CASE par[n] = NullNode
      BY <1>1, <1>3, <3>1
    <3>2. CASE par[n] # NullNode
      <4>1. par[n] \in L /\ st[n] \subseteq st[par[n]]
        BY <3>2, Upward
      <4> QED
        BY <1>1, <1>3, <4>1
    <3> QED
      BY <3>1, <3>2
  <2> QED
    BY <1>2, <2>1
<1>5. ASSUME ~ up \subseteq R
      PROVE  FALSE
  <2>1. PICK n \in up \ R : \A m \in up \ R : st[m] \subseteq st[n] => st[m] = st[n]
    <3>1. up \ R \in SUBSET L /\ up \ R # {}
      BY <1>5
    <3> DEFINE A == up \ R
    <3>2. A # {} /\ \A n \in A : st[n] \in Node
      BY <1>1, <3>1
    <3> HIDE DEF A, up
    <3>3. \E n : Innermost(A, st, n)
      BY <3>2, InnermostNode
    <3> QED
      BY <3>3 DEF A, Innermost
  <2>2. n \in L /\ n # p /\ st[p] \subseteq st[n]
    BY <1>2, <2>1
  <2>3. lc[n] # NullNode
    BY <2>2, Downward DEF Bottom
  <2>4. /\ Splits(L, par, sib, lc, rc, st, n)
        /\ st[lc[n]] # {} /\ st[rc[n]] # {}
        /\ st[p] \subseteq st[lc[n]] \/ st[p] \subseteq st[rc[n]]
    BY <2>2, <2>3, Downward, BelowAChild
  <2>5. PICK x \in {lc[n], rc[n]} : st[p] \subseteq st[x]
    BY <2>4
  <2>6. x \in L /\ par[x] = n /\ st[x] \subseteq st[n] /\ st[x] # st[n]
    BY <2>4, <2>5 DEF Splits
  <2>7. x \in R
    BY <2>1, <2>5, <2>6
  <2>8. n \in next[x]
    BY <1>1, <1>3, <2>2, <2>6 DEF Linked, Typed
  <2> QED
    BY <1>2, <2>1, <2>7, <2>8
<1> QED
  BY <1>4, <1>5 DEF R, next

\* What the child pointers reach from the nodes in R.
ReachedFrom(N, lc, rc, R) ==
    UNION {Reached(r, [n \in N |-> {lc[n], rc[n]} \ {NullNode}]) : r \in R}

\* The child pointers lead from the roots to the nodes that are linked.
LEMMA ReachesLinked ==
    ASSUME NEW N, NEW L, NEW par, NEW sib, NEW lc, NEW rc, NEW st,
           Linked(N, L, par, sib, lc, rc, st)
    PROVE  ReachedFrom(N, lc, rc, {n \in L : par[n] = NullNode}) = L
<1> DEFINE next == [n \in N |-> {lc[n], rc[n]} \ {NullNode}]
           tops == {n \in L : par[n] = NullNode}
           R == UNION {Reached(r, next) : r \in tops}
<1>1. IsFiniteSet(N) /\ next \in [N -> SUBSET N] /\ L \subseteq N
      /\ \A n \in L : st[n] \in Node
  BY DEF Linked, Typed
<1>2. \A r \in tops :
         /\ r \in Reached(r, next)
         /\ \A n \in Reached(r, next) : next[n] \subseteq Reached(r, next)
         /\ \A X : (r \in X /\ \A n \in X \cap N : next[n] \subseteq X)
                       => Reached(r, next) \subseteq X
  <2> SUFFICES ASSUME NEW r \in tops
               PROVE  /\ r \in Reached(r, next)
                      /\ \A n \in Reached(r, next) : next[n] \subseteq Reached(r, next)
                      /\ \A X : (r \in X /\ \A n \in X \cap N : next[n] \subseteq X)
                                   => Reached(r, next) \subseteq X
    OBVIOUS
  <2>1. r \in N
    BY <1>1
  <2> HIDE DEF next
  <2> QED
    BY <1>1, <2>1, ReachedIsLeast
<1>3. \A n \in N : next[n] = {lc[n], rc[n]} \ {NullNode}
  OBVIOUS
<1> HIDE DEF next
<1>4. R \subseteq L
  <2>1. ASSUME NEW n \in L
        PROVE  next[n] \subseteq L
    <3>1. CASE lc[n] = NullNode
      <4>1. rc[n] = NullNode
        BY <3>1, Downward DEF Bottom
      <4> QED
        BY <1>1, <1>3, <3>1, <4>1
    <3>2. CASE lc[n] # NullNode
      <4>1. lc[n] \in L /\ rc[n] \in L
        BY <3>2, Downward DEF Splits
      <4> QED
        BY <1>1, <1>3, <4>1
    <3> QED
      BY <3>1, <3>2
  <2>2. \A r \in tops : Reached(r, next) \subseteq L
    BY <1>2, <2>1
  <2> QED
    BY <2>2
<1>5. ASSUME ~ L \subseteq R
      PROVE  FALSE
  <2>1. PICK n \in L \ R : \A m \in L \ R : st[n] \subseteq st[m] => st[m] = st[n]
    <3>1. L \ R \in SUBSET L /\ L \ R # {}
      BY <1>5
    <3> DEFINE A == L \ R
    <3>3. A # {} /\ \A n \in A : st[n] \in Node
      BY <1>1, <3>1
    <3> HIDE DEF A, R
    <3>2. \E n : Outermost(A, st, n)
      BY <3>3, OutermostNode
    <3> QED
      BY <3>2 DEF A, Outermost
  <2>2. n \in L /\ n \notin R
    BY <2>1
  <2>3. par[n] # NullNode
    BY <1>2, <2>2
  <2>4. /\ par[n] \in L /\ n \in {lc[par[n]], rc[par[n]]}
        /\ st[n] \subseteq st[par[n]] /\ st[n] # st[par[n]]
    BY <2>2, <2>3, Upward
  <2>5. par[n] \in R
    BY <2>1, <2>4
  <2>6. n \in next[par[n]]
    BY <1>1, <1>3, <2>2, <2>4 DEF Linked, Typed
  <2>7. PICK r \in tops : par[n] \in Reached(r, next)
    BY <2>5
  <2>8. n \in Reached(r, next)
    BY <1>2, <2>6, <2>7
  <2> QED
    BY <2>2, <2>8
<1> QED
  BY <1>4, <1>5 DEF next, ReachedFrom

-----------------------------------------------------------------------------
(* A cut.                                                                  *)

\* Trimming label by label is cutting the forest.
LEMMA TrimmedImage ==
    ASSUME NEW L, NEW st, NEW st2, NEW x, NEW L2 \in SUBSET L,
           \A m \in L : st2[m] = Trim(x, st[m]),
           \A m \in L : \E k \in L2 : st2[k] = st2[m]
    PROVE  LabelSets(st2, L2) = CutEdge(LabelSets(st, L), x)
<1> DEFINE F == LabelSets(st, L)
           G == LabelSets(st2, L2)
<1>1. CutEdge(F, x) = {Trim(x, y) : y \in F}
  BY CutEdgeTrims
<1>2. {Trim(x, y) : y \in F} = {Trim(x, st[n]) : n \in L}
  BY DEF LabelSets
<1>3. {Trim(x, st[n]) : n \in L} = {st2[n] : n \in L}
  OBVIOUS
<1>4. {st2[n] : n \in L} = G
  BY DEF LabelSets
<1> QED
  BY <1>1, <1>2, <1>3, <1>4 DEF LabelSets

\* The child c is cut from a parent that is a root.
CuttingAtRoot(L, par, sib, c, L2, par2, sib2) ==
    /\ c \in L /\ par[c] # NullNode /\ par[par[c]] = NullNode
    /\ L2 = L \ {par[c]}
    /\ par2 = [par EXCEPT ![sib[c]] = NullNode, ![c] = NullNode]
    /\ sib2 = [sib EXCEPT ![sib[c]] = NullNode, ![c] = NullNode]

\* The parentless nodes.
Tops(L, par) == {n \in L : par[n] = NullNode}

\* The parent goes, its children become roots.
LEMMA CutUnderRoot ==
    ASSUME NEW N, NEW L, NEW par, NEW sib, NEW lc, NEW rc, NEW st,
           Linked(N, L, par, sib, lc, rc, st),
           NEW c, NEW L2, NEW par2, NEW sib2,
           CuttingAtRoot(L, par, sib, c, L2, par2, sib2)
    PROVE  /\ Linked(N, L2, par2, sib2, lc, rc, st)
           /\ LabelSets(st, L2) = CutEdge(LabelSets(st, L), st[c])
           /\ Tops(L2, par2) = (Tops(L, par) \ {par[c]}) \cup {c, sib[c]}
<1>0. /\ c \in L /\ par[c] # NullNode /\ par[par[c]] = NullNode
      /\ L2 = L \ {par[c]}
      /\ par2 = [par EXCEPT ![sib[c]] = NullNode, ![c] = NullNode]
      /\ sib2 = [sib EXCEPT ![sib[c]] = NullNode, ![c] = NullNode]
  BY DEF CuttingAtRoot
<1> USE <1>0
<1> DEFINE P == par[c]
           s == sib[c]
<1>1. /\ P \in L /\ s \in L /\ P # c /\ s # c /\ lc[P] # NullNode
      /\ {c, s} = {lc[P], rc[P]} /\ P # s /\ par[s] = P /\ sib[s] = c
      /\ st[c] # {} /\ st[s] # {} /\ st[c] \cap st[s] = {} /\ st[P] = st[c] \cup st[s]
      /\ \A m \in L : st[c] \subseteq st[m] /\ m # c => st[P] \subseteq st[m]
  BY Upward, SMTT(30)
<1>2. \A m \in L : st[P] \subseteq st[m] => m = P
  BY <1>1, Topmost
<1>3. Typed(N, L, par, sib, lc, rc, st)
  BY DEF Linked
<1>4. /\ \A n \in N : n # c /\ n # s => par2[n] = par[n] /\ sib2[n] = sib[n]
      /\ par2[c] = NullNode /\ par2[s] = NullNode
      /\ sib2[c] = NullNode /\ sib2[s] = NullNode
      /\ Typed(N, L2, par2, sib2, lc, rc, st)
  BY <1>1, <1>3 DEF Typed
<1>5. Apart(L2, st)
  <2>1. ASSUME NEW l \in Labels
        PROVE  \E n \in L2 : l \in st[n]
    <3>1. PICK n \in L : l \in st[n]
      BY DEF Linked, Apart
    <3>2. CASE n = P
      <4>1. l \in st[c] \/ l \in st[s]
        BY <1>1, <3>1, <3>2
      <4> QED
        BY <1>1, <4>1
    <3> QED
      BY <3>1, <3>2
  <2> QED
    BY <2>1 DEF Linked, Apart
<1>6. ASSUME NEW n \in L2
      PROVE  IF lc[n] = NullNode THEN Bottom(L2, rc, st, n)
             ELSE Splits(L2, par2, sib2, lc, rc, st, n)
  <2>1. CASE lc[n] = NullNode
    <3>1. Bottom(L, rc, st, n)
      BY <2>1, Downward
    <3> QED
      BY <2>1, <3>1 DEF Bottom
  <2>2. CASE lc[n] # NullNode
    <3>1. Splits(L, par, sib, lc, rc, st, n)
      BY <2>2, Downward
    <3>2. lc[n] \in L /\ rc[n] \in L /\ par[lc[n]] = n /\ par[rc[n]] = n
      BY <3>1 DEF Splits
    <3>3. lc[n] \notin {c, s, P} /\ rc[n] \notin {c, s, P} /\ n # NullNode
      BY <1>1, <1>3, <3>2 DEF Typed
    <3>4. /\ par2[lc[n]] = par[lc[n]] /\ sib2[lc[n]] = sib[lc[n]]
          /\ par2[rc[n]] = par[rc[n]] /\ sib2[rc[n]] = sib[rc[n]]
      BY <1>3, <1>4, <3>2, <3>3 DEF Typed
    <3> QED
      BY <2>2, <3>1, <3>3, <3>4 DEF Splits
  <2> QED
    BY <2>1, <2>2
<1>7. ASSUME NEW n \in L2
      PROVE  IF par2[n] = NullNode THEN sib2[n] = NullNode
             ELSE Hangs(L2, par2, lc, rc, n)
  <2>1. CASE n \in {c, s}
    BY <1>4, <2>1
  <2>2. CASE n \notin {c, s}
    <3>1. par2[n] = par[n] /\ sib2[n] = sib[n] /\ n \in L
      BY <1>3, <1>4, <2>2 DEF Typed
    <3>2. CASE par[n] = NullNode
      BY <3>1, <3>2 DEF Linked, Hooked
    <3>3. CASE par[n] # NullNode
      <4>1. Hangs(L, par, lc, rc, n)
        BY <3>1, <3>3 DEF Linked, Hooked
      <4>2. par[n] # P
        BY <1>1, <2>2, <4>1 DEF Hangs
      <4> QED
        BY <3>1, <3>3, <4>1, <4>2 DEF Hangs
    <3> QED
      BY <3>2, <3>3
  <2> QED
    BY <2>1, <2>2
<1>8. LabelSets(st, L2) = CutEdge(LabelSets(st, L), st[c])
  <2> DEFINE st2 == [m \in L |-> Trim(st[c], st[m])]
  <2>1. \A m \in L : m # P => Trim(st[c], st[m]) = st[m]
    <3>1. \A m \in L : m # P => ~ Above(st[c], st[m])
      BY <1>1, <1>2 DEF Above
    <3> QED
      BY <3>1 DEF Trim
  <2>2. Trim(st[c], st[P]) = st[s]
    BY <1>1 DEF Trim, Above
  <2>3. \A m \in L : \E k \in L2 : st2[k] = st2[m]
    <3>1. st2[P] = st2[s] /\ s \in L2
      BY <1>1, <2>1, <2>2
    <3> HIDE DEF st2
    <3> QED
      BY <3>1
  <2>4. LabelSets(st2, L2) = CutEdge(LabelSets(st, L), st[c])
    <3>1. \A m \in L : st2[m] = Trim(st[c], st[m])
      OBVIOUS
    <3> HIDE DEF st2
    <3> QED
      BY <2>3, <3>1, TrimmedImage
  <2>5. \A n \in L2 : st2[n] = st[n]
    BY <2>1
  <2> HIDE DEF st2
  <2> QED
    BY <2>4, <2>5 DEF LabelSets
<1>9. {n \in L2 : par2[n] = NullNode}
         = ({n \in L : par[n] = NullNode} \ {par[c]}) \cup {c, sib[c]}
  BY <1>1, <1>3, <1>4 DEF Typed
<1> QED
  BY <1>4, <1>5, <1>6, <1>7, <1>8, <1>9 DEF Linked, Downwards, Hooked, Tops

\* The nodes in L that have the labels of p.
From(L, st, p) == {m \in L : st[p] \subseteq st[m]}

\* The nodes in up lose the labels of c.
Lessened(L, st, st2, c, up) ==
    \A n \in L : st2[n] = IF n \in up THEN SymDiff(st[n], st[c]) ELSE st[n]

\* The labels of c were in the sets of the nodes in up.
Lost(L, st, st2, c, up) ==
    /\ \A n \in up : st[c] \subseteq st[n] /\ st2[n] = st[n] \ st[c]
    /\ \A n \in L \ up : st2[n] = st[n]

\* The label sets after a cut.
LEMMA CutSets ==
    ASSUME NEW N, NEW L, NEW par, NEW sib, NEW lc, NEW rc, NEW st,
           Linked(N, L, par, sib, lc, rc, st),
           NEW c \in L, par[c] # NullNode,
           NEW up, up = From(L, st, par[c]),
           NEW L2, L2 = L \ {par[c]},
           NEW st2, Lessened(L, st, st2, c, up)
    PROVE  /\ Apart(L2, st2)
           /\ LabelSets(st2, L2) = CutEdge(LabelSets(st, L), st[c])
           /\ Lost(L, st, st2, c, up)
<1> DEFINE P == par[c]
           s == sib[c]
<1>1. /\ P \in L /\ s \in L /\ P # c /\ s # c
      /\ {c, s} = {lc[P], rc[P]} /\ P # s /\ par[s] = P /\ sib[s] = c
      /\ st[c] # {} /\ st[s] # {} /\ st[c] \cap st[s] = {} /\ st[P] = st[c] \cup st[s]
      /\ \A m \in L : st[c] \subseteq st[m] /\ m # c => st[P] \subseteq st[m]
  BY Upward
<1>2. /\ \A n \in up : st[P] \subseteq st[n] /\ st[c] \subseteq st[n]
                       /\ st[s] \subseteq st[n] /\ st2[n] = st[n] \ st[c]
      /\ \A n \in L \ up : st2[n] = st[n]
      /\ up \subseteq L
  BY <1>1 DEF SymDiff, Lessened, From
<1>3. c \notin up /\ s \notin up /\ P \in up
  BY <1>1 DEF From
<1>4. \A m \in L : st2[m] = Trim(st[c], st[m])
  <2> SUFFICES ASSUME NEW m \in L PROVE st2[m] = Trim(st[c], st[m])
    OBVIOUS
  <2>1. CASE m \in up
    <3>1. Above(st[c], st[m])
      BY <1>1, <1>2, <2>1 DEF Above
    <3> QED
      BY <1>2, <2>1, <3>1 DEF Trim
  <2>2. CASE m \notin up
    <3>1. ~ Above(st[c], st[m])
      BY <1>1, <2>2 DEF Above, From
    <3> QED
      BY <1>2, <2>2, <3>1 DEF Trim
  <2> QED
    BY <2>1, <2>2
<1>5. st2[P] = st[s] /\ st2[s] = st[s] /\ st2[c] = st[c]
  BY <1>1, <1>2, <1>3, ZenonT(40)
<1>6. LabelSets(st2, L2) = CutEdge(LabelSets(st, L), st[c])
  <2>1. \A m \in L : \E k \in L2 : st2[k] = st2[m]
    BY <1>1, <1>5
  <2>2. L2 \in SUBSET L
    OBVIOUS
  <2> QED
    BY <1>4, <2>1, <2>2, TrimmedImage
<1>7. PICK F : F = LabelSets(st, L)
  OBVIOUS
<1>8. F \in Forest /\ WellFormed(F) /\ HasParent(F, st[c]) /\ st[c] \in F
  <2>1. /\ F \in Forest /\ WellFormed(F)
        /\ \A n \in L : par[n] # NullNode => HasParent(F, st[n])
    BY <1>7, LinkedForest
  <2>2. st[c] \in F
    BY <1>7 DEF LabelSets
  <2> QED
    BY <2>1, <2>2
<1>9. WellFormed(LabelSets(st2, L2))
  BY <1>6, <1>7, <1>8, CutKeepsForest
<1>10. /\ \A n \in L2 : st2[n] # {}
       /\ \A n, m \in L2 : st2[n] \cap st2[m] = {} \/ st2[n] \subseteq st2[m]
                           \/ st2[m] \subseteq st2[n]
       /\ \A l \in Labels : \E n \in L2 : l \in st2[n]
  BY <1>9 DEF WellFormed, Laminar, NullNode, LabelSets
<1>11. ASSUME NEW n \in L2, NEW m \in L2, st2[n] = st2[m]
       PROVE  n = m
  <2>1. \A i, j \in L : st[i] = st[j] => i = j
    BY DEF Linked, Apart
  <2>2. ASSUME NEW i \in up, NEW j \in L \ up, i # P, st2[i] = st2[j]
        PROVE  FALSE
    <3>1. st[j] = st[i] \ st[c]
      BY <1>2, <2>2
    <3>2. st[j] \cap st[P] = {} \/ st[j] \subseteq st[P] \/ st[P] \subseteq st[j]
      BY <1>1 DEF Linked, Apart
    <3>3. st[s] \subseteq st[j]
      BY <1>1, <1>2, <2>2, <3>1
    <3>4. st[j] \subseteq st[P]
      BY <1>1, <2>2, <3>2, <3>3 DEF From
    <3>5. st[i] = st[P]
      BY <1>1, <1>2, <2>2, <3>1, <3>4
    <3> QED
      BY <1>1, <1>2, <2>1, <2>2, <3>5, ZenonT(20)
  <2>3. CASE n \in up /\ m \in up
    <3>1. /\ st[c] \subseteq st[n] /\ st2[n] = st[n] \ st[c]
          /\ st[c] \subseteq st[m] /\ st2[m] = st[m] \ st[c]
      BY <1>2, <2>3
    <3>2. st[n] = st[m]
      BY <1>11, <3>1
    <3> QED
      BY <2>1, <3>2
  <2>4. CASE n \notin up /\ m \notin up
    BY <1>2, <1>11, <2>1, <2>4
  <2> QED
    BY <1>11, <2>2, <2>3, <2>4
<1> QED
  BY <1>2, <1>6, <1>10, <1>11 DEF Apart, Lost

\* The two children of n, in this order or the other.
Children(lefts, rights, lc, rc, n) ==
    \/ lc[n] = lefts[n] /\ rc[n] = rights[n]
    \/ lc[n] = rights[n] /\ rc[n] = lefts[n]

\* The child c is cut from P, its sibling s goes up to g beside u, and the
\* nodes in up lose the labels of c.
Cutting(L, par, sib, st, c, P, s, g, u, up) ==
    /\ c \in L /\ P = par[c] /\ P # NullNode /\ s = sib[c]
    /\ g = par[P] /\ g # NullNode /\ u = sib[P]
    /\ up = From(L, st, P)

\* The links before, and after but for the order of children.
Relinked(N, par, sib, lc, rc, st, c, P, s, g, u, up, par2, sib2, lc2, rc2, st2) ==
    /\ st2 = [n \in N |-> IF n \in up THEN SymDiff(st[n], st[c]) ELSE st[n]]
    /\ par2 = [par EXCEPT ![s] = g, ![c] = NullNode]
    /\ sib2 = [sib EXCEPT ![s] = u, ![u] = s, ![c] = NullNode]
    /\ LET lefts == [lc EXCEPT ![g] = IF @ = P THEN s ELSE @]
           rights == [rc EXCEPT ![g] = IF lc[g] = P THEN @ ELSE s]
       IN  /\ lc2 \in [N -> N \cup {NullNode}] /\ rc2 \in [N -> N \cup {NullNode}]
           /\ \A n \in N : Children(lefts, rights, lc2, rc2, n)
           /\ \A n \in N \ up : lc2[n] = lefts[n] /\ rc2[n] = rights[n]

\* Where the five nodes of a cut are.
LEMMA CutPlaces ==
    ASSUME NEW N, NEW L, NEW par, NEW sib, NEW lc, NEW rc, NEW st,
           Linked(N, L, par, sib, lc, rc, st),
           NEW c, NEW P, NEW s, NEW g, NEW u, NEW up,
           Cutting(L, par, sib, st, c, P, s, g, u, up)
    PROVE  /\ c \in L /\ P \in L /\ s \in L /\ P # c /\ s # c /\ lc[P] # NullNode
           /\ {c, s} = {lc[P], rc[P]} /\ P # s /\ par[c] = P /\ par[s] = P
           /\ sib[c] = s /\ sib[s] = c
           /\ st[c] # {} /\ st[s] # {} /\ st[c] \cap st[s] = {}
           /\ st[P] = st[c] \cup st[s]
           /\ \A m \in L : st[c] \subseteq st[m] /\ m # c => st[P] \subseteq st[m]
           /\ g \in L /\ u \in L /\ g # P /\ u # P /\ lc[g] # NullNode
           /\ {P, u} = {lc[g], rc[g]} /\ g # u /\ par[u] = g /\ sib[u] = P
           /\ par[P] = g /\ sib[P] = u
           /\ st[u] # {} /\ st[P] \cap st[u] = {} /\ st[g] = st[P] \cup st[u]
           /\ up \subseteq L /\ \A n \in up : st[P] \subseteq st[n]
           /\ \A n \in L : st[P] \subseteq st[n] => n \in up
           /\ g \in up /\ P \in up /\ c \notin up /\ s \notin up /\ u \notin up
           /\ g # c /\ g # s /\ u # c /\ u # s
           /\ \A n \in L : n # NullNode /\ n \in N
<1>0. /\ c \in L /\ P = par[c] /\ P # NullNode /\ s = sib[c]
      /\ g = par[P] /\ g # NullNode /\ u = sib[P]
      /\ up = {m \in L : st[P] \subseteq st[m]}
  BY DEF Cutting, From
<1>1. /\ P \in L /\ s \in L /\ P # c /\ s # c /\ lc[P] # NullNode
      /\ {c, s} = {lc[P], rc[P]} /\ P # s /\ par[s] = P /\ sib[s] = c
      /\ st[c] # {} /\ st[s] # {} /\ st[c] \cap st[s] = {} /\ st[P] = st[c] \cup st[s]
      /\ \A m \in L : st[c] \subseteq st[m] /\ m # c => st[P] \subseteq st[m]
  <2>1. c \in L /\ par[c] # NullNode
    BY <1>0
  <2>2. /\ par[c] \in L /\ sib[c] \in L /\ par[c] # c /\ sib[c] # c
        /\ lc[par[c]] # NullNode
        /\ {c, sib[c]} = {lc[par[c]], rc[par[c]]}
        /\ sib[sib[c]] = c /\ par[sib[c]] = par[c] /\ par[c] # sib[c]
        /\ st[c] # {} /\ st[sib[c]] # {}
        /\ st[c] \cap st[sib[c]] = {} /\ st[par[c]] = st[c] \cup st[sib[c]]
        /\ \A m \in L : st[c] \subseteq st[m] /\ m # c => st[par[c]] \subseteq st[m]
    BY <2>1, Upward
  <2> QED
    BY <1>0, <2>2
<1>2. /\ g \in L /\ u \in L /\ g # P /\ u # P /\ lc[g] # NullNode
      /\ {P, u} = {lc[g], rc[g]} /\ g # u /\ par[u] = g /\ sib[u] = P
      /\ st[u] # {} /\ st[P] \cap st[u] = {} /\ st[g] = st[P] \cup st[u]
  BY <1>0, <1>1, Upward, SMTT(30)
<1>3. /\ up \subseteq L /\ \A n \in up : st[P] \subseteq st[n]
      /\ \A n \in L : st[P] \subseteq st[n] => n \in up
  BY <1>0
<1>4. g \in up /\ P \in up /\ c \notin up /\ s \notin up /\ u \notin up
  <2>1. ~ st[P] \subseteq st[c] /\ ~ st[P] \subseteq st[s] /\ ~ st[P] \subseteq st[u]
    BY <1>1, <1>2
  <2> QED
    BY <1>1, <1>2, <1>3, <2>1
<1>5. g # c /\ g # s /\ u # c /\ u # s
  BY <1>1, <1>2, <1>4
<1>6. \A n \in L : n # NullNode /\ n \in N
  BY DEF Linked, Typed
<1> QED
  BY <1>0, <1>1, <1>2, <1>3, <1>4, <1>5, <1>6

\* What the pointers and label sets are after the cut, node by node.
CutMoves(N, L, par, sib, lc, rc, st, c, P, s, g, u, up,
         par2, sib2, lc2, rc2, st2, L2) ==
    /\ \A n \in N : n # s /\ n # c => par2[n] = par[n]
    /\ par2[s] = g /\ par2[c] = NullNode
    /\ \A n \in N : n # s /\ n # u /\ n # c => sib2[n] = sib[n]
    /\ sib2[s] = u /\ sib2[u] = s /\ sib2[c] = NullNode
    /\ \A n \in N : n # g => {lc2[n], rc2[n]} = {lc[n], rc[n]}
    /\ \A n \in N \ up : lc2[n] = lc[n] /\ rc2[n] = rc[n]
    /\ {lc2[g], rc2[g]} = {s, u}
    /\ \A n \in up : st[c] \subseteq st[n] /\ st2[n] = st[n] \ st[c]
    /\ \A n \in L \ up : st2[n] = st[n]
    /\ Apart(L2, st2)
    /\ LabelSets(st2, L2) = CutEdge(LabelSets(st, L), st[c])
    /\ Typed(N, L2, par2, sib2, lc2, rc2, st2)

\* The links after the cut move the pointers so.
LEMMA CutPointers ==
    ASSUME NEW N, NEW L, NEW par, NEW sib, NEW lc, NEW rc, NEW st,
           Linked(N, L, par, sib, lc, rc, st),
           NEW c, NEW P, NEW s, NEW g, NEW u, NEW up,
           Cutting(L, par, sib, st, c, P, s, g, u, up),
           NEW par2, NEW sib2, NEW lc2, NEW rc2, NEW st2,
           Relinked(N, par, sib, lc, rc, st, c, P, s, g, u, up,
                    par2, sib2, lc2, rc2, st2),
           NEW L2, L2 = L \ {P}
    PROVE  CutMoves(N, L, par, sib, lc, rc, st, c, P, s, g, u, up,
                    par2, sib2, lc2, rc2, st2, L2)
<1>1. Typed(N, L, par, sib, lc, rc, st)
  BY DEF Linked
<1>2. /\ c \in L /\ P \in L /\ s \in L /\ s # c /\ g \in L /\ u \in L /\ u # c /\ u # s
      /\ {P, u} = {lc[g], rc[g]} /\ P # u /\ g \in up /\ up \subseteq L
      /\ \A n \in L : n # NullNode /\ n \in N
      /\ c \in N /\ s \in N /\ g \in N /\ u \in N
  <2>1. /\ c \in L /\ P \in L /\ s \in L /\ s # c /\ g \in L /\ u \in L /\ u # c
        /\ u # s /\ {P, u} = {lc[g], rc[g]} /\ P # u /\ g \in up /\ up \subseteq L
        /\ \A n \in L : n # NullNode /\ n \in N
    BY CutPlaces
  <2> QED
    BY <2>1
<1>3. /\ \A n \in N : n # s /\ n # c => par2[n] = par[n]
      /\ par2[s] = g /\ par2[c] = NullNode
      /\ \A n \in N : n # s /\ n # u /\ n # c => sib2[n] = sib[n]
      /\ sib2[s] = u /\ sib2[u] = s /\ sib2[c] = NullNode
      /\ par2 \in [N -> N \cup {NullNode}] /\ sib2 \in [N -> N \cup {NullNode}]
  BY <1>1, <1>2 DEF Relinked, Typed
<1> DEFINE lefts == [lc EXCEPT ![g] = IF @ = P THEN s ELSE @]
           rights == [rc EXCEPT ![g] = IF lc[g] = P THEN @ ELSE s]
<1>4.    /\ lc2 \in [N -> N \cup {NullNode}] /\ rc2 \in [N -> N \cup {NullNode}]
         /\ \A n \in N : Children(lefts, rights, lc2, rc2, n)
         /\ \A n \in N \ up : lc2[n] = lefts[n] /\ rc2[n] = rights[n]
  BY DEF Relinked
<1>5. /\ \A n \in N : n # g => lefts[n] = lc[n] /\ rights[n] = rc[n]
      /\ {lefts[g], rights[g]} = {s, u}
  <2>1. DOMAIN lc = N /\ DOMAIN rc = N
    BY <1>1 DEF Typed
  <2>2. lefts[g] = (IF lc[g] = P THEN s ELSE lc[g])
        /\ rights[g] = (IF lc[g] = P THEN rc[g] ELSE s)
    BY <1>2, <2>1
  <2>3. (lc[g] = P /\ rc[g] = u) \/ (lc[g] = u /\ rc[g] = P)
    BY <1>2
  <2>4. {lefts[g], rights[g]} = {s, u}
    BY <1>2, <2>2, <2>3
  <2>5. \A n \in N : n # g => lefts[n] = lc[n] /\ rights[n] = rc[n]
    BY <2>1
  <2> QED
    BY <2>4, <2>5
<1> HIDE DEF lefts, rights
<1>6. \A n \in N : {lc2[n], rc2[n]} = {lefts[n], rights[n]}
  BY <1>4 DEF Children
<1>7. Lessened(L, st, st2, c, up)
  BY <1>2 DEF Relinked, Lessened
<1>8. /\ Apart(L2, st2)
      /\ LabelSets(st2, L2) = CutEdge(LabelSets(st, L), st[c])
      /\ Lost(L, st, st2, c, up)
  <2>0. c \in L
    BY <1>2
  <2>1. par[c] # NullNode /\ up = From(L, st, par[c])
        /\ L2 = L \ {par[c]}
    BY DEF Cutting
  <2> QED
    BY <2>0, <1>7, <2>1, CutSets
<1>9. st2 \in [N -> Node]
  <2>1. ASSUME NEW n \in N
        PROVE  (IF n \in up THEN SymDiff(st[n], st[c]) ELSE st[n]) \in Node
    BY <1>1, <1>2 DEF Typed, Node, SymDiff
  <2> QED
    BY <2>1 DEF Relinked
<1>10. Typed(N, L2, par2, sib2, lc2, rc2, st2)
  BY <1>1, <1>3, <1>4, <1>9 DEF Typed
<1>11. /\ \A n \in N : n # g => {lc2[n], rc2[n]} = {lc[n], rc[n]}
       /\ \A n \in N \ up : lc2[n] = lc[n] /\ rc2[n] = rc[n]
       /\ {lc2[g], rc2[g]} = {s, u}
  BY <1>2, <1>4, <1>5, <1>6
<1> QED
  BY <1>3, <1>8, <1>10, <1>11 DEF Lost, CutMoves

\* What happens to leaves in a cut.
LeavesKept(L2, lc, st, lc2, st2, up) ==
    \A n \in L2 : /\ lc2[n] = NullNode <=> lc[n] = NullNode
                  /\ lc[n] = NullNode => n \notin up /\ st2[n] = st[n]

\* The parent is no root: it is spliced out and the nodes above it lose the
\* labels of the child.
LEMMA CutUnderInner ==
    ASSUME NEW N, NEW L, NEW par, NEW sib, NEW lc, NEW rc, NEW st,
           Linked(N, L, par, sib, lc, rc, st),
           NEW c, NEW P, NEW s, NEW g, NEW u, NEW up,
           Cutting(L, par, sib, st, c, P, s, g, u, up),
           NEW par2, NEW sib2, NEW lc2, NEW rc2, NEW st2,
           Relinked(N, par, sib, lc, rc, st, c, P, s, g, u, up,
                    par2, sib2, lc2, rc2, st2),
           NEW L2, L2 = L \ {P}
    PROVE  /\ Linked(N, L2, par2, sib2, lc2, rc2, st2)
           /\ LabelSets(st2, L2) = CutEdge(LabelSets(st, L), st[c])
           /\ Tops(L2, par2) = Tops(L, par) \cup {c}
           /\ LeavesKept(L2, lc, st, lc2, st2, up)
<1>1. /\ c \in L /\ P \in L /\ s \in L /\ P # c /\ s # c /\ lc[P] # NullNode
      /\ {c, s} = {lc[P], rc[P]} /\ P # s /\ par[c] = P /\ par[s] = P
      /\ sib[c] = s /\ sib[s] = c
      /\ st[c] # {} /\ st[s] # {} /\ st[c] \cap st[s] = {}
      /\ st[P] = st[c] \cup st[s]
      /\ \A m \in L : st[c] \subseteq st[m] /\ m # c => st[P] \subseteq st[m]
      /\ g \in L /\ u \in L /\ g # P /\ u # P /\ lc[g] # NullNode
      /\ {P, u} = {lc[g], rc[g]} /\ g # u /\ par[u] = g /\ sib[u] = P
      /\ par[P] = g /\ sib[P] = u
      /\ st[u] # {} /\ st[P] \cap st[u] = {} /\ st[g] = st[P] \cup st[u]
      /\ up \subseteq L /\ \A n \in up : st[P] \subseteq st[n]
      /\ \A n \in L : st[P] \subseteq st[n] => n \in up
      /\ g \in up /\ P \in up /\ c \notin up /\ s \notin up /\ u \notin up
      /\ g # c /\ g # s /\ u # c /\ u # s
      /\ \A n \in L : n # NullNode /\ n \in N
  BY CutPlaces, SMTT(30)
<1>2. /\ \A n \in N : n # s /\ n # c => par2[n] = par[n]
      /\ par2[s] = g /\ par2[c] = NullNode
      /\ \A n \in N : n # s /\ n # u /\ n # c => sib2[n] = sib[n]
      /\ sib2[s] = u /\ sib2[u] = s /\ sib2[c] = NullNode
      /\ \A n \in N : n # g => {lc2[n], rc2[n]} = {lc[n], rc[n]}
      /\ \A n \in N \ up : lc2[n] = lc[n] /\ rc2[n] = rc[n]
      /\ {lc2[g], rc2[g]} = {s, u}
      /\ \A n \in up : st[c] \subseteq st[n] /\ st2[n] = st[n] \ st[c]
      /\ \A n \in L \ up : st2[n] = st[n]
      /\ Apart(L2, st2)
      /\ LabelSets(st2, L2) = CutEdge(LabelSets(st, L), st[c])
      /\ Typed(N, L2, par2, sib2, lc2, rc2, st2)
  <2>1. CutMoves(N, L, par, sib, lc, rc, st, c, P, s, g, u, up,
                 par2, sib2, lc2, rc2, st2, L2)
    BY CutPointers
  <2> QED
    BY <2>1 DEF CutMoves
<1>3. /\ \A n \in L : st[n] # {}
      /\ \A n, m \in L : st[n] = st[m] => n = m
      /\ \A n, m \in L : st[n] \cap st[m] = {} \/ st[n] \subseteq st[m]
                         \/ st[m] \subseteq st[n]
  BY DEF Linked, Apart
<1>4. ASSUME NEW n \in L2, lc[n] = NullNode
      PROVE  /\ lc2[n] = NullNode /\ Bottom(L2, rc2, st2, n)
             /\ n \notin up /\ st2[n] = st[n]
  <2>1. rc[n] = NullNode /\ \A m \in L : st[m] \subseteq st[n] => m = n
    BY <1>4, Downward DEF Bottom
  <2>2. n \in L /\ n # g /\ n # P /\ n \in N
    BY <1>1, <1>4
  <2>3. n \notin up
    BY <1>1, <2>1, <2>2
  <2>4. lc2[n] = NullNode /\ rc2[n] = NullNode /\ st2[n] = st[n]
    BY <1>2, <1>4, <2>1, <2>2, <2>3
  <2>5. ASSUME NEW m \in L2, st2[m] \subseteq st2[n]
        PROVE  m = n
    <3>1. CASE m \notin up
      BY <1>2, <2>1, <2>4, <2>5, <3>1
    <3>2. CASE m \in up
      <4>1. st2[m] = st[m] \ st[c] /\ st[P] \subseteq st[m] /\ m \in L
        BY <1>1, <1>2, <3>2
      <4>2. st[s] \subseteq st[n]
        BY <1>1, <2>4, <2>5, <4>1
      <4>3. s = n
        BY <1>1, <2>1, <4>2
      <4>4. st[m] = st[P]
        BY <1>1, <2>4, <2>5, <4>1, <4>3
      <4>5. m = P
        BY <1>1, <1>3, <4>1, <4>4
      <4> QED
        BY <4>5
    <3> QED
      BY <3>1, <3>2
  <2> QED
    BY <2>3, <2>4, <2>5 DEF Bottom
<1>5. ASSUME NEW n \in L2, lc[n] # NullNode
      PROVE  \E x \in L2, y \in L2 :
                /\ {lc2[n], rc2[n]} = {x, y} /\ x # y
                /\ par2[x] = n /\ par2[y] = n /\ sib2[x] = y /\ sib2[y] = x
                /\ st2[x] \cap st2[y] = {} /\ st2[n] = st2[x] \cup st2[y]
  <2>1. n \in L /\ n # P /\ n \in N /\ n # NullNode
    BY <1>1
  <2>2. CASE n = g
    <3>1. s \in L2 /\ u \in L2 /\ s # u /\ par2[s] = n /\ par2[u] = n
          /\ sib2[s] = u /\ sib2[u] = s /\ {lc2[n], rc2[n]} = {s, u}
      BY <1>1, <1>2, <2>2
    <3>2. st2[s] = st[s] /\ st2[u] = st[u] /\ st2[n] = st[n] \ st[c]
      BY <1>1, <1>2, <2>2
    <3>3. st2[s] \cap st2[u] = {} /\ st2[n] = st2[s] \cup st2[u]
      BY <1>1, <2>2, <3>2
    <3> QED
      BY <3>1, <3>3
  <2>3. CASE n # g
    <3>1. PICK x \in L, y \in L : x = lc[n] /\ y = rc[n] /\ x # y
             /\ par[x] = n /\ par[y] = n
             /\ sib[x] = y /\ sib[y] = x /\ st[x] \cap st[y] = {}
             /\ st[n] = st[x] \cup st[y] /\ {lc2[n], rc2[n]} = {x, y}
      <4>1. Splits(L, par, sib, lc, rc, st, n)
        BY <1>5, <2>1, Downward
      <4> QED
        BY <1>2, <2>1, <2>3, <4>1 DEF Splits
    <3>2. x \notin {c, s, u, P} /\ y \notin {c, s, u, P}
      BY <1>1, <2>1, <2>3, <3>1
    <3>3. /\ x \in L2 /\ y \in L2 /\ par2[x] = n /\ par2[y] = n
          /\ sib2[x] = y /\ sib2[y] = x
      BY <1>1, <1>2, <3>1, <3>2
    <3>4. CASE n \notin up
      <4>1. x \notin up /\ y \notin up
        <5>1. st[x] \subseteq st[n] /\ st[y] \subseteq st[n]
          BY <3>1
        <5> QED
          BY <1>1, <2>1, <3>4, <5>1
      <4>2. st2[x] = st[x] /\ st2[y] = st[y] /\ st2[n] = st[n]
        BY <1>2, <2>1, <3>1, <3>4, <4>1
      <4> QED
        BY <3>1, <3>3, <4>2
    <3>5. CASE n \in up
      <4>1. ASSUME NEW z \in {x, y}
            PROVE  st2[z] = st[z] \ st[c]
        <5>1. CASE z \in up
          BY <1>2, <5>1
        <5>2. CASE z \notin up
          <6>1. z \in L /\ z # c /\ par[z] = n /\ par[z] # NullNode
            BY <2>1, <3>1, <3>2
          <6>2. ~ st[c] \subseteq st[z]
            BY <1>1, <5>2, <6>1
          <6>3. ~ st[z] \subseteq st[c]
            <7>1. SUFFICES ASSUME st[z] \subseteq st[c] PROVE FALSE
              OBVIOUS
            <7>2. st[n] \subseteq st[c]
              BY <1>1, <6>1, <7>1, Upward
            <7> QED
              BY <1>1, <3>5, <7>2
          <6>4. st[z] \cap st[c] = {}
            BY <1>1, <1>3, <6>1, <6>2, <6>3
          <6> QED
            BY <1>2, <5>2, <6>1, <6>4
        <5> QED
          BY <5>1, <5>2
      <4>2. st2[x] = st[x] \ st[c] /\ st2[y] = st[y] \ st[c] /\ st2[n] = st[n] \ st[c]
        BY <1>2, <3>5, <4>1
      <4>3. st2[n] = st2[x] \cup st2[y] /\ st2[x] \cap st2[y] = {}
        BY <3>1, <4>2
      <4> QED
        BY <3>1, <3>3, <4>3
    <3> QED
      BY <3>4, <3>5
  <2> QED
    BY <2>2, <2>3
<1>6. ASSUME NEW n \in L2, lc[n] # NullNode
      PROVE  lc2[n] # NullNode /\ Splits(L2, par2, sib2, lc2, rc2, st2, n)
  <2>1. PICK x \in L2, y \in L2 :
                /\ {lc2[n], rc2[n]} = {x, y} /\ x # y
                /\ par2[x] = n /\ par2[y] = n /\ sib2[x] = y /\ sib2[y] = x
                /\ st2[x] \cap st2[y] = {} /\ st2[n] = st2[x] \cup st2[y]
    BY <1>5, <1>6
  <2>2. (lc2[n] = x /\ rc2[n] = y) \/ (lc2[n] = y /\ rc2[n] = x)
    BY <2>1
  <2>3. x # NullNode /\ y # NullNode
    BY <1>1
  <2> QED
    BY <2>1, <2>2, <2>3 DEF Splits
<1>7. ASSUME NEW n \in L2
      PROVE  IF par2[n] = NullNode THEN sib2[n] = NullNode
             ELSE Hangs(L2, par2, lc2, rc2, n)
  <2>1. CASE n = c
    BY <1>2, <2>1
  <2>2. CASE n = s
    <3>1. par2[n] = g /\ g \in L2 /\ lc2[g] # NullNode /\ n \in {lc2[g], rc2[g]}
      BY <1>1, <1>2, <1>6, <2>2
    <3> QED
      BY <1>1, <3>1 DEF Hangs
  <2>3. CASE n # c /\ n # s
    <3>1. par2[n] = par[n] /\ n \in L /\ n # P
      BY <1>1, <1>2, <2>3
    <3>2. CASE par[n] = NullNode
      <4>1. n # u /\ sib[n] = NullNode
        BY <1>1, <3>1, <3>2 DEF Linked, Hooked
      <4> QED
        BY <1>1, <1>2, <2>3, <3>1, <3>2, <4>1
    <3>3. CASE par[n] # NullNode
      <4>1. par[n] \in L /\ lc[par[n]] # NullNode /\ n \in {lc[par[n]], rc[par[n]]}
        BY <3>1, <3>3 DEF Linked, Hooked, Hangs
      <4>2. par[n] # P /\ par[n] \in L2
        BY <1>1, <2>3, <4>1
      <4>3. n \in {lc2[par[n]], rc2[par[n]]}
        <5>1. CASE par[n] = g
          BY <1>1, <1>2, <3>1, <4>1, <5>1
        <5>2. CASE par[n] # g
          BY <1>1, <1>2, <4>1, <5>2
        <5> QED
          BY <5>1, <5>2
      <4>4. lc2[par[n]] # NullNode
        BY <1>6, <4>1, <4>2
      <4> QED
        BY <3>1, <3>3, <4>2, <4>3, <4>4 DEF Hangs
    <3> QED
      BY <3>2, <3>3
  <2> QED
    BY <2>1, <2>2, <2>3
<1>8. {n \in L2 : par2[n] = NullNode} = {n \in L : par[n] = NullNode} \cup {c}
  <2>1. \A n \in L : n # s /\ n # c => par2[n] = par[n]
    BY <1>1, <1>2
  <2>2. par[s] # NullNode /\ par2[s] # NullNode /\ par2[c] = NullNode
        /\ par[P] # NullNode /\ c \in L2
    BY <1>1, <1>2
  <2> QED
    BY <2>1, <2>2
<1>9. Linked(N, L2, par2, sib2, lc2, rc2, st2)
  <2>1. Downwards(L2, par2, sib2, lc2, rc2, st2)
    BY <1>4, <1>6 DEF Downwards
  <2>2. Hooked(L2, par2, sib2, lc2, rc2)
    BY <1>7 DEF Hooked
  <2> QED
    BY <1>2, <2>1, <2>2 DEF Linked
<1>10. LeavesKept(L2, lc, st, lc2, st2, up)
  BY <1>4, <1>6 DEF LeavesKept
<1> QED
  BY <1>2, <1>8, <1>9, <1>10 DEF Tops

\* The children of the nodes in up are put in order.
Resorted(N, up, lefts, rights, st, lc, rc) ==
    LET swapped == SwappedIn(up, lefts, rights, st)
    IN  /\ lc = [n \in N |-> IF n \in swapped THEN rights[n] ELSE lefts[n]]
        /\ rc = [n \in N |-> IF n \in swapped THEN lefts[n] ELSE rights[n]]

\* Node by node.
LEMMA ResortedNodes ==
    ASSUME NEW N, NEW lefts \in [N -> N \cup {NullNode}],
           NEW rights \in [N -> N \cup {NullNode}], NEW up \in SUBSET N,
           NEW st, NEW lc, NEW rc, Resorted(N, up, lefts, rights, st, lc, rc)
    PROVE  /\ lc \in [N -> N \cup {NullNode}] /\ rc \in [N -> N \cup {NullNode}]
           /\ \A n \in N : Children(lefts, rights, lc, rc, n)
           /\ \A n \in N \ up : lc[n] = lefts[n] /\ rc[n] = rights[n]
           /\ \A n \in up :
                 IF HasSmallestTerminal(st[rights[n]], st[lefts[n]])
                 THEN lc[n] = rights[n] /\ rc[n] = lefts[n]
                 ELSE lc[n] = lefts[n] /\ rc[n] = rights[n]
<1> DEFINE swapped == SwappedIn(up, lefts, rights, st)
<1>1. /\ lc = [n \in N |-> IF n \in swapped THEN rights[n] ELSE lefts[n]]
      /\ rc = [n \in N |-> IF n \in swapped THEN lefts[n] ELSE rights[n]]
  BY DEF Resorted
<1>2. \A n : n \in swapped <=> n \in up /\ HasSmallestTerminal(st[rights[n]], st[lefts[n]])
  BY DEF SwappedIn
<1> HIDE DEF swapped
<1> QED
  BY <1>1, <1>2 DEF Children

\* In order they are, told apart as the label sets are.
LEMMA ResortedInOrder ==
    ASSUME ZeroWordsAreHarmless,
           NEW N, NEW L, NEW par, NEW sib, NEW lc, NEW rc, NEW st,
           Linked(N, L, par, sib, lc, rc, st), NEW n \in L, lc[n] # NullNode,
           NEW lefts, NEW rights,
           IF HasSmallestTerminal(st[rights[n]], st[lefts[n]])
           THEN lc[n] = rights[n] /\ rc[n] = lefts[n]
           ELSE lc[n] = lefts[n] /\ rc[n] = rights[n]
    PROVE  Smallest(st[lc[n]]) < Smallest(st[rc[n]])
<1>1. /\ lc[n] \in L /\ rc[n] \in L /\ st[lc[n]] \cap st[rc[n]] = {}
      /\ st[lc[n]] # {} /\ st[rc[n]] # {}
  BY Downward DEF Splits
<1>2. st[lc[n]] \in SUBSET Labels /\ st[rc[n]] \in SUBSET Labels
  BY <1>1 DEF Linked, Typed, Node
<1>3. /\ HasSmallestTerminal(st[lc[n]], st[rc[n]])
            <=> Smallest(st[lc[n]]) < Smallest(st[rc[n]])
      /\ HasSmallestTerminal(st[rc[n]], st[lc[n]])
            <=> Smallest(st[rc[n]]) < Smallest(st[lc[n]])
      /\ Smallest(st[lc[n]]) \in Nat /\ Smallest(st[rc[n]]) \in Nat
      /\ Smallest(st[lc[n]]) # Smallest(st[rc[n]])
  BY <1>1, <1>2, ComparesSmallest
<1> QED
  BY <1>3

-----------------------------------------------------------------------------
(* Collapsed nodes.  M are the nodes reached if every collapse were        *)
(* opened again, C the collapsed ones among them.                          *)

\* n is below a collapsed node.
Under(st, C, n) == \E c \in C : st[n] \subseteq st[c] /\ n # c

\* The nodes of M below no collapsed node.
Visible(M, st, C) == {n \in M : ~ Under(st, C, n)}

\* The child pointers with the collapsed nodes closed.
Closed(N, C, ch) == [n \in N |-> IF n \in C THEN NullNode ELSE ch[n]]

\* Closing nodes leaves a linked forest with the same roots.
LEMMA ClosedLinked ==
    ASSUME NEW N, NEW M, NEW par, NEW sib, NEW lx, NEW rx, NEW st,
           Linked(N, M, par, sib, lx, rx, st), InChildOrder(M, lx, rx, st),
           NEW C \in SUBSET M, NEW L, L = Visible(M, st, C),
           NEW lc, lc = Closed(N, C, lx), NEW rc, rc = Closed(N, C, rx)
    PROVE  /\ Linked(N, L, par, sib, lc, rc, st) /\ InChildOrder(L, lc, rc, st)
           /\ {n \in L : par[n] = NullNode} = {n \in M : par[n] = NullNode}
<1>1. Typed(N, M, par, sib, lx, rx, st) /\ M \subseteq N
  BY DEF Linked, Typed
<1>2. /\ \A n : n \in L <=> n \in M /\ ~ Under(st, C, n)
      /\ \A n \in M : lc[n] = IF n \in C THEN NullNode ELSE lx[n]
      /\ \A n \in M : rc[n] = IF n \in C THEN NullNode ELSE rx[n]
      /\ lc \in [N -> N \cup {NullNode}] /\ rc \in [N -> N \cup {NullNode}]
  BY <1>1 DEF Visible, Closed, Typed
<1>3. Typed(N, L, par, sib, lc, rc, st)
  BY <1>1, <1>2 DEF Typed
<1>4. /\ \A n \in M : st[n] # {} /\ st[n] \in Node
      /\ \A n, m \in M : st[n] = st[m] => n = m
  BY <1>1 DEF Linked, Apart, Typed
<1>5. Apart(L, st)
  <2>1. ASSUME NEW l \in Labels
        PROVE  \E n \in L : l \in st[n]
    <3> DEFINE A == {n \in M : l \in st[n]}
    <3>1. A # {} /\ A \subseteq M
      BY DEF Linked, Apart
    <3>2. \A n \in A : st[n] \in Node
      BY <1>4, <3>1
    <3> HIDE DEF A
    <3>3. PICK n : Outermost(A, st, n)
      BY <3>1, <3>2, OutermostNode
    <3>4. n \in M /\ l \in st[n] /\ \A m \in M : st[n] \subseteq st[m] => m = n
      BY <1>4, <3>1, <3>3 DEF Outermost, A
    <3>5. n \in L
      BY <1>2, <3>4 DEF Under
    <3> QED
      BY <3>4, <3>5
  <2> QED
    BY <1>2, <2>1 DEF Linked, Apart
<1>6. ASSUME NEW n \in L
      PROVE  IF lc[n] = NullNode THEN Bottom(L, rc, st, n)
             ELSE Splits(L, par, sib, lc, rc, st, n)
  <2>1. CASE n \in C
    <3>1. lc[n] = NullNode /\ rc[n] = NullNode
      BY <1>2, <2>1
    <3>2. \A m \in L : st[m] \subseteq st[n] => m = n
      BY <1>2, <2>1 DEF Under
    <3> QED
      BY <3>1, <3>2 DEF Bottom
  <2>2. CASE n \notin C
    <3>1. n \in M /\ lc[n] = lx[n] /\ rc[n] = rx[n]
      BY <1>2, <2>2
    <3>2. CASE lx[n] = NullNode
      <4>1. Bottom(M, rx, st, n)
        BY <3>1, <3>2, Downward
      <4> QED
        BY <1>2, <3>1, <3>2, <4>1 DEF Bottom
    <3>3. CASE lx[n] # NullNode
      <4>1. Splits(M, par, sib, lx, rx, st, n)
        BY <3>1, <3>3, Downward
      <4>2. ASSUME NEW x \in {lx[n], rx[n]}
            PROVE  x \in L
        <5>1. x \in M /\ par[x] = n /\ n # NullNode
          BY <1>1, <3>1, <4>1, <4>2 DEF Splits, Typed
        <5>2. \A c \in C : st[x] \subseteq st[c] /\ x # c => st[n] \subseteq st[c]
          <6>1. \A m \in M : st[x] \subseteq st[m] /\ m # x => st[par[x]] \subseteq st[m]
            BY <5>1, Upward
          <6> QED
            BY <5>1, <6>1
        <5>3. ~ Under(st, C, x)
          BY <1>2, <2>2, <5>2 DEF Under
        <5> QED
          BY <1>2, <5>1, <5>3
      <4> QED
        BY <3>1, <3>3, <4>1, <4>2 DEF Splits
    <3> QED
      BY <3>2, <3>3
  <2> QED
    BY <2>1, <2>2
<1>7. ASSUME NEW n \in L
      PROVE  IF par[n] = NullNode THEN sib[n] = NullNode
             ELSE Hangs(L, par, lc, rc, n)
  <2>1. CASE par[n] = NullNode
    BY <1>2, <2>1 DEF Linked, Hooked
  <2>2. CASE par[n] # NullNode
    <3>1. /\ n \in M /\ par[n] \in M /\ lx[par[n]] # NullNode
          /\ n \in {lx[par[n]], rx[par[n]]}
          /\ st[n] \subseteq st[par[n]] /\ par[n] # n
      <4>1. n \in M
        BY <1>2
      <4>2. /\ par[n] \in M /\ sib[n] \in M /\ par[n] # n
            /\ lx[par[n]] # NullNode
            /\ {n, sib[n]} = {lx[par[n]], rx[par[n]]}
            /\ st[par[n]] = st[n] \cup st[sib[n]]
        BY <2>2, <4>1, Upward
      <4> QED
        BY <4>1, <4>2
    <3>2. par[n] \notin C
      BY <1>2, <3>1 DEF Under
    <3>3. par[n] \in L
      <4>1. SUFFICES ASSUME NEW c \in C, st[par[n]] \subseteq st[c], par[n] # c
                     PROVE  FALSE
        BY <3>1 DEF Under, Visible
      <4>2. st[n] \subseteq st[c] /\ c \in M
        BY <3>1, <4>1
      <4>3. n # c
        <5>1. SUFFICES ASSUME n = c PROVE FALSE
          OBVIOUS
        <5>2. st[n] = st[par[n]]
          BY <3>1, <4>1, <5>1
        <5> QED
          BY <1>4, <3>1, <5>2
      <4> QED
        BY <1>2, <4>2, <4>3 DEF Under
    <3> QED
      BY <1>2, <2>2, <3>1, <3>2, <3>3 DEF Hangs
  <2> QED
    BY <2>1, <2>2
<1>8. {n \in L : par[n] = NullNode} = {n \in M : par[n] = NullNode}
  <2>1. ASSUME NEW n \in M, par[n] = NullNode, NEW c \in C, st[n] \subseteq st[c]
        PROVE  c = n
    BY <2>1, Topmost
  <2>2. \A n \in M : par[n] = NullNode => n \in L
    BY <1>2, <2>1 DEF Under
  <2> QED
    BY <1>2, <2>2
<1>9. InChildOrder(L, lc, rc, st)
  BY <1>2 DEF InChildOrder
<1> QED
  BY <1>3, <1>5, <1>6, <1>7, <1>8, <1>9 DEF Linked, Downwards, Hooked

-----------------------------------------------------------------------------
(* The roots, in the order of their smallest labels.                       *)

\* A concatenation, place by place.
LEMMA Concatenated ==
    ASSUME NEW N, NEW a \in Seq(N), NEW b \in Seq(N)
    PROVE  /\ a \o b \in Seq(N) /\ Len(a \o b) = Len(a) + Len(b)
           /\ \A k \in 1..Len(a) : (a \o b)[k] = a[k]
           /\ \A k \in (Len(a) + 1)..(Len(a) + Len(b)) : (a \o b)[k] = b[k - Len(a)]
<1>1. Len(a) \in Nat /\ Len(b) \in Nat
  OBVIOUS
<1>2. a \o b \in Seq(N) /\ Len(a \o b) = Len(a) + Len(b)
  OBVIOUS
<1>3. \A k \in 1..Len(a) : (a \o b)[k] = a[k]
  BY <1>1
<1>4. \A k \in (Len(a) + 1)..(Len(a) + Len(b)) : (a \o b)[k] = b[k - Len(a)]
  BY <1>1
<1> QED
  BY <1>2, <1>3, <1>4

\* InsertAt, place by place.
LEMMA InsertedAt ==
    ASSUME NEW N, NEW s \in Seq(N), NEW j \in 1..(Len(s) + 1), NEW x \in N
    PROVE  /\ InsertAt(s, j, x) \in Seq(N)
           /\ Len(InsertAt(s, j, x)) = Len(s) + 1
           /\ \A k \in 1..(Len(s) + 1) :
                 InsertAt(s, j, x)[k] = IF k < j THEN s[k]
                                        ELSE IF k = j THEN x ELSE s[k - 1]
<1>1. PICK a : a = SubSeq(s, 1, j - 1)
  OBVIOUS
<1>2. PICK b : b = SubSeq(s, j, Len(s))
  OBVIOUS
<1>3. /\ a \in Seq(N) /\ Len(a) = j - 1 /\ \A k \in 1..(j - 1) : a[k] = s[k]
  BY <1>1
<1>4. /\ b \in Seq(N) /\ Len(b) = Len(s) + 1 - j
      /\ \A k \in 1..(Len(s) + 1 - j) : b[k] = s[j + k - 1]
  BY <1>2
<1>5. InsertAt(s, j, x) = (a \o <<x>>) \o b
  BY <1>1, <1>2 DEF InsertAt
<1>6. PICK ax : ax = a \o <<x>>
  OBVIOUS
<1>7. /\ ax \in Seq(N) /\ Len(ax) = j /\ ax[j] = x
      /\ \A k \in 1..(j - 1) : ax[k] = s[k]
  BY <1>3, <1>6
<1>8. PICK t : t = ax \o b
  OBVIOUS
<1>9. /\ t \in Seq(N) /\ Len(t) = Len(s) + 1
      /\ \A k \in 1..j : t[k] = ax[k]
      /\ \A k \in (j + 1)..(Len(s) + 1) : t[k] = s[k - 1]
  <2>1. Len(s) \in Nat /\ j \in 1..(Len(s) + 1) /\ Len(ax) = j
        /\ Len(b) = Len(s) + 1 - j /\ ax \in Seq(N) /\ b \in Seq(N)
    BY <1>4, <1>7
  <2>2. t \in Seq(N) /\ Len(t) = Len(ax) + Len(b)
        /\ (\A k \in 1..Len(ax) : t[k] = ax[k])
        /\ \A k \in (Len(ax) + 1)..(Len(ax) + Len(b)) : t[k] = b[k - Len(ax)]
    BY <1>8, <2>1, Concatenated
  <2>3. ASSUME NEW k \in (j + 1)..(Len(s) + 1)
        PROVE  t[k] = s[k - 1]
    <3>1. k - j \in 1..(Len(s) + 1 - j) /\ j + (k - j) - 1 = k - 1
      BY <2>1
    <3>2. t[k] = b[k - j]
      BY <2>1, <2>2
    <3> QED
      BY <1>4, <3>1, <3>2
  <2> QED
    BY <2>1, <2>2, <2>3
<1>10. InsertAt(s, j, x) = t
  BY <1>5, <1>6, <1>8
<1>11. ASSUME NEW k \in 1..(Len(s) + 1)
       PROVE  t[k] = IF k < j THEN s[k] ELSE IF k = j THEN x ELSE s[k - 1]
  <2>1. Len(s) \in Nat /\ k \in Nat /\ j \in Nat
    OBVIOUS
  <2>2. CASE k < j
    BY <1>7, <1>9, <2>1, <2>2
  <2>3. CASE k = j
    BY <1>7, <1>9, <2>1, <2>3
  <2>4. CASE j < k
    BY <1>9, <2>1, <2>4
  <2> QED
    BY <2>1, <2>2, <2>3, <2>4
<1> QED
  BY <1>9, <1>10, <1>11

\* RemoveAt, place by place.
LEMMA RemovedAt ==
    ASSUME NEW N, NEW s \in Seq(N), NEW j \in 1..Len(s)
    PROVE  /\ RemoveAt(s, j) \in Seq(N) /\ Len(RemoveAt(s, j)) = Len(s) - 1
           /\ \A k \in 1..(Len(s) - 1) :
                 RemoveAt(s, j)[k] = IF k < j THEN s[k] ELSE s[k + 1]
<1>1. PICK a : a = SubSeq(s, 1, j - 1)
  OBVIOUS
<1>2. PICK b : b = SubSeq(s, j + 1, Len(s))
  OBVIOUS
<1>3. /\ a \in Seq(N) /\ Len(a) = j - 1 /\ \A k \in 1..(j - 1) : a[k] = s[k]
  BY <1>1
<1>4. /\ b \in Seq(N) /\ Len(b) = Len(s) - j
      /\ \A k \in 1..(Len(s) - j) : b[k] = s[j + k]
  BY <1>2
<1>5. PICK t : t = a \o b
  OBVIOUS
<1>6. /\ t \in Seq(N) /\ Len(t) = Len(s) - 1
      /\ \A k \in 1..(j - 1) : t[k] = s[k]
      /\ \A k \in j..(Len(s) - 1) : t[k] = s[k + 1]
  <2>1. Len(s) \in Nat /\ j \in 1..Len(s) /\ Len(a) = j - 1
        /\ Len(b) = Len(s) - j /\ a \in Seq(N) /\ b \in Seq(N)
    BY <1>3, <1>4
  <2>2. t \in Seq(N) /\ Len(t) = Len(a) + Len(b)
        /\ (\A k \in 1..Len(a) : t[k] = a[k])
        /\ \A k \in (Len(a) + 1)..(Len(a) + Len(b)) : t[k] = b[k - Len(a)]
    BY <1>5, <2>1, Concatenated
  <2>3. ASSUME NEW k \in j..(Len(s) - 1)
        PROVE  t[k] = s[k + 1]
    <3>1. k - (j - 1) \in 1..(Len(s) - j) /\ j + (k - (j - 1)) = k + 1
      BY <2>1
    <3>2. t[k] = b[k - (j - 1)]
      BY <2>1, <2>2
    <3> QED
      BY <1>4, <3>1, <3>2
  <2> QED
    BY <1>3, <2>1, <2>2, <2>3
<1>7. RemoveAt(s, j) = t
  BY <1>1, <1>2, <1>5 DEF RemoveAt
<1>8. ASSUME NEW k \in 1..(Len(s) - 1)
      PROVE  t[k] = IF k < j THEN s[k] ELSE s[k + 1]
  <2>1. Len(s) \in Nat /\ k \in Nat /\ j \in Nat
    OBVIOUS
  <2>2. CASE k < j
    BY <1>6, <2>1, <2>2
  <2>3. CASE ~ k < j
    BY <1>6, <2>1, <2>3
  <2> QED
    BY <2>2, <2>3
<1> QED
  BY <1>6, <1>7, <1>8

\* The i-th root replaced by y, and x inserted after it.
InsertedAfter(N, rts, i, y, x, j, out) ==
    /\ rts \in Seq(N) /\ i \in 1..Len(rts) /\ y \in N /\ x \in N
    /\ j \in (i + 1)..(Len(rts) + 1)
    /\ out = InsertAt([rts EXCEPT ![i] = y], j, x)

\* The i-th root set to r and the j-th erased.
SetBack(out, i, r, j) == RemoveAt([out EXCEPT ![i] = r], j)

\* The two entries set back, all roots are as they were.
LEMMA InsertedAndRemoved ==
    ASSUME NEW N, NEW rts, NEW i, NEW y, NEW x, NEW j, NEW out,
           InsertedAfter(N, rts, i, y, x, j, out)
    PROVE  SetBack(out, i, rts[i], j) = rts
<1>0. /\ rts \in Seq(N) /\ i \in 1..Len(rts) /\ y \in N /\ x \in N
      /\ j \in (i + 1)..(Len(rts) + 1)
      /\ out = InsertAt([rts EXCEPT ![i] = y], j, x)
  BY DEF InsertedAfter
<1>1. PICK kept : kept = [rts EXCEPT ![i] = y]
  OBVIOUS
<1>2. /\ kept \in Seq(N) /\ Len(kept) = Len(rts)
      /\ \A k \in 1..Len(rts) : k # i => kept[k] = rts[k]
  BY <1>0, <1>1
<1>3. /\ out \in Seq(N) /\ Len(out) = Len(rts) + 1
      /\ \A k \in 1..(Len(rts) + 1) :
            out[k] = IF k < j THEN kept[k] ELSE IF k = j THEN x ELSE kept[k - 1]
  <2>1. j \in 1..(Len(kept) + 1)
    BY <1>0, <1>2
  <2>2. out = InsertAt(kept, j, x)
    BY <1>0, <1>1
  <2>3. /\ InsertAt(kept, j, x) \in Seq(N)
        /\ Len(InsertAt(kept, j, x)) = Len(kept) + 1
        /\ \A k \in 1..(Len(kept) + 1) :
              InsertAt(kept, j, x)[k] = IF k < j THEN kept[k]
                                        ELSE IF k = j THEN x ELSE kept[k - 1]
    <3>1. kept \in Seq(N) /\ x \in N
      BY <1>0, <1>2
    <3> QED
      BY <2>1, <3>1, InsertedAt
  <2> QED
    BY <1>2, <2>2, <2>3
<1>4. PICK back : back = [out EXCEPT ![i] = rts[i]]
  OBVIOUS
<1>5. /\ back \in Seq(N) /\ Len(back) = Len(rts) + 1 /\ back[i] = rts[i]
      /\ \A k \in 1..(Len(rts) + 1) : k # i => back[k] = out[k]
  BY <1>0, <1>3, <1>4
<1>6. PICK t : t = RemoveAt(back, j)
  OBVIOUS
<1>7. /\ t \in Seq(N) /\ Len(t) = Len(rts)
      /\ \A k \in 1..Len(rts) : t[k] = IF k < j THEN back[k] ELSE back[k + 1]
  <2>1. j \in 1..Len(back) /\ Len(rts) \in Nat
    BY <1>0, <1>5
  <2>2. /\ RemoveAt(back, j) \in Seq(N) /\ Len(RemoveAt(back, j)) = Len(back) - 1
        /\ \A k \in 1..(Len(back) - 1) :
              RemoveAt(back, j)[k] = IF k < j THEN back[k] ELSE back[k + 1]
    BY <1>5, <2>1, RemovedAt
  <2>3. Len(back) - 1 = Len(rts)
    BY <1>5, <2>1
  <2> QED
    BY <1>6, <2>2, <2>3
<1>8. ASSUME NEW k \in 1..Len(rts)
      PROVE  t[k] = rts[k]
  <2>1. Len(rts) \in Nat /\ k \in Nat /\ i \in Nat /\ j \in Nat /\ i < j
        /\ k \in 1..(Len(rts) + 1) /\ k + 1 \in 1..(Len(rts) + 1) /\ (k + 1) - 1 = k
    BY <1>0
  <2>2. CASE k = i
    BY <1>5, <1>7, <2>1, <2>2
  <2>3. CASE k # i /\ k < j
    BY <1>2, <1>3, <1>5, <1>7, <2>1, <2>3
  <2>4. CASE j <= k
    <3>1. ~ k < j /\ k + 1 # i /\ ~ k + 1 < j /\ k + 1 # j
      BY <2>1, <2>4
    <3>2. t[k] = back[k + 1] /\ back[k + 1] = out[k + 1]
      BY <1>5, <1>7, <2>1, <3>1
    <3>3. out[k + 1] = kept[k]
      BY <1>3, <2>1, <3>1
    <3> QED
      BY <1>2, <2>1, <2>4, <3>2, <3>3
  <2> QED
    BY <2>1, <2>2, <2>3, <2>4
<1> QED
  <2>1. t \in Seq(N) /\ rts \in Seq(N) /\ Len(t) = Len(rts)
    BY <1>0, <1>7
  <2>2. t = rts
    BY <1>8, <2>1
  <2> QED
    BY <1>4, <1>6, <2>2 DEF SetBack

\* rts are the nodes without a parent, in the order of their smallest labels.
Rooted(M, par, st, rts) ==
    /\ rts \in Seq(M)
    /\ Range(rts) = {n \in M : par[n] = NullNode}
    /\ \A j, k \in DOMAIN rts :
          j < k => Smallest(st[rts[j]]) < Smallest(st[rts[k]])

\* Two roots share no label, and compare by their smallest ones.
LEMMA RootsApart ==
    ASSUME ZeroWordsAreHarmless,
           NEW N, NEW M, NEW par, NEW sib, NEW lc, NEW rc, NEW st,
           Linked(N, M, par, sib, lc, rc, st),
           NEW n \in M, NEW m \in M, par[n] = NullNode, par[m] = NullNode, n # m
    PROVE  /\ st[n] \cap st[m] = {}
           /\ HasSmallestTerminal(st[n], st[m]) <=> Smallest(st[n]) < Smallest(st[m])
           /\ Smallest(st[n]) \in Nat /\ Smallest(st[m]) \in Nat
           /\ Smallest(st[n]) # Smallest(st[m])
<1>1. ~ st[n] \subseteq st[m] /\ ~ st[m] \subseteq st[n]
  BY Topmost
<1>2. /\ st[n] \in SUBSET Labels /\ st[m] \in SUBSET Labels
      /\ st[n] # {} /\ st[m] # {} /\ st[n] \cap st[m] = {}
  BY <1>1 DEF Linked, Typed, Apart, Node
<1> QED
  BY <1>2, ComparesSmallest

\* The least place from the i-th on where x does not come later.
PlaceFor(n, w, x, i) == Smallest({k \in i..(n + 1) : k = n + 1 \/ ~ w[k] < x})

\* The least place from the i-th on where x does not come later keeps the
\* numbers in order.
LEMMA PlaceInOrder ==
    ASSUME NEW n \in Nat, NEW w \in [1..n -> Nat], NEW x \in Nat, NEW i \in 1..n,
           \A k, l \in 1..n : k < l => w[k] < w[l],
           w[i] < x, \A k \in 1..n : w[k] # x,
           NEW j, j = PlaceFor(n, w, x, i)
    PROVE  /\ j \in (i + 1)..(n + 1)
           /\ \A k \in 1..n : k < j => w[k] < x
           /\ \A k \in 1..n : j <= k => x < w[k]
<1> DEFINE J == {k \in i..(n + 1) : k = n + 1 \/ ~ w[k] < x}
<1>1. j \in J /\ \A k \in J : j <= k
  <2>1. J \in SUBSET Nat /\ J # {} /\ j = Smallest(J)
    <3>1. J \in SUBSET Nat /\ n + 1 \in J
      OBVIOUS
    <3> QED
      BY <3>1 DEF PlaceFor
  <2> HIDE DEF J
  <2> QED
    BY <2>1, SmallestPicks
<1>2. j \in i..(n + 1) /\ j # i
  BY <1>1
<1>3. ASSUME NEW k \in 1..n, k < j
      PROVE  w[k] < x
  <2>1. CASE i <= k
    BY <1>1, <1>3, <2>1
  <2>2. CASE k < i
    <3>1. w[k] < w[i]
      BY <2>2
    <3> QED
      BY <3>1
  <2> QED
    BY <2>1, <2>2
<1>4. ASSUME NEW k \in 1..n, j <= k
      PROVE  x < w[k]
  <2>1. j \in 1..n /\ x < w[j]
    BY <1>1, <1>2, <1>4
  <2>2. CASE k = j
    BY <2>1, <2>2
  <2>3. CASE j < k
    <3>1. w[j] < w[k]
      BY <2>1, <2>3
    <3> QED
      BY <2>1, <3>1
  <2> QED
    BY <1>4, <2>1, <2>2, <2>3
<1> QED
  BY <1>2, <1>3, <1>4

\* x, which v gives wx, is added to the n entries of s, which v gives w.
InOrderInsertion(N, s, n, j, x, w, wx, v, out) ==
    /\ s \in Seq(N) /\ n = Len(s) /\ j \in 1..(n + 1) /\ x \in N
    /\ w \in [1..n -> Nat] /\ wx \in Nat
    /\ \A k, l \in 1..n : k < l => w[k] < w[l]
    /\ \A k \in 1..n : k < j => w[k] < wx
    /\ \A k \in 1..n : j <= k => wx < w[k]
    /\ v[x] = wx /\ \A k \in 1..n : v[s[k]] = w[k]
    /\ out = InsertAt(s, j, x)

\* What is there then, and that it is in order.
LEMMA InOrderInserted ==
    ASSUME NEW N, NEW s, NEW n, NEW j, NEW x, NEW w, NEW wx, NEW v, NEW out,
           InOrderInsertion(N, s, n, j, x, w, wx, v, out)
    PROVE  /\ out \in Seq(N) /\ Len(out) = n + 1
           /\ \A m : m \in Range(out) <=> m = x \/ \E k \in 1..n : m = s[k]
           /\ \A k, l \in 1..(n + 1) : k < l => v[out[k]] < v[out[l]]
<1>0. /\ s \in Seq(N) /\ n = Len(s) /\ j \in 1..(n + 1) /\ x \in N
      /\ w \in [1..n -> Nat] /\ wx \in Nat
      /\ \A k, l \in 1..n : k < l => w[k] < w[l]
      /\ \A k \in 1..n : k < j => w[k] < wx
      /\ \A k \in 1..n : j <= k => wx < w[k]
      /\ v[x] = wx /\ \A k \in 1..n : v[s[k]] = w[k]
      /\ out = InsertAt(s, j, x)
  BY DEF InOrderInsertion
<1>1. /\ n \in Nat /\ out \in Seq(N) /\ Len(out) = n + 1 /\ DOMAIN out = 1..(n + 1)
      /\ \A k \in 1..(n + 1) :
            out[k] = IF k < j THEN s[k] ELSE IF k = j THEN x ELSE s[k - 1]
  <2>1. n \in Nat /\ j \in 1..(Len(s) + 1)
    BY <1>0
  <2>2. /\ InsertAt(s, j, x) \in Seq(N) /\ Len(InsertAt(s, j, x)) = Len(s) + 1
        /\ \A k \in 1..(Len(s) + 1) :
              InsertAt(s, j, x)[k] = IF k < j THEN s[k]
                                     ELSE IF k = j THEN x ELSE s[k - 1]
    BY <1>0, <2>1, InsertedAt, SMTT(30)
  <2> QED
    BY <1>0, <2>1, <2>2
<1>2. j \in Nat /\ 1 <= j /\ j <= n + 1
  BY <1>0, <1>1
<1>3. \A m : m \in Range(out) <=> m = x \/ \E k \in 1..n : m = s[k]
  <2>1. ASSUME NEW k \in 1..(n + 1)
        PROVE  out[k] = x \/ \E l \in 1..n : out[k] = s[l]
    <3>1. CASE k < j
      BY <1>1, <1>2, <3>1
    <3>2. CASE ~ k < j /\ k # j
      <4>1. k - 1 \in 1..n /\ out[k] = s[k - 1]
        BY <1>1, <1>2, <3>2
      <4> QED
        BY <4>1
    <3> QED
      BY <1>1, <3>1, <3>2
  <2>2. j \in 1..(n + 1) /\ out[j] = x
    BY <1>1, <1>2
  <2>3. ASSUME NEW k \in 1..n
        PROVE  \E l \in 1..(n + 1) : out[l] = s[k]
    <3>1. CASE k < j
      <4>1. k \in 1..(n + 1) /\ out[k] = s[k]
        BY <1>1, <3>1
      <4> QED
        BY <4>1
    <3>2. CASE ~ k < j
      <4>1. k + 1 \in 1..(n + 1) /\ ~ k + 1 < j /\ k + 1 # j /\ (k + 1) - 1 = k
        BY <1>1, <1>2, <3>2
      <4>2. out[k + 1] = s[k]
        BY <1>1, <4>1
      <4> QED
        BY <4>1, <4>2
    <3> QED
      BY <3>1, <3>2
  <2>4. \A m : m \in Range(out) <=> \E k \in 1..(n + 1) : m = out[k]
    BY <1>1 DEF Range
  <2>5. ASSUME NEW m
        PROVE  m \in Range(out) <=> m = x \/ \E k \in 1..n : m = s[k]
    <3>1. m \in Range(out) => m = x \/ \E k \in 1..n : m = s[k]
      BY <2>1, <2>4
    <3>2. m = x => m \in Range(out)
      BY <2>2, <2>4
    <3>3. (\E k \in 1..n : m = s[k]) => m \in Range(out)
      BY <2>3, <2>4
    <3> QED
      BY <3>1, <3>2, <3>3
  <2> QED
    BY <2>5
<1>4. ASSUME NEW k \in 1..(n + 1), NEW l \in 1..(n + 1), k < l
      PROVE  v[out[k]] < v[out[l]]
  <2>1. CASE l < j
    <3>1. k \in 1..n /\ l \in 1..n /\ k < j
      BY <1>1, <1>2, <1>4, <2>1
    <3>2. out[k] = s[k] /\ out[l] = s[l]
      BY <1>1, <2>1, <3>1
    <3> QED
      BY <1>0, <1>4, <3>1, <3>2
  <2>2. CASE l = j
    <3>1. k \in 1..n /\ k < j
      BY <1>1, <1>2, <1>4, <2>2
    <3>2. out[k] = s[k] /\ out[l] = x
      BY <1>1, <2>2, <3>1
    <3> QED
      BY <1>0, <3>1, <3>2
  <2>3. CASE j < l
    <3>1. l - 1 \in 1..n /\ j <= l - 1
      BY <1>1, <1>2, <2>3
    <3>2. out[l] = s[l - 1]
      BY <1>1, <1>2, <2>3
    <3>3. CASE k < j
      <4>1. k \in 1..n /\ out[k] = s[k]
        BY <1>1, <1>2, <3>3
      <4>2. w[k] < wx /\ wx < w[l - 1] /\ w[k] \in Nat /\ w[l - 1] \in Nat
        BY <1>0, <3>1, <3>3, <4>1
      <4> QED
        BY <1>0, <3>1, <3>2, <4>1, <4>2
    <3>4. CASE k = j
      <4>1. out[k] = x
        BY <1>1, <3>4
      <4> QED
        BY <1>0, <3>1, <3>2, <4>1
    <3>5. CASE j < k
      <4>1. k - 1 \in 1..n /\ k - 1 < l - 1
        BY <1>1, <1>2, <1>4, <3>5
      <4>2. out[k] = s[k - 1]
        BY <1>1, <1>2, <3>5
      <4> QED
        BY <1>0, <3>1, <3>2, <4>1, <4>2
    <3> QED
      BY <1>1, <1>2, <3>3, <3>4, <3>5
  <2> QED
    BY <1>1, <1>2, <2>1, <2>2, <2>3
<1> QED
  BY <1>1, <1>3, <1>4

\* y is a root in the place of the i-th one, and x is another, later, one.
Replanted(N, M, par, st, rts, i, M2, par2, st2, y, x) ==
    /\ i \in DOMAIN rts /\ M2 \in SUBSET N
    /\ x \in M2 /\ y \in M2 /\ par2[x] = NullNode /\ par2[y] = NullNode
    /\ Smallest(st2[y]) = Smallest(st[rts[i]])
    /\ Smallest(st2[y]) < Smallest(st2[x])
    /\ \A k \in DOMAIN rts :
          rts[k] # rts[i] => st2[rts[k]] = st[rts[k]] /\ rts[k] # x
    /\ {n \in M2 : par2[n] = NullNode}
           = ({n \in M : par[n] = NullNode} \ {rts[i]}) \cup {x, y}

\* The roots when the i-th is replaced by y and x is added after it.
Planted(rts, i, y, x, st2, j, out) ==
    LET kept == [rts EXCEPT ![i] = y]
    IN  j = LowerBound(kept, i, x, st2) /\ out = InsertAt(kept, j, x)

\* They are in order, and setting the two back gives the roots before.
LEMMA RootInserted ==
    ASSUME ZeroWordsAreHarmless,
           NEW N, NEW M, NEW par, NEW sib, NEW lc, NEW rc, NEW st,
           Linked(N, M, par, sib, lc, rc, st),
           NEW rts, Rooted(M, par, st, rts),
           NEW M2, NEW par2, NEW sib2, NEW lc2, NEW rc2, NEW st2,
           Linked(N, M2, par2, sib2, lc2, rc2, st2),
           NEW i, NEW x, NEW y, Replanted(N, M, par, st, rts, i, M2, par2, st2, y, x),
           NEW j, NEW out, Planted(rts, i, y, x, st2, j, out)
    PROVE  Rooted(M2, par2, st2, out) /\ SetBack(out, i, rts[i], j) = rts
<1>a. /\ i \in DOMAIN rts /\ M2 \in SUBSET N
      /\ x \in M2 /\ y \in M2 /\ par2[x] = NullNode /\ par2[y] = NullNode
      /\ Smallest(st2[y]) = Smallest(st[rts[i]])
      /\ Smallest(st2[y]) < Smallest(st2[x])
      /\ \A k \in DOMAIN rts :
          rts[k] # rts[i] => st2[rts[k]] = st[rts[k]] /\ rts[k] # x
  BY DEF Replanted
<1>k. PICK kept : kept = [rts EXCEPT ![i] = y]
  OBVIOUS
<1>p. j = LowerBound(kept, i, x, st2) /\ out = InsertAt(kept, j, x)
  BY <1>k DEF Planted
<1> DEFINE n == Len(rts)
<1>1. /\ n \in Nat /\ DOMAIN rts = 1..n /\ i \in 1..n /\ rts \in Seq(M) /\ rts \in Seq(N)
      /\ M \subseteq N /\ \A k \in 1..n : rts[k] \in M
  BY <1>a DEF Rooted, Linked, Typed
<1>2. \A k, l \in 1..n : k < l => Smallest(st[rts[k]]) < Smallest(st[rts[l]])
  BY <1>1 DEF Rooted
<1>3. \A m : m \in M2 /\ par2[m] = NullNode
               <=> (m \in M /\ par[m] = NullNode /\ m # rts[i]) \/ m = x \/ m = y
  BY <1>a DEF Replanted
<1>4. \A m : (m \in M /\ par[m] = NullNode) <=> \E k \in 1..n : m = rts[k]
  BY <1>1 DEF Rooted, Range
<1>5. \A k \in 1..n : Smallest(st[rts[k]]) \in Nat
  <2> SUFFICES ASSUME NEW k \in 1..n PROVE Smallest(st[rts[k]]) \in Nat
    OBVIOUS
  <2>1. rts[k] \in M
    BY <1>1
  <2>2. st[rts[k]] \in SUBSET Nat /\ st[rts[k]] # {}
    BY <2>1, LabelsAreTaxa DEF Linked, Typed, Apart, Node
  <2> QED
    BY <2>2, SmallestPicks
<1>6. \A k \in 1..n : k # i => rts[k] # rts[i] /\ rts[k] # x
  <2>1. ASSUME NEW k \in 1..n, k # i, rts[k] = rts[i]
        PROVE  FALSE
    <3>1. k < i \/ i < k
      BY <1>1, <2>1
    <3>2. Smallest(st[rts[k]]) < Smallest(st[rts[i]])
          \/ Smallest(st[rts[i]]) < Smallest(st[rts[k]])
      BY <1>1, <1>2, <2>1, <3>1
    <3>3. Smallest(st[rts[i]]) \in Nat
      BY <1>1, <1>5
    <3> QED
      BY <2>1, <3>2, <3>3
  <2> QED
    BY <1>a, <1>1, <2>1
<1>7. /\ kept \in Seq(N) /\ Len(kept) = n /\ kept[i] = y
      /\ \A k \in 1..n : k # i => kept[k] = rts[k]
  BY <1>a, <1>k, <1>1
<1>8. \A k \in 1..n : /\ kept[k] \in M2 /\ par2[kept[k]] = NullNode /\ kept[k] # x
                      /\ Smallest(st2[kept[k]]) = Smallest(st[rts[k]])
  <2> SUFFICES ASSUME NEW k \in 1..n
               PROVE  /\ kept[k] \in M2 /\ par2[kept[k]] = NullNode /\ kept[k] # x
                      /\ Smallest(st2[kept[k]]) = Smallest(st[rts[k]])
    OBVIOUS
  <2>1. CASE k = i
    <3>1. Smallest(st2[y]) \in Nat
      BY <1>a, <1>1, <1>5
    <3>2. x # y
      BY <1>a, <3>1
    <3> QED
      BY <1>a, <1>7, <2>1, <3>2
  <2>2. CASE k # i
    BY <1>a, <1>1, <1>3, <1>4, <1>6, <1>7, <2>2
  <2> QED
    BY <2>1, <2>2
<1> DEFINE v(m) == Smallest(st2[m])
<1>9. /\ v(x) \in Nat
      /\ \A k \in 1..n : /\ v(kept[k]) \in Nat /\ v(kept[k]) # v(x)
                         /\ HasSmallestTerminal(st2[kept[k]], st2[x])
                               <=> v(kept[k]) < v(x)
  <2>1. ASSUME NEW k \in 1..n
        PROVE  /\ v(kept[k]) \in Nat /\ v(x) \in Nat /\ v(kept[k]) # v(x)
               /\ HasSmallestTerminal(st2[kept[k]], st2[x]) <=> v(kept[k]) < v(x)
    <3>1. kept[k] \in M2 /\ par2[kept[k]] = NullNode /\ kept[k] # x
      BY <1>8
    <3> QED
      BY <1>a, <3>1, RootsApart
  <2> QED
    BY <1>1, <2>1
<1>10. PICK w : w = [k \in 1..n |-> v(kept[k])]
  OBVIOUS
<1>11. /\ w \in [1..n -> Nat] /\ v(x) \in Nat /\ \A k \in 1..n : w[k] = v(kept[k])
       /\ \A k, l \in 1..n : k < l => w[k] < w[l]
       /\ w[i] < v(x) /\ \A k \in 1..n : w[k] # v(x)
  <2>1. \A k \in 1..n : w[k] = v(kept[k])
    BY <1>10
  <2>2. w[i] < v(x)
    BY <1>a, <1>1, <1>7, <2>1
  <2>3. \A k, l \in 1..n : k < l => w[k] < w[l]
    BY <1>2, <1>8, <2>1
  <2> HIDE DEF v
  <2> QED
    BY <1>9, <1>10, <2>1, <2>2, <2>3
<1>12. j = PlaceFor(n, w, v(x), i)
  <2>1. j = Smallest({k \in i..(Len(kept) + 1) : k = Len(kept) + 1
                         \/ ~ HasSmallestTerminal(st2[kept[k]], st2[x])})
    BY <1>p DEF LowerBound
  <2>2. ASSUME NEW k \in i..(n + 1)
        PROVE  k = n + 1 \/ ~ w[k] < v(x)
                  <=> k = n + 1 \/ ~ HasSmallestTerminal(st2[kept[k]], st2[x])
    <3>1. k = n + 1 \/ k \in 1..n
      BY <1>1
    <3> HIDE DEF v
    <3> QED
      BY <1>9, <1>11, <3>1
  <2>3. {k \in i..(n + 1) : k = n + 1 \/ ~ w[k] < v(x)}
          = {k \in i..(n + 1) : k = n + 1
                         \/ ~ HasSmallestTerminal(st2[kept[k]], st2[x])}
    BY <2>2
  <2> QED
    BY <1>7, <2>1, <2>3 DEF PlaceFor
<1>13. PICK vf : vf = [m \in N |-> v(m)]
  OBVIOUS
<1>14. vf[x] = v(x) /\ x \in N /\ y \in N /\ \A k \in 1..n : vf[kept[k]] = w[k]
  <2>1. x \in N /\ y \in N /\ \A k \in 1..n : kept[k] \in N
    BY <1>a, <1>8
  <2> HIDE DEF v
  <2> QED
    BY <1>11, <1>13, <2>1
<1>x. PICK wx : wx = v(x)
  OBVIOUS
<1> HIDE DEF v, n
<1>15. /\ j \in (i + 1)..(n + 1) /\ j \in 1..(n + 1)
       /\ \A k \in 1..n : k < j => w[k] < v(x)
       /\ \A k \in 1..n : j <= k => v(x) < w[k]
  <2>1. /\ j \in (i + 1)..(n + 1)
        /\ \A k \in 1..n : k < j => w[k] < v(x)
        /\ \A k \in 1..n : j <= k => v(x) < w[k]
    <3>1. /\ n \in Nat /\ w \in [1..n -> Nat] /\ wx \in Nat /\ i \in 1..n
          /\ \A k, l \in 1..n : k < l => w[k] < w[l]
          /\ w[i] < wx /\ \A k \in 1..n : w[k] # wx
          /\ j = PlaceFor(n, w, wx, i)
      BY <1>1, <1>11, <1>12, <1>x
    <3>2. /\ j \in (i + 1)..(n + 1)
          /\ \A k \in 1..n : k < j => w[k] < wx
          /\ \A k \in 1..n : j <= k => wx < w[k]
      BY <3>1, PlaceInOrder
    <3> QED
      BY <3>2, <1>x
  <2> QED
    BY <1>1, <2>1
<1>16. /\ out \in Seq(N) /\ Len(out) = n + 1
       /\ \A m : m \in Range(out) <=> m = x \/ \E k \in 1..n : m = kept[k]
       /\ \A k, l \in 1..(n + 1) : k < l => vf[out[k]] < vf[out[l]]
  <2>1. /\ kept \in Seq(N) /\ n = Len(kept) /\ j \in 1..(n + 1) /\ x \in N
        /\ w \in [1..n -> Nat] /\ wx \in Nat
        /\ \A k, l \in 1..n : k < l => w[k] < w[l]
        /\ \A k \in 1..n : k < j => w[k] < wx
        /\ \A k \in 1..n : j <= k => wx < w[k]
        /\ vf[x] = wx /\ \A k \in 1..n : vf[kept[k]] = w[k]
        /\ out = InsertAt(kept, j, x)
    BY <1>p, <1>7, <1>11, <1>14, <1>15, <1>x
  <2>2. InOrderInsertion(N, kept, n, j, x, w, wx, vf, out)
    BY <2>1 DEF InOrderInsertion
  <2> QED
    BY <2>2, InOrderInserted
<1>17. SetBack(out, i, rts[i], j) = rts
  <2>1. i \in 1..Len(rts) /\ j \in (i + 1)..(Len(rts) + 1)
    BY <1>1, <1>15 DEF n
  <2>2. rts \in Seq(N) /\ out = InsertAt([rts EXCEPT ![i] = y], j, x)
    BY <1>1, <1>k, <1>p
  <2>3. x \in N /\ y \in N
    BY <1>14
  <2>4. InsertedAfter(N, rts, i, y, x, j, out)
    BY <2>1, <2>2, <2>3 DEF InsertedAfter
  <2> QED
    BY <2>4, InsertedAndRemoved
<1>18. Range(out) = {m \in M2 : par2[m] = NullNode}
  <2>1. ASSUME NEW m \in Range(out)
        PROVE  m \in M2 /\ par2[m] = NullNode
    BY <1>a, <1>8, <1>16, <2>1
  <2>2. ASSUME NEW m \in M2, par2[m] = NullNode
        PROVE  m \in Range(out)
    <3>1. (m \in M /\ par[m] = NullNode /\ m # rts[i]) \/ m = x \/ m = y
      BY <1>3, <2>2
    <3>2. CASE m = x
      BY <1>16, <3>2
    <3>3. CASE m = y
      BY <1>1, <1>7, <1>16, <3>3
    <3>4. CASE m \in M /\ par[m] = NullNode /\ m # rts[i]
      <4>1. PICK k \in 1..n : m = rts[k]
        BY <1>4, <3>4
      <4>2. k # i
        BY <3>4, <4>1
      <4> QED
        BY <1>7, <1>16, <4>1, <4>2
    <3> QED
      BY <3>1, <3>2, <3>3, <3>4
  <2> QED
    BY <2>1, <2>2
<1>19. /\ DOMAIN out = 1..(n + 1) /\ \A k \in 1..(n + 1) : out[k] \in M2 /\ out[k] \in N
       /\ out \in Seq(M2)
  <2>1. DOMAIN out = 1..(n + 1)
    BY <1>16
  <2>2. \A k \in 1..(n + 1) : out[k] \in M2
    BY <1>18, <2>1 DEF Range
  <2> QED
    BY <1>a, <1>1, <1>16, <2>1, <2>2
<1>20. \A k, l \in DOMAIN out : k < l => Smallest(st2[out[k]]) < Smallest(st2[out[l]])
  <2>1. \A k \in 1..(n + 1) : vf[out[k]] = Smallest(st2[out[k]])
    BY <1>13, <1>19 DEF v
  <2> QED
    BY <1>16, <1>19, <2>1
<1>21. Rooted(M2, par2, st2, out)
  BY <1>18, <1>19, <1>20 DEF Rooted
<1> QED
  BY <1>17, <1>21

-----------------------------------------------------------------------------
(* Labels, and what collapses record.                                      *)

\* The leaves when the nodes in C are closed.
Tips(M, lx, st, C) == {n \in Visible(M, st, C) : lx[n] = NullNode \/ n \in C}

\* Those of them that are below a node, or the node.
TipsBelow(M, lx, st, C, nd) == {n \in Tips(M, lx, st, C) : st[n] \subseteq st[nd]}

\* The nodes strictly below a node.
VisibleBelow(M, st, C, nd) ==
    {n \in Visible(M, st, C) : st[n] \subseteq st[nd] /\ n # nd}

\* Each label is mapped to the leaf that has it, each leaf to its smallest.
Labelled(M, lx, st, C, ltt, ttl) ==
    /\ ltt \in [Labels -> Tips(M, lx, st, C)]
    /\ \A l \in Labels : l \in st[ltt[l]]
    /\ ttl = [n \in Tips(M, lx, st, C) |-> Smallest(st[n])]

\* What the collapse a of a node recorded, E collapsed already.
Recalls(M, lx, rx, st, E, a) ==
    /\ a.node \in M /\ lx[a.node] # NullNode
    /\ \A c \in E : ~ st[a.node] \subseteq st[c]
    /\ a.left = lx[a.node] /\ a.right = rx[a.node]
    /\ a.collapsedLabel = Smallest(st[a.node])
    /\ a.collapsedLabelToTerminals \in [st[a.node] -> TipsBelow(M, lx, st, E, a.node)]
    /\ \A l \in st[a.node] : l \in st[a.collapsedLabelToTerminals[l]]
    /\ a.collapsedTerminals =
          [n \in TipsBelow(M, lx, st, E, a.node) |-> Smallest(st[n])]
    /\ a.edit.kind = "collapse"
    /\ a.edit.others = LabelSets(st, VisibleBelow(M, st, E, a.node))

\* cs gives the collapses in force by their place in the stack of actions.
NodesOf(cs) == {cs[k].node : k \in DOMAIN cs}
Earlier(cs, k) == {cs[j].node : j \in {i \in DOMAIN cs : i < k}}

\* Each collapse recalls what it closed.
Recollected(M, lx, rx, st, cs) ==
    \A k \in DOMAIN cs : Recalls(M, lx, rx, st, Earlier(cs, k), cs[k])

\* An edit that leaves the leaves and everything below the nodes in C alone.
Frozen(M, lx, rx, st, C, M2, lx2, rx2, st2) ==
    /\ \A n \in M : lx[n] = NullNode \/ (\E c \in C : st[n] \subseteq st[c]) =>
          n \in M2 /\ lx2[n] = lx[n] /\ rx2[n] = rx[n] /\ st2[n] = st[n]
    /\ \A n \in M2 : n \in M /\ (lx2[n] = NullNode => lx[n] = NullNode)
    /\ \A n \in M2, c \in C : st2[n] \subseteq st2[c] => st[n] \subseteq st[c]

\* The nodes in C have the same nodes below them, with the same labels.
SameBelow(M, lx, rx, st, C, M2, lx2, rx2, st2) ==
    /\ \A c \in C : c \in M2 /\ lx2[c] = lx[c] /\ rx2[c] = rx[c] /\ st2[c] = st[c]
    /\ \A c \in C : \A n : (n \in M /\ st[n] \subseteq st[c])
                              <=> (n \in M2 /\ st2[n] \subseteq st2[c])
    /\ \A c \in C : \A n \in M : st[n] \subseteq st[c] => st2[n] = st[n]
    /\ \A E \in SUBSET C : \A n \in M2 : Under(st, E, n) <=> Under(st2, E, n)

\* What is below the nodes in C stays.
LEMMA FrozenBelow ==
    ASSUME NEW M, NEW lx, NEW rx, NEW st, NEW C \in SUBSET M,
           NEW M2, NEW lx2, NEW rx2, NEW st2,
           Frozen(M, lx, rx, st, C, M2, lx2, rx2, st2)
    PROVE  SameBelow(M, lx, rx, st, C, M2, lx2, rx2, st2)
<1>1. \A n \in M : \A c \in C : st[n] \subseteq st[c] =>
         n \in M2 /\ lx2[n] = lx[n] /\ rx2[n] = rx[n] /\ st2[n] = st[n]
  BY DEF Frozen
<1>2. \A c \in C : c \in M2 /\ lx2[c] = lx[c] /\ rx2[c] = rx[c] /\ st2[c] = st[c]
  BY <1>1
<1>3. ASSUME NEW c \in C, NEW n
      PROVE  (n \in M /\ st[n] \subseteq st[c]) <=> (n \in M2 /\ st2[n] \subseteq st2[c])
  <2>1. ASSUME n \in M, st[n] \subseteq st[c]
        PROVE  n \in M2 /\ st2[n] \subseteq st2[c]
    BY <1>1, <1>2, <2>1
  <2>2. ASSUME n \in M2, st2[n] \subseteq st2[c]
        PROVE  n \in M /\ st[n] \subseteq st[c]
    BY <2>2 DEF Frozen
  <2> QED
    BY <2>1, <2>2
<1>4. ASSUME NEW E \in SUBSET C, NEW n \in M2
      PROVE  Under(st, E, n) <=> Under(st2, E, n)
  <2>1. n \in M
    BY DEF Frozen
  <2>2. \A c \in E : st[n] \subseteq st[c] <=> st2[n] \subseteq st2[c]
    BY <1>3, <2>1
  <2> QED
    BY <2>2 DEF Under
<1> QED
  BY <1>1, <1>2, <1>3, <1>4 DEF SameBelow

\* The leaves and their labels stay.
LEMMA FrozenLabelled ==
    ASSUME NEW M, NEW lx, NEW rx, NEW st, NEW C \in SUBSET M,
           NEW M2, NEW lx2, NEW rx2, NEW st2,
           Frozen(M, lx, rx, st, C, M2, lx2, rx2, st2),
           NEW ltt, NEW ttl, Labelled(M, lx, st, C, ltt, ttl)
    PROVE  Labelled(M2, lx2, st2, C, ltt, ttl)
<1>1. /\ \A c \in C : c \in M2 /\ lx2[c] = lx[c] /\ rx2[c] = rx[c] /\ st2[c] = st[c]
      /\ \A n \in M2 : Under(st, C, n) <=> Under(st2, C, n)
  <2>1. SameBelow(M, lx, rx, st, C, M2, lx2, rx2, st2)
    BY FrozenBelow
  <2> QED
    BY <2>1 DEF SameBelow
<1>2. \A n \in M : lx[n] = NullNode => n \in M2 /\ lx2[n] = NullNode /\ st2[n] = st[n]
  BY DEF Frozen
<1>3. \A n \in M2 : n \in M /\ (lx2[n] = NullNode => lx[n] = NullNode)
  BY DEF Frozen
<1>4. \A n : n \in Tips(M2, lx2, st2, C) <=> n \in Tips(M, lx, st, C)
  <2> SUFFICES ASSUME NEW n
               PROVE  n \in Tips(M2, lx2, st2, C) <=> n \in Tips(M, lx, st, C)
    OBVIOUS
  <2>1. n \in Tips(M, lx, st, C)
           <=> n \in M /\ ~ Under(st, C, n) /\ (lx[n] = NullNode \/ n \in C)
    BY DEF Tips, Visible
  <2>2. n \in Tips(M2, lx2, st2, C)
           <=> n \in M2 /\ ~ Under(st2, C, n) /\ (lx2[n] = NullNode \/ n \in C)
    BY DEF Tips, Visible
  <2> QED
    BY <1>1, <1>2, <1>3, <2>1, <2>2
<1>5. Tips(M2, lx2, st2, C) = Tips(M, lx, st, C)
  BY <1>4
<1>6. \A n \in Tips(M, lx, st, C) : st2[n] = st[n]
  BY <1>1, <1>2 DEF Tips, Visible
<1> QED
  BY <1>5, <1>6 DEF Labelled

\* The collapses find what they recorded.
LEMMA FrozenRecollected ==
    ASSUME NEW M, NEW lx, NEW rx, NEW st, NEW cs, NodesOf(cs) \in SUBSET M,
           NEW M2, NEW lx2, NEW rx2, NEW st2,
           Frozen(M, lx, rx, st, NodesOf(cs), M2, lx2, rx2, st2),
           Recollected(M, lx, rx, st, cs)
    PROVE  Recollected(M2, lx2, rx2, st2, cs)
<1> SUFFICES ASSUME NEW k \in DOMAIN cs
             PROVE  Recalls(M2, lx2, rx2, st2, Earlier(cs, k), cs[k])
  BY DEF Recollected
<1>1. PICK C, E, a, nd : C = NodesOf(cs) /\ E = Earlier(cs, k) /\ a = cs[k] /\ nd = a.node
  OBVIOUS
<1>2. Recalls(M, lx, rx, st, E, a) /\ nd \in C /\ E \in SUBSET C /\ C \in SUBSET M
  BY <1>1 DEF Recollected, NodesOf, Earlier
<1>3. Frozen(M, lx, rx, st, C, M2, lx2, rx2, st2)
  BY <1>1
<1>4. /\ \A c \in C : c \in M2 /\ lx2[c] = lx[c] /\ rx2[c] = rx[c] /\ st2[c] = st[c]
      /\ \A n : (n \in M /\ st[n] \subseteq st[nd]) <=> (n \in M2 /\ st2[n] \subseteq st2[nd])
      /\ \A n \in M : st[n] \subseteq st[nd] => st2[n] = st[n]
      /\ \A n \in M2 : Under(st, E, n) <=> Under(st2, E, n)
  <2>1. C \in SUBSET M
    BY <1>2
  <2>2. SameBelow(M, lx, rx, st, C, M2, lx2, rx2, st2)
    BY <1>3, <2>1, FrozenBelow
  <2> QED
    BY <1>2, <2>2 DEF SameBelow
<1>5. \A n \in M : st[n] \subseteq st[nd] => lx2[n] = lx[n]
  BY <1>2, <1>3 DEF Frozen
<1>6. \A n : (n \in Visible(M, st, E) /\ st[n] \subseteq st[nd])
                <=> (n \in Visible(M2, st2, E) /\ st2[n] \subseteq st2[nd])
  BY <1>4 DEF Visible
<1>7. \A n : (n \in Tips(M, lx, st, E) /\ st[n] \subseteq st[nd])
                <=> (n \in Tips(M2, lx2, st2, E) /\ st2[n] \subseteq st2[nd])
  <2> SUFFICES ASSUME NEW n
               PROVE  (n \in Tips(M, lx, st, E) /\ st[n] \subseteq st[nd])
                         <=> (n \in Tips(M2, lx2, st2, E) /\ st2[n] \subseteq st2[nd])
    OBVIOUS
  <2>1. n \in Tips(M, lx, st, E) <=> n \in Visible(M, st, E) /\ (lx[n] = NullNode \/ n \in E)
    BY DEF Tips
  <2>2. n \in Tips(M2, lx2, st2, E)
           <=> n \in Visible(M2, st2, E) /\ (lx2[n] = NullNode \/ n \in E)
    BY DEF Tips
  <2>3. n \in Visible(M, st, E) => n \in M
    BY DEF Visible
  <2> QED
    BY <1>5, <1>6, <2>1, <2>2, <2>3
<1>8. PICK V, T : V = VisibleBelow(M, st, E, nd) /\ T = TipsBelow(M, lx, st, E, nd)
  OBVIOUS
<1>9. V = VisibleBelow(M2, st2, E, nd) /\ T = TipsBelow(M2, lx2, st2, E, nd)
  BY <1>6, <1>7, <1>8 DEF VisibleBelow, TipsBelow
<1>10. (\A m \in V : st2[m] = st[m]) /\ (\A m \in T : st2[m] = st[m])
  BY <1>4, <1>8 DEF Visible, Tips, VisibleBelow, TipsBelow
<1>11. LabelSets(st, V) = LabelSets(st2, V)
  BY <1>10 DEF LabelSets
<1>12. [n \in T |-> Smallest(st[n])] = [n \in T |-> Smallest(st2[n])]
  BY <1>10
<1>13. st2[nd] = st[nd] /\ lx2[nd] = lx[nd] /\ rx2[nd] = rx[nd] /\ nd \in M2
  BY <1>2, <1>4
<1>14. /\ nd \in M /\ lx[nd] # NullNode
       /\ \A c \in E : ~ st[nd] \subseteq st[c]
       /\ a.left = lx[nd] /\ a.right = rx[nd]
       /\ a.collapsedLabel = Smallest(st[nd])
       /\ a.collapsedLabelToTerminals \in [st[nd] -> T]
       /\ \A l \in st[nd] : l \in st[a.collapsedLabelToTerminals[l]]
       /\ a.collapsedTerminals = [n \in T |-> Smallest(st[n])]
       /\ a.edit.kind = "collapse"
       /\ a.edit.others = LabelSets(st, V)
  BY <1>1, <1>2, <1>8 DEF Recalls
<1>15. /\ a.collapsedLabelToTerminals \in [st2[nd] -> T]
       /\ \A l \in st2[nd] : l \in st2[a.collapsedLabelToTerminals[l]]
  BY <1>10, <1>13, <1>14
<1>16. \A c \in E : ~ st2[nd] \subseteq st2[c]
  BY <1>2, <1>4, <1>13, <1>14
<1>17. Recalls(M2, lx2, rx2, st2, E, a)
  BY <1>1, <1>9, <1>11, <1>12, <1>13, <1>14, <1>15, <1>16 DEF Recalls
<1> QED
  BY <1>1, <1>17

-----------------------------------------------------------------------------
(* The whole forest, and a cut whose parent is a root.                     *)

\* lx and rx are the child pointers with every collapse opened.
Shaped(N, M, lx, rx, C, par, sib, lc, rc, st, rts, ltt, ttl) ==
    /\ Linked(N, M, par, sib, lx, rx, st) /\ InChildOrder(M, lx, rx, st)
    /\ C \in SUBSET M
    /\ lc = Closed(N, C, lx) /\ rc = Closed(N, C, rx)
    /\ Rooted(M, par, st, rts)
    /\ Labelled(M, lx, st, C, ltt, ttl)

\* The visible nodes are linked by the pointers that are there.
LEMMA ShapedVisible ==
    ASSUME NEW N, NEW M, NEW lx, NEW rx, NEW C, NEW par, NEW sib, NEW lc, NEW rc,
           NEW st, NEW rts, NEW ltt, NEW ttl,
           Shaped(N, M, lx, rx, C, par, sib, lc, rc, st, rts, ltt, ttl),
           NEW L, L = Visible(M, st, C)
    PROVE  /\ Linked(N, L, par, sib, lc, rc, st) /\ InChildOrder(L, lc, rc, st)
           /\ Rooted(L, par, st, rts)
           /\ {n \in L : par[n] = NullNode} = {n \in M : par[n] = NullNode}
           /\ L \subseteq M /\ M \subseteq N
           /\ \A n \in M : lc[n] = IF n \in C THEN NullNode ELSE lx[n]
           /\ \A n \in M : rc[n] = IF n \in C THEN NullNode ELSE rx[n]
<1>1. /\ Linked(N, M, par, sib, lx, rx, st) /\ InChildOrder(M, lx, rx, st)
      /\ C \in SUBSET M /\ lc = Closed(N, C, lx) /\ rc = Closed(N, C, rx)
      /\ Rooted(M, par, st, rts)
  BY DEF Shaped
<1>2. /\ Linked(N, L, par, sib, lc, rc, st) /\ InChildOrder(L, lc, rc, st)
      /\ {n \in L : par[n] = NullNode} = {n \in M : par[n] = NullNode}
  BY <1>1, ClosedLinked
<1>3. L \subseteq M /\ M \subseteq N
  BY <1>1 DEF Visible, Linked, Typed
<1>4. Rooted(L, par, st, rts)
  <2>1. rts \in Seq(M) /\ Range(rts) = {n \in L : par[n] = NullNode}
    BY <1>1, <1>2 DEF Rooted
  <2>2. \A k \in 1..Len(rts) : rts[k] \in L
    BY <2>1 DEF Range
  <2>3. rts \in Seq(L)
    BY <2>1, <2>2
  <2> QED
    BY <1>1, <2>1, <2>3 DEF Rooted
<1>5. /\ \A n \in M : lc[n] = IF n \in C THEN NullNode ELSE lx[n]
      /\ \A n \in M : rc[n] = IF n \in C THEN NullNode ELSE rx[n]
  BY <1>1, <1>3 DEF Closed
<1> QED
  BY <1>1, <1>2, <1>3, <1>4, <1>5

\* The smallest label of a node is that of its first child.
LEMMA SmallestOfUnion ==
    ASSUME NEW a \in SUBSET Nat, NEW b \in SUBSET Nat, a # {}, b # {},
           Smallest(a) < Smallest(b)
    PROVE  Smallest(a \cup b) = Smallest(a)
<1>1. /\ Smallest(a) \in a /\ \A k \in a : Smallest(a) <= k
      /\ Smallest(b) \in b /\ \A k \in b : Smallest(b) <= k
  BY SmallestPicks
<1>2. /\ a \cup b \in SUBSET Nat /\ Smallest(a) \in a \cup b
      /\ \A k \in a \cup b : Smallest(a) <= k
  <2>1. Smallest(a) \in Nat /\ Smallest(b) \in Nat
    BY <1>1
  <2>2. ASSUME NEW k \in a \cup b
        PROVE  Smallest(a) <= k
    <3>1. k \in Nat
      OBVIOUS
    <3>2. CASE k \in a
      BY <1>1, <3>2
    <3>3. CASE k \in b
      <4>1. Smallest(b) <= k
        BY <1>1, <3>3
      <4> QED
        BY <2>1, <3>1, <4>1
    <3> QED
      BY <3>2, <3>3
  <2> QED
    BY <1>1, <2>2
<1> QED
  BY <1>2, SmallestIs

\* A child that is cut, its parent, and the collapsed nodes.
LEMMA CutIsVisible ==
    ASSUME NEW N, NEW M, NEW lx, NEW rx, NEW C, NEW par, NEW sib, NEW lc, NEW rc,
           NEW st, NEW rts, NEW ltt, NEW ttl,
           Shaped(N, M, lx, rx, C, par, sib, lc, rc, st, rts, ltt, ttl),
           NEW L, L = Visible(M, st, C), NEW c \in L, par[c] # NullNode,
           NEW P, P = par[c]
    PROVE  /\ c \in M /\ P \in L /\ P \in M /\ P \notin C
           /\ \A k \in C : ~ st[P] \subseteq st[k]
           /\ lc[P] # NullNode /\ lc[P] = lx[P] /\ rc[P] = rx[P]
<1>1. /\ Linked(N, L, par, sib, lc, rc, st) /\ L \subseteq M
      /\ \A n \in M : lc[n] = IF n \in C THEN NullNode ELSE lx[n]
      /\ \A n \in M : rc[n] = IF n \in C THEN NullNode ELSE rx[n]
  BY ShapedVisible
<1>2. P \in L /\ lc[P] # NullNode
  BY <1>1, Upward
<1>3. P \notin C
  BY <1>1, <1>2
<1>4. \A k \in C : ~ st[P] \subseteq st[k]
  BY <1>2, <1>3 DEF Visible, Under
<1> QED
  BY <1>1, <1>2, <1>3, <1>4

\* A node without a parent is in the roots, where the least place finds it.
LEMMA RootFound ==
    ASSUME NEW M, NEW par, NEW st, NEW rts, Rooted(M, par, st, rts),
           NEW r \in M, par[r] = NullNode,
           NEW i, i = Smallest({k \in DOMAIN rts : rts[k] = r})
    PROVE  i \in DOMAIN rts /\ rts[i] = r
<1> DEFINE K == {k \in DOMAIN rts : rts[k] = r}
<1>1. K \in SUBSET Nat /\ K # {} /\ i = Smallest(K)
  <2>1. rts \in Seq(M) /\ r \in Range(rts)
    BY DEF Rooted
  <2> QED
    BY <2>1 DEF Range
<1>2. i \in K
  <2> HIDE DEF K
  <2> QED
    BY <1>1, SmallestPicks
<1> QED
  BY <1>2

\* What the code does when the parent of c is a root.
CutAtRoot(par, sib, lc, rc, st, rts, c, par2, sib2, rts2, i, j) ==
    /\ i = Smallest({k \in DOMAIN rts : rts[k] = par[c]})
    /\ Planted(rts, i, lc[par[c]], rc[par[c]], st, j, rts2)
    /\ par2 = [par EXCEPT ![sib[c]] = NullNode, ![c] = NullNode]
    /\ sib2 = [sib EXCEPT ![sib[c]] = NullNode, ![c] = NullNode]

\* The forest is shaped as before, without the parent, and can be set back.
LEMMA CutAtRootShaped ==
    ASSUME ZeroWordsAreHarmless,
           NEW N, NEW M, NEW lx, NEW rx, NEW C, NEW par, NEW sib, NEW lc, NEW rc,
           NEW st, NEW rts, NEW ltt, NEW ttl,
           Shaped(N, M, lx, rx, C, par, sib, lc, rc, st, rts, ltt, ttl),
           NEW L, L = Visible(M, st, C), NEW c \in L, par[c] # NullNode,
           par[par[c]] = NullNode,
           NEW par2, NEW sib2, NEW rts2, NEW i, NEW j,
           CutAtRoot(par, sib, lc, rc, st, rts, c, par2, sib2, rts2, i, j),
           NEW M2, M2 = M \ {par[c]}
    PROVE  /\ Shaped(N, M2, lx, rx, C, par2, sib2, lc, rc, st, rts2, ltt, ttl)
           /\ Frozen(M, lx, rx, st, C, M2, lx, rx, st)
           /\ LabelSets(st, Visible(M2, st, C)) = CutEdge(LabelSets(st, L), st[c])
           /\ i \in DOMAIN rts /\ rts[i] = par[c]
           /\ SetBack(rts2, i, par[c], j) = rts
<1>1. PICK P, s : P = par[c] /\ s = sib[c]
  OBVIOUS
<1>2. /\ c \in M /\ P \in L /\ P \in M /\ P \notin C
      /\ \A k \in C : ~ st[P] \subseteq st[k]
      /\ lc[P] # NullNode /\ lc[P] = lx[P] /\ rc[P] = rx[P]
  BY <1>1, CutIsVisible
<1>3. /\ Linked(N, M, par, sib, lx, rx, st) /\ InChildOrder(M, lx, rx, st)
      /\ C \in SUBSET M /\ lc = Closed(N, C, lx) /\ rc = Closed(N, C, rx)
      /\ Rooted(M, par, st, rts) /\ Labelled(M, lx, st, C, ltt, ttl)
  BY DEF Shaped
<1>4. /\ Linked(N, L, par, sib, lc, rc, st) /\ M \subseteq N
  BY ShapedVisible
<1>5. /\ P \in M /\ s \in M /\ P # c /\ s # c /\ {c, s} = {lx[P], rx[P]} /\ P # s
      /\ par[s] = P /\ st[c] # {} /\ st[s] # {} /\ st[P] = st[c] \cup st[s]
      /\ lx[P] # NullNode
  BY <1>1, <1>2, <1>3, Upward
<1>6. /\ par2 = [par EXCEPT ![sib[c]] = NullNode, ![c] = NullNode]
      /\ sib2 = [sib EXCEPT ![sib[c]] = NullNode, ![c] = NullNode]
      /\ i = Smallest({k \in DOMAIN rts : rts[k] = P})
      /\ Planted(rts, i, lx[P], rx[P], st, j, rts2)
  BY <1>1, <1>2 DEF CutAtRoot
<1>7. /\ Linked(N, M2, par2, sib2, lx, rx, st)
      /\ {n \in M2 : par2[n] = NullNode}
            = ({n \in M : par[n] = NullNode} \ {P}) \cup {c, s}
  <2>1. /\ Linked(N, M2, par2, sib2, lx, rx, st)
        /\ Tops(M2, par2) = (Tops(M, par) \ {par[c]}) \cup {c, sib[c]}
    <3>1. CuttingAtRoot(M, par, sib, c, M2, par2, sib2)
      BY <1>2, <1>6 DEF CuttingAtRoot
    <3> QED
      BY <1>3, <3>1, CutUnderRoot
  <2> QED
    BY <1>1, <2>1 DEF Tops
<1>8. LabelSets(st, L \ {P}) = CutEdge(LabelSets(st, L), st[c])
  <2>1. CuttingAtRoot(L, par, sib, c, L \ {P}, par2, sib2)
    BY <1>1, <1>6 DEF CuttingAtRoot
  <2> QED
    BY <1>4, <2>1, CutUnderRoot
<1>9. Visible(M2, st, C) = L \ {P}
  BY <1>1 DEF Visible
<1>10. Frozen(M, lx, rx, st, C, M2, lx, rx, st)
  BY <1>1, <1>2, <1>5 DEF Frozen
<1>11. Labelled(M2, lx, st, C, ltt, ttl)
  BY <1>3, <1>10, FrozenLabelled
<1>12. i \in DOMAIN rts /\ rts[i] = P
  BY <1>1, <1>2, <1>3, <1>6, RootFound
<1>13. /\ Smallest(st[lx[P]]) < Smallest(st[rx[P]])
       /\ Smallest(st[lx[P]]) = Smallest(st[P])
  <2>1. Smallest(st[lx[P]]) < Smallest(st[rx[P]])
    BY <1>3, <1>5 DEF InChildOrder
  <2>2. /\ st[lx[P]] # {} /\ st[rx[P]] # {} /\ st[P] = st[lx[P]] \cup st[rx[P]]
        /\ lx[P] \in M /\ rx[P] \in M
    BY <1>2, <1>5
  <2>3. st[lx[P]] \in SUBSET Nat /\ st[rx[P]] \in SUBSET Nat
    BY <1>3, <2>2, LabelsAreTaxa DEF Linked, Typed, Node
  <2> QED
    BY <2>1, <2>2, <2>3, SmallestOfUnion
<1>14. Replanted(N, M, par, st, rts, i, M2, par2, st, lx[P], rx[P])
  <2>1. M2 \in SUBSET N /\ lx[P] \in M2 /\ rx[P] \in M2
    BY <1>1, <1>2, <1>4, <1>5
  <2>2. par2[lx[P]] = NullNode /\ par2[rx[P]] = NullNode
    BY <1>5, <1>7
  <2>3. \A k \in DOMAIN rts : par[rts[k]] = NullNode
    BY <1>3 DEF Rooted, Range
  <2>4. par[rx[P]] # NullNode
    BY <1>1, <1>5
  <2>5. \A k \in DOMAIN rts :
           rts[k] # rts[i] => st[rts[k]] = st[rts[k]] /\ rts[k] # rx[P]
    BY <2>3, <2>4
  <2>6. {n \in M2 : par2[n] = NullNode}
           = ({n \in M : par[n] = NullNode} \ {rts[i]}) \cup {rx[P], lx[P]}
    <3>1. {c, s} = {rx[P], lx[P]}
      BY <1>5
    <3> QED
      BY <1>7, <1>12, <3>1
  <2> QED
    BY <1>12, <1>13, <2>1, <2>2, <2>5, <2>6 DEF Replanted
<1>15. Rooted(M2, par2, st, rts2) /\ SetBack(rts2, i, rts[i], j) = rts
  BY <1>3, <1>6, <1>7, <1>14, RootInserted
<1>16. InChildOrder(M2, lx, rx, st) /\ C \in SUBSET M2
  BY <1>1, <1>2, <1>3 DEF InChildOrder
<1>17. Shaped(N, M2, lx, rx, C, par2, sib2, lc, rc, st, rts2, ltt, ttl)
  BY <1>3, <1>7, <1>11, <1>15, <1>16 DEF Shaped
<1> QED
  BY <1>1, <1>8, <1>9, <1>10, <1>12, <1>15, <1>17

-----------------------------------------------------------------------------
(* A cut whose parent is no root.                                          *)

\* What the code does with the links and label sets, N being all the nodes.
CutInside(N, par, sib, lc, rc, st, c, P, s, g, u, up, par2, sib2, lc2, rc2, st2) ==
    /\ st2 = [n \in N |-> IF n \in up THEN SymDiff(st[n], st[c]) ELSE st[n]]
    /\ par2 = [par EXCEPT ![s] = g, ![c] = NullNode]
    /\ sib2 = [sib EXCEPT ![s] = u, ![u] = s, ![c] = NullNode]
    /\ Resorted(N, up, [lc EXCEPT ![g] = IF @ = P THEN s ELSE @],
                [rc EXCEPT ![g] = IF lc[g] = P THEN @ ELSE s], st2, lc2, rc2)

\* c is cut in the visible part L of M.
CuttingInside(M, C, par, sib, st, L, c, P, s, g, u, up) ==
    /\ L = Visible(M, st, C)
    /\ Cutting(L, par, sib, st, c, P, s, g, u, up)

\* The nodes above the parent are visible and not collapsed.
LEMMA CutsAgree ==
    ASSUME NEW N, NEW M, NEW lx, NEW rx, NEW C, NEW par, NEW sib, NEW lc, NEW rc,
           NEW st, NEW rts, NEW ltt, NEW ttl,
           Shaped(N, M, lx, rx, C, par, sib, lc, rc, st, rts, ltt, ttl),
           NEW L, NEW c, NEW P, NEW s, NEW g, NEW u, NEW up,
           CuttingInside(M, C, par, sib, st, L, c, P, s, g, u, up)
    PROVE  /\ Cutting(M, par, sib, st, c, P, s, g, u, up)
           /\ up \subseteq L /\ \A n \in up : n \notin C
           /\ P \in L /\ P \notin C /\ \A k \in C : ~ st[P] \subseteq st[k]
<1>1. /\ L = Visible(M, st, C) /\ c \in L /\ P = par[c] /\ P # NullNode /\ s = sib[c]
      /\ g = par[P] /\ g # NullNode /\ u = sib[P] /\ up = From(L, st, P)
  BY DEF CuttingInside, Cutting
<1>2. /\ c \in M /\ P \in L /\ P \in M /\ P \notin C
      /\ \A k \in C : ~ st[P] \subseteq st[k]
  BY <1>1, CutIsVisible
<1>3. up \subseteq L /\ \A n \in up : n \notin C
  BY <1>1, <1>2 DEF From
<1>4. up = From(M, st, P)
  <2>1. ASSUME NEW n \in M, st[P] \subseteq st[n]
        PROVE  n \in L
    <3>1. \A k \in C : ~ st[n] \subseteq st[k]
      BY <1>2, <2>1
    <3> QED
      BY <1>1, <3>1 DEF Visible, Under
  <2>2. L \subseteq M
    BY <1>1 DEF Visible
  <2> QED
    BY <1>1, <2>1, <2>2 DEF From
<1>5. Cutting(M, par, sib, st, c, P, s, g, u, up)
  BY <1>1, <1>2, <1>4 DEF Cutting
<1> QED
  BY <1>2, <1>3, <1>5

\* The children of the nodes that are open, as the code leaves them.
OpenedLike(N, C, lx, lc2) == [n \in N |-> IF n \in C THEN lx[n] ELSE lc2[n]]

\* The children of the nodes in up are in the order the code asks for.
Sorted(up, st, lc, rc) ==
    \A n \in up : \E l, r : IF HasSmallestTerminal(st[r], st[l])
                           THEN lc[n] = r /\ rc[n] = l
                           ELSE lc[n] = l /\ rc[n] = r

\* Cut and sorted, the links are those of the visible nodes, and opened
\* those of all.
LEMMA CutRelinks ==
    ASSUME NEW N, NEW M, NEW lx, NEW rx, NEW C, NEW par, NEW sib, NEW lc, NEW rc,
           NEW st, NEW rts, NEW ltt, NEW ttl,
           Shaped(N, M, lx, rx, C, par, sib, lc, rc, st, rts, ltt, ttl),
           NEW L, NEW c, NEW P, NEW s, NEW g, NEW u, NEW up,
           CuttingInside(M, C, par, sib, st, L, c, P, s, g, u, up),
           NEW par2, NEW sib2, NEW lc2, NEW rc2, NEW st2,
           CutInside(N, par, sib, lc, rc, st, c, P, s, g, u, up,
                     par2, sib2, lc2, rc2, st2),
           NEW lx2, lx2 = OpenedLike(N, C, lx, lc2),
           NEW rx2, rx2 = OpenedLike(N, C, rx, rc2)
    PROVE  /\ Relinked(N, par, sib, lc, rc, st, c, P, s, g, u, up,
                       par2, sib2, lc2, rc2, st2)
           /\ Relinked(N, par, sib, lx, rx, st, c, P, s, g, u, up,
                       par2, sib2, lx2, rx2, st2)
           /\ lc2 = Closed(N, C, lx2) /\ rc2 = Closed(N, C, rx2)
           /\ Sorted(up, st2, lx2, rx2)
<1>1. /\ Cutting(M, par, sib, st, c, P, s, g, u, up)
      /\ up \subseteq L /\ \A n \in up : n \notin C
  BY CutsAgree
<1>2. /\ Linked(N, M, par, sib, lx, rx, st) /\ C \in SUBSET M
      /\ lc = Closed(N, C, lx) /\ rc = Closed(N, C, rx)
      /\ L \subseteq M /\ M \subseteq N
  <2>1. /\ Linked(N, M, par, sib, lx, rx, st) /\ C \in SUBSET M
        /\ lc = Closed(N, C, lx) /\ rc = Closed(N, C, rx)
    BY DEF Shaped
  <2>2. L \subseteq M
    BY DEF CuttingInside, Visible
  <2> QED
    BY <2>1, <2>2 DEF Linked, Typed
<1>3. /\ lx \in [N -> N \cup {NullNode}] /\ rx \in [N -> N \cup {NullNode}]
      /\ up \in SUBSET N
  BY <1>1, <1>2 DEF Linked, Typed
<1>4. g \in up /\ g \in N /\ s \in N /\ g \notin C
  <2>1. g \in up /\ s \in M
    BY <1>1, <1>2, CutPlaces
  <2> QED
    BY <1>1, <1>2, <2>1
<1>5. /\ \A n \in N : n \in C => lc[n] = NullNode /\ rc[n] = NullNode
      /\ \A n \in N : n \notin C => lc[n] = lx[n] /\ rc[n] = rx[n]
      /\ lc \in [N -> N \cup {NullNode}] /\ rc \in [N -> N \cup {NullNode}]
  BY <1>2, <1>3 DEF Closed
<1>6. PICK lefts, rights :
         /\ lefts = [lc EXCEPT ![g] = IF @ = P THEN s ELSE @]
         /\ rights = [rc EXCEPT ![g] = IF lc[g] = P THEN @ ELSE s]
  OBVIOUS
<1>7. PICK leftsx, rightsx :
         /\ leftsx = [lx EXCEPT ![g] = IF @ = P THEN s ELSE @]
         /\ rightsx = [rx EXCEPT ![g] = IF lx[g] = P THEN @ ELSE s]
  OBVIOUS
<1>8. /\ lefts \in [N -> N \cup {NullNode}] /\ rights \in [N -> N \cup {NullNode}]
      /\ \A n \in N : n # g => lefts[n] = lc[n] /\ rights[n] = rc[n]
      /\ \A n \in N : n # g => leftsx[n] = lx[n] /\ rightsx[n] = rx[n]
      /\ leftsx[g] = lefts[g] /\ rightsx[g] = rights[g]
  BY <1>3, <1>4, <1>5, <1>6, <1>7
<1>9. Resorted(N, up, lefts, rights, st2, lc2, rc2)
  BY <1>6 DEF CutInside
<1>10. /\ lc2 \in [N -> N \cup {NullNode}] /\ rc2 \in [N -> N \cup {NullNode}]
       /\ \A n \in N : Children(lefts, rights, lc2, rc2, n)
       /\ \A n \in N \ up : lc2[n] = lefts[n] /\ rc2[n] = rights[n]
       /\ \A n \in up :
             IF HasSmallestTerminal(st2[rights[n]], st2[lefts[n]])
             THEN lc2[n] = rights[n] /\ rc2[n] = lefts[n]
             ELSE lc2[n] = lefts[n] /\ rc2[n] = rights[n]
  <2>1. /\ lc2 = [n \in N |-> IF n \in SwappedIn(up, lefts, rights, st2)
                               THEN rights[n] ELSE lefts[n]]
        /\ rc2 = [n \in N |-> IF n \in SwappedIn(up, lefts, rights, st2)
                               THEN lefts[n] ELSE rights[n]]
    BY <1>9 DEF Resorted
  <2>2. \A n \in SwappedIn(up, lefts, rights, st2) : n \in up
    BY DEF SwappedIn
  <2>3. \A n \in up : n \in SwappedIn(up, lefts, rights, st2)
                        <=> HasSmallestTerminal(st2[rights[n]], st2[lefts[n]])
    BY DEF SwappedIn
  <2> QED
    BY <1>3, <1>8, <2>1, <2>2, <2>3 DEF Children
<1>11. /\ \A n \in N : n \in C => lx2[n] = lx[n] /\ rx2[n] = rx[n]
       /\ \A n \in N : n \notin C => lx2[n] = lc2[n] /\ rx2[n] = rc2[n]
       /\ lx2 \in [N -> N \cup {NullNode}] /\ rx2 \in [N -> N \cup {NullNode}]
  BY <1>3, <1>10 DEF OpenedLike
<1>12. \A n \in N : Children(leftsx, rightsx, lx2, rx2, n)
  <2> SUFFICES ASSUME NEW n \in N PROVE Children(leftsx, rightsx, lx2, rx2, n)
    OBVIOUS
  <2>1. CASE n \in C
    <3>1. n # g
      BY <1>4, <2>1
    <3> QED
      BY <1>8, <1>11, <2>1, <3>1 DEF Children
  <2>2. CASE n \notin C
    <3>1. leftsx[n] = lefts[n] /\ rightsx[n] = rights[n]
      BY <1>4, <1>5, <1>8, <2>2
    <3>2. Children(lefts, rights, lc2, rc2, n)
      BY <1>10
    <3> QED
      BY <1>11, <2>2, <3>1, <3>2 DEF Children
  <2> QED
    BY <2>1, <2>2
<1>13. \A n \in N \ up : lx2[n] = leftsx[n] /\ rx2[n] = rightsx[n]
  <2> SUFFICES ASSUME NEW n \in N \ up PROVE lx2[n] = leftsx[n] /\ rx2[n] = rightsx[n]
    OBVIOUS
  <2>1. n # g
    BY <1>4
  <2>2. CASE n \in C
    BY <1>8, <1>11, <2>1, <2>2
  <2>3. CASE n \notin C
    BY <1>5, <1>8, <1>10, <1>11, <2>1, <2>3
  <2> QED
    BY <2>2, <2>3
<1>14. \A n \in N : lc2[n] = (IF n \in C THEN NullNode ELSE lx2[n])
                    /\ rc2[n] = (IF n \in C THEN NullNode ELSE rx2[n])
  <2> SUFFICES ASSUME NEW n \in N
               PROVE  lc2[n] = (IF n \in C THEN NullNode ELSE lx2[n])
                      /\ rc2[n] = (IF n \in C THEN NullNode ELSE rx2[n])
    OBVIOUS
  <2>1. CASE n \in C
    <3>1. n # g /\ n \notin up
      BY <1>1, <1>4, <2>1
    <3> QED
      BY <1>5, <1>8, <1>10, <2>1, <3>1
  <2>2. CASE n \notin C
    BY <1>11, <2>2
  <2> QED
    BY <2>1, <2>2
<1>15. lc2 = Closed(N, C, lx2) /\ rc2 = Closed(N, C, rx2)
  BY <1>10, <1>14 DEF Closed
<1>16. /\ st2 = [n \in N |-> IF n \in up THEN SymDiff(st[n], st[c]) ELSE st[n]]
       /\ par2 = [par EXCEPT ![s] = g, ![c] = NullNode]
       /\ sib2 = [sib EXCEPT ![s] = u, ![u] = s, ![c] = NullNode]
  BY DEF CutInside
<1>17. Relinked(N, par, sib, lc, rc, st, c, P, s, g, u, up, par2, sib2, lc2, rc2, st2)
  BY <1>6, <1>10, <1>16 DEF Relinked
<1>18. Relinked(N, par, sib, lx, rx, st, c, P, s, g, u, up, par2, sib2, lx2, rx2, st2)
  BY <1>7, <1>11, <1>12, <1>13, <1>16 DEF Relinked
<1>19. ASSUME NEW n \in up
       PROVE  \E l, r : IF HasSmallestTerminal(st2[r], st2[l])
                        THEN lx2[n] = r /\ rx2[n] = l
                        ELSE lx2[n] = l /\ rx2[n] = r
  <2>1. lx2[n] = lc2[n] /\ rx2[n] = rc2[n]
    BY <1>1, <1>3, <1>11
  <2>2. IF HasSmallestTerminal(st2[rights[n]], st2[lefts[n]])
        THEN lx2[n] = rights[n] /\ rx2[n] = lefts[n]
        ELSE lx2[n] = lefts[n] /\ rx2[n] = rights[n]
    BY <1>10, <2>1
  <2> QED
    BY <2>1, <2>2
<1>20. Sorted(up, st2, lx2, rx2)
  BY <1>19 DEF Sorted
<1> QED
  BY <1>15, <1>17, <1>18, <1>20

\* All nodes and the links between them, every collapse opened, before and
\* after a cut inside.
CutThrough(N, M, lx, rx, C, par, sib, lc, rc, st, c, P, s, g, u, up,
           M2, lx2, rx2, par2, sib2, lc2, rc2, st2) ==
    /\ CutInside(N, par, sib, lc, rc, st, c, P, s, g, u, up,
                 par2, sib2, lc2, rc2, st2)
    /\ lx2 = OpenedLike(N, C, lx, lc2) /\ rx2 = OpenedLike(N, C, rx, rc2)
    /\ M2 = M \ {P}

\* What is collapsed, and every leaf, stays as it is.
LEMMA CutInsideFreezes ==
    ASSUME NEW N, NEW M, NEW lx, NEW rx, NEW C, NEW par, NEW sib, NEW st,
           Linked(N, M, par, sib, lx, rx, st), C \in SUBSET M,
           NEW c, NEW P, NEW s, NEW g, NEW u, NEW up,
           Cutting(M, par, sib, st, c, P, s, g, u, up),
           \A k \in C : ~ st[P] \subseteq st[k],
           NEW par2, NEW sib2, NEW lx2, NEW rx2, NEW st2,
           Relinked(N, par, sib, lx, rx, st, c, P, s, g, u, up,
                    par2, sib2, lx2, rx2, st2),
           NEW M2, M2 = M \ {P}
    PROVE  Frozen(M, lx, rx, st, C, M2, lx2, rx2, st2)
<1>1. /\ P \in M /\ lx[P] # NullNode /\ s \in M /\ par[s] = P /\ P # NullNode
      /\ st[c] # {} /\ st[s] # {} /\ st[c] \cap st[s] = {}
      /\ st[P] = st[c] \cup st[s]
      /\ g \in M /\ u \in M /\ par[P] = g /\ g # NullNode
      /\ st[u] # {} /\ st[P] \cap st[u] = {} /\ st[g] = st[P] \cup st[u]
      /\ up \subseteq M /\ \A n \in up : st[P] \subseteq st[n]
      /\ \A n \in M : st[P] \subseteq st[n] => n \in up
      /\ M \subseteq N
  <2>1. P # NullNode /\ g # NullNode
    BY DEF Cutting
  <2>2. M \subseteq N
    BY DEF Linked, Typed
  <2> QED
    BY <2>1, <2>2, CutPlaces
<1>2. /\ \A n \in N \ up : lx2[n] = lx[n] /\ rx2[n] = rx[n]
      /\ \A n \in up : st[c] \subseteq st[n] /\ st2[n] = st[n] \ st[c]
      /\ \A n \in M \ up : st2[n] = st[n]
  <2>1. CutMoves(N, M, par, sib, lx, rx, st, c, P, s, g, u, up,
                 par2, sib2, lx2, rx2, st2, M2)
    BY CutPointers
  <2> QED
    BY <2>1 DEF CutMoves
<1>3. LeavesKept(M2, lx, st, lx2, st2, up)
  BY CutUnderInner
<1>4. ASSUME NEW n \in M, lx[n] = NullNode \/ \E k \in C : st[n] \subseteq st[k]
      PROVE  n \in M2 /\ lx2[n] = lx[n] /\ rx2[n] = rx[n] /\ st2[n] = st[n]
  <2>1. n \in M2
    BY <1>1, <1>4
  <2>2. n \notin up
    BY <1>1, <1>3, <1>4, <2>1 DEF LeavesKept
  <2> QED
    BY <1>1, <1>2, <2>1, <2>2
<1>5. ASSUME NEW n \in M2
      PROVE  n \in M /\ (lx2[n] = NullNode => lx[n] = NullNode)
  BY <1>3 DEF LeavesKept
<1>6. ASSUME NEW n \in M2, NEW k \in C, st2[n] \subseteq st2[k]
      PROVE  st[n] \subseteq st[k]
  <2>1. k \in M /\ n \in M /\ n # P /\ k \notin up /\ st2[k] = st[k]
    BY <1>1, <1>2
  <2>2. CASE n \notin up
    BY <1>2, <1>6, <2>1, <2>2
  <2>3. CASE n \in up
    <3>1. st[P] \subseteq st[n] /\ st2[n] = st[n] \ st[c]
      BY <1>1, <1>2, <2>3
    <3>2. st[s] \subseteq st[k]
      BY <1>1, <1>6, <2>1, <3>1
    <3>3. k = s
      <4>1. \A m \in M : st[s] \subseteq st[m] /\ m # s => st[par[s]] \subseteq st[m]
        BY <1>1, Upward
      <4> QED
        BY <1>1, <2>1, <3>2, <4>1
    <3>4. st[g] \subseteq st[n]
      <4>1. \A m \in M : st[P] \subseteq st[m] /\ m # P => st[par[P]] \subseteq st[m]
        BY <1>1, Upward
      <4> QED
        BY <1>1, <2>1, <3>1, <4>1
    <3> QED
      BY <1>1, <1>6, <2>1, <3>1, <3>3, <3>4
  <2> QED
    BY <2>2, <2>3
<1> QED
  BY <1>4, <1>5, <1>6 DEF Frozen

\* The children are in order again.
LEMMA CutInsideInOrder ==
    ASSUME ZeroWordsAreHarmless,
           NEW N, NEW M, NEW lx, NEW rx, NEW par, NEW sib, NEW st,
           Linked(N, M, par, sib, lx, rx, st), InChildOrder(M, lx, rx, st),
           NEW c, NEW P, NEW s, NEW g, NEW u, NEW up,
           Cutting(M, par, sib, st, c, P, s, g, u, up),
           NEW par2, NEW sib2, NEW lx2, NEW rx2, NEW st2,
           Relinked(N, par, sib, lx, rx, st, c, P, s, g, u, up,
                    par2, sib2, lx2, rx2, st2),
           NEW M2, M2 = M \ {P}, Linked(N, M2, par2, sib2, lx2, rx2, st2),
           Sorted(up, st2, lx2, rx2)
    PROVE  InChildOrder(M2, lx2, rx2, st2)
<1>1. /\ \A n \in N \ up : lx2[n] = lx[n] /\ rx2[n] = rx[n]
      /\ \A n \in M \ up : st2[n] = st[n]
  <2>1. CutMoves(N, M, par, sib, lx, rx, st, c, P, s, g, u, up,
                 par2, sib2, lx2, rx2, st2, M2)
    BY CutPointers
  <2> QED
    BY <2>1 DEF CutMoves
<1>2. /\ up \subseteq M /\ \A n \in up : st[P] \subseteq st[n]
      /\ \A n \in M : st[P] \subseteq st[n] => n \in up
  BY CutPlaces
<1>3. M \subseteq N
  BY DEF Linked, Typed
<1>4. ASSUME NEW n \in M2, lx2[n] # NullNode
      PROVE  Smallest(st2[lx2[n]]) < Smallest(st2[rx2[n]])
  <2>1. CASE n \in up
    <3>1. PICK l, r : IF HasSmallestTerminal(st2[r], st2[l])
                      THEN lx2[n] = r /\ rx2[n] = l
                      ELSE lx2[n] = l /\ rx2[n] = r
      BY <2>1 DEF Sorted
    <3>2. PICK lefts, rights : lefts = [m \in {n} |-> l] /\ rights = [m \in {n} |-> r]
      OBVIOUS
    <3>3. lefts[n] = l /\ rights[n] = r
      BY <3>2
    <3>4. IF HasSmallestTerminal(st2[rights[n]], st2[lefts[n]])
          THEN lx2[n] = rights[n] /\ rx2[n] = lefts[n]
          ELSE lx2[n] = lefts[n] /\ rx2[n] = rights[n]
      BY <3>1, <3>3
    <3> QED
      BY <1>4, <3>4, ResortedInOrder
  <2>2. CASE n \notin up
    <3>1. n \in M /\ lx2[n] = lx[n] /\ rx2[n] = rx[n] /\ lx[n] # NullNode
      BY <1>1, <1>3, <1>4, <2>2
    <3>2. lx[n] \in M /\ rx[n] \in M /\ st[n] = st[lx[n]] \cup st[rx[n]]
      BY <3>1, Downward DEF Splits
    <3>3. lx[n] \notin up /\ rx[n] \notin up
      BY <1>2, <2>2, <3>1, <3>2
    <3>4. Smallest(st[lx[n]]) < Smallest(st[rx[n]])
      BY <3>1 DEF InChildOrder
    <3> QED
      BY <1>1, <3>1, <3>2, <3>3, <3>4
  <2> QED
    BY <2>1, <2>2
<1> QED
  BY <1>4 DEF InChildOrder

\* All in one.
LEMMA CutThroughLinked ==
    ASSUME ZeroWordsAreHarmless,
           NEW N, NEW M, NEW lx, NEW rx, NEW C, NEW par, NEW sib, NEW lc, NEW rc,
           NEW st, NEW rts, NEW ltt, NEW ttl,
           Shaped(N, M, lx, rx, C, par, sib, lc, rc, st, rts, ltt, ttl),
           NEW L, NEW c, NEW P, NEW s, NEW g, NEW u, NEW up,
           CuttingInside(M, C, par, sib, st, L, c, P, s, g, u, up),
           NEW M2, NEW lx2, NEW rx2, NEW par2, NEW sib2, NEW lc2, NEW rc2, NEW st2,
           CutThrough(N, M, lx, rx, C, par, sib, lc, rc, st, c, P, s, g, u, up,
                      M2, lx2, rx2, par2, sib2, lc2, rc2, st2)
    PROVE  /\ Linked(N, M2, par2, sib2, lx2, rx2, st2)
           /\ InChildOrder(M2, lx2, rx2, st2)
           /\ C \in SUBSET M2
           /\ lc2 = Closed(N, C, lx2) /\ rc2 = Closed(N, C, rx2)
           /\ Tops(M2, par2) = Tops(M, par) \cup {c}
           /\ LabelSets(st2, Visible(M2, st2, C)) = CutEdge(LabelSets(st, L), st[c])
           /\ Frozen(M, lx, rx, st, C, M2, lx2, rx2, st2)
<1>1. /\ Cutting(M, par, sib, st, c, P, s, g, u, up)
      /\ P \in L /\ P \notin C /\ \A k \in C : ~ st[P] \subseteq st[k]
  BY CutsAgree
<1>2. /\ CutInside(N, par, sib, lc, rc, st, c, P, s, g, u, up,
                   par2, sib2, lc2, rc2, st2)
      /\ lx2 = OpenedLike(N, C, lx, lc2) /\ rx2 = OpenedLike(N, C, rx, rc2)
      /\ M2 = M \ {P}
  BY DEF CutThrough
<1>3. /\ Relinked(N, par, sib, lc, rc, st, c, P, s, g, u, up,
                  par2, sib2, lc2, rc2, st2)
      /\ Relinked(N, par, sib, lx, rx, st, c, P, s, g, u, up,
                  par2, sib2, lx2, rx2, st2)
      /\ lc2 = Closed(N, C, lx2) /\ rc2 = Closed(N, C, rx2)
      /\ Sorted(up, st2, lx2, rx2)
  BY <1>2, CutRelinks
<1>4. /\ Linked(N, M, par, sib, lx, rx, st) /\ InChildOrder(M, lx, rx, st)
      /\ C \in SUBSET M
  BY DEF Shaped
<1>5. L = Visible(M, st, C) /\ Cutting(L, par, sib, st, c, P, s, g, u, up)
  BY DEF CuttingInside
<1>6. Linked(N, L, par, sib, lc, rc, st)
  BY <1>5, ShapedVisible
<1>7. /\ Linked(N, M2, par2, sib2, lx2, rx2, st2)
      /\ Tops(M2, par2) = Tops(M, par) \cup {c}
  BY <1>1, <1>2, <1>3, <1>4, CutUnderInner
<1>8. LabelSets(st2, L \ {P}) = CutEdge(LabelSets(st, L), st[c])
  BY <1>3, <1>5, <1>6, CutUnderInner
<1>9. Frozen(M, lx, rx, st, C, M2, lx2, rx2, st2)
  BY <1>1, <1>2, <1>3, <1>4, CutInsideFreezes
<1>10. InChildOrder(M2, lx2, rx2, st2)
  BY <1>1, <1>2, <1>3, <1>4, <1>7, CutInsideInOrder
<1>11. Visible(M2, st2, C) = L \ {P}
  <2>1. SameBelow(M, lx, rx, st, C, M2, lx2, rx2, st2)
    BY <1>4, <1>9, FrozenBelow
  <2>2. \A n \in M2 : Under(st, C, n) <=> Under(st2, C, n)
    BY <2>1 DEF SameBelow
  <2> QED
    BY <1>2, <1>5, <2>2 DEF Visible
<1> QED
  BY <1>1, <1>2, <1>3, <1>4, <1>7, <1>8, <1>9, <1>10, <1>11

\* r is the one node of up without a parent.
TheRoot(up, par, r) ==
    /\ r \in up /\ par[r] = NullNode
    /\ \A n \in up : par[n] = NullNode => n = r

\* There is such a node.
HasRoot(up, par) == \E r : TheRoot(up, par, r)

\* One node above the cut has no parent.
LEMMA OneRootAbove ==
    ASSUME NEW N, NEW M, NEW par, NEW sib, NEW lx, NEW rx, NEW st,
           Linked(N, M, par, sib, lx, rx, st),
           NEW c, NEW P, NEW s, NEW g, NEW u, NEW up,
           Cutting(M, par, sib, st, c, P, s, g, u, up)
    PROVE  HasRoot(up, par)
<1>1. /\ up \subseteq M /\ \A n \in up : st[P] \subseteq st[n]
      /\ \A n \in M : st[P] \subseteq st[n] => n \in up
      /\ P \in up
  <2>1. up = From(M, st, P) /\ P \in M
    <3>1. c \in M /\ P = par[c] /\ P # NullNode /\ up = From(M, st, P)
      BY DEF Cutting
    <3> QED
      BY <3>1, Upward
  <2> QED
    BY <2>1 DEF From
<1>2. up # {} /\ \A n \in up : st[n] \in Node
  BY <1>1 DEF Linked, Typed
<1>3. PICK top : Outermost(up, st, top)
  BY <1>2, OutermostNode
<1>4. top \in up /\ top \in M /\ \A m \in up : st[top] \subseteq st[m] => st[m] = st[top]
  BY <1>1, <1>3 DEF Outermost
<1>5. par[top] = NullNode
  <2> SUFFICES ASSUME par[top] # NullNode PROVE FALSE
    OBVIOUS
  <2>1. par[top] \in M /\ par[top] # top /\ st[top] \subseteq st[par[top]]
    BY <1>4, Upward
  <2>2. par[top] \in up
    BY <1>1, <1>4, <2>1
  <2>3. st[par[top]] = st[top]
    BY <1>4, <2>1, <2>2
  <2> QED
    BY <1>4, <2>1, <2>3 DEF Linked, Apart
<1>6. ASSUME NEW n \in up, par[n] = NullNode
      PROVE  n = top
  <2>1. st[P] # {} /\ st[P] \subseteq st[n] /\ st[P] \subseteq st[top] /\ n \in M
    BY <1>1, <1>4 DEF Linked, Apart
  <2>2. st[n] \subseteq st[top] \/ st[top] \subseteq st[n]
    BY <1>4, <2>1 DEF Linked, Apart
  <2>3. CASE st[n] \subseteq st[top]
    BY <1>4, <1>6, <2>1, <2>3, Topmost
  <2>4. CASE st[top] \subseteq st[n]
    BY <1>4, <1>5, <2>1, <2>4, Topmost
  <2> QED
    BY <2>2, <2>3, <2>4
<1>7. TheRoot(up, par, top)
  BY <1>4, <1>5, <1>6 DEF TheRoot
<1> QED
  BY <1>7 DEF HasRoot

\* What the code does with the roots.
PlantedAbove(par, st2, rts, up, c, root, i, j, rts2) ==
    /\ root = CHOOSE n \in up : par[n] = NullNode
    /\ i = Smallest({k \in DOMAIN rts : rts[k] = root})
    /\ LET first == HasSmallestTerminal(st2[root], st2[c])
           kept == IF first THEN rts ELSE [rts EXCEPT ![i] = c]
           added == IF first THEN c ELSE root
       IN  j = LowerBound(kept, i, added, st2) /\ rts2 = InsertAt(kept, j, added)

\* The roots are in order again, and can be set back.
LEMMA CutInsideRooted ==
    ASSUME ZeroWordsAreHarmless,
           NEW N, NEW M, NEW par, NEW sib, NEW lx, NEW rx, NEW st,
           Linked(N, M, par, sib, lx, rx, st),
           NEW rts, Rooted(M, par, st, rts),
           NEW c, NEW P, NEW s, NEW g, NEW u, NEW up,
           Cutting(M, par, sib, st, c, P, s, g, u, up),
           NEW par2, NEW sib2, NEW lx2, NEW rx2, NEW st2,
           Relinked(N, par, sib, lx, rx, st, c, P, s, g, u, up,
                    par2, sib2, lx2, rx2, st2),
           NEW M2, M2 = M \ {P}, Linked(N, M2, par2, sib2, lx2, rx2, st2),
           Tops(M2, par2) = Tops(M, par) \cup {c},
           NEW root, NEW i, NEW j, NEW rts2,
           PlantedAbove(par, st2, rts, up, c, root, i, j, rts2)
    PROVE  /\ Rooted(M2, par2, st2, rts2)
           /\ SetBack(rts2, i, root, j) = rts
           /\ TheRoot(up, par, root)
<1>1. root \in up /\ par[root] = NullNode /\ \A n \in up : par[n] = NullNode => n = root
  <2>0. PICK r : TheRoot(up, par, r)
    <3>1. HasRoot(up, par)
      BY OneRootAbove
    <3> QED
      BY <3>1 DEF HasRoot
  <2>1. r \in up /\ par[r] = NullNode /\ \A n \in up : par[n] = NullNode => n = r
    BY <2>0 DEF TheRoot
  <2>2. root = CHOOSE n \in up : par[n] = NullNode
    BY DEF PlantedAbove
  <2>3. root \in up /\ par[root] = NullNode
    BY <2>1, <2>2
  <2> QED
    BY <2>1, <2>3
<1>2. /\ up \subseteq M /\ c \in M /\ c # P /\ c \notin up /\ s \notin up
      /\ par[P] = g /\ g # NullNode /\ par[c] = P /\ P # NullNode
      /\ st[c] # {} /\ M \subseteq N
  <2>1. P # NullNode /\ g # NullNode
    BY DEF Cutting
  <2>2. M \subseteq N
    BY DEF Linked, Typed
  <2> QED
    BY <2>1, <2>2, CutPlaces
<1>3. /\ \A n \in N : n # s /\ n # c => par2[n] = par[n]
      /\ par2[c] = NullNode
      /\ \A n \in up : st[c] \subseteq st[n] /\ st2[n] = st[n] \ st[c]
      /\ \A n \in M \ up : st2[n] = st[n]
  <2>1. CutMoves(N, M, par, sib, lx, rx, st, c, P, s, g, u, up,
                 par2, sib2, lx2, rx2, st2, M2)
    BY CutPointers
  <2> QED
    BY <2>1 DEF CutMoves
<1>4. i \in DOMAIN rts /\ rts[i] = root
  <2>1. i = Smallest({k \in DOMAIN rts : rts[k] = root})
    BY DEF PlantedAbove
  <2> QED
    BY <1>1, <1>2, <2>1, RootFound
<1>5. /\ root \in M /\ root \in M2 /\ c \in M2 /\ root # c
      /\ par2[root] = NullNode /\ par2[c] = NullNode
      /\ st2[c] = st[c] /\ st2[root] = st[root] \ st[c] /\ st[c] \subseteq st[root]
  BY <1>1, <1>2, <1>3
<1>6. /\ st2[root] \cap st2[c] = {}
      /\ HasSmallestTerminal(st2[root], st2[c])
            <=> Smallest(st2[root]) < Smallest(st2[c])
      /\ Smallest(st2[root]) \in Nat /\ Smallest(st2[c]) \in Nat
      /\ Smallest(st2[root]) # Smallest(st2[c])
  <2>1. st2[root] # {} /\ st2[c] # {} /\ st2[root] \cap st2[c] = {}
        /\ st2[root] \in SUBSET Labels /\ st2[c] \in SUBSET Labels
    BY <1>5 DEF Linked, Typed, Node, Apart
  <2> QED
    BY <2>1, ComparesSmallest
<1>7. PICK first : first = HasSmallestTerminal(st2[root], st2[c])
  OBVIOUS
<1>8. PICK y, x : y = (IF first THEN root ELSE c) /\ x = (IF first THEN c ELSE root)
  OBVIOUS
<1>9. /\ Smallest(st2[y]) < Smallest(st2[x])
      /\ Smallest(st2[y]) = Smallest(st[root])
  <2>1. Smallest(st2[y]) < Smallest(st2[x])
    BY <1>6, <1>7, <1>8
  <2>2. st[root] = st2[y] \cup st2[x]
    BY <1>5, <1>8
  <2>3. st2[y] \in SUBSET Nat /\ st2[x] \in SUBSET Nat /\ st2[y] # {} /\ st2[x] # {}
    BY <1>5, <1>8, LabelsAreTaxa DEF Linked, Typed, Node, Apart
  <2> QED
    BY <2>1, <2>2, <2>3, SmallestOfUnion
<1>10. \A k \in DOMAIN rts : rts[k] \in M /\ par[rts[k]] = NullNode
  BY DEF Rooted, Range
<1>11. Replanted(N, M, par, st, rts, i, M2, par2, st2, y, x)
  <2>1. /\ M2 \in SUBSET N /\ x \in M2 /\ y \in M2
        /\ par2[x] = NullNode /\ par2[y] = NullNode
    BY <1>2, <1>5, <1>8
  <2>2. ASSUME NEW k \in DOMAIN rts, rts[k] # rts[i]
        PROVE  st2[rts[k]] = st[rts[k]] /\ rts[k] # x
    <3>1. rts[k] \notin up
      BY <1>1, <1>4, <1>10, <2>2
    <3> QED
      BY <1>2, <1>3, <1>4, <1>8, <1>10, <2>2, <3>1
  <2>3. {n \in M2 : par2[n] = NullNode}
           = ({n \in M : par[n] = NullNode} \ {rts[i]}) \cup {x, y}
    <3>1. {n \in M2 : par2[n] = NullNode} = {n \in M : par[n] = NullNode} \cup {c}
      BY DEF Tops
    <3>2. {x, y} = {root, c}
      BY <1>8
    <3>3. root \in {n \in M : par[n] = NullNode}
      BY <1>1, <1>5
    <3> QED
      BY <1>4, <3>1, <3>2, <3>3
  <2> QED
    BY <1>4, <1>9, <2>1, <2>2, <2>3 DEF Replanted
<1>12. Planted(rts, i, y, x, st2, j, rts2)
  <2>1. /\ j = LowerBound(IF first THEN rts ELSE [rts EXCEPT ![i] = c], i,
                          IF first THEN c ELSE root, st2)
        /\ rts2 = InsertAt(IF first THEN rts ELSE [rts EXCEPT ![i] = c], j,
                           IF first THEN c ELSE root)
    BY <1>7 DEF PlantedAbove
  <2>2. rts = [rts EXCEPT ![i] = rts[i]]
    BY DEF Rooted
  <2>3. (IF first THEN rts ELSE [rts EXCEPT ![i] = c]) = [rts EXCEPT ![i] = y]
    BY <1>4, <1>8, <2>2
  <2> QED
    BY <1>8, <2>1, <2>3 DEF Planted
<1>13. Rooted(M2, par2, st2, rts2) /\ SetBack(rts2, i, rts[i], j) = rts
  BY <1>11, <1>12, RootInserted
<1>14. TheRoot(up, par, root)
  BY <1>1 DEF TheRoot
<1> QED
  BY <1>4, <1>13, <1>14

\* The forest is shaped as before, without the parent.
LEMMA CutInsideShaped ==
    ASSUME ZeroWordsAreHarmless,
           NEW N, NEW M, NEW lx, NEW rx, NEW C, NEW par, NEW sib, NEW lc, NEW rc,
           NEW st, NEW rts, NEW ltt, NEW ttl,
           Shaped(N, M, lx, rx, C, par, sib, lc, rc, st, rts, ltt, ttl),
           NEW L, NEW c, NEW P, NEW s, NEW g, NEW u, NEW up,
           CuttingInside(M, C, par, sib, st, L, c, P, s, g, u, up),
           NEW M2, NEW lx2, NEW rx2, NEW par2, NEW sib2, NEW lc2, NEW rc2, NEW st2,
           CutThrough(N, M, lx, rx, C, par, sib, lc, rc, st, c, P, s, g, u, up,
                      M2, lx2, rx2, par2, sib2, lc2, rc2, st2),
           NEW root, NEW i, NEW j, NEW rts2,
           PlantedAbove(par, st2, rts, up, c, root, i, j, rts2)
    PROVE  /\ Shaped(N, M2, lx2, rx2, C, par2, sib2, lc2, rc2, st2, rts2, ltt, ttl)
           /\ Frozen(M, lx, rx, st, C, M2, lx2, rx2, st2)
           /\ LabelSets(st2, Visible(M2, st2, C)) = CutEdge(LabelSets(st, L), st[c])
           /\ SetBack(rts2, i, root, j) = rts
           /\ TheRoot(up, par, root)
<1>1. /\ Linked(N, M2, par2, sib2, lx2, rx2, st2)
      /\ InChildOrder(M2, lx2, rx2, st2)
      /\ C \in SUBSET M2
      /\ lc2 = Closed(N, C, lx2) /\ rc2 = Closed(N, C, rx2)
      /\ Tops(M2, par2) = Tops(M, par) \cup {c}
      /\ LabelSets(st2, Visible(M2, st2, C)) = CutEdge(LabelSets(st, L), st[c])
      /\ Frozen(M, lx, rx, st, C, M2, lx2, rx2, st2)
  BY CutThroughLinked
<1>2. /\ Linked(N, M, par, sib, lx, rx, st) /\ Rooted(M, par, st, rts)
      /\ C \in SUBSET M /\ Labelled(M, lx, st, C, ltt, ttl)
  BY DEF Shaped
<1>3. Cutting(M, par, sib, st, c, P, s, g, u, up)
  BY CutsAgree
<1>4. /\ CutInside(N, par, sib, lc, rc, st, c, P, s, g, u, up,
                   par2, sib2, lc2, rc2, st2)
      /\ lx2 = OpenedLike(N, C, lx, lc2) /\ rx2 = OpenedLike(N, C, rx, rc2)
      /\ M2 = M \ {P}
  BY DEF CutThrough
<1>5. Relinked(N, par, sib, lx, rx, st, c, P, s, g, u, up,
               par2, sib2, lx2, rx2, st2)
  BY <1>4, CutRelinks
<1>6. /\ Rooted(M2, par2, st2, rts2)
      /\ SetBack(rts2, i, root, j) = rts
      /\ TheRoot(up, par, root)
  BY <1>1, <1>2, <1>3, <1>4, <1>5, CutInsideRooted
<1>7. Labelled(M2, lx2, st2, C, ltt, ttl)
  BY <1>1, <1>2, FrozenLabelled
<1>8. Shaped(N, M2, lx2, rx2, C, par2, sib2, lc2, rc2, st2, rts2, ltt, ttl)
  BY <1>1, <1>6, <1>7 DEF Shaped
<1> QED
  BY <1>1, <1>6, <1>8

-----------------------------------------------------------------------------
(* The undo of a cut whose parent is no root.                              *)

\* What the code does with the links and label sets to undo.
UncutInside(N, par2, sib2, lc2, rc2, st2, c, P, s, g, u, up, par, sib, lc, rc, st) ==
    /\ st = [n \in N |-> IF n \in up THEN st2[n] \cup st2[c] ELSE st2[n]]
    /\ par = [par2 EXCEPT ![s] = P, ![c] = P]
    /\ sib = [sib2 EXCEPT ![s] = c, ![c] = s, ![u] = P]
    /\ Resorted(N, up, [lc2 EXCEPT ![g] = IF @ = s THEN P ELSE @],
                [rc2 EXCEPT ![g] = IF lc2[g] = s THEN @ ELSE P], st, lc, rc)

\* The nodes above p, found by the parent pointers.
PathUp(N, par, p) == Reached(p, [n \in N |-> {par[n]} \ {NullNode}])

\* The nodes above the parent are found again.
LEMMA AboveAgain ==
    ASSUME NEW N, NEW L, NEW par, NEW sib, NEW lc, NEW rc, NEW st,
           Linked(N, L, par, sib, lc, rc, st),
           NEW c, NEW P, NEW s, NEW g, NEW u, NEW up,
           Cutting(L, par, sib, st, c, P, s, g, u, up),
           NEW par2, NEW sib2, NEW lc2, NEW rc2, NEW st2,
           Relinked(N, par, sib, lc, rc, st, c, P, s, g, u, up,
                    par2, sib2, lc2, rc2, st2)
    PROVE  PathUp(N, par, P) = up /\ PathUp(N, par2, P) = up
<1> DEFINE next == [n \in N |-> {par[n]} \ {NullNode}]
           next2 == [n \in N |-> {par2[n]} \ {NullNode}]
<1>0. par2 = [par EXCEPT ![s] = g, ![c] = NullNode]
  BY DEF Relinked
<1>1. /\ P \in L /\ g \in L /\ P \in up /\ c \notin up /\ s \notin up /\ up \subseteq L
      /\ s \in L /\ c \in L
  BY CutPlaces
<1>2. up = {m \in L : st[P] \subseteq st[m]}
  BY DEF Cutting, From
<1>3. Reached(P, next) = up
  BY <1>1, <1>2, UpwardsReaches
<1>4. /\ IsFiniteSet(N) /\ P \in N /\ L \subseteq N
      /\ par \in [N -> N \cup {NullNode}]
  BY <1>1 DEF Linked, Typed
<1>5. /\ \A n \in up : par2[n] = par[n]
      /\ par2 \in [N -> N \cup {NullNode}]
  BY <1>0, <1>1, <1>4
<1>6. next \in [N -> SUBSET N] /\ next2 \in [N -> SUBSET N]
  BY <1>4, <1>5
<1>7. \A n \in up : next2[n] = next[n] /\ n \in N
  BY <1>1, <1>4, <1>5
<1> HIDE DEF next, next2
<1>8. /\ \A n \in up : next[n] \subseteq up
      /\ \A X : (P \in X /\ \A n \in X \cap N : next[n] \subseteq X) => up \subseteq X
  BY <1>3, <1>4, <1>6, ReachedIsLeast
<1>9. /\ P \in Reached(P, next2) /\ Reached(P, next2) \subseteq N
      /\ \A n \in Reached(P, next2) : next2[n] \subseteq Reached(P, next2)
      /\ \A X : (P \in X /\ \A n \in X \cap N : next2[n] \subseteq X)
                    => Reached(P, next2) \subseteq X
  BY <1>4, <1>6, ReachedIsLeast
<1>10. Reached(P, next2) \subseteq up
  <2>1. \A n \in up \cap N : next2[n] \subseteq up
    BY <1>7, <1>8
  <2> QED
    BY <1>1, <1>9, <2>1
<1>11. up \subseteq Reached(P, next2)
  <2>1. \A n \in Reached(P, next2) \cap N : next[n] \subseteq Reached(P, next2)
    BY <1>7, <1>9, <1>10
  <2> QED
    BY <1>8, <1>9, <2>1
<1> QED
  BY <1>3, <1>10, <1>11 DEF next, next2, PathUp

\* Sorted again, the children are what they were.
LEMMA ChildrenAgain ==
    ASSUME ZeroWordsAreHarmless,
           NEW N, NEW L, NEW par, NEW sib, NEW lc, NEW rc, NEW st,
           Linked(N, L, par, sib, lc, rc, st), InChildOrder(L, lc, rc, st),
           NEW up \in SUBSET L, \A n \in up : lc[n] # NullNode,
           NEW lefts, NEW rights,
           \A n \in N : Children(lc, rc, lefts, rights, n),
           \A n \in N \ up : lefts[n] = lc[n] /\ rights[n] = rc[n]
    PROVE  Resorted(N, up, lefts, rights, st, lc, rc)
<1> DEFINE swapped == SwappedIn(up, lefts, rights, st)
<1>1. /\ lc \in [N -> N \cup {NullNode}] /\ rc \in [N -> N \cup {NullNode}]
      /\ L \subseteq N
  BY DEF Linked, Typed
<1>2. \A n : n \in swapped <=> n \in up /\ HasSmallestTerminal(st[rights[n]], st[lefts[n]])
  BY DEF SwappedIn
<1> HIDE DEF swapped
<1>3. ASSUME NEW n \in up
      PROVE  /\ HasSmallestTerminal(st[lc[n]], st[rc[n]])
             /\ ~ HasSmallestTerminal(st[rc[n]], st[lc[n]])
  <2>1. n \in L /\ lc[n] # NullNode
    OBVIOUS
  <2>2. /\ lc[n] \in L /\ rc[n] \in L /\ st[lc[n]] \cap st[rc[n]] = {}
        /\ st[lc[n]] # {} /\ st[rc[n]] # {}
    BY <2>1, Downward DEF Splits
  <2>3. Smallest(st[lc[n]]) < Smallest(st[rc[n]])
    BY <2>1 DEF InChildOrder
  <2>4. st[lc[n]] \in SUBSET Labels /\ st[rc[n]] \in SUBSET Labels
    BY <2>2 DEF Linked, Typed, Node
  <2>5. /\ HasSmallestTerminal(st[lc[n]], st[rc[n]])
              <=> Smallest(st[lc[n]]) < Smallest(st[rc[n]])
        /\ HasSmallestTerminal(st[rc[n]], st[lc[n]])
              <=> Smallest(st[rc[n]]) < Smallest(st[lc[n]])
        /\ Smallest(st[lc[n]]) \in Nat /\ Smallest(st[rc[n]]) \in Nat
    BY <2>2, <2>4, ComparesSmallest
  <2> QED
    BY <2>3, <2>5
<1>4. ASSUME NEW n \in N
      PROVE  /\ lc[n] = IF n \in swapped THEN rights[n] ELSE lefts[n]
             /\ rc[n] = IF n \in swapped THEN lefts[n] ELSE rights[n]
  <2>1. CASE n \in up
    <3>1. CASE lefts[n] = lc[n] /\ rights[n] = rc[n]
      <4>1. n \notin swapped
        BY <1>2, <1>3, <2>1, <3>1
      <4> QED
        BY <3>1, <4>1
    <3>2. CASE lefts[n] = rc[n] /\ rights[n] = lc[n]
      <4>1. n \in swapped
        BY <1>2, <1>3, <2>1, <3>2
      <4> QED
        BY <3>2, <4>1
    <3> QED
      BY <3>1, <3>2 DEF Children
  <2>2. CASE n \notin up
    BY <1>2, <2>2
  <2> QED
    BY <2>1, <2>2
<1>5. /\ lc = [n \in N |-> IF n \in swapped THEN rights[n] ELSE lefts[n]]
      /\ rc = [n \in N |-> IF n \in swapped THEN lefts[n] ELSE rights[n]]
  BY <1>1, <1>4
<1> QED
  BY <1>5 DEF Resorted, swapped

\* All is as it was.
LEMMA CutInsideUndone ==
    ASSUME ZeroWordsAreHarmless,
           NEW N, NEW L, NEW par, NEW sib, NEW lc, NEW rc, NEW st,
           Linked(N, L, par, sib, lc, rc, st), InChildOrder(L, lc, rc, st),
           NEW c, NEW P, NEW s, NEW g, NEW u, NEW up,
           Cutting(L, par, sib, st, c, P, s, g, u, up),
           NEW par2, NEW sib2, NEW lc2, NEW rc2, NEW st2,
           Relinked(N, par, sib, lc, rc, st, c, P, s, g, u, up,
                    par2, sib2, lc2, rc2, st2)
    PROVE  /\ UncutInside(N, par2, sib2, lc2, rc2, st2, c, P, s, g, u, up,
                          par, sib, lc, rc, st)
           /\ par2[P] = g /\ sib2[P] = u
           /\ \A n \in up : par2[n] = par[n]
<1>1. /\ c \in L /\ P \in L /\ s \in L /\ P # c /\ s # c /\ P # s /\ lc[P] # NullNode
      /\ par[c] = P /\ par[s] = P /\ sib[c] = s /\ sib[s] = c
      /\ g \in L /\ u \in L /\ g # P /\ u # P /\ lc[g] # NullNode
      /\ {P, u} = {lc[g], rc[g]} /\ sib[u] = P /\ par[P] = g /\ sib[P] = u
      /\ up \subseteq L /\ \A n \in up : st[P] \subseteq st[n]
      /\ g \in up /\ P \in up /\ c \notin up /\ s \notin up /\ u \notin up
      /\ g # u /\ g # c /\ g # s /\ u # c /\ u # s
  BY CutPlaces
<1>2. /\ par \in [N -> N \cup {NullNode}] /\ sib \in [N -> N \cup {NullNode}]
      /\ lc \in [N -> N \cup {NullNode}] /\ rc \in [N -> N \cup {NullNode}]
      /\ st \in [N -> Node] /\ L \subseteq N /\ \A n \in L : st[n] # {}
  BY DEF Linked, Typed, Apart
<1>3. /\ st2 = [n \in N |-> IF n \in up THEN SymDiff(st[n], st[c]) ELSE st[n]]
      /\ par2 = [par EXCEPT ![s] = g, ![c] = NullNode]
      /\ sib2 = [sib EXCEPT ![s] = u, ![u] = s, ![c] = NullNode]
  BY DEF Relinked
<1>4. PICK lefts1, rights1 :
         /\ lefts1 = [lc EXCEPT ![g] = IF @ = P THEN s ELSE @]
         /\ rights1 = [rc EXCEPT ![g] = IF lc[g] = P THEN @ ELSE s]
  OBVIOUS
<1>5. /\ lc2 \in [N -> N \cup {NullNode}] /\ rc2 \in [N -> N \cup {NullNode}]
      /\ \A n \in N : Children(lefts1, rights1, lc2, rc2, n)
      /\ \A n \in N \ up : lc2[n] = lefts1[n] /\ rc2[n] = rights1[n]
  BY <1>4 DEF Relinked
<1>6. /\ \A n \in up : st[c] \subseteq st[n] /\ st2[n] = st[n] \ st[c]
      /\ st2[c] = st[c] /\ \A n \in N \ up : st2[n] = st[n]
  <2>1. st[c] \subseteq st[P]
    BY CutPlaces
  <2>2. \A n \in up : n \in N /\ st[c] \subseteq st[n] /\ st2[n] = SymDiff(st[n], st[c])
    BY <1>1, <1>2, <1>3, <2>1
  <2>3. \A n \in up : st2[n] = st[n] \ st[c]
    BY <2>2 DEF SymDiff
  <2>4. st2[c] = st[c] /\ \A n \in N \ up : st2[n] = st[n]
    BY <1>1, <1>2, <1>3
  <2> QED
    BY <2>2, <2>3, <2>4
<1>7. st = [n \in N |-> IF n \in up THEN st2[n] \cup st2[c] ELSE st2[n]]
  <2>1. \A n \in N : st[n] = IF n \in up THEN st2[n] \cup st2[c] ELSE st2[n]
    BY <1>6
  <2> QED
    BY <1>2, <2>1
<1>8. par = [par2 EXCEPT ![s] = P, ![c] = P] /\ par2[P] = g
      /\ \A n \in up : par2[n] = par[n]
  BY <1>1, <1>2, <1>3
<1>9. sib = [sib2 EXCEPT ![s] = c, ![c] = s, ![u] = P] /\ sib2[P] = u
  BY <1>1, <1>2, <1>3
<1>10. PICK lefts, rights :
          /\ lefts = [lc2 EXCEPT ![g] = IF @ = s THEN P ELSE @]
          /\ rights = [rc2 EXCEPT ![g] = IF lc2[g] = s THEN @ ELSE P]
  OBVIOUS
<1>11. /\ \A n \in N : n # g => lefts1[n] = lc[n] /\ rights1[n] = rc[n]
       /\ \A n \in N : n # g => lefts[n] = lc2[n] /\ rights[n] = rc2[n]
       /\ lefts1[g] = (IF lc[g] = P THEN s ELSE lc[g])
       /\ rights1[g] = (IF lc[g] = P THEN rc[g] ELSE s)
       /\ lefts[g] = (IF lc2[g] = s THEN P ELSE lc2[g])
       /\ rights[g] = (IF lc2[g] = s THEN rc2[g] ELSE P)
  BY <1>1, <1>2, <1>4, <1>5, <1>10
<1>12. Children(lc, rc, lefts, rights, g)
  <2>1. \/ lc[g] = P /\ rc[g] = u
        \/ lc[g] = u /\ rc[g] = P
    BY <1>1
  <2>2. Children(lefts1, rights1, lc2, rc2, g)
    BY <1>1, <1>2, <1>5
  <2>3. \/ lc2[g] = s /\ rc2[g] = u
        \/ lc2[g] = u /\ rc2[g] = s
    BY <1>1, <1>11, <2>1, <2>2 DEF Children
  <2> QED
    BY <1>1, <1>11, <2>1, <2>3 DEF Children
<1>13. \A n \in N : Children(lc, rc, lefts, rights, n)
  <2> SUFFICES ASSUME NEW n \in N PROVE Children(lc, rc, lefts, rights, n)
    OBVIOUS
  <2>1. CASE n = g
    BY <1>12, <2>1
  <2>2. CASE n # g
    <3>1. Children(lefts1, rights1, lc2, rc2, n)
      BY <1>5
    <3> QED
      BY <1>11, <2>2, <3>1 DEF Children
  <2> QED
    BY <2>1, <2>2
<1>14. \A n \in N \ up : lefts[n] = lc[n] /\ rights[n] = rc[n]
  BY <1>1, <1>5, <1>11
<1>15. \A n \in up : lc[n] # NullNode
  <2> SUFFICES ASSUME NEW n \in up, lc[n] = NullNode PROVE FALSE
    OBVIOUS
  <2>1. Bottom(L, rc, st, n)
    BY <1>1, Downward
  <2>2. P = n
    BY <1>1, <2>1 DEF Bottom
  <2> QED
    BY <1>1, <2>2
<1>16. Resorted(N, up, lefts, rights, st, lc, rc)
  BY <1>1, <1>13, <1>14, <1>15, ChildrenAgain
<1> QED
  BY <1>7, <1>8, <1>9, <1>10, <1>16 DEF UncutInside

-----------------------------------------------------------------------------
(* Collapsing.                                                             *)

\* Nothing visible is below a tip, and tips share no label.
LEMMA TipsApart ==
    ASSUME NEW N, NEW M, NEW lx, NEW rx, NEW par, NEW sib, NEW st, NEW C,
           Linked(N, M, par, sib, lx, rx, st), C \in SUBSET M,
           NEW n \in Tips(M, lx, st, C)
    PROVE  /\ \A m \in Visible(M, st, C) : st[m] \subseteq st[n] => m = n
           /\ \A m \in Tips(M, lx, st, C) : st[m] \cap st[n] # {} => m = n
<1>1. ASSUME NEW k \in Tips(M, lx, st, C), NEW m \in Visible(M, st, C),
             st[m] \subseteq st[k]
      PROVE  m = k
  <2>1. k \in M /\ m \in M /\ (lx[k] = NullNode \/ k \in C) /\ ~ Under(st, C, m)
    BY DEF Tips, Visible
  <2>2. CASE k \in C
    BY <1>1, <2>1, <2>2 DEF Under
  <2>3. CASE lx[k] = NullNode
    <3>1. Bottom(M, rx, st, k)
      BY <2>1, <2>3, Downward
    <3> QED
      BY <1>1, <2>1, <3>1 DEF Bottom
  <2> QED
    BY <2>1, <2>2, <2>3
<1>2. ASSUME NEW m \in Tips(M, lx, st, C), st[m] \cap st[n] # {}
      PROVE  m = n
  <2>1. n \in M /\ m \in M /\ n \in Visible(M, st, C) /\ m \in Visible(M, st, C)
    BY DEF Tips, Visible
  <2>2. st[m] \subseteq st[n] \/ st[n] \subseteq st[m]
    BY <1>2, <2>1 DEF Linked, Apart
  <2> QED
    BY <1>1, <1>2, <2>1, <2>2
<1> QED
  BY <1>1, <1>2

\* The maps of the labels are what the tips make them.
LEMMA LabelledOnce ==
    ASSUME NEW N, NEW M, NEW lx, NEW rx, NEW par, NEW sib, NEW st, NEW C,
           Linked(N, M, par, sib, lx, rx, st), C \in SUBSET M,
           NEW ltt, NEW ttl, Labelled(M, lx, st, C, ltt, ttl)
    PROVE  \A n \in Tips(M, lx, st, C) : \A l \in st[n] : ltt[l] = n
<1>1. /\ ltt \in [Labels -> Tips(M, lx, st, C)] /\ \A l \in Labels : l \in st[ltt[l]]
      /\ ttl = [n \in Tips(M, lx, st, C) |-> Smallest(st[n])]
  BY DEF Labelled
<1>2. ASSUME NEW n \in Tips(M, lx, st, C), NEW l \in st[n]
      PROVE  ltt[l] = n
  <2>1. n \in N
    BY DEF Tips, Visible, Linked, Typed
  <2>2. l \in Labels
    BY <1>2, <2>1 DEF Linked, Typed, Node
  <2>3. ltt[l] \in Tips(M, lx, st, C) /\ st[ltt[l]] \cap st[n] # {}
    BY <1>1, <1>2, <2>2
  <2> QED
    BY <2>3, TipsApart
<1> QED
  BY <1>2

\* The label maps are told by the leaves.
LEMMA LabelledAlike ==
    ASSUME NEW N, NEW M, NEW lx, NEW rx, NEW par, NEW sib, NEW st, NEW C,
           Linked(N, M, par, sib, lx, rx, st), C \in SUBSET M,
           NEW ltt, NEW ttl, Labelled(M, lx, st, C, ltt, ttl),
           NEW ltt2, NEW ttl2, Labelled(M, lx, st, C, ltt2, ttl2)
    PROVE  ltt2 = ltt /\ ttl2 = ttl
<1>1. /\ ltt \in [Labels -> Tips(M, lx, st, C)]
      /\ ttl = [n \in Tips(M, lx, st, C) |-> Smallest(st[n])]
      /\ ltt2 \in [Labels -> Tips(M, lx, st, C)] /\ \A l \in Labels : l \in st[ltt2[l]]
      /\ ttl2 = [n \in Tips(M, lx, st, C) |-> Smallest(st[n])]
  BY DEF Labelled
<1>2. \A n \in Tips(M, lx, st, C) : \A l \in st[n] : ltt[l] = n
  BY LabelledOnce
<1>3. \A l \in Labels : ltt[l] = ltt2[l]
  BY <1>1, <1>2
<1> QED
  BY <1>1, <1>3

\* nd is visible and neither a leaf nor collapsed.
Collapsible(M, lx, st, C, nd) ==
    /\ C \in SUBSET M /\ nd \in M /\ lx[nd] # NullNode
    /\ \A c \in C : ~ st[nd] \subseteq st[c]

\* What collapsing does to the nodes that are seen.
LEMMA CollapsedTips ==
    ASSUME NEW M, NEW lx, NEW st, NEW C, NEW nd, Collapsible(M, lx, st, C, nd),
           NEW C2, C2 = C \cup {nd}
    PROVE  /\ nd \in Visible(M, st, C) /\ nd \notin C
           /\ Visible(M, st, C) = Visible(M, st, C2) \cup VisibleBelow(M, st, C, nd)
           /\ Visible(M, st, C2) = Visible(M, st, C) \ VisibleBelow(M, st, C, nd)
           /\ nd \notin Tips(M, lx, st, C) /\ nd \in Tips(M, lx, st, C2)
           /\ Tips(M, lx, st, C2)
                 = (Tips(M, lx, st, C) \ TipsBelow(M, lx, st, C, nd)) \cup {nd}
           /\ Tips(M, lx, st, C)
                 = (Tips(M, lx, st, C2) \cup TipsBelow(M, lx, st, C, nd)) \ {nd}
<1>1. /\ nd \in M /\ lx[nd] # NullNode /\ \A c \in C : ~ st[nd] \subseteq st[c]
      /\ C \in SUBSET M
  BY DEF Collapsible
<1>2. nd \notin C
  BY <1>1
<1>3. nd \in Visible(M, st, C) /\ nd \notin Tips(M, lx, st, C)
  BY <1>1, <1>2 DEF Visible, Under, Tips
<1>4. \A n : Under(st, C2, n) <=> Under(st, C, n) \/ (st[n] \subseteq st[nd] /\ n # nd)
  BY DEF Under
<1>5. \A n : n \in Visible(M, st, C2)
                <=> n \in Visible(M, st, C) /\ ~ (st[n] \subseteq st[nd] /\ n # nd)
  BY <1>4 DEF Visible
<1>6. nd \in Visible(M, st, C2) /\ nd \in Tips(M, lx, st, C2)
  BY <1>3, <1>5 DEF Tips
<1>7. \A n : n \in Tips(M, lx, st, C2)
                <=> n = nd \/ (n \in Tips(M, lx, st, C) /\ ~ st[n] \subseteq st[nd])
  BY <1>3, <1>5, <1>6 DEF Tips
<1>8. \A n : n \in TipsBelow(M, lx, st, C, nd)
                <=> n \in Tips(M, lx, st, C) /\ st[n] \subseteq st[nd]
  BY DEF TipsBelow
<1>9. \A n : n \in VisibleBelow(M, st, C, nd)
                <=> n \in Visible(M, st, C) /\ st[n] \subseteq st[nd] /\ n # nd
  BY DEF VisibleBelow
<1>10. /\ Tips(M, lx, st, C2)
             = (Tips(M, lx, st, C) \ TipsBelow(M, lx, st, C, nd)) \cup {nd}
       /\ Tips(M, lx, st, C)
             = (Tips(M, lx, st, C2) \cup TipsBelow(M, lx, st, C, nd)) \ {nd}
  BY <1>3, <1>7, <1>8
<1>11. /\ Visible(M, st, C) = Visible(M, st, C2) \cup VisibleBelow(M, st, C, nd)
       /\ Visible(M, st, C2) = Visible(M, st, C) \ VisibleBelow(M, st, C, nd)
  BY <1>5, <1>9
<1> QED
  BY <1>2, <1>3, <1>6, <1>10, <1>11

\* B are the tips that carry the labels of nd.
Carry(ltt, st, nd, B) ==
    /\ \A l \in st[nd] : l \in Labels /\ ltt[l] \in B
    /\ \A l \in Labels \ st[nd] : ltt[l] \notin B
    /\ {ltt[l] : l \in st[nd]} = B
    /\ \A n \in B : {l \in st[nd] : ltt[l] = n} = st[n]

\* The tips below the node carry its labels.
LEMMA TipsBelowCarry ==
    ASSUME NEW N, NEW M, NEW lx, NEW rx, NEW par, NEW sib, NEW st, NEW C,
           Linked(N, M, par, sib, lx, rx, st), NEW nd, Collapsible(M, lx, st, C, nd),
           NEW ltt, NEW ttl, Labelled(M, lx, st, C, ltt, ttl)
    PROVE  Carry(ltt, st, nd, TipsBelow(M, lx, st, C, nd))
<1>1. /\ nd \in M /\ lx[nd] # NullNode /\ C \in SUBSET M
      /\ nd \in Visible(M, st, C) /\ nd \notin Tips(M, lx, st, C)
  <2>1. nd \in M /\ lx[nd] # NullNode /\ C \in SUBSET M
    BY DEF Collapsible
  <2>2. PICK C2 : C2 = C \cup {nd}
    OBVIOUS
  <2> QED
    BY <2>1, <2>2, CollapsedTips
<1>2. /\ ltt \in [Labels -> Tips(M, lx, st, C)] /\ \A l \in Labels : l \in st[ltt[l]]
  BY DEF Labelled
<1>3. M \subseteq N /\ \A n \in N : st[n] \subseteq Labels
  BY DEF Linked, Typed, Node
<1>4. \A n \in Tips(M, lx, st, C) : n \in M /\ n \in Visible(M, st, C) /\ st[n] # {}
  BY DEF Tips, Visible, Linked, Apart
<1>5. ASSUME NEW l \in st[nd]
      PROVE  l \in Labels /\ ltt[l] \in TipsBelow(M, lx, st, C, nd)
  <2>1. l \in Labels
    BY <1>1, <1>3
  <2>2. ltt[l] \in Tips(M, lx, st, C) /\ l \in st[ltt[l]] /\ ltt[l] \in M
    BY <1>2, <1>4, <2>1
  <2>3. st[ltt[l]] \subseteq st[nd] \/ st[nd] \subseteq st[ltt[l]]
    BY <1>1, <2>2 DEF Linked, Apart
  <2>4. ~ st[nd] \subseteq st[ltt[l]]
    BY <1>1, <2>2, TipsApart
  <2> QED
    BY <2>1, <2>2, <2>3, <2>4 DEF TipsBelow
<1>6. \A l \in Labels \ st[nd] : ltt[l] \notin TipsBelow(M, lx, st, C, nd)
  BY <1>2 DEF TipsBelow
<1>7. \A n \in Tips(M, lx, st, C) : \A l \in st[n] : ltt[l] = n
  BY <1>1, LabelledOnce
<1>8. ASSUME NEW n \in TipsBelow(M, lx, st, C, nd)
      PROVE  n \in {ltt[l] : l \in st[nd]} /\ {l \in st[nd] : ltt[l] = n} = st[n]
  <2>1. n \in Tips(M, lx, st, C) /\ st[n] \subseteq st[nd] /\ st[n] # {}
    BY <1>4 DEF TipsBelow
  <2>2. \A l \in st[nd] : ltt[l] = n => l \in st[n]
    BY <1>2, <1>5
  <2> QED
    BY <1>7, <2>1, <2>2
<1> QED
  BY <1>5, <1>6, <1>8 DEF Carry

\* What the code does with the pointers to collapse nd.
CollapsedAt(lc, rc, st, ltt, ttl, nd, lc2, rc2, ltt2, ttl2) ==
    /\ lc2 = [lc EXCEPT ![nd] = NullNode] /\ rc2 = [rc EXCEPT ![nd] = NullNode]
    /\ ltt2 = [l \in Labels |-> IF l \in st[nd] THEN nd ELSE ltt[l]]
    /\ ttl2 = [n \in ((DOMAIN ttl) \ {ltt[l] : l \in st[nd]}) \cup {nd} |->
                  IF n = nd THEN Smallest(st[nd]) ELSE ttl[n]]

\* What it records in the action.
Records(L, lc, rc, st, ltt, ttl, nd, a) ==
    /\ a.node = nd /\ a.left = lc[nd] /\ a.right = rc[nd]
    /\ a.collapsedLabel = Smallest(st[nd])
    /\ a.collapsedLabelToTerminals = [l \in st[nd] |-> ltt[l]]
    /\ a.collapsedTerminals =
          [n \in {k \in {ltt[l] : l \in st[nd]} :
                     k \in DOMAIN ttl
                        /\ ttl[k] = Smallest({l \in st[nd] : ltt[l] = k})} |-> ttl[n]]
    /\ a.edit.kind = "collapse"
    /\ a.edit.others = {st[n] : n \in {m \in L \ {nd} : st[m] \subseteq st[nd]}}

\* What it does to undo a.
UncollapsedAt(a, par, lc, rc, ltt, ttl, par2, lc2, rc2, ltt2, ttl2) ==
    LET node == ltt[a.collapsedLabel]
        oldLabels == a.collapsedLabelToTerminals
        oldNodes == a.collapsedTerminals
    IN  /\ lc2 = [lc EXCEPT ![node] = a.left] /\ rc2 = [rc EXCEPT ![node] = a.right]
        /\ par2 = [par EXCEPT ![a.left] = node, ![a.right] = node]
        /\ ltt2 = [l \in Labels |->
                      IF l \in DOMAIN oldLabels THEN oldLabels[l] ELSE ltt[l]]
        /\ ttl2 = [n \in (DOMAIN oldNodes \cup DOMAIN ttl) \ {node} |->
                      IF n \in DOMAIN oldNodes THEN oldNodes[n] ELSE ttl[n]]

\* The label sets seen before and after a collapse.
LEMMA CollapsedSets ==
    ASSUME NEW M, NEW lx, NEW st, NEW C, NEW nd, Collapsible(M, lx, st, C, nd),
           Apart(M, st), NEW C2, C2 = C \cup {nd}
    PROVE  /\ LabelSets(st, VisibleBelow(M, st, C, nd))
                 = Below(LabelSets(st, Visible(M, st, C)), st[nd])
           /\ LabelSets(st, Visible(M, st, C2))
                 = CollapseAt(LabelSets(st, Visible(M, st, C)), st[nd])
           /\ LabelSets(st, Visible(M, st, C))
                 = UncollapseAt(LabelSets(st, Visible(M, st, C2)),
                                LabelSets(st, VisibleBelow(M, st, C, nd)))
<1>1. PICK V, V2, B : /\ V = Visible(M, st, C) /\ V2 = Visible(M, st, C2)
                      /\ B = VisibleBelow(M, st, C, nd)
  OBVIOUS
<1>2. V = V2 \cup B /\ V2 = V \ B
  BY <1>1, CollapsedTips
<1>3. \A n : n \in B <=> n \in V /\ st[n] \subseteq st[nd] /\ n # nd
  BY <1>1 DEF VisibleBelow
<1>4. /\ \A n, m \in V : st[n] = st[m] => n = m
      /\ nd \in V
  <2>1. V \subseteq M
    BY <1>1 DEF Visible
  <2>2. nd \in V
    BY <1>1, CollapsedTips
  <2> QED
    BY <2>1, <2>2 DEF Apart
<1>5. LabelSets(st, B) = Below(LabelSets(st, V), st[nd])
  <2>1. LabelSets(st, B) \subseteq Below(LabelSets(st, V), st[nd])
    BY <1>3, <1>4 DEF LabelSets, Below
  <2>2. Below(LabelSets(st, V), st[nd]) \subseteq LabelSets(st, B)
    BY <1>3 DEF LabelSets, Below
  <2> QED
    BY <2>1, <2>2
<1>6. LabelSets(st, V2) = LabelSets(st, V) \ LabelSets(st, B)
  BY <1>2, <1>4 DEF LabelSets
<1>7. LabelSets(st, V) = LabelSets(st, V2) \cup LabelSets(st, B)
  BY <1>2 DEF LabelSets
<1>8. /\ LabelSets(st, V2) = CollapseAt(LabelSets(st, V), st[nd])
      /\ LabelSets(st, V) = UncollapseAt(LabelSets(st, V2), LabelSets(st, B))
  BY <1>5, <1>6, <1>7 DEF CollapseAt, UncollapseAt
<1> QED
  BY <1>1, <1>5, <1>8

\* The forest is shaped as before, with one collapsed node more.
LEMMA CollapseShaped ==
    ASSUME NEW N, NEW M, NEW lx, NEW rx, NEW C, NEW par, NEW sib, NEW lc, NEW rc,
           NEW st, NEW rts, NEW ltt, NEW ttl,
           Shaped(N, M, lx, rx, C, par, sib, lc, rc, st, rts, ltt, ttl),
           NEW nd, nd \in Visible(M, st, C), lc[nd] # NullNode,
           NEW lc2, NEW rc2, NEW ltt2, NEW ttl2,
           CollapsedAt(lc, rc, st, ltt, ttl, nd, lc2, rc2, ltt2, ttl2),
           NEW C2, C2 = C \cup {nd}
    PROVE  /\ Collapsible(M, lx, st, C, nd)
           /\ Shaped(N, M, lx, rx, C2, par, sib, lc2, rc2, st, rts, ltt2, ttl2)
<1>1. /\ Linked(N, M, par, sib, lx, rx, st) /\ InChildOrder(M, lx, rx, st)
      /\ C \in SUBSET M /\ lc = Closed(N, C, lx) /\ rc = Closed(N, C, rx)
      /\ Rooted(M, par, st, rts) /\ Labelled(M, lx, st, C, ltt, ttl)
  BY DEF Shaped
<1>2. /\ M \subseteq N /\ nd \in M /\ ~ Under(st, C, nd)
      /\ lx \in [N -> N \cup {NullNode}] /\ rx \in [N -> N \cup {NullNode}]
  BY <1>1 DEF Linked, Typed, Visible
<1>3. nd \notin C /\ lx[nd] # NullNode
  BY <1>1, <1>2 DEF Closed
<1>4. Collapsible(M, lx, st, C, nd)
  BY <1>1, <1>2, <1>3 DEF Collapsible, Under
<1>5. /\ lc2 = [lc EXCEPT ![nd] = NullNode] /\ rc2 = [rc EXCEPT ![nd] = NullNode]
      /\ ltt2 = [l \in Labels |-> IF l \in st[nd] THEN nd ELSE ltt[l]]
      /\ ttl2 = [n \in ((DOMAIN ttl) \ {ltt[l] : l \in st[nd]}) \cup {nd} |->
                    IF n = nd THEN Smallest(st[nd]) ELSE ttl[n]]
  BY DEF CollapsedAt
<1>6. lc2 = Closed(N, C2, lx) /\ rc2 = Closed(N, C2, rx)
  <2>1. lc2 = Closed(N, C2, lx)
    BY <1>1, <1>2, <1>5 DEF Closed
  <2>2. rc2 = Closed(N, C2, rx)
    BY <1>1, <1>2, <1>5 DEF Closed
  <2> QED
    BY <2>1, <2>2
<1>7. PICK T, T2, B : /\ T = Tips(M, lx, st, C) /\ T2 = Tips(M, lx, st, C2)
                      /\ B = TipsBelow(M, lx, st, C, nd)
  OBVIOUS
<1>8. T2 = (T \ B) \cup {nd} /\ nd \notin T
  BY <1>4, <1>7, CollapsedTips
<1>9. /\ \A l \in st[nd] : l \in Labels /\ ltt[l] \in B
      /\ \A l \in Labels \ st[nd] : ltt[l] \notin B
      /\ {ltt[l] : l \in st[nd]} = B
  <2>1. Carry(ltt, st, nd, B)
    BY <1>1, <1>4, <1>7, TipsBelowCarry
  <2> QED
    BY <2>1 DEF Carry
<1>10. /\ ltt \in [Labels -> T] /\ \A l \in Labels : l \in st[ltt[l]]
       /\ ttl = [n \in T |-> Smallest(st[n])]
  BY <1>1, <1>7 DEF Labelled
<1>11. Labelled(M, lx, st, C2, ltt2, ttl2)
  <2>1. ltt2 \in [Labels -> T2] /\ \A l \in Labels : l \in st[ltt2[l]]
    BY <1>5, <1>8, <1>9, <1>10
  <2>2. ttl2 = [n \in T2 |-> Smallest(st[n])]
    <3>1. ttl2 = [n \in T2 |-> IF n = nd THEN Smallest(st[nd]) ELSE ttl[n]]
      BY <1>5, <1>8, <1>9, <1>10
    <3>2. \A n \in T2 : (IF n = nd THEN Smallest(st[nd]) ELSE ttl[n]) = Smallest(st[n])
      BY <1>8, <1>10
    <3> QED
      BY <3>1, <3>2
  <2> QED
    BY <1>7, <2>1, <2>2 DEF Labelled
<1>12. C2 \in SUBSET M
  BY <1>1, <1>2
<1> QED
  BY <1>1, <1>4, <1>6, <1>11, <1>12 DEF Shaped

\* The action recalls what it needs.
LEMMA CollapseRecalled ==
    ASSUME NEW N, NEW M, NEW lx, NEW rx, NEW C, NEW par, NEW sib, NEW lc, NEW rc,
           NEW st, NEW rts, NEW ltt, NEW ttl,
           Shaped(N, M, lx, rx, C, par, sib, lc, rc, st, rts, ltt, ttl),
           NEW nd, Collapsible(M, lx, st, C, nd),
           NEW L, L = Visible(M, st, C),
           NEW a, Records(L, lc, rc, st, ltt, ttl, nd, a)
    PROVE  Recalls(M, lx, rx, st, C, a)
<1>1. /\ Linked(N, M, par, sib, lx, rx, st)
      /\ C \in SUBSET M /\ lc = Closed(N, C, lx) /\ rc = Closed(N, C, rx)
      /\ Labelled(M, lx, st, C, ltt, ttl)
  BY DEF Shaped
<1>2. /\ nd \in M /\ lx[nd] # NullNode /\ \A c \in C : ~ st[nd] \subseteq st[c]
  BY DEF Collapsible
<1>3. nd \notin C /\ nd \in N
  BY <1>1, <1>2 DEF Linked, Typed
<1>4. /\ a.node = nd /\ a.left = lc[nd] /\ a.right = rc[nd]
      /\ a.collapsedLabel = Smallest(st[nd])
      /\ a.collapsedLabelToTerminals = [l \in st[nd] |-> ltt[l]]
      /\ a.collapsedTerminals =
          [n \in {k \in {ltt[l] : l \in st[nd]} :
                     k \in DOMAIN ttl
                        /\ ttl[k] = Smallest({l \in st[nd] : ltt[l] = k})} |-> ttl[n]]
      /\ a.edit.kind = "collapse"
      /\ a.edit.others = {st[n] : n \in {m \in L \ {nd} : st[m] \subseteq st[nd]}}
  BY DEF Records
<1>5. a.left = lx[nd] /\ a.right = rx[nd]
  BY <1>1, <1>3, <1>4 DEF Closed
<1>6. PICK T, B : T = Tips(M, lx, st, C) /\ B = TipsBelow(M, lx, st, C, nd)
  OBVIOUS
<1>7. /\ \A l \in st[nd] : l \in Labels /\ ltt[l] \in B
      /\ {ltt[l] : l \in st[nd]} = B
      /\ \A n \in B : {l \in st[nd] : ltt[l] = n} = st[n]
  <2>1. Carry(ltt, st, nd, B)
    BY <1>1, <1>6, TipsBelowCarry
  <2> QED
    BY <2>1 DEF Carry
<1>8. /\ \A l \in Labels : l \in st[ltt[l]]
      /\ ttl = [n \in T |-> Smallest(st[n])] /\ B \subseteq T
  BY <1>1, <1>6 DEF Labelled, TipsBelow
<1>9. /\ a.collapsedLabelToTerminals \in [st[nd] -> B]
      /\ \A l \in st[nd] : l \in st[a.collapsedLabelToTerminals[l]]
  BY <1>4, <1>7, <1>8
<1>10. a.collapsedTerminals = [n \in B |-> Smallest(st[n])]
  <2>1. \A k \in B : k \in DOMAIN ttl
                        /\ ttl[k] = Smallest({l \in st[nd] : ltt[l] = k})
    BY <1>7, <1>8
  <2>2. {k \in {ltt[l] : l \in st[nd]} :
                     k \in DOMAIN ttl
                        /\ ttl[k] = Smallest({l \in st[nd] : ltt[l] = k})} = B
    BY <1>7, <2>1
  <2>3. a.collapsedTerminals = [n \in B |-> ttl[n]]
    BY <1>4, <2>2
  <2> QED
    BY <1>8, <2>3
<1>11. a.edit.others = LabelSets(st, VisibleBelow(M, st, C, nd))
  <2>1. {m \in L \ {nd} : st[m] \subseteq st[nd]} = VisibleBelow(M, st, C, nd)
    BY DEF VisibleBelow
  <2> QED
    BY <1>4, <2>1 DEF LabelSets
<1> QED
  BY <1>2, <1>4, <1>5, <1>6, <1>9, <1>10, <1>11 DEF Recalls

\* The node of a joins the collapsed ones.
Joins(M, C, a, C2) == C \in SUBSET M /\ C2 = C \cup {a.node}

\* The collapse is opened again, whatever was cut in between.
LEMMA UncollapseShaped ==
    ASSUME NEW N, NEW M, NEW lx, NEW rx, NEW C, NEW par, NEW sib, NEW lc, NEW rc,
           NEW st, NEW rts, NEW ltt, NEW ttl, NEW C2,
           Shaped(N, M, lx, rx, C2, par, sib, lc, rc, st, rts, ltt, ttl),
           NEW a, Recalls(M, lx, rx, st, C, a),
           Joins(M, C, a, C2),
           NEW par2, NEW lc2, NEW rc2, NEW ltt2, NEW ttl2,
           UncollapsedAt(a, par, lc, rc, ltt, ttl, par2, lc2, rc2, ltt2, ttl2)
    PROVE  /\ UncollapsedAt(a, par, lc, rc, ltt, ttl, par, lc2, rc2, ltt2, ttl2)
           /\ Shaped(N, M, lx, rx, C, par, sib, lc2, rc2, st, rts, ltt2, ttl2)
           /\ LabelSets(st, Visible(M, st, C))
                 = UncollapseAt(LabelSets(st, Visible(M, st, C2)), a.edit.others)
<1> USE DEF Joins
<1>1. /\ Linked(N, M, par, sib, lx, rx, st) /\ InChildOrder(M, lx, rx, st)
      /\ C2 \in SUBSET M /\ lc = Closed(N, C2, lx) /\ rc = Closed(N, C2, rx)
      /\ Rooted(M, par, st, rts) /\ Labelled(M, lx, st, C2, ltt, ttl)
  BY DEF Shaped
<1>2. PICK nd : nd = a.node
  OBVIOUS
<1>3. PICK T, T2, B : /\ T = Tips(M, lx, st, C) /\ T2 = Tips(M, lx, st, C2)
                      /\ B = TipsBelow(M, lx, st, C, nd)
  OBVIOUS
<1>4. /\ nd \in M /\ lx[nd] # NullNode /\ \A c \in C : ~ st[nd] \subseteq st[c]
      /\ a.left = lx[nd] /\ a.right = rx[nd]
      /\ a.collapsedLabel = Smallest(st[nd])
      /\ a.collapsedLabelToTerminals \in [st[nd] -> B]
      /\ \A l \in st[nd] : l \in st[a.collapsedLabelToTerminals[l]]
      /\ a.collapsedTerminals = [n \in B |-> Smallest(st[n])]
      /\ a.edit.others = LabelSets(st, VisibleBelow(M, st, C, nd))
  BY <1>2, <1>3 DEF Recalls
<1>5. Collapsible(M, lx, st, C, nd)
  BY <1>4 DEF Collapsible
<1>6. T = (T2 \cup B) \ {nd} /\ nd \in T2 /\ nd \notin C /\ nd \notin T /\ B \subseteq T
      /\ T2 = (T \ B) \cup {nd}
  <2>1. B \subseteq T
    BY <1>3 DEF TipsBelow
  <2> QED
    BY <1>2, <1>3, <1>5, <2>1, CollapsedTips
<1>7. \A n \in T2 : \A l \in st[n] : ltt[l] = n
  BY <1>1, <1>3, LabelledOnce
<1>8. ltt[a.collapsedLabel] = nd
  <2>1. st[nd] \in SUBSET Nat /\ st[nd] # {}
    BY <1>1, <1>4, LabelsAreTaxa DEF Linked, Typed, Node, Apart
  <2>2. Smallest(st[nd]) \in st[nd]
    BY <2>1, SmallestPicks
  <2> QED
    BY <1>4, <1>6, <1>7, <2>2
<1>9. /\ lc2 = [lc EXCEPT ![nd] = lx[nd]] /\ rc2 = [rc EXCEPT ![nd] = rx[nd]]
      /\ par2 = [par EXCEPT ![lx[nd]] = nd, ![rx[nd]] = nd]
      /\ ltt2 = [l \in Labels |->
                    IF l \in st[nd] THEN a.collapsedLabelToTerminals[l] ELSE ltt[l]]
      /\ ttl2 = [n \in (B \cup DOMAIN ttl) \ {nd} |->
                    IF n \in B THEN Smallest(st[n]) ELSE ttl[n]]
  <2>1. DOMAIN a.collapsedLabelToTerminals = st[nd] /\ DOMAIN a.collapsedTerminals = B
        /\ \A n \in B : a.collapsedTerminals[n] = Smallest(st[n])
    BY <1>4
  <2>2. /\ lc2 = [lc EXCEPT ![nd] = lx[nd]] /\ rc2 = [rc EXCEPT ![nd] = rx[nd]]
        /\ par2 = [par EXCEPT ![lx[nd]] = nd, ![rx[nd]] = nd]
    BY <1>4, <1>8 DEF UncollapsedAt
  <2>3. ltt2 = [l \in Labels |->
                    IF l \in st[nd] THEN a.collapsedLabelToTerminals[l] ELSE ltt[l]]
    BY <2>1 DEF UncollapsedAt
  <2>4. ttl2 = [n \in (B \cup DOMAIN ttl) \ {nd} |->
                    IF n \in B THEN a.collapsedTerminals[n] ELSE ttl[n]]
    BY <1>8, <2>1 DEF UncollapsedAt
  <2>5. ttl2 = [n \in (B \cup DOMAIN ttl) \ {nd} |->
                    IF n \in B THEN Smallest(st[n]) ELSE ttl[n]]
    BY <2>1, <2>4
  <2> QED
    BY <2>2, <2>3, <2>5
<1>10. par2 = par
  <2>1. /\ lx[nd] \in M /\ rx[nd] \in M /\ par[lx[nd]] = nd /\ par[rx[nd]] = nd
    BY <1>1, <1>4, Downward DEF Splits
  <2>2. par \in [N -> N \cup {NullNode}] /\ M \subseteq N
    BY <1>1 DEF Linked, Typed
  <2> QED
    BY <1>9, <2>1, <2>2
<1>11. lc2 = Closed(N, C, lx) /\ rc2 = Closed(N, C, rx)
  <2>1. nd \in N /\ C2 = C \cup {nd}
    BY <1>1, <1>2, <1>4 DEF Linked, Typed
  <2>2. lc2 = Closed(N, C, lx)
    BY <1>1, <1>6, <1>9, <2>1 DEF Closed
  <2>3. rc2 = Closed(N, C, rx)
    BY <1>1, <1>6, <1>9, <2>1 DEF Closed
  <2> QED
    BY <2>2, <2>3
<1>12. /\ ltt \in [Labels -> T2] /\ \A l \in Labels : l \in st[ltt[l]]
       /\ ttl = [n \in T2 |-> Smallest(st[n])]
  BY <1>1, <1>3 DEF Labelled
<1>13. Labelled(M, lx, st, C, ltt2, ttl2)
  <2>1. ltt2 \in [Labels -> T] /\ \A l \in Labels : l \in st[ltt2[l]]
    <3>1. ASSUME NEW l \in Labels
          PROVE  ltt2[l] \in T /\ l \in st[ltt2[l]]
      <4>1. CASE l \in st[nd]
        BY <1>4, <1>6, <1>9, <4>1
      <4>2. CASE l \notin st[nd]
        <5>1. ltt2[l] = ltt[l] /\ ltt[l] \in T2 /\ l \in st[ltt[l]]
          BY <1>9, <1>12, <4>2
        <5> QED
          BY <1>6, <4>2, <5>1
      <4> QED
        BY <4>1, <4>2
    <3> QED
      BY <1>9, <3>1
  <2>2. ttl2 = [n \in T |-> Smallest(st[n])]
    <3>1. ttl2 = [n \in T |-> IF n \in B THEN Smallest(st[n]) ELSE ttl[n]]
      <4>1. (B \cup DOMAIN ttl) \ {nd} = T
        BY <1>6, <1>12
      <4> QED
        BY <1>9, <4>1
    <3>2. \A n \in T : (IF n \in B THEN Smallest(st[n]) ELSE ttl[n]) = Smallest(st[n])
      BY <1>6, <1>12
    <3> QED
      BY <3>1, <3>2
  <2> QED
    BY <1>3, <2>1, <2>2 DEF Labelled
<1>14. Shaped(N, M, lx, rx, C, par, sib, lc2, rc2, st, rts, ltt2, ttl2)
  BY <1>1, <1>11, <1>13 DEF Shaped
<1>15. LabelSets(st, Visible(M, st, C))
          = UncollapseAt(LabelSets(st, Visible(M, st, C2)), a.edit.others)
  <2>1. Apart(M, st)
    BY <1>1 DEF Linked
  <2> QED
    BY <1>2, <1>4, <1>5, <2>1, CollapsedSets
<1> QED
  BY <1>10, <1>14, <1>15

-----------------------------------------------------------------------------
(* The tree that was read.                                                 *)

\* l and r are the children of n, l in front.
FirstSplit(T, n, l, r) ==
    /\ l \in T /\ r \in T /\ l # {} /\ r # {} /\ l \cap r = {} /\ n = l \cup r
    /\ HasParent(T, l) /\ HasParent(T, r)
    /\ Parent(T, l) = n /\ Parent(T, r) = n
    /\ Sibling(T, l) = r /\ Sibling(T, r) = l
    /\ Smallest(l) < Smallest(r)
    /\ InitialChildren(T, n) = {l, r}
    /\ InitialLeft(T, n) = l /\ n \ InitialLeft(T, n) = r

\* A node below another has it as parent exactly if it is one of two.
LEMMA FirstChildren ==
    ASSUME NEW T \in Forest, WellFormed(T), NEW n \in T, NEW x \in T, NEW y \in T,
           HasParent(T, x), Parent(T, x) = n, y = Sibling(T, x)
    PROVE  /\ x # {} /\ y # {} /\ x \cap y = {} /\ n = x \cup y
           /\ HasParent(T, y) /\ Parent(T, y) = n /\ Sibling(T, y) = x
           /\ InitialChildren(T, n) = {x, y}
<1>1. /\ x # {} /\ y # {} /\ x \cap y = {} /\ n = x \cup y
      /\ \A m \in T : Above(x, m) => n \subseteq m
  BY Family
<1>2. HasParent(T, y) /\ Above(y, n) /\ n \ y \in T /\ n \ y = x
  BY <1>1, ZenonT(20) DEF HasParent, Above, NullNode
<1>3. Parent(T, y) = n /\ Sibling(T, y) = x
  BY <1>2, ParentOfSibling
<1>4. \A m \in T : Above(y, m) => n \subseteq m
  BY <1>2, <1>3, Family
<1>5. ASSUME NEW m \in T, m # n, Parent(T, m) = n
      PROVE  m \in {x, y}
  <2>1. HasParent(T, m)
    BY <1>1, <1>5 DEF Parent, NullNode
  <2>2. /\ m # {} /\ m \subseteq n /\ \A k \in T : Above(m, k) => n \subseteq k
    BY <1>5, <2>1, Family
  <2>3. /\ m \cap x = {} \/ m \subseteq x \/ x \subseteq m
        /\ m \cap y = {} \/ m \subseteq y \/ y \subseteq m
    BY DEF WellFormed, Laminar
  <2>4. CASE m \subseteq x
    BY <1>1, <2>2, <2>4 DEF Above
  <2>5. CASE m \subseteq y
    BY <1>1, <2>2, <2>5 DEF Above
  <2>6. CASE x \subseteq m \/ y \subseteq m
    BY <1>1, <1>4, <1>5, <2>2, <2>6 DEF Above
  <2> QED
    BY <1>1, <2>2, <2>3, <2>4, <2>5, <2>6
<1>6. x # n /\ y # n
  BY <1>1
<1>7. InitialChildren(T, n) = {x, y}
  BY <1>3, <1>5, <1>6 DEF InitialChildren
<1> QED
  BY <1>1, <1>2, <1>3, <1>7

\* Nodes are sets of numbers.
LEMMA NodesAreNumbers ==
    ASSUME NEW T \in Forest, NEW n \in T
    PROVE  n \in SUBSET Nat
BY LabelsAreTaxa DEF Forest, Node

\* The child with the smaller label is the left one.
LEMMA FirstSplits ==
    ASSUME NEW T \in Forest, WellFormed(T), NEW n \in T, ~ IsTerminal(T, n)
    PROVE  \E l, r : FirstSplit(T, n, l, r)
<1>1. PICK x \in T : HasParent(T, x) /\ Parent(T, x) = n /\ Sibling(T, x) \in T
  BY TwoChildren
<1>2. PICK y \in T : y = Sibling(T, x)
  BY <1>1
<1>3. /\ x # {} /\ y # {} /\ x \cap y = {} /\ n = x \cup y
      /\ HasParent(T, y) /\ Parent(T, y) = n /\ Sibling(T, y) = x
      /\ InitialChildren(T, n) = {x, y}
  BY <1>1, <1>2, FirstChildren
<1>4. x \in SUBSET Nat /\ y \in SUBSET Nat
  BY NodesAreNumbers
<1>5. /\ Smallest(x) \in x /\ Smallest(y) \in y
      /\ Smallest(x) \in Nat /\ Smallest(y) \in Nat /\ Smallest(x) # Smallest(y)
  BY <1>3, <1>4, SmallestPicks
<1>6. ASSUME NEW l \in {x, y}, NEW r \in {x, y} \ {l},
             Smallest(l) < Smallest(r)
      PROVE  FirstSplit(T, n, l, r)
  <2>0. (l = x /\ r = y) \/ (l = y /\ r = x)
    OBVIOUS
  <2>1. Smallest(n) = Smallest(l)
    <3>1. n = l \cup r /\ l # {} /\ r # {} /\ l \in SUBSET Nat /\ r \in SUBSET Nat
      BY <1>3, <1>4, <2>0
    <3> QED
      BY <1>6, <3>1, SmallestOfUnion
  <2>2. {m \in {l, r} : Smallest(m) = Smallest(n)} = {l}
    BY <1>5, <2>0, <1>6, <2>1
  <2>3. InitialChildren(T, n) = {l, r}
    BY <1>3, <2>0
  <2>4. InitialLeft(T, n) = l
    BY <2>2, <2>3 DEF InitialLeft
  <2>5. n \ l = r
    BY <1>3, <2>0
  <2> QED
    BY <1>1, <1>2, <1>3, <1>6, <2>0, <2>3, <2>4, <2>5 DEF FirstSplit
<1>7. x \in {x, y} /\ y \in {x, y} \ {x} /\ y \in {x, y} /\ x \in {x, y} \ {y}
  BY <1>5
<1>8. CASE Smallest(x) < Smallest(y)
  <2>1. FirstSplit(T, n, x, y)
    BY <1>6, <1>7, <1>8
  <2> QED
    BY <2>1
<1>9. CASE Smallest(y) < Smallest(x)
  <2>1. FirstSplit(T, n, y, x)
    BY <1>6, <1>7, <1>9
  <2> QED
    BY <2>1
<1> QED
  BY <1>5, <1>8, <1>9

\* A leaf has no child.
LEMMA FirstLeaves ==
    ASSUME NEW T \in Forest, WellFormed(T), NEW n \in T, IsTerminal(T, n)
    PROVE  InitialLeft(T, n) = NullNode
<1>1. ASSUME NEW m \in T, m # n, Parent(T, m) = n
      PROVE  FALSE
  <2>1. n # {}
    BY DEF WellFormed, NullNode
  <2>2. HasParent(T, m)
    BY <1>1, <2>1 DEF Parent, NullNode
  <2>3. m \subseteq n
    BY <1>1, <2>2, Family DEF Above
  <2> QED
    BY <1>1, <2>3 DEF IsTerminal
<1>2. InitialChildren(T, n) = {}
  BY <1>1 DEF InitialChildren
<1> QED
  BY <1>2 DEF InitialLeft, NullNode

\* The pointers as they are read.
FirstPointers(T, par, sib, lc, rc, st, rts, ltt, ttl) ==
    /\ par = [n \in T |-> Parent(T, n)]
    /\ sib = [n \in T |-> Sibling(T, n)]
    /\ lc = [n \in T |-> InitialLeft(T, n)]
    /\ rc = [n \in T |-> IF IsTerminal(T, n) THEN NullNode ELSE n \ InitialLeft(T, n)]
    /\ st = [n \in T |-> n]
    /\ rts = <<Labels>>
    /\ ltt = [l \in Labels |-> {l}]
    /\ ttl = [n \in Terminals(T) |-> Smallest(n)]

\* They are shaped as a forest, with nothing collapsed.
LEMMA FirstShaped ==
    ASSUME NEW T \in FirstForests, NEW par, NEW sib, NEW lc, NEW rc, NEW st,
           NEW rts, NEW ltt, NEW ttl,
           FirstPointers(T, par, sib, lc, rc, st, rts, ltt, ttl)
    PROVE  Shaped(T, T, lc, rc, {}, par, sib, lc, rc, st, rts, ltt, ttl)
           /\ LabelSets(st, Visible(T, st, {})) = T
<1>1. /\ T \in Forest /\ WellFormed(T) /\ Roots(T) = {Labels}
      /\ \A l \in Labels : {l} \in T
  BY FirstForestsAreTrees
<1>2. /\ par = [n \in T |-> Parent(T, n)]
      /\ sib = [n \in T |-> Sibling(T, n)]
      /\ lc = [n \in T |-> InitialLeft(T, n)]
      /\ rc = [n \in T |-> IF IsTerminal(T, n) THEN NullNode ELSE n \ InitialLeft(T, n)]
      /\ st = [n \in T |-> n]
      /\ rts = <<Labels>>
      /\ ltt = [l \in Labels |-> {l}]
      /\ ttl = [n \in Terminals(T) |-> Smallest(n)]
  BY DEF FirstPointers
<1>3. ASSUME NEW n \in T, IsTerminal(T, n)
      PROVE  lc[n] = NullNode /\ rc[n] = NullNode
  BY <1>1, <1>2, <1>3, FirstLeaves
<1>4. ASSUME NEW n \in T, ~ IsTerminal(T, n)
      PROVE  FirstSplit(T, n, lc[n], rc[n])
  <2>1. PICK l, r : FirstSplit(T, n, l, r)
    BY <1>1, <1>4, FirstSplits
  <2>2. lc[n] = l /\ rc[n] = r
    BY <1>2, <1>4, <2>1 DEF FirstSplit
  <2> QED
    BY <2>1, <2>2
<1>5. \A n \in T : lc[n] = NullNode <=> IsTerminal(T, n)
  BY <1>3, <1>4 DEF FirstSplit, NullNode
<1>6. ASSUME NEW n \in T
      PROVE  /\ par[n] = NullNode => ~ HasParent(T, n) /\ sib[n] = NullNode
             /\ par[n] # NullNode => /\ HasParent(T, n) /\ par[n] \in T /\ sib[n] \in T
                                     /\ ~ IsTerminal(T, par[n])
                                     /\ n \in {lc[par[n]], rc[par[n]]}
  <2>1. CASE HasParent(T, n)
    <3>1. /\ par[n] = Parent(T, n) /\ sib[n] = Sibling(T, n)
          /\ par[n] \in T /\ sib[n] \in T /\ par[n] # NullNode
          /\ n \subseteq par[n] /\ n # par[n]
      BY <1>1, <1>2, <2>1, Family DEF Above, WellFormed
    <3>2. ~ IsTerminal(T, par[n])
      BY <3>1 DEF IsTerminal
    <3>3. FirstSplit(T, par[n], lc[par[n]], rc[par[n]])
      BY <1>4, <3>1, <3>2
    <3>4. n \in InitialChildren(T, par[n])
      BY <3>1 DEF InitialChildren
    <3> QED
      BY <2>1, <3>1, <3>2, <3>3, <3>4 DEF FirstSplit
  <2>2. CASE ~ HasParent(T, n)
    <3>1. par[n] = NullNode /\ sib[n] = NullNode
      BY <1>2, <2>2 DEF Parent, Sibling, NullNode
    <3> QED
      BY <2>2, <3>1
  <2> QED
    BY <2>1, <2>2
<1>7. Typed(T, T, par, sib, lc, rc, st)
  <2>1. IsFiniteSet(T) /\ T \in SUBSET Node /\ NullNode \notin T
    BY <1>1, NodesAreFinite DEF Forest, WellFormed
  <2>2. \A n \in T : par[n] \in T \cup {NullNode} /\ sib[n] \in T \cup {NullNode}
    BY <1>6
  <2>3. \A n \in T : lc[n] \in T \cup {NullNode} /\ rc[n] \in T \cup {NullNode}
    BY <1>3, <1>4 DEF FirstSplit
  <2>4. st \in [T -> Node]
    BY <1>2, <2>1
  <2> QED
    BY <1>2, <2>1, <2>2, <2>3, <2>4 DEF Typed
<1>8. Apart(T, st)
  <2>1. /\ \A n \in T : st[n] = n /\ n # {}
        /\ \A n, m \in T : n \cap m = {} \/ n \subseteq m \/ m \subseteq n
        /\ \A l \in Labels : \E n \in T : l \in n
    BY <1>1, <1>2 DEF WellFormed, Laminar, NullNode
  <2> QED
    BY <2>1 DEF Apart
<1>9. Downwards(T, par, sib, lc, rc, st)
  <2> SUFFICES ASSUME NEW n \in T
               PROVE  IF lc[n] = NullNode THEN Bottom(T, rc, st, n)
                      ELSE Splits(T, par, sib, lc, rc, st, n)
    BY DEF Downwards
  <2>1. CASE IsTerminal(T, n)
    BY <1>2, <1>3, <2>1 DEF Bottom, IsTerminal
  <2>2. CASE ~ IsTerminal(T, n)
    <3>1. FirstSplit(T, n, lc[n], rc[n]) /\ lc[n] # NullNode
      BY <1>4, <1>5, <2>2
    <3>2. Splits(T, par, sib, lc, rc, st, n)
      <4>1. PICK l, r : l = lc[n] /\ r = rc[n]
        OBVIOUS
      <4>2. /\ l \in T /\ r \in T /\ l # {} /\ r # {} /\ l \cap r = {} /\ n = l \cup r
            /\ Parent(T, l) = n /\ Parent(T, r) = n
            /\ Sibling(T, l) = r /\ Sibling(T, r) = l
        BY <3>1, <4>1 DEF FirstSplit
      <4>3. par[l] = n /\ par[r] = n /\ sib[l] = r /\ sib[r] = l
            /\ st[l] = l /\ st[r] = r /\ st[n] = n
        BY <1>2, <4>2
      <4> QED
        BY <4>1, <4>2, <4>3 DEF Splits
    <3> QED
      BY <3>1, <3>2
  <2> QED
    BY <2>1, <2>2
<1>10. Hooked(T, par, sib, lc, rc)
  BY <1>5, <1>6 DEF Hooked, Hangs
<1>11. InChildOrder(T, lc, rc, st)
  <2> SUFFICES ASSUME NEW n \in T, lc[n] # NullNode
               PROVE  Smallest(st[lc[n]]) < Smallest(st[rc[n]])
    BY DEF InChildOrder
  <2>1. FirstSplit(T, n, lc[n], rc[n])
    BY <1>3, <1>4
  <2> QED
    BY <1>2, <2>1 DEF FirstSplit
<1>12. Rooted(T, par, st, rts)
  <2>1. Labels \in T
    BY <1>1 DEF Roots
  <2>2. \A n \in T : par[n] = NullNode <=> n = Labels
    <3> SUFFICES ASSUME NEW n \in T PROVE par[n] = NullNode <=> n = Labels
      OBVIOUS
    <3>1. n # NullNode /\ n \subseteq Labels
      BY <1>1 DEF WellFormed, Forest, Node
    <3>2. ~ HasParent(T, n) <=> n \in Roots(T)
      BY <3>1 DEF HasParent, Roots
    <3>3. par[n] = NullNode <=> ~ HasParent(T, n)
      BY <1>6
    <3> QED
      BY <1>1, <3>2, <3>3
  <2>3. rts \in Seq(T) /\ DOMAIN rts = {1} /\ rts[1] = Labels
    BY <1>2, <2>1
  <2>4. Range(rts) = {n \in T : par[n] = NullNode}
    BY <2>1, <2>2, <2>3 DEF Range
  <2> QED
    BY <2>3, <2>4 DEF Rooted
<1>13. Visible(T, st, {}) = T /\ Tips(T, lc, st, {}) = Terminals(T)
  <2>1. Visible(T, st, {}) = T
    BY DEF Visible, Under
  <2> QED
    BY <1>5, <2>1 DEF Tips, Terminals
<1>14. Labelled(T, lc, st, {}, ltt, ttl)
  <2>1. ASSUME NEW l \in Labels
        PROVE  {l} \in Terminals(T)
    <3>1. {l} \in T /\ {} \notin T
      BY <1>1 DEF WellFormed, NullNode
    <3>2. ASSUME NEW m \in T, m \subseteq {l}
          PROVE  m = {l}
      <4>1. m # {}
        BY <3>1
      <4> QED
        BY <3>2, <4>1
    <3> QED
      BY <3>1, <3>2 DEF Terminals, IsTerminal
  <2>2. \A n \in Terminals(T) : n \in T /\ st[n] = n
    BY <1>2 DEF Terminals
  <2>3. ltt \in [Labels -> Terminals(T)] /\ \A l \in Labels : l \in st[ltt[l]]
    BY <1>2, <2>1, <2>2
  <2>4. ttl = [n \in Terminals(T) |-> Smallest(st[n])]
    BY <1>2, <2>2
  <2> QED
    BY <1>13, <2>3, <2>4 DEF Labelled
<1>15. lc = Closed(T, {}, lc) /\ rc = Closed(T, {}, rc)
  BY <1>2 DEF Closed
<1>16. LabelSets(st, T) = T
  BY <1>2 DEF LabelSets
<1> QED
  BY <1>7, <1>8, <1>9, <1>10, <1>11, <1>12, <1>13, <1>14, <1>15, <1>16
     DEF Shaped, Linked

-----------------------------------------------------------------------------
(* All pointers at once.                                                   *)

\* The pointers p and the collapses cs describe M with every collapse opened.
Fits(p, cs, M, lx, rx) ==
    /\ Shaped(DOMAIN p[1][1], M, lx, rx, NodesOf(cs), p[1][1], p[1][2], p[1][3],
              p[1][4], p[2], p[3], p[4][1], p[4][2])
    /\ Recollected(M, lx, rx, p[2], cs)

\* Some forest fits the pointers and the collapses in force.
Good(p, cs) == \E M, lx, rx : Fits(p, cs, M, lx, rx)

\* The label sets that are seen in p.
Seen(p) ==
    {p[2][n] : n \in ReachedFrom(DOMAIN p[1][1], p[1][3], p[1][4], Range(p[3]))}

\* What the undo of a does with all pointers.
UndoGives(a, par, sib, lc, rc, st, rts, ltt, ttl,
          par2, sib2, lc2, rc2, st2, rts2, ltt2, ttl2) ==
    IF a.kind = "cut"
    THEN /\ ltt2 = ltt /\ ttl2 = ttl
         /\ IF a.parentIsRoot
            THEN /\ sib2 = [sib EXCEPT ![a.sibling] = a.child, ![a.child] = a.sibling]
                 /\ par2 = [par EXCEPT ![a.sibling] = a.parent, ![a.child] = a.parent]
                 /\ rts2 = SetBack(rts, a.leftRoot, a.parent, a.rightRoot)
                 /\ lc2 = lc /\ rc2 = rc /\ st2 = st
            ELSE LET up == Reached(a.parent,
                                   [n \in DOMAIN par |-> {par[n]} \ {NullNode}])
                 IN  /\ UncutInside(DOMAIN par, par, sib, lc, rc, st, a.child,
                                    a.parent, a.sibling, par[a.parent],
                                    sib[a.parent], up, par2, sib2, lc2, rc2, st2)
                     /\ rts2 = SetBack(rts, a.leftRoot,
                                       CHOOSE n \in up : par[n] = NullNode,
                                       a.rightRoot)
    ELSE /\ UncollapsedAt(a, par, lc, rc, ltt, ttl, par2, lc2, rc2, ltt2, ttl2)
         /\ sib2 = sib /\ st2 = st /\ rts2 = rts

\* The undo of a leads from the pointers p to the pointers q.
Reverts(a, p, q) ==
    UndoGives(a, p[1][1], p[1][2], p[1][3], p[1][4], p[2], p[3], p[4][1], p[4][2],
              q[1][1], q[1][2], q[1][3], q[1][4], q[2], q[3], q[4][1], q[4][2])

\* Sorting leaves no choice.
LEMMA ResortedOnce ==
    ASSUME NEW N, NEW up, NEW lefts, NEW rights, NEW st, NEW lc, NEW rc,
           Resorted(N, up, lefts, rights, st, lc, rc),
           NEW lc3, NEW rc3, Resorted(N, up, lefts, rights, st, lc3, rc3)
    PROVE  lc = lc3 /\ rc = rc3
BY DEF Resorted

\* The undo leaves no choice.
LEMMA UndoIsUnique ==
    ASSUME NEW a, NEW par, NEW sib, NEW lc, NEW rc, NEW st, NEW rts, NEW ltt, NEW ttl,
           NEW par2, NEW sib2, NEW lc2, NEW rc2, NEW st2, NEW rts2, NEW ltt2, NEW ttl2,
           UndoGives(a, par, sib, lc, rc, st, rts, ltt, ttl,
                     par2, sib2, lc2, rc2, st2, rts2, ltt2, ttl2),
           NEW par3, NEW sib3, NEW lc3, NEW rc3, NEW st3, NEW rts3, NEW ltt3, NEW ttl3,
           UndoGives(a, par, sib, lc, rc, st, rts, ltt, ttl,
                     par3, sib3, lc3, rc3, st3, rts3, ltt3, ttl3)
    PROVE  /\ par2 = par3 /\ sib2 = sib3 /\ lc2 = lc3 /\ rc2 = rc3
           /\ st2 = st3 /\ rts2 = rts3 /\ ltt2 = ltt3 /\ ttl2 = ttl3
<1>1. CASE a.kind = "cut" /\ a.parentIsRoot
  BY <1>1 DEF UndoGives
<1>2. CASE a.kind = "cut" /\ ~ a.parentIsRoot
  <2> DEFINE up == Reached(a.parent, [n \in DOMAIN par |-> {par[n]} \ {NullNode}])
  <2>1. /\ ltt2 = ltt3 /\ ttl2 = ttl3
        /\ UncutInside(DOMAIN par, par, sib, lc, rc, st, a.child,
                       a.parent, a.sibling, par[a.parent],
                       sib[a.parent], up, par2, sib2, lc2, rc2, st2)
        /\ UncutInside(DOMAIN par, par, sib, lc, rc, st, a.child,
                       a.parent, a.sibling, par[a.parent],
                       sib[a.parent], up, par3, sib3, lc3, rc3, st3)
        /\ rts2 = rts3
    BY <1>2 DEF UndoGives
  <2> HIDE DEF up
  <2>2. st2 = st3 /\ par2 = par3 /\ sib2 = sib3
    BY <2>1 DEF UncutInside
  <2>3. PICK lefts, rights :
           /\ lefts = [lc EXCEPT ![par[a.parent]] = IF @ = a.sibling THEN a.parent ELSE @]
           /\ rights = [rc EXCEPT ![par[a.parent]] =
                           IF lc[par[a.parent]] = a.sibling THEN @ ELSE a.parent]
    OBVIOUS
  <2>4. Resorted(DOMAIN par, up, lefts, rights, st2, lc2, rc2)
    BY <2>1, <2>3 DEF UncutInside
  <2>5. Resorted(DOMAIN par, up, lefts, rights, st2, lc3, rc3)
    BY <2>1, <2>2, <2>3 DEF UncutInside
  <2>6. lc2 = lc3 /\ rc2 = rc3
    BY <2>4, <2>5, ResortedOnce
  <2> QED
    BY <2>1, <2>2, <2>6
<1>3. CASE a.kind # "cut"
  <2>1. /\ UncollapsedAt(a, par, lc, rc, ltt, ttl, par2, lc2, rc2, ltt2, ttl2)
        /\ UncollapsedAt(a, par, lc, rc, ltt, ttl, par3, lc3, rc3, ltt3, ttl3)
        /\ sib2 = sib3 /\ st2 = st3 /\ rts2 = rts3
    BY <1>3 DEF UndoGives
  <2> QED
    BY <2>1 DEF UncollapsedAt
<1> QED
  BY <1>1, <1>2, <1>3

\* What is seen is what is reached.
LEMMA SeenVisible ==
    ASSUME NEW p, NEW cs, NEW M, NEW lx, NEW rx, Fits(p, cs, M, lx, rx)
    PROVE  /\ ReachedFrom(DOMAIN p[1][1], p[1][3], p[1][4], Range(p[3]))
                 = Visible(M, p[2], NodesOf(cs))
           /\ Seen(p) = LabelSets(p[2], Visible(M, p[2], NodesOf(cs)))
<1>1. PICK N, par, sib, lc, rc, st, rts :
         /\ N = DOMAIN p[1][1] /\ par = p[1][1] /\ sib = p[1][2] /\ lc = p[1][3]
         /\ rc = p[1][4] /\ st = p[2] /\ rts = p[3]
  OBVIOUS
<1>2. PICK L : L = Visible(M, st, NodesOf(cs))
  OBVIOUS
<1>3. Shaped(N, M, lx, rx, NodesOf(cs), par, sib, lc, rc, st, rts, p[4][1], p[4][2])
  BY <1>1 DEF Fits
<1>4. /\ Linked(N, L, par, sib, lc, rc, st) /\ Rooted(L, par, st, rts)
  BY <1>2, <1>3, ShapedVisible
<1>5. Range(rts) = {n \in L : par[n] = NullNode}
  BY <1>4 DEF Rooted
<1>6. ReachedFrom(N, lc, rc, {n \in L : par[n] = NullNode}) = L
  BY <1>4, ReachesLinked
<1>7. ReachedFrom(DOMAIN p[1][1], p[1][3], p[1][4], Range(p[3])) = L
  BY <1>1, <1>5, <1>6
<1> QED
  BY <1>1, <1>2, <1>7 DEF Seen, LabelSets

-----------------------------------------------------------------------------
(* DeleteEdgeAction, its undo and CutEdge.                                 *)

\* The action a cuts c and leads from the pointers p to q, and back.
CutDone(a, p, q, cs, c) ==
    /\ a.kind = "cut" /\ a.before = p
    /\ a.edit = [kind |-> "cut", node |-> p[2][c], others |-> {p[2][p[1][2][c]]}]
    /\ Good(q, cs) /\ Reverts(a, q, p)
    /\ Seen(q) = CutEdge(Seen(p), p[2][c])

\* What the members of the action are.
CutMembers(a, c, i, j) ==
    /\ a.kind = "cut" /\ a.before = pointers
    /\ a.edit = [kind |-> "cut", node |-> subtreeTerminals[c],
                 others |-> {subtreeTerminals[sibling[c]]}]
    /\ a.child = c /\ a.sibling = sibling[c] /\ a.parent = parent[c]
    /\ a.leftRoot = i /\ a.rightRoot = j

\* The parent is a root.
LEMMA RootCutStep ==
    ASSUME ZeroWordsAreHarmless, NEW cs, Good(pointers, cs),
           NEW c \in Reachable, DeleteEdge(c), parent[c] \in Range(roots)
    PROVE  \E a : actions' = Append(actions, a) /\ CutDone(a, pointers, pointers', cs, c)
<1>1. PICK M, lx, rx : Fits(pointers, cs, M, lx, rx)
  BY DEF Good
<1>2. PICK C, L : C = NodesOf(cs) /\ L = Visible(M, subtreeTerminals, C)
  OBVIOUS
<1>3. /\ Shaped(Nodes, M, lx, rx, C, parent, sibling, leftChild, rightChild,
                subtreeTerminals, roots, labelToTerminal, terminalToLabel)
      /\ Recollected(M, lx, rx, subtreeTerminals, cs)
  BY <1>1, <1>2 DEF Fits, pointers, links, labelling, Nodes
<1>4. Reachable = L /\ Seen(pointers) = LabelSets(subtreeTerminals, L)
  <2>1. /\ ReachedFrom(DOMAIN pointers[1][1], pointers[1][3], pointers[1][4],
                       Range(pointers[3])) = Visible(M, pointers[2], NodesOf(cs))
        /\ Seen(pointers) = LabelSets(pointers[2], Visible(M, pointers[2], NodesOf(cs)))
    BY <1>1, SeenVisible
  <2>2. /\ pointers[1][1] = parent /\ pointers[1][3] = leftChild
        /\ pointers[1][4] = rightChild /\ pointers[2] = subtreeTerminals
        /\ pointers[3] = roots
    BY DEF pointers, links
  <2>3. ReachedFrom(Nodes, leftChild, rightChild, Range(roots)) = L
    BY <1>2, <2>1, <2>2 DEF Nodes
  <2> QED
    BY <1>2, <2>1, <2>2, <2>3 DEF Reachable, ReachedFrom
<1>5. /\ c \in L /\ parent[c] # NullNode /\ UNCHANGED labelling
      /\ parent[parent[c]] = NullNode
  <2>1. parent[c] # NullNode /\ UNCHANGED labelling
    BY DEF DeleteEdge
  <2>2. \A n \in Range(roots) : parent[n] = NullNode
    BY <1>3 DEF Shaped, Rooted
  <2> QED
    BY <1>4, <2>1, <2>2
<1>6. DoParentIsRoot(NewCut(c))
  BY DEF DeleteEdge, NewCut
<1>7. PICK i, j, a :
         /\ CutAtRoot(parent, sibling, leftChild, rightChild, subtreeTerminals, roots,
                      c, parent', sibling', roots', i, j)
         /\ UNCHANGED <<leftChild, rightChild, subtreeTerminals>>
         /\ actions' = Append(actions, a) /\ CutMembers(a, c, i, j)
         /\ a.parentIsRoot
  <2>1. PICK i : i = Smallest({k \in DOMAIN roots : roots[k] = parent[c]})
    OBVIOUS
  <2>2. PICK replaced : replaced = [roots EXCEPT ![i] = leftChild[parent[c]]]
    OBVIOUS
  <2>3. PICK j : j = LowerBound(replaced, i, rightChild[parent[c]], subtreeTerminals)
    OBVIOUS
  <2>4. PICK a : a = [NewCut(c) EXCEPT !.leftRoot = i, !.rightRoot = j]
    OBVIOUS
  <2>5. /\ NewCut(c).parent = parent[c] /\ NewCut(c).sibling = sibling[c]
        /\ NewCut(c).child = c
        /\ NewCut(c).left = leftChild[parent[c]] /\ NewCut(c).right = rightChild[parent[c]]
    BY DEF NewCut
  <2>6. /\ roots' = InsertAt(replaced, j, rightChild[parent[c]])
        /\ sibling' = [sibling EXCEPT ![sibling[c]] = NullNode, ![c] = NullNode]
        /\ parent' = [parent EXCEPT ![sibling[c]] = NullNode, ![c] = NullNode]
        /\ actions' = Append(actions, a)
        /\ UNCHANGED <<leftChild, rightChild, subtreeTerminals>>
    BY <1>6, <2>1, <2>2, <2>3, <2>4, <2>5 DEF DoParentIsRoot, Recorded
  <2>7. CutMembers(a, c, i, j) /\ a.parentIsRoot
    BY <2>4 DEF CutMembers, NewCut
  <2>8. CutAtRoot(parent, sibling, leftChild, rightChild, subtreeTerminals, roots,
                  c, parent', sibling', roots', i, j)
    BY <2>1, <2>2, <2>3, <2>6 DEF CutAtRoot, Planted
  <2> QED
    BY <2>6, <2>7, <2>8
<1>8. PICK M2 : M2 = M \ {parent[c]}
  OBVIOUS
<1>9. /\ Shaped(Nodes, M2, lx, rx, C, parent', sibling', leftChild, rightChild,
                subtreeTerminals, roots', labelToTerminal, terminalToLabel)
      /\ Frozen(M, lx, rx, subtreeTerminals, C, M2, lx, rx, subtreeTerminals)
      /\ LabelSets(subtreeTerminals, Visible(M2, subtreeTerminals, C))
            = CutEdge(LabelSets(subtreeTerminals, L), subtreeTerminals[c])
      /\ SetBack(roots', i, parent[c], j) = roots
  BY <1>2, <1>3, <1>5, <1>7, <1>8, CutAtRootShaped
<1>10. Recollected(M2, lx, rx, subtreeTerminals, cs)
  BY <1>2, <1>3, <1>9, FrozenRecollected DEF Shaped
<1>11. Fits(pointers', cs, M2, lx, rx)
  <2>1. Nodes = DOMAIN parent'
    BY <1>9 DEF Shaped, Linked, Typed
  <2> QED
    BY <1>2, <1>5, <1>7, <1>9, <1>10, <2>1 DEF Fits, pointers, links, labelling
<1>12. Seen(pointers') = CutEdge(Seen(pointers), subtreeTerminals[c])
  <2>1. Seen(pointers') = LabelSets(pointers'[2], Visible(M2, pointers'[2], NodesOf(cs)))
    BY <1>11, SeenVisible
  <2>2. pointers'[2] = subtreeTerminals
    BY <1>7 DEF pointers
  <2> QED
    BY <1>2, <1>4, <1>9, <2>1, <2>2
<1>13. Reverts(a, pointers', pointers)
  <2>1. /\ parent' = [parent EXCEPT ![sibling[c]] = NullNode, ![c] = NullNode]
        /\ sibling' = [sibling EXCEPT ![sibling[c]] = NullNode, ![c] = NullNode]
    BY <1>7 DEF CutAtRoot
  <2>2. Linked(Nodes, M, parent, sibling, lx, rx, subtreeTerminals) /\ c \in M
    BY <1>2, <1>3, <1>5 DEF Shaped, Visible
  <2>3. /\ parent = [parent' EXCEPT ![sibling[c]] = parent[c], ![c] = parent[c]]
        /\ sibling = [sibling' EXCEPT ![sibling[c]] = c, ![c] = sibling[c]]
    <3>1. /\ sibling[c] \in M /\ sibling[c] # c /\ sibling[sibling[c]] = c
          /\ parent[sibling[c]] = parent[c]
      BY <1>5, <2>2, Upward
    <3>2. /\ parent \in [Nodes -> Nodes \cup {NullNode}]
          /\ sibling \in [Nodes -> Nodes \cup {NullNode}] /\ M \subseteq Nodes
      BY <2>2 DEF Linked, Typed
    <3> QED
      BY <2>1, <2>2, <3>1, <3>2
  <2>4. UndoGives(a, parent', sibling', leftChild', rightChild', subtreeTerminals', roots',
                  labelToTerminal', terminalToLabel',
                  parent, sibling, leftChild, rightChild, subtreeTerminals, roots,
                  labelToTerminal, terminalToLabel)
    BY <1>5, <1>7, <1>9, <2>3 DEF UndoGives, CutMembers, labelling
  <2> QED
    BY <2>4 DEF Reverts, pointers, links, labelling
<1>14. CutDone(a, pointers, pointers', cs, c)
  <2>1. Good(pointers', cs)
    BY <1>11 DEF Good
  <2>2. a.edit = [kind |-> "cut", node |-> pointers[2][c],
                  others |-> {pointers[2][pointers[1][2][c]]}]
    BY <1>7 DEF CutMembers, pointers, links
  <2>3. Seen(pointers') = CutEdge(Seen(pointers), pointers[2][c])
    BY <1>12 DEF pointers
  <2> QED
    BY <1>7, <1>13, <2>1, <2>2, <2>3 DEF CutDone, CutMembers
<1> QED
  BY <1>7, <1>14

\* What the code does when the parent is no root.
InnerCut(c, P, s, g, u, up, root, i, j, a) ==
    /\ CutInside(Nodes, parent, sibling, leftChild, rightChild, subtreeTerminals,
                 c, P, s, g, u, up, parent', sibling', leftChild', rightChild',
                 subtreeTerminals')
    /\ PlantedAbove(parent, subtreeTerminals', roots, up, c, root, i, j, roots')
    /\ actions' = Append(actions, a) /\ CutMembers(a, c, i, j)
    /\ ~ a.parentIsRoot

\* The action is the one of the lemmas.
LEMMA InnerCutRead ==
    ASSUME NEW c, DoParentIsInner(NewCut(c)), parent[c] \notin Range(roots),
           NEW up, up = Upwards(parent[c])
    PROVE  \E root, i, j, a : InnerCut(c, parent[c], sibling[c], parent[parent[c]],
                                       sibling[parent[c]], up, root, i, j, a)
<1> DEFINE b == NewCut(c)
           grandParent == parent[b.parent]
           above == Upwards(b.parent)
           terminals == [n \in Nodes |->
                            IF n \in above
                            THEN SymDiff(subtreeTerminals[n], subtreeTerminals[b.child])
                            ELSE subtreeTerminals[n]]
           lefts == [leftChild EXCEPT
                        ![grandParent] = IF @ = b.parent THEN b.sibling ELSE @]
           rights == [rightChild EXCEPT
                        ![grandParent] = IF leftChild[grandParent] = b.parent
                                         THEN @ ELSE b.sibling]
           swapped == SwappedIn(above, lefts, rights, terminals)
           root == CHOOSE n \in above : parent[n] = NullNode
           i == Smallest({k \in DOMAIN roots : roots[k] = root})
           rootFirst == HasSmallestTerminal(terminals[root], terminals[b.child])
           kept == IF rootFirst THEN roots ELSE [roots EXCEPT ![i] = b.child]
           added == IF rootFirst THEN b.child ELSE root
           j == LowerBound(kept, i, added, terminals)
           a == [b EXCEPT !.leftRoot = i, !.rightRoot = j]
<1> HIDE DEF b
<1>1. /\ leftChild' = [n \in Nodes |-> IF n \in swapped THEN rights[n] ELSE lefts[n]]
      /\ rightChild' = [n \in Nodes |-> IF n \in swapped THEN lefts[n] ELSE rights[n]]
      /\ parent' = [parent EXCEPT ![b.sibling] = grandParent, ![b.child] = NullNode]
      /\ sibling' = [sibling EXCEPT ![b.sibling] = sibling[b.parent],
                                    ![sibling[b.parent]] = b.sibling,
                                    ![b.child] = NullNode]
      /\ subtreeTerminals' = terminals
      /\ roots' = InsertAt(kept, j, added)
      /\ actions' = Recorded(b, i, j)
  <2>1. DoParentIsInner(b)
    BY DEF b
  <2> QED
    BY ONLY <2>1, Zenon DEF DoParentIsInner
<1> HIDE DEF j, i, root, swapped, kept, added, rootFirst, lefts, rights, terminals, above
<1>2. /\ b.parent = parent[c] /\ b.sibling = sibling[c] /\ b.child = c
  BY DEF b, NewCut
<1>3. above = up
  BY <1>2 DEF above
<1>4. CutMembers(a, c, i, j) /\ ~ a.parentIsRoot
  BY DEF CutMembers, NewCut, b
<1>5. actions' = Append(actions, a)
  BY <1>1 DEF Recorded
<1>6. PlantedAbove(parent, subtreeTerminals', roots, up, c, root, i, j, roots')
  <2>1. root = CHOOSE n \in up : parent[n] = NullNode
    BY <1>3 DEF root
  <2>2. i = Smallest({k \in DOMAIN roots : roots[k] = root})
    BY DEF i
  <2>3. rootFirst <=> HasSmallestTerminal(subtreeTerminals'[root], subtreeTerminals'[c])
    BY <1>1, <1>2 DEF rootFirst
  <2>4. /\ kept = (IF rootFirst THEN roots ELSE [roots EXCEPT ![i] = c])
        /\ added = (IF rootFirst THEN c ELSE root)
    BY <1>2 DEF kept, added
  <2>5. /\ j = LowerBound(kept, i, added, subtreeTerminals')
        /\ roots' = InsertAt(kept, j, added)
    BY <1>1, SMTT(30) DEF j
  <2> QED
    BY <2>1, <2>2, <2>3, <2>4, <2>5 DEF PlantedAbove
<1>7. CutInside(Nodes, parent, sibling, leftChild, rightChild, subtreeTerminals,
                c, parent[c], sibling[c], parent[parent[c]], sibling[parent[c]], up,
                parent', sibling', leftChild', rightChild', subtreeTerminals')
  <2>1. terminals = [n \in Nodes |->
            IF n \in up THEN SymDiff(subtreeTerminals[n], subtreeTerminals[c])
            ELSE subtreeTerminals[n]]
    BY <1>2, <1>3 DEF terminals
  <2>2. /\ parent' = [parent EXCEPT ![sibling[c]] = parent[parent[c]], ![c] = NullNode]
        /\ sibling' = [sibling EXCEPT ![sibling[c]] = sibling[parent[c]],
                                      ![sibling[parent[c]]] = sibling[c],
                                      ![c] = NullNode]
    BY <1>1, <1>2
  <2>3. /\ lefts = [leftChild EXCEPT ![parent[parent[c]]] =
                       IF @ = parent[c] THEN sibling[c] ELSE @]
        /\ rights = [rightChild EXCEPT ![parent[parent[c]]] =
                       IF leftChild[parent[parent[c]]] = parent[c] THEN @ ELSE sibling[c]]
    BY <1>2 DEF lefts, rights
  <2>4. swapped = SwappedIn(up, lefts, rights, subtreeTerminals')
    BY <1>1, <1>3 DEF swapped
  <2>5. Resorted(Nodes, up, lefts, rights, subtreeTerminals', leftChild', rightChild')
    BY <1>1, <2>4 DEF Resorted
  <2> QED
    BY <1>1, <2>1, <2>2, <2>3, <2>5 DEF CutInside
<1>8. InnerCut(c, parent[c], sibling[c], parent[parent[c]], sibling[parent[c]], up,
               root, i, j, a)
  BY <1>4, <1>5, <1>6, <1>7 DEF InnerCut
<1> QED
  BY <1>8

\* The undo of the action is the one of the lemmas.
LEMMA InnerCutReverts ==
    ASSUME NEW c, NEW P, NEW s, NEW g, NEW u, NEW up, NEW root, NEW i, NEW j, NEW a,
           InnerCut(c, P, s, g, u, up, root, i, j, a),
           P = parent[c], s = sibling[c],
           DOMAIN parent' = Nodes, UNCHANGED labelling,
           UncutInside(Nodes, parent', sibling', leftChild', rightChild',
                       subtreeTerminals', c, P, s, g, u, up,
                       parent, sibling, leftChild, rightChild, subtreeTerminals),
           parent'[P] = g, sibling'[P] = u,
           PathUp(Nodes, parent', P) = up,
           \A n \in up : parent'[n] = parent[n], TheRoot(up, parent, root),
           SetBack(roots', i, root, j) = roots
    PROVE  Reverts(a, pointers', pointers)
<1>1. root = CHOOSE n \in up : parent'[n] = NullNode
  <2>1. \A n \in up : parent'[n] = NullNode <=> n = root
    BY DEF TheRoot
  <2>2. root \in up
    BY DEF TheRoot
  <2>3. PICK r : r = CHOOSE n \in up : parent'[n] = NullNode
    OBVIOUS
  <2>4. r \in up /\ parent'[r] = NullNode
    BY <2>1, <2>2, <2>3
  <2> QED
    BY <2>1, <2>3, <2>4
<1>2. /\ a.kind = "cut" /\ ~ a.parentIsRoot /\ a.child = c /\ a.sibling = s
      /\ a.parent = P /\ a.leftRoot = i /\ a.rightRoot = j
  BY DEF InnerCut, CutMembers
<1>3. labelToTerminal' = labelToTerminal /\ terminalToLabel' = terminalToLabel
  BY DEF labelling
<1>4. UndoGives(a, parent', sibling', leftChild', rightChild', subtreeTerminals', roots',
                labelToTerminal', terminalToLabel',
                parent, sibling, leftChild, rightChild, subtreeTerminals, roots,
                labelToTerminal, terminalToLabel)
  <2>1. Reached(a.parent, [n \in DOMAIN parent' |-> {parent'[n]} \ {NullNode}]) = up
    BY <1>2 DEF PathUp
  <2>2. UncutInside(DOMAIN parent', parent', sibling', leftChild', rightChild',
                    subtreeTerminals', a.child, a.parent, a.sibling,
                    parent'[a.parent], sibling'[a.parent],
                    up, parent, sibling, leftChild, rightChild, subtreeTerminals)
    BY <1>2
  <2>3. roots = SetBack(roots', a.leftRoot, CHOOSE n \in up : parent'[n] = NullNode,
                        a.rightRoot)
    BY <1>1, <1>2
  <2> QED
    BY <1>2, <1>3, <2>1, <2>2, <2>3 DEF UndoGives
<1> QED
  BY <1>4 DEF Reverts, pointers, links, labelling

\* The parent is no root.
LEMMA InnerCutStep ==
    ASSUME ZeroWordsAreHarmless, NEW cs, Good(pointers, cs),
           NEW c \in Reachable, DeleteEdge(c), parent[c] \notin Range(roots)
    PROVE  \E a : actions' = Append(actions, a) /\ CutDone(a, pointers, pointers', cs, c)
<1>1. PICK M, lx, rx : Fits(pointers, cs, M, lx, rx)
  BY DEF Good
<1>2. PICK C, L : C = NodesOf(cs) /\ L = Visible(M, subtreeTerminals, C)
  OBVIOUS
<1>3. /\ Shaped(Nodes, M, lx, rx, C, parent, sibling, leftChild, rightChild,
                subtreeTerminals, roots, labelToTerminal, terminalToLabel)
      /\ Recollected(M, lx, rx, subtreeTerminals, cs)
  BY <1>1, <1>2 DEF Fits, pointers, links, labelling, Nodes
<1>4. Reachable = L /\ Seen(pointers) = LabelSets(subtreeTerminals, L)
  <2>1. /\ ReachedFrom(DOMAIN pointers[1][1], pointers[1][3], pointers[1][4],
                       Range(pointers[3])) = Visible(M, pointers[2], NodesOf(cs))
        /\ Seen(pointers) = LabelSets(pointers[2], Visible(M, pointers[2], NodesOf(cs)))
    BY <1>1, SeenVisible
  <2>2. /\ pointers[1][1] = parent /\ pointers[1][3] = leftChild
        /\ pointers[1][4] = rightChild /\ pointers[2] = subtreeTerminals
        /\ pointers[3] = roots
    BY DEF pointers, links
  <2>3. ReachedFrom(Nodes, leftChild, rightChild, Range(roots)) = L
    BY <1>2, <2>1, <2>2 DEF Nodes
  <2> QED
    BY <1>2, <2>1, <2>2, <2>3 DEF Reachable, ReachedFrom
<1>5. /\ Linked(Nodes, L, parent, sibling, leftChild, rightChild, subtreeTerminals)
      /\ InChildOrder(L, leftChild, rightChild, subtreeTerminals)
      /\ Rooted(L, parent, subtreeTerminals, roots)
  BY <1>2, <1>3, ShapedVisible
<1>6. /\ c \in L /\ parent[c] # NullNode /\ UNCHANGED labelling
      /\ parent[parent[c]] # NullNode /\ DoParentIsInner(NewCut(c))
  <2>1. /\ parent[c] # NullNode /\ UNCHANGED labelling /\ DoParentIsInner(NewCut(c))
    BY DEF DeleteEdge, NewCut
  <2>2. c \in L
    BY <1>4
  <2>3. parent[c] \in L
    BY <1>5, <2>1, <2>2, Upward
  <2>4. Range(roots) = {n \in L : parent[n] = NullNode}
    BY <1>5 DEF Rooted
  <2> QED
    BY <2>1, <2>2, <2>3, <2>4
<1>7. PICK P, s, g, u, up :
         /\ P = parent[c] /\ s = sibling[c] /\ g = parent[P] /\ u = sibling[P]
         /\ up = From(L, subtreeTerminals, P)
  OBVIOUS
<1>8. /\ Cutting(L, parent, sibling, subtreeTerminals, c, P, s, g, u, up)
      /\ CuttingInside(M, C, parent, sibling, subtreeTerminals, L, c, P, s, g, u, up)
  BY <1>2, <1>6, <1>7 DEF Cutting, CuttingInside
<1>9. up = Upwards(P)
  <2>1. Reached(P, [n \in Nodes |-> {parent[n]} \ {NullNode}])
           = {m \in L : subtreeTerminals[P] \subseteq subtreeTerminals[m]}
    <3>1. P \in L
      BY <1>5, <1>8, CutPlaces
    <3> QED
      BY <1>5, <3>1, UpwardsReaches
  <2> QED
    BY <1>7, <2>1 DEF Upwards, From
<1>10. PICK root, i, j, a : InnerCut(c, P, s, g, u, up, root, i, j, a)
  BY <1>6, <1>7, <1>9, InnerCutRead
<1>11. PICK M2, lx2, rx2 :
          /\ M2 = M \ {P}
          /\ lx2 = OpenedLike(Nodes, C, lx, leftChild')
          /\ rx2 = OpenedLike(Nodes, C, rx, rightChild')
  OBVIOUS
<1>12. /\ CutInside(Nodes, parent, sibling, leftChild, rightChild, subtreeTerminals,
                    c, P, s, g, u, up, parent', sibling', leftChild', rightChild',
                    subtreeTerminals')
       /\ PlantedAbove(parent, subtreeTerminals', roots, up, c, root, i, j, roots')
  BY <1>10 DEF InnerCut
<1>13. CutThrough(Nodes, M, lx, rx, C, parent, sibling, leftChild, rightChild,
                  subtreeTerminals, c, P, s, g, u, up,
                  M2, lx2, rx2, parent', sibling', leftChild', rightChild',
                  subtreeTerminals')
  BY <1>11, <1>12 DEF CutThrough
<1>14. /\ Shaped(Nodes, M2, lx2, rx2, C, parent', sibling', leftChild', rightChild',
                 subtreeTerminals', roots', labelToTerminal, terminalToLabel)
       /\ Frozen(M, lx, rx, subtreeTerminals, C, M2, lx2, rx2, subtreeTerminals')
       /\ LabelSets(subtreeTerminals', Visible(M2, subtreeTerminals', C))
             = CutEdge(LabelSets(subtreeTerminals, L), subtreeTerminals[c])
       /\ SetBack(roots', i, root, j) = roots
       /\ TheRoot(up, parent, root)
  BY <1>3, <1>8, <1>12, <1>13, CutInsideShaped
<1>15. Recollected(M2, lx2, rx2, subtreeTerminals', cs)
  BY <1>2, <1>3, <1>14, FrozenRecollected DEF Shaped
<1>16. Nodes = DOMAIN parent'
  BY <1>14 DEF Shaped, Linked, Typed
<1>17. Fits(pointers', cs, M2, lx2, rx2)
  BY <1>2, <1>6, <1>14, <1>15, <1>16 DEF Fits, pointers, links, labelling
<1>18. Seen(pointers') = CutEdge(Seen(pointers), subtreeTerminals[c])
  <2>1. Seen(pointers') = LabelSets(pointers'[2], Visible(M2, pointers'[2], NodesOf(cs)))
    BY <1>17, SeenVisible
  <2>2. pointers'[2] = subtreeTerminals'
    BY DEF pointers
  <2> QED
    BY <1>2, <1>4, <1>14, <2>1, <2>2
<1>19. Reverts(a, pointers', pointers)
  <2>1. Relinked(Nodes, parent, sibling, leftChild, rightChild, subtreeTerminals,
                 c, P, s, g, u, up, parent', sibling', leftChild', rightChild',
                 subtreeTerminals')
    BY <1>3, <1>8, <1>11, <1>12, CutRelinks
  <2>2. /\ UncutInside(Nodes, parent', sibling', leftChild', rightChild',
                       subtreeTerminals', c, P, s, g, u, up,
                       parent, sibling, leftChild, rightChild, subtreeTerminals)
        /\ parent'[P] = g /\ sibling'[P] = u
        /\ \A n \in up : parent'[n] = parent[n]
    BY <1>5, <1>8, <2>1, CutInsideUndone
  <2>4. PathUp(Nodes, parent', P) = up
    BY <1>5, <1>8, <2>1, AboveAgain
  <2>5. UNCHANGED labelling
    BY <1>6
  <2> QED
    BY <1>7, <1>10, <1>14, <1>16, <2>2, <2>4, <2>5, InnerCutReverts
<1>20. CutDone(a, pointers, pointers', cs, c)
  <2>1. Good(pointers', cs)
    BY <1>17 DEF Good
  <2>2. CutMembers(a, c, i, j)
    BY <1>10 DEF InnerCut
  <2>3. a.edit = [kind |-> "cut", node |-> pointers[2][c],
                  others |-> {pointers[2][pointers[1][2][c]]}]
    BY <2>2 DEF CutMembers, pointers, links
  <2>4. Seen(pointers') = CutEdge(Seen(pointers), pointers[2][c])
    BY <1>18 DEF pointers
  <2> QED
    BY <1>19, <2>1, <2>2, <2>3, <2>4 DEF CutDone, CutMembers
<1> QED
  BY <1>10, <1>20 DEF InnerCut

\* The lemmas on the pointers as they are.
LEMMA FitsNow ==
    ASSUME NEW cs, NEW M, NEW lx, NEW rx, Fits(pointers, cs, M, lx, rx)
    PROVE  /\ Shaped(Nodes, M, lx, rx, NodesOf(cs), parent, sibling, leftChild,
                     rightChild, subtreeTerminals, roots, labelToTerminal,
                     terminalToLabel)
           /\ Recollected(M, lx, rx, subtreeTerminals, cs)
           /\ Reachable = Visible(M, subtreeTerminals, NodesOf(cs))
           /\ Seen(pointers)
                 = LabelSets(subtreeTerminals, Visible(M, subtreeTerminals, NodesOf(cs)))
<1>1. /\ Shaped(Nodes, M, lx, rx, NodesOf(cs), parent, sibling, leftChild,
                rightChild, subtreeTerminals, roots, labelToTerminal, terminalToLabel)
      /\ Recollected(M, lx, rx, subtreeTerminals, cs)
  BY DEF Fits, pointers, links, labelling, Nodes
<1>2. /\ ReachedFrom(DOMAIN pointers[1][1], pointers[1][3], pointers[1][4],
                     Range(pointers[3])) = Visible(M, pointers[2], NodesOf(cs))
      /\ Seen(pointers) = LabelSets(pointers[2], Visible(M, pointers[2], NodesOf(cs)))
  BY SeenVisible
<1>3. /\ pointers[1][1] = parent /\ pointers[1][3] = leftChild
      /\ pointers[1][4] = rightChild /\ pointers[2] = subtreeTerminals
      /\ pointers[3] = roots
  BY DEF pointers, links
<1>4. ReachedFrom(Nodes, leftChild, rightChild, Range(roots))
         = Visible(M, subtreeTerminals, NodesOf(cs))
  BY <1>2, <1>3 DEF Nodes
<1>5. Reachable = Visible(M, subtreeTerminals, NodesOf(cs))
  BY <1>4 DEF Reachable, ReachedFrom
<1> QED
  BY <1>1, <1>2, <1>3, <1>5

\* The forest that is seen, with the relations the pointers give.
LEMMA SeenForest ==
    ASSUME NEW cs, Good(pointers, cs)
    PROVE  /\ Seen(pointers) = {subtreeTerminals[n] : n \in Reachable}
           /\ Seen(pointers) \in Forest /\ WellFormed(Seen(pointers))
           /\ \A n \in Reachable : /\ subtreeTerminals[n] \in Seen(pointers)
                                   /\ subtreeTerminals[n] \in Node
                                   /\ IsTerminal(Seen(pointers), subtreeTerminals[n])
                                         <=> leftChild[n] = NullNode
           /\ \A n \in Reachable : parent[n] # NullNode =>
                 /\ HasParent(Seen(pointers), subtreeTerminals[n])
                 /\ Sibling(Seen(pointers), subtreeTerminals[n])
                       = subtreeTerminals[sibling[n]]
<1>1. PICK M, lx, rx : Fits(pointers, cs, M, lx, rx)
  BY DEF Good
<1>2. PICK L : L = Visible(M, subtreeTerminals, NodesOf(cs))
  OBVIOUS
<1>3. /\ Shaped(Nodes, M, lx, rx, NodesOf(cs), parent, sibling, leftChild,
                rightChild, subtreeTerminals, roots, labelToTerminal, terminalToLabel)
      /\ Reachable = L
      /\ Seen(pointers) = LabelSets(subtreeTerminals, L)
  BY <1>1, <1>2, FitsNow
<1>4. Linked(Nodes, L, parent, sibling, leftChild, rightChild, subtreeTerminals)
  BY <1>2, <1>3, ShapedVisible
<1>5. PICK F : F = LabelSets(subtreeTerminals, L)
  OBVIOUS
<1>6. /\ F \in Forest /\ WellFormed(F)
      /\ \A n \in L : parent[n] # NullNode =>
            /\ HasParent(F, subtreeTerminals[n])
            /\ Parent(F, subtreeTerminals[n]) = subtreeTerminals[parent[n]]
            /\ Sibling(F, subtreeTerminals[n]) = subtreeTerminals[sibling[n]]
      /\ \A n \in L : IsTerminal(F, subtreeTerminals[n]) <=> leftChild[n] = NullNode
  BY <1>4, <1>5, LinkedForest
<1>7. \A n \in L : subtreeTerminals[n] \in F /\ subtreeTerminals[n] \in Node
  BY <1>4, <1>5 DEF LabelSets, Linked, Typed
<1>8. Seen(pointers) = F /\ Reachable = L
  BY <1>3, <1>5
<1>9. F = {subtreeTerminals[n] : n \in L}
  BY <1>5 DEF LabelSets
<1> QED
  BY <1>6, <1>7, <1>8, <1>9

-----------------------------------------------------------------------------
(* Collapses by their place in the stack.                                  *)

\* One more collapse on top.
Added(cs, k, a) == [j \in DOMAIN cs \cup {k} |-> IF j = k THEN a ELSE cs[j]]

\* The collapses up to the k-th place.
Topped(cs, k) == DOMAIN cs \in SUBSET Nat /\ k \in Nat /\ \A j \in DOMAIN cs : j < k

\* A collapse added on top closes one more node.
LEMMA AddedNodes ==
    ASSUME NEW cs, NEW k, NEW a, Topped(cs, k)
    PROVE  /\ NodesOf(Added(cs, k, a)) = NodesOf(cs) \cup {a.node}
           /\ Earlier(Added(cs, k, a), k) = NodesOf(cs)
           /\ \A j \in DOMAIN cs : /\ Earlier(Added(cs, k, a), j) = Earlier(cs, j)
                                   /\ Added(cs, k, a)[j] = cs[j]
           /\ Added(cs, k, a)[k] = a
           /\ DOMAIN Added(cs, k, a) = DOMAIN cs \cup {k}
<1>1. PICK cs2 : cs2 = Added(cs, k, a)
  OBVIOUS
<1>2. /\ DOMAIN cs2 = DOMAIN cs \cup {k} /\ cs2[k] = a
      /\ \A j \in DOMAIN cs : cs2[j] = cs[j]
  BY <1>1 DEF Added, Topped
<1>3. k \notin DOMAIN cs /\ \A j \in DOMAIN cs : j \in Nat /\ j < k
  BY DEF Topped
<1>4. NodesOf(cs2) = NodesOf(cs) \cup {a.node}
  BY <1>2 DEF NodesOf
<1>5. Earlier(cs2, k) = NodesOf(cs)
  <2>1. {i \in DOMAIN cs2 : i < k} = DOMAIN cs
    BY <1>2, <1>3 DEF Topped
  <2> QED
    BY <1>2, <2>1 DEF Earlier, NodesOf
<1>6. ASSUME NEW j \in DOMAIN cs PROVE Earlier(cs2, j) = Earlier(cs, j)
  <2>1. {i \in DOMAIN cs2 : i < j} = {i \in DOMAIN cs : i < j}
    BY <1>2, <1>3 DEF Topped
  <2> QED
    BY <1>2, <2>1 DEF Earlier
<1> QED
  BY <1>1, <1>2, <1>4, <1>5, <1>6

-----------------------------------------------------------------------------
(* CollapseSubtreeAction and its undo.                                     *)

\* The action a collapses nd and leads from the pointers p to q, and back.
CollapseDone(a, p, q, cs, k, nd) ==
    /\ a.kind = "collapse" /\ a.before = p
    /\ a.edit = [kind |-> "collapse", node |-> p[2][nd],
                 others |-> Below(Seen(p), p[2][nd])]
    /\ Good(q, Added(cs, k, a)) /\ Reverts(a, q, p)
    /\ Seen(q) = CollapseAt(Seen(p), p[2][nd])

\* What the code does.
Collapsed(nd, a) ==
    /\ CollapsedAt(leftChild, rightChild, subtreeTerminals, labelToTerminal,
                   terminalToLabel, nd, leftChild', rightChild', labelToTerminal',
                   terminalToLabel')
    /\ Records(Reachable, leftChild, rightChild, subtreeTerminals, labelToTerminal,
               terminalToLabel, nd, a)
    /\ actions' = Append(actions, a)
    /\ a.kind = "collapse" /\ a.before = pointers
    /\ a.edit.node = subtreeTerminals[nd]
    /\ a.edit = [kind |-> "collapse", node |-> a.edit.node, others |-> a.edit.others]
    /\ UNCHANGED <<parent, sibling, subtreeTerminals, roots>>

\* The action is the one of the lemmas.
LEMMA CollapseRead ==
    ASSUME NEW nd, CollapseSubtree(nd)
    PROVE  \E a : Collapsed(nd, a)
<1> DEFINE below == subtreeTerminals[nd]
           a == [kind |-> "collapse", node |-> nd, left |-> leftChild[nd],
                 right |-> rightChild[nd], collapsedLabel |-> Smallest(below),
                 collapsedLabelToTerminals |-> [l \in below |-> labelToTerminal[l]],
                 collapsedTerminals |->
                     [n \in CollapsedTerminals(nd) |-> terminalToLabel[n]],
                 edit |-> [kind |-> "collapse", node |-> below,
                           others |-> {subtreeTerminals[n] :
                               n \in {m \in Reachable \ {nd} :
                                         subtreeTerminals[m] \subseteq below}}],
                 before |-> pointers]
<1>1. actions' = Append(actions, a)
  BY DEF CollapseSubtree
<1>2. CollapsedAt(leftChild, rightChild, subtreeTerminals, labelToTerminal,
                  terminalToLabel, nd, leftChild', rightChild', labelToTerminal',
                  terminalToLabel')
  BY DEF CollapseSubtree, CollapsedAt
<1>3. UNCHANGED <<parent, sibling, subtreeTerminals, roots>>
  BY DEF CollapseSubtree
<1>4. Records(Reachable, leftChild, rightChild, subtreeTerminals, labelToTerminal,
              terminalToLabel, nd, a)
  <2>1. CollapsedTerminals(nd)
           = {k \in {labelToTerminal[l] : l \in subtreeTerminals[nd]} :
                  k \in DOMAIN terminalToLabel
                     /\ terminalToLabel[k]
                           = Smallest({l \in subtreeTerminals[nd] : labelToTerminal[l] = k})}
    BY DEF CollapsedTerminals
  <2>2. a.collapsedTerminals =
           [n \in {k \in {labelToTerminal[l] : l \in subtreeTerminals[nd]} :
                  k \in DOMAIN terminalToLabel
                     /\ terminalToLabel[k]
                           = Smallest({l \in subtreeTerminals[nd] : labelToTerminal[l] = k})}
              |-> terminalToLabel[n]]
    BY <2>1
  <2>3. /\ a.node = nd /\ a.left = leftChild[nd] /\ a.right = rightChild[nd]
        /\ a.collapsedLabel = Smallest(subtreeTerminals[nd])
        /\ a.collapsedLabelToTerminals
              = [l \in subtreeTerminals[nd] |-> labelToTerminal[l]]
        /\ a.edit.kind = "collapse"
        /\ a.edit.others = {subtreeTerminals[n] : n \in {m \in Reachable \ {nd} :
                               subtreeTerminals[m] \subseteq subtreeTerminals[nd]}}
    OBVIOUS
  <2> HIDE DEF a
  <2> QED
    BY <2>2, <2>3 DEF Records
<1>5. /\ a.kind = "collapse" /\ a.before = pointers
      /\ a.edit.node = subtreeTerminals[nd]
      /\ a.edit = [kind |-> "collapse", node |-> a.edit.node, others |-> a.edit.others]
  OBVIOUS
<1> HIDE DEF a
<1>6. Collapsed(nd, a)
  BY <1>1, <1>2, <1>3, <1>4, <1>5 DEF Collapsed
<1> QED
  BY <1>6

\* Undone, all is as it was.
LEMMA CollapseUndone ==
    ASSUME NEW N, NEW M, NEW lx, NEW rx, NEW C, NEW par, NEW sib, NEW lc, NEW rc,
           NEW st, NEW rts, NEW ltt, NEW ttl,
           Shaped(N, M, lx, rx, C, par, sib, lc, rc, st, rts, ltt, ttl),
           NEW a, Recalls(M, lx, rx, st, C, a), NEW C2, Joins(M, C, a, C2),
           NEW lc2, NEW rc2, NEW ltt2, NEW ttl2,
           Shaped(N, M, lx, rx, C2, par, sib, lc2, rc2, st, rts, ltt2, ttl2)
    PROVE  UncollapsedAt(a, par, lc2, rc2, ltt2, ttl2, par, lc, rc, ltt, ttl)
<1>1. PICK node, oldLabels, oldNodes :
         /\ node = ltt2[a.collapsedLabel] /\ oldLabels = a.collapsedLabelToTerminals
         /\ oldNodes = a.collapsedTerminals
  OBVIOUS
<1>2. PICK lc3, rc3, par3, ltt3, ttl3 :
         /\ lc3 = [lc2 EXCEPT ![node] = a.left] /\ rc3 = [rc2 EXCEPT ![node] = a.right]
         /\ par3 = [par EXCEPT ![a.left] = node, ![a.right] = node]
         /\ ltt3 = [l \in Labels |->
                       IF l \in DOMAIN oldLabels THEN oldLabels[l] ELSE ltt2[l]]
         /\ ttl3 = [n \in (DOMAIN oldNodes \cup DOMAIN ttl2) \ {node} |->
                       IF n \in DOMAIN oldNodes THEN oldNodes[n] ELSE ttl2[n]]
  OBVIOUS
<1>3. UncollapsedAt(a, par, lc2, rc2, ltt2, ttl2, par3, lc3, rc3, ltt3, ttl3)
  BY <1>1, <1>2 DEF UncollapsedAt
<1>4. /\ Linked(N, M, par, sib, lx, rx, st) /\ C \in SUBSET M
      /\ lc = Closed(N, C, lx) /\ rc = Closed(N, C, rx)
      /\ Labelled(M, lx, st, C, ltt, ttl)
  BY DEF Shaped
<1>5. /\ UncollapsedAt(a, par, lc2, rc2, ltt2, ttl2, par, lc3, rc3, ltt3, ttl3)
      /\ Shaped(N, M, lx, rx, C, par, sib, lc3, rc3, st, rts, ltt3, ttl3)
  BY <1>3, UncollapseShaped
<1>6. /\ lc3 = Closed(N, C, lx) /\ rc3 = Closed(N, C, rx)
      /\ Labelled(M, lx, st, C, ltt3, ttl3)
  BY <1>5 DEF Shaped
<1>8. ltt3 = ltt /\ ttl3 = ttl
  BY <1>4, <1>6, LabelledAlike
<1> QED
  BY <1>3, <1>4, <1>5, <1>6, <1>8

\* A collapse leads to good pointers, and back.
LEMMA CollapseStep ==
    ASSUME NEW cs, Good(pointers, cs), NEW k, Topped(cs, k),
           NEW nd \in Reachable, CollapseSubtree(nd)
    PROVE  \E a : /\ actions' = Append(actions, a)
                  /\ CollapseDone(a, pointers, pointers', cs, k, nd)
<1>1. PICK M, lx, rx : Fits(pointers, cs, M, lx, rx)
  BY DEF Good
<1>2. PICK C, L : C = NodesOf(cs) /\ L = Visible(M, subtreeTerminals, C)
  OBVIOUS
<1>3. /\ Shaped(Nodes, M, lx, rx, C, parent, sibling, leftChild, rightChild,
                subtreeTerminals, roots, labelToTerminal, terminalToLabel)
      /\ Recollected(M, lx, rx, subtreeTerminals, cs)
      /\ Reachable = L /\ Seen(pointers) = LabelSets(subtreeTerminals, L)
  BY <1>1, <1>2, FitsNow
<1>4. PICK a : Collapsed(nd, a)
  BY CollapseRead
<1>5. /\ CollapsedAt(leftChild, rightChild, subtreeTerminals, labelToTerminal,
                     terminalToLabel, nd, leftChild', rightChild', labelToTerminal',
                     terminalToLabel')
      /\ Records(L, leftChild, rightChild, subtreeTerminals, labelToTerminal,
                 terminalToLabel, nd, a)
      /\ a.kind = "collapse" /\ a.before = pointers
      /\ a.edit = [kind |-> "collapse", node |-> subtreeTerminals[nd],
                   others |-> a.edit.others]
      /\ parent' = parent /\ sibling' = sibling
      /\ subtreeTerminals' = subtreeTerminals /\ roots' = roots
      /\ actions' = Append(actions, a)
  BY <1>3, <1>4 DEF Collapsed
<1>6. leftChild[nd] # NullNode /\ nd \in Visible(M, subtreeTerminals, C)
  BY <1>2, <1>3 DEF CollapseSubtree
<1>7. PICK C2 : C2 = C \cup {nd}
  OBVIOUS
<1>8. /\ Collapsible(M, lx, subtreeTerminals, C, nd)
      /\ Shaped(Nodes, M, lx, rx, C2, parent, sibling, leftChild', rightChild',
                subtreeTerminals, roots, labelToTerminal', terminalToLabel')
  BY <1>3, <1>5, <1>6, <1>7, CollapseShaped
<1>9. Recalls(M, lx, rx, subtreeTerminals, C, a)
  BY <1>2, <1>3, <1>5, <1>8, CollapseRecalled
<1>10. a.node = nd
  BY <1>5 DEF Records
<1>11. PICK cs2 : cs2 = Added(cs, k, a)
  OBVIOUS
<1>12. /\ NodesOf(cs2) = C2 /\ Earlier(cs2, k) = C
       /\ \A j \in DOMAIN cs : Earlier(cs2, j) = Earlier(cs, j) /\ cs2[j] = cs[j]
       /\ cs2[k] = a /\ DOMAIN cs2 = DOMAIN cs \cup {k}
  <2>1. /\ NodesOf(Added(cs, k, a)) = NodesOf(cs) \cup {a.node}
        /\ Earlier(Added(cs, k, a), k) = NodesOf(cs)
        /\ \A j \in DOMAIN cs : /\ Earlier(Added(cs, k, a), j) = Earlier(cs, j)
                                /\ Added(cs, k, a)[j] = cs[j]
        /\ Added(cs, k, a)[k] = a
        /\ DOMAIN Added(cs, k, a) = DOMAIN cs \cup {k}
    BY AddedNodes, ZenonT(40)
  <2> QED
    BY <1>2, <1>7, <1>10, <1>11, <2>1
<1>13. Recollected(M, lx, rx, subtreeTerminals, cs2)
  <2>1. \A j \in DOMAIN cs : Recalls(M, lx, rx, subtreeTerminals, Earlier(cs2, j), cs2[j])
    BY <1>3, <1>12 DEF Recollected
  <2>2. Recalls(M, lx, rx, subtreeTerminals, Earlier(cs2, k), cs2[k])
    BY <1>9, <1>12
  <2> QED
    BY <1>12, <2>1, <2>2 DEF Recollected
<1>14. Nodes = DOMAIN parent'
  BY <1>5 DEF Nodes
<1>15. Fits(pointers', cs2, M, lx, rx)
  BY <1>5, <1>8, <1>12, <1>13, <1>14 DEF Fits, pointers, links, labelling
<1>16. /\ LabelSets(subtreeTerminals, VisibleBelow(M, subtreeTerminals, C, nd))
             = Below(Seen(pointers), subtreeTerminals[nd])
       /\ LabelSets(subtreeTerminals, Visible(M, subtreeTerminals, C2))
             = CollapseAt(Seen(pointers), subtreeTerminals[nd])
  <2>1. Apart(M, subtreeTerminals)
    BY <1>3 DEF Shaped, Linked
  <2> QED
    BY <1>2, <1>3, <1>7, <1>8, <2>1, CollapsedSets
<1>17. Seen(pointers') = CollapseAt(Seen(pointers), subtreeTerminals[nd])
  <2>1. Seen(pointers') = LabelSets(pointers'[2], Visible(M, pointers'[2], NodesOf(cs2)))
    BY <1>15, SeenVisible
  <2>2. pointers'[2] = subtreeTerminals
    BY <1>5 DEF pointers
  <2> QED
    BY <1>12, <1>16, <2>1, <2>2
<1>18. a.edit = [kind |-> "collapse", node |-> subtreeTerminals[nd],
                 others |-> Below(Seen(pointers), subtreeTerminals[nd])]
  BY <1>5, <1>9, <1>10, <1>16 DEF Recalls
<1>19. Reverts(a, pointers', pointers)
  <2>1. UncollapsedAt(a, parent, leftChild', rightChild', labelToTerminal',
                      terminalToLabel', parent, leftChild, rightChild, labelToTerminal,
                      terminalToLabel)
    <3>1. Joins(M, C, a, C2)
      BY <1>3, <1>7, <1>10 DEF Joins, Shaped
    <3> QED
      BY <1>3, <1>8, <1>9, <3>1, CollapseUndone
  <2>2. UndoGives(a, parent', sibling', leftChild', rightChild', subtreeTerminals', roots',
                  labelToTerminal', terminalToLabel',
                  parent, sibling, leftChild, rightChild, subtreeTerminals, roots,
                  labelToTerminal, terminalToLabel)
    BY <1>5, <2>1 DEF UndoGives
  <2> QED
    BY <2>2 DEF Reverts, pointers, links, labelling
<1>20. CollapseDone(a, pointers, pointers', cs, k, nd)
  <2>1. Good(pointers', Added(cs, k, a))
    BY <1>11, <1>15 DEF Good
  <2>2. pointers[2] = subtreeTerminals
    BY DEF pointers
  <2> QED
    BY <1>5, <1>17, <1>18, <1>19, <2>1, <2>2 DEF CollapseDone
<1> QED
  BY <1>5, <1>20

-----------------------------------------------------------------------------
(* Undoing an action.                                                      *)

\* The undo of a, as the lemmas have it.
Undoing(a) ==
    UndoGives(a, parent, sibling, leftChild, rightChild, subtreeTerminals, roots,
              labelToTerminal, terminalToLabel, parent', sibling', leftChild',
              rightChild', subtreeTerminals', roots', labelToTerminal',
              terminalToLabel')

\* A cut below an inner node.
LEMMA UndoInnerRead ==
    ASSUME NEW a, UndoParentIsInner(a), NEW up, up = Upwards(a.parent)
    PROVE  /\ UncutInside(Nodes, parent, sibling, leftChild, rightChild,
                          subtreeTerminals, a.child, a.parent, a.sibling,
                          parent[a.parent], sibling[a.parent], up, parent', sibling',
                          leftChild', rightChild', subtreeTerminals')
           /\ roots' = SetBack(roots, a.leftRoot, CHOOSE n \in up : parent[n] = NullNode,
                               a.rightRoot)
<1> DEFINE grandParent == parent[a.parent]
           above == Upwards(a.parent)
           terminals == [n \in Nodes |->
                            IF n \in above
                            THEN subtreeTerminals[n] \cup subtreeTerminals[a.child]
                            ELSE subtreeTerminals[n]]
           lefts == [leftChild EXCEPT
                        ![grandParent] = IF @ = a.sibling THEN a.parent ELSE @]
           rights == [rightChild EXCEPT
                        ![grandParent] = IF leftChild[grandParent] = a.sibling
                                         THEN @ ELSE a.parent]
           swapped == SwappedIn(above, lefts, rights, terminals)
           root == CHOOSE n \in above : parent[n] = NullNode
<1>1. /\ leftChild' = [n \in Nodes |-> IF n \in swapped THEN rights[n] ELSE lefts[n]]
      /\ rightChild' = [n \in Nodes |-> IF n \in swapped THEN lefts[n] ELSE rights[n]]
      /\ parent' = [parent EXCEPT ![a.sibling] = a.parent, ![a.child] = a.parent]
      /\ sibling' = [sibling EXCEPT ![a.sibling] = a.child,
                                    ![a.child] = a.sibling,
                                    ![sibling[a.parent]] = a.parent]
      /\ subtreeTerminals' = terminals
      /\ roots' = RemoveAt([roots EXCEPT ![a.leftRoot] = root], a.rightRoot)
  BY Zenon DEF UndoParentIsInner
<1> HIDE DEF root, swapped, lefts, rights, terminals, above
<1>2. above = up
  BY DEF above
<1>3. roots' = SetBack(roots, a.leftRoot, CHOOSE n \in up : parent[n] = NullNode,
                       a.rightRoot)
  <2>1. root = CHOOSE n \in up : parent[n] = NullNode
    BY <1>2 DEF root
  <2> QED
    BY <1>1, <2>1 DEF SetBack
<1>4. terminals = [n \in Nodes |->
                      IF n \in up THEN subtreeTerminals[n] \cup subtreeTerminals[a.child]
                      ELSE subtreeTerminals[n]]
  BY <1>2 DEF terminals
<1>5. /\ lefts = [leftChild EXCEPT ![parent[a.parent]] =
                     IF @ = a.sibling THEN a.parent ELSE @]
      /\ rights = [rightChild EXCEPT ![parent[a.parent]] =
                     IF leftChild[parent[a.parent]] = a.sibling THEN @ ELSE a.parent]
  BY DEF lefts, rights
<1>6. swapped = SwappedIn(up, lefts, rights, subtreeTerminals')
  BY <1>1, <1>2 DEF swapped
<1>7. Resorted(Nodes, up, lefts, rights, subtreeTerminals', leftChild', rightChild')
  BY <1>1, <1>6, SMTT(30) DEF Resorted
<1>8. UncutInside(Nodes, parent, sibling, leftChild, rightChild,
                  subtreeTerminals, a.child, a.parent, a.sibling,
                  parent[a.parent], sibling[a.parent], up, parent', sibling',
                  leftChild', rightChild', subtreeTerminals')
  BY <1>1, <1>4, <1>5, <1>7 DEF UncutInside
<1> QED
  BY <1>3, <1>8

\* What Undo does, read off its definition.
LEMMA UndoRead ==
    ASSUME NEW a, Undo(a)
    PROVE  Undoing(a)
<1>1. CASE a.kind = "cut" /\ a.parentIsRoot
  <2>1. UndoParentIsRoot(a) /\ UNCHANGED labelling
    BY <1>1 DEF Undo, UndoDeleteEdge
  <2> QED
    BY <1>1, <2>1 DEF UndoParentIsRoot, Undoing, UndoGives, SetBack, labelling
<1>2. CASE a.kind = "cut" /\ ~ a.parentIsRoot
  <2>1. UndoParentIsInner(a) /\ UNCHANGED labelling
    BY <1>2 DEF Undo, UndoDeleteEdge
  <2>2. PICK up : up = Upwards(a.parent)
    OBVIOUS
  <2>3. /\ UncutInside(Nodes, parent, sibling, leftChild, rightChild,
                       subtreeTerminals, a.child, a.parent, a.sibling,
                       parent[a.parent], sibling[a.parent], up, parent', sibling',
                       leftChild', rightChild', subtreeTerminals')
        /\ roots' = SetBack(roots, a.leftRoot, CHOOSE n \in up : parent[n] = NullNode,
                            a.rightRoot)
    BY <2>1, <2>2, UndoInnerRead
  <2>4. up = Reached(a.parent, [n \in DOMAIN parent |-> {parent[n]} \ {NullNode}])
    BY <2>2 DEF Upwards, Nodes
  <2>5. labelToTerminal' = labelToTerminal /\ terminalToLabel' = terminalToLabel
    BY <2>1 DEF labelling
  <2> QED
    BY <1>2, <2>3, <2>4, <2>5 DEF Undoing, UndoGives, Nodes
<1>3. CASE a.kind # "cut"
  <2>1. UndoCollapseSubtree(a)
    BY <1>3 DEF Undo
  <2> QED
    BY <1>3, <2>1 DEF UndoCollapseSubtree, Undoing, UndoGives, UncollapsedAt
<1> QED
  BY <1>1, <1>2, <1>3

\* A record of all pointers.
Packed(p) == p = <<<<p[1][1], p[1][2], p[1][3], p[1][4]>>, p[2], p[3],
                   <<p[4][1], p[4][2]>>>>

\* The pointers are what the undo gives.
LEMMA UndoneTo ==
    ASSUME NEW a, Undo(a), NEW q, Packed(q),
           Reverts(a, pointers, q)
    PROVE  pointers' = q
<1>1. Undoing(a)
  BY UndoRead
<1>2. UndoGives(a, parent, sibling, leftChild, rightChild, subtreeTerminals, roots,
                labelToTerminal, terminalToLabel, q[1][1], q[1][2], q[1][3], q[1][4],
                q[2], q[3], q[4][1], q[4][2])
  BY DEF Reverts, pointers, links, labelling
<1>3. PICK par2, sib2, lc2, rc2, st2, rts2, ltt2, ttl2 :
         /\ par2 = q[1][1] /\ sib2 = q[1][2] /\ lc2 = q[1][3] /\ rc2 = q[1][4]
         /\ st2 = q[2] /\ rts2 = q[3] /\ ltt2 = q[4][1] /\ ttl2 = q[4][2]
  OBVIOUS
<1>4. UndoGives(a, parent, sibling, leftChild, rightChild, subtreeTerminals, roots,
                labelToTerminal, terminalToLabel, par2, sib2, lc2, rc2, st2, rts2,
                ltt2, ttl2)
  BY <1>2, <1>3
<1>5. /\ parent' = par2 /\ sibling' = sib2 /\ leftChild' = lc2 /\ rightChild' = rc2
      /\ subtreeTerminals' = st2 /\ roots' = rts2 /\ labelToTerminal' = ltt2
      /\ terminalToLabel' = ttl2
  BY <1>1, <1>4, UndoIsUnique DEF Undoing
<1> QED
  BY <1>3, <1>5 DEF Packed, pointers, links, labelling

-----------------------------------------------------------------------------
(* The newest collapse is undone.                                          *)

\* Whatever was cut in between, the pointers are good again.
LEMMA UncollapseStep ==
    ASSUME NEW cs, NEW k, NEW a, Topped(cs, k), Good(pointers, Added(cs, k, a)),
           Undo(a), a.kind = "collapse"
    PROVE  /\ Good(pointers', cs)
           /\ Seen(pointers') = UncollapseAt(Seen(pointers), a.edit.others)
<1>1. PICK cs2 : cs2 = Added(cs, k, a)
  OBVIOUS
<1>2. PICK M, lx, rx : Fits(pointers, cs2, M, lx, rx)
  BY <1>1 DEF Good
<1>3. PICK C, C2 : C = NodesOf(cs) /\ C2 = NodesOf(cs2)
  OBVIOUS
<1>4. /\ Shaped(Nodes, M, lx, rx, C2, parent, sibling, leftChild, rightChild,
                subtreeTerminals, roots, labelToTerminal, terminalToLabel)
      /\ Recollected(M, lx, rx, subtreeTerminals, cs2)
      /\ Seen(pointers)
            = LabelSets(subtreeTerminals, Visible(M, subtreeTerminals, C2))
  BY <1>2, <1>3, FitsNow
<1>5. /\ C2 = C \cup {a.node} /\ Earlier(cs2, k) = C
      /\ \A j \in DOMAIN cs : Earlier(cs2, j) = Earlier(cs, j) /\ cs2[j] = cs[j]
      /\ cs2[k] = a /\ DOMAIN cs2 = DOMAIN cs \cup {k}
  <2>1. /\ NodesOf(Added(cs, k, a)) = NodesOf(cs) \cup {a.node}
        /\ Earlier(Added(cs, k, a), k) = NodesOf(cs)
        /\ \A j \in DOMAIN cs : /\ Earlier(Added(cs, k, a), j) = Earlier(cs, j)
                                /\ Added(cs, k, a)[j] = cs[j]
        /\ Added(cs, k, a)[k] = a
        /\ DOMAIN Added(cs, k, a) = DOMAIN cs \cup {k}
    <3>1. Topped(cs, k)
      OBVIOUS
    <3> QED
      BY ONLY <3>1, AddedNodes, ZenonT(40)
  <2> QED
    BY <1>1, <1>3, <2>1
<1>6. /\ Recalls(M, lx, rx, subtreeTerminals, C, a)
      /\ Recollected(M, lx, rx, subtreeTerminals, cs)
  <2>1. \A j \in DOMAIN cs2 : Recalls(M, lx, rx, subtreeTerminals, Earlier(cs2, j), cs2[j])
    BY <1>4 DEF Recollected
  <2> QED
    BY <1>5, <2>1 DEF Recollected
<1>7. Joins(M, C, a, C2)
  <2>1. C2 \in SUBSET M
    BY <1>4 DEF Shaped
  <2> QED
    BY <1>5, <2>1 DEF Joins
<1>8. /\ UncollapsedAt(a, parent, leftChild, rightChild, labelToTerminal,
                       terminalToLabel, parent', leftChild', rightChild',
                       labelToTerminal', terminalToLabel')
      /\ sibling' = sibling /\ subtreeTerminals' = subtreeTerminals /\ roots' = roots
  <2>1. UndoCollapseSubtree(a)
    BY DEF Undo
  <2> QED
    BY <2>1 DEF UndoCollapseSubtree, UncollapsedAt
<1>9. /\ UncollapsedAt(a, parent, leftChild, rightChild, labelToTerminal,
                       terminalToLabel, parent, leftChild', rightChild',
                       labelToTerminal', terminalToLabel')
      /\ Shaped(Nodes, M, lx, rx, C, parent, sibling, leftChild', rightChild',
                subtreeTerminals, roots, labelToTerminal', terminalToLabel')
      /\ LabelSets(subtreeTerminals, Visible(M, subtreeTerminals, C))
            = UncollapseAt(LabelSets(subtreeTerminals, Visible(M, subtreeTerminals, C2)),
                           a.edit.others)
  BY <1>4, <1>6, <1>7, <1>8, UncollapseShaped
<1>10. parent' = parent
  BY <1>8, <1>9 DEF UncollapsedAt
<1>11. Fits(pointers', cs, M, lx, rx)
  BY <1>3, <1>6, <1>8, <1>9, <1>10 DEF Fits, pointers, links, labelling, Nodes
<1>12. Seen(pointers') = UncollapseAt(Seen(pointers), a.edit.others)
  <2>1. Seen(pointers') = LabelSets(pointers'[2], Visible(M, pointers'[2], NodesOf(cs)))
    BY <1>11, SeenVisible
  <2>2. pointers'[2] = subtreeTerminals
    BY <1>8 DEF pointers
  <2> QED
    BY <1>3, <1>4, <1>9, <2>1, <2>2
<1> QED
  BY <1>11, <1>12 DEF Good

-----------------------------------------------------------------------------
(* The stack of actions.                                                   *)

\* acts is a finite sequence.
IsStack(acts) == \E S : acts \in Seq(S)

\* The collapses among the actions, by place; and those below the k-th place.
CollapsesOf(acts) == [j \in {i \in DOMAIN acts : acts[i].kind = "collapse"} |-> acts[j]]

CollapsesUnder(acts, k) ==
    [j \in {i \in DOMAIN acts : i < k /\ acts[i].kind = "collapse"} |-> acts[j]]

\* Its places are numbered from 1.
LEMMA StackPlaces ==
    ASSUME NEW acts, IsStack(acts)
    PROVE  Len(acts) \in Nat /\ DOMAIN acts = 1..Len(acts)
BY DEF IsStack

\* One more action on top.
LEMMA Appended ==
    ASSUME NEW acts, IsStack(acts), NEW a
    PROVE  /\ IsStack(Append(acts, a)) /\ Len(Append(acts, a)) = Len(acts) + 1
           /\ DOMAIN Append(acts, a) = 1..(Len(acts) + 1)
           /\ Append(acts, a)[Len(acts) + 1] = a
           /\ \A k \in 1..Len(acts) : Append(acts, a)[k] = acts[k]
<1>1. PICK S : acts \in Seq(S)
  BY DEF IsStack
<1>2. acts \in Seq(S \cup {a})
  BY <1>1
<1>3. Append(acts, a) \in Seq(S \cup {a})
  BY <1>2
<1> QED
  BY <1>2, <1>3 DEF IsStack

\* A new action adds its collapse, or nothing, to the collapses in force.
LEMMA AppendedCollapses ==
    ASSUME NEW acts, IsStack(acts), NEW a
    PROVE  /\ a.kind # "collapse" => CollapsesOf(Append(acts, a)) = CollapsesOf(acts)
           /\ a.kind = "collapse" =>
                 CollapsesOf(Append(acts, a)) = Added(CollapsesOf(acts), Len(acts) + 1, a)
           /\ Topped(CollapsesOf(acts), Len(acts) + 1)
           /\ CollapsesUnder(Append(acts, a), Len(acts) + 1) = CollapsesOf(acts)
           /\ \A k \in 1..Len(acts) :
                 CollapsesUnder(Append(acts, a), k) = CollapsesUnder(acts, k)
<1>1. PICK n, acts2 : n = Len(acts) /\ acts2 = Append(acts, a)
  OBVIOUS
<1>2. /\ n \in Nat /\ DOMAIN acts = 1..n /\ DOMAIN acts2 = 1..(n + 1)
      /\ acts2[n + 1] = a /\ \A k \in 1..n : acts2[k] = acts[k]
  BY <1>1, StackPlaces, Appended
<1>3. ASSUME a.kind # "collapse"
      PROVE  CollapsesOf(acts2) = CollapsesOf(acts)
  <2>1. {i \in DOMAIN acts2 : acts2[i].kind = "collapse"}
           = {i \in DOMAIN acts : acts[i].kind = "collapse"}
    <3>1. \A i \in 1..(n + 1) : i \in 1..n \/ i = n + 1
      BY <1>2
    <3> QED
      BY <1>2, <1>3, <3>1
  <2> QED
    BY <1>2, <2>1 DEF CollapsesOf
<1>4. ASSUME a.kind = "collapse"
      PROVE  CollapsesOf(acts2) = Added(CollapsesOf(acts), n + 1, a)
  <2>1. {i \in DOMAIN acts2 : acts2[i].kind = "collapse"}
           = {i \in DOMAIN acts : acts[i].kind = "collapse"} \cup {n + 1}
    <3>1. \A i \in 1..(n + 1) : i \in 1..n \/ i = n + 1
      BY <1>2
    <3> QED
      BY <1>2, <1>4, <3>1
  <2> QED
    BY <1>2, <2>1 DEF CollapsesOf, Added
<1>5. Topped(CollapsesOf(acts), n + 1)
  BY <1>2 DEF Topped, CollapsesOf
<1>6. CollapsesUnder(acts2, n + 1) = CollapsesOf(acts)
  <2>1. {i \in DOMAIN acts2 : i < n + 1 /\ acts2[i].kind = "collapse"}
           = {i \in DOMAIN acts : acts[i].kind = "collapse"}
    BY <1>2
  <2> QED
    BY <1>2, <2>1 DEF CollapsesOf, CollapsesUnder
<1>7. ASSUME NEW k \in 1..n
      PROVE  CollapsesUnder(acts2, k) = CollapsesUnder(acts, k)
  <2>1. {i \in DOMAIN acts2 : i < k /\ acts2[i].kind = "collapse"}
           = {i \in DOMAIN acts : i < k /\ acts[i].kind = "collapse"}
    BY <1>2
  <2> QED
    BY <1>2, <2>1 DEF CollapsesUnder
<1> QED
  BY <1>1, <1>3, <1>4, <1>5, <1>6, <1>7

\* The top action off.
LEMMA TakenOff ==
    ASSUME NEW acts, IsStack(acts), acts # <<>>
    PROVE  /\ IsStack(Front(acts)) /\ Len(Front(acts)) = Len(acts) - 1
           /\ Len(acts) \in Nat \ {0} /\ DOMAIN Front(acts) = 1..(Len(acts) - 1)
           /\ \A k \in 1..(Len(acts) - 1) : Front(acts)[k] = acts[k]
           /\ CollapsesOf(Front(acts)) = CollapsesUnder(acts, Len(acts))
           /\ \A k \in 1..(Len(acts) - 1) :
                 CollapsesUnder(Front(acts), k) = CollapsesUnder(acts, k)
<1>1. PICK S : acts \in Seq(S)
  BY DEF IsStack
<1>2. PICK n, acts2 : n = Len(acts) /\ acts2 = Front(acts)
  OBVIOUS
<1>3. n \in Nat \ {0} /\ DOMAIN acts = 1..n
  BY <1>1, <1>2
<1>4. /\ acts2 \in Seq(S) /\ Len(acts2) = n - 1
      /\ \A k \in 1..(n - 1) : acts2[k] = acts[k]
  BY <1>1, <1>2, <1>3 DEF Front
<1>5. DOMAIN acts2 = 1..(n - 1)
  BY <1>4
<1>6. CollapsesOf(acts2) = CollapsesUnder(acts, n)
  <2>1. {i \in DOMAIN acts : i < n /\ acts[i].kind = "collapse"}
           = {i \in DOMAIN acts2 : acts2[i].kind = "collapse"}
    BY <1>3, <1>4, <1>5
  <2> QED
    BY <1>3, <1>4, <1>5, <2>1 DEF CollapsesOf, CollapsesUnder
<1>7. ASSUME NEW k \in 1..(n - 1)
      PROVE  CollapsesUnder(acts2, k) = CollapsesUnder(acts, k)
  <2>1. {i \in DOMAIN acts2 : i < k /\ acts2[i].kind = "collapse"}
           = {i \in DOMAIN acts : i < k /\ acts[i].kind = "collapse"}
    BY <1>3, <1>4, <1>5
  <2> QED
    BY <1>3, <1>4, <1>5, <2>1 DEF CollapsesUnder
<1> QED
  BY <1>2, <1>3, <1>4, <1>5, <1>6, <1>7 DEF IsStack

\* The newest collapse out.
LEMMA TakenOut ==
    ASSUME NEW acts, IsStack(acts), NEW k \in DOMAIN acts, acts[k].kind = "collapse",
           \A j \in DOMAIN acts : acts[j].kind = "collapse" => j <= k
    PROVE  /\ IsStack(RemoveAt(acts, k)) /\ Len(RemoveAt(acts, k)) = Len(acts) - 1
           /\ DOMAIN RemoveAt(acts, k) = 1..(Len(acts) - 1)
           /\ \A j \in 1..(Len(acts) - 1) :
                 RemoveAt(acts, k)[j] = IF j < k THEN acts[j] ELSE acts[j + 1]
           /\ CollapsesOf(RemoveAt(acts, k)) = CollapsesUnder(acts, k)
           /\ CollapsesOf(acts) = Added(CollapsesUnder(acts, k), k, acts[k])
           /\ Topped(CollapsesUnder(acts, k), k)
<1>1. PICK S : acts \in Seq(S)
  BY DEF IsStack
<1>2. PICK n, acts2 : n = Len(acts) /\ acts2 = RemoveAt(acts, k)
  OBVIOUS
<1>3. n \in Nat /\ DOMAIN acts = 1..n /\ k \in 1..n
  BY <1>1, <1>2
<1>4. /\ acts2 \in Seq(S) /\ Len(acts2) = n - 1
      /\ \A j \in 1..(n - 1) : acts2[j] = IF j < k THEN acts[j] ELSE acts[j + 1]
  BY <1>1, <1>2, <1>3, RemovedAt
<1>5. DOMAIN acts2 = 1..(n - 1)
  BY <1>4
<1>6. CollapsesOf(acts2) = CollapsesUnder(acts, k)
  <2>1. ASSUME NEW i \in 1..(n - 1)
        PROVE  acts2[i].kind = "collapse" <=> i < k /\ acts[i].kind = "collapse"
    <3>1. CASE i < k
      BY <1>4, <3>1
    <3>2. CASE ~ i < k
      <4>1. acts2[i] = acts[i + 1] /\ i + 1 \in DOMAIN acts /\ ~ (i + 1 <= k)
        BY <1>3, <1>4, <3>2
      <4> QED
        BY <3>2, <4>1
    <3> QED
      BY <3>1, <3>2
  <2>2. {i \in DOMAIN acts : i < k /\ acts[i].kind = "collapse"}
           = {i \in DOMAIN acts2 : acts2[i].kind = "collapse"}
    BY <1>3, <1>5, <2>1
  <2>3. \A i \in {j \in DOMAIN acts : j < k /\ acts[j].kind = "collapse"} :
           acts2[i] = acts[i]
    BY <1>3, <1>4
  <2> QED
    BY <2>2, <2>3 DEF CollapsesOf, CollapsesUnder
<1>7. CollapsesOf(acts) = Added(CollapsesUnder(acts, k), k, acts[k])
  <2>1. {i \in DOMAIN acts : acts[i].kind = "collapse"}
           = {i \in DOMAIN acts : i < k /\ acts[i].kind = "collapse"} \cup {k}
    <3>1. \A j \in 1..n : acts[j].kind = "collapse" => j < k \/ j = k
      BY <1>3
    <3> QED
      BY <1>3, <3>1
  <2>2. DOMAIN CollapsesUnder(acts, k)
           = {i \in DOMAIN acts : i < k /\ acts[i].kind = "collapse"}
    BY DEF CollapsesUnder
  <2>3. Added(CollapsesUnder(acts, k), k, acts[k])
           = [j \in {i \in DOMAIN acts : acts[i].kind = "collapse"} |->
                 IF j = k THEN acts[k] ELSE CollapsesUnder(acts, k)[j]]
    BY <2>1, <2>2 DEF Added
  <2>4. \A j \in {i \in DOMAIN acts : acts[i].kind = "collapse"} :
           (IF j = k THEN acts[k] ELSE CollapsesUnder(acts, k)[j]) = acts[j]
    BY <2>1 DEF CollapsesUnder
  <2> QED
    BY <2>3, <2>4 DEF CollapsesOf
<1>8. Topped(CollapsesUnder(acts, k), k)
  BY <1>3 DEF Topped, CollapsesUnder
<1> QED
  BY <1>2, <1>4, <1>5, <1>6, <1>7, <1>8 DEF IsStack

-----------------------------------------------------------------------------
(* The inductive invariant.                                                *)

\* a leads from pointers that were good with the collapses cs to p, and its
\* undo back to them, on pointers as on label sets.
Rewinds(a, p, cs) ==
    /\ Packed(a.before) /\ Good(a.before, cs) /\ Reverts(a, p, a.before)
    /\ Edits!Undone(Seen(p), a.edit) = Seen(a.before)

\* The pointers after the k-th action, p being those after the last.
After(acts, p, k) == IF k = Len(acts) THEN p ELSE acts[k + 1].before

\* Each action's undo gives the pointers from before that action.
Rewindable(acts, p) ==
    \A k \in DOMAIN acts : Rewinds(acts[k], After(acts, p, k), CollapsesUnder(acts, k))

\* Actions are cuts and collapses, and record an edit of their kind.
Kinds(acts) ==
    \A k \in DOMAIN acts : /\ acts[k].kind \in {"cut", "collapse"}
                           /\ acts[k].edit.kind = acts[k].kind

\* While cuts are kept and reductions undone, only the forest has to fit; until
\* then every action can be undone as well.
IInv ==
    /\ IsStack(actions) /\ Kinds(actions) /\ restoring \in BOOLEAN
    /\ Good(pointers, CollapsesOf(actions))
    /\ ~ restoring => Rewindable(actions, pointers)

\* A new action on the stack.
LEMMA RewindableOnTop ==
    ASSUME IsStack(actions), Kinds(actions), Rewindable(actions, pointers),
           NEW a, a.kind \in {"cut", "collapse"}, a.edit.kind = a.kind,
           a.before = pointers, Rewinds(a, pointers', CollapsesOf(actions)),
           actions' = Append(actions, a)
    PROVE  IsStack(actions)' /\ Kinds(actions)' /\ Rewindable(actions, pointers)'
<1>1. PICK n, acts2, p, p2 :
         n = Len(actions) /\ acts2 = Append(actions, a) /\ p = pointers /\ p2 = pointers'
  OBVIOUS
<1>2. n \in Nat /\ DOMAIN actions = 1..n
  BY <1>1, StackPlaces
<1>3. /\ IsStack(acts2) /\ Len(acts2) = n + 1 /\ DOMAIN acts2 = 1..(n + 1)
      /\ acts2[n + 1] = a /\ \A k \in 1..n : acts2[k] = actions[k]
  BY <1>1, Appended
<1>4. /\ CollapsesUnder(acts2, n + 1) = CollapsesOf(actions)
      /\ \A k \in 1..n : CollapsesUnder(acts2, k) = CollapsesUnder(actions, k)
  BY <1>1, AppendedCollapses
<1>5. \A k \in 1..(n + 1) : k \in 1..n \/ k = n + 1
  BY <1>2
<1>6. Kinds(acts2)
  BY <1>2, <1>3, <1>5 DEF Kinds
<1>7. ASSUME NEW k \in 1..n
      PROVE  Rewinds(acts2[k], After(acts2, p2, k), CollapsesUnder(acts2, k))
  <2>1. Rewinds(actions[k], After(actions, p, k), CollapsesUnder(actions, k))
    BY <1>1, <1>2 DEF Rewindable
  <2>2. After(acts2, p2, k) = After(actions, p, k)
    <3>1. CASE k = n
      BY <1>1, <1>2, <1>3, <3>1 DEF After
    <3>2. CASE k # n
      <4>1. k + 1 \in 1..n /\ k # n + 1
        BY <1>2, <3>2
      <4> QED
        BY <1>1, <1>3, <3>2, <4>1 DEF After
    <3> QED
      BY <3>1, <3>2
  <2> QED
    BY <1>3, <1>4, <2>1, <2>2
<1>8. Rewinds(acts2[n + 1], After(acts2, p2, n + 1), CollapsesUnder(acts2, n + 1))
  BY <1>1, <1>3, <1>4 DEF After
<1>9. Rewindable(acts2, p2)
  BY <1>3, <1>5, <1>7, <1>8 DEF Rewindable
<1>10. actions' = acts2 /\ pointers' = p2
  BY <1>1
<1> QED
  BY <1>3, <1>6, <1>9, <1>10 DEF Kinds, Rewindable, IsStack

\* DeleteEdgeAction, whatever the parent.
LEMMA CutStep ==
    ASSUME ZeroWordsAreHarmless, NEW cs, Good(pointers, cs),
           NEW c \in Reachable, DeleteEdge(c)
    PROVE  \E a : actions' = Append(actions, a) /\ CutDone(a, pointers, pointers', cs, c)
<1>1. CASE parent[c] \in Range(roots)
  BY <1>1, RootCutStep
<1>2. CASE parent[c] \notin Range(roots)
  BY <1>2, InnerCutStep
<1> QED
  BY <1>1, <1>2

\* What the cut does to the label sets is undone by the undo on label sets.
LEMMA CutRewinds ==
    ASSUME NEW cs, Good(pointers, cs), NEW c \in Reachable, DeleteEdge(c),
           NEW a, CutDone(a, pointers, pointers', cs, c)
    PROVE  /\ Rewinds(a, pointers', cs)
           /\ HasParent(Seen(pointers), subtreeTerminals[c])
           /\ subtreeTerminals[c] \in Seen(pointers) /\ subtreeTerminals[c] \in Node
           /\ a.edit = [kind |-> "cut", node |-> subtreeTerminals[c],
                        others |-> {Sibling(Seen(pointers), subtreeTerminals[c])}]
           /\ Seen(pointers') = CutEdge(Seen(pointers), subtreeTerminals[c])
<1>1. PICK F, G, n : F = Seen(pointers) /\ G = Seen(pointers') /\ n = subtreeTerminals[c]
  OBVIOUS
<1>2. /\ F \in Forest /\ WellFormed(F) /\ n \in F /\ n \in Node
      /\ HasParent(F, n) /\ Sibling(F, n) = subtreeTerminals[sibling[c]]
  <2>1. parent[c] # NullNode
    BY DEF DeleteEdge
  <2> QED
    BY <1>1, <2>1, SeenForest
<1>3. pointers[2] = subtreeTerminals /\ pointers[1][2] = sibling
  BY DEF pointers, links
<1>4. /\ a.kind = "cut" /\ a.before = pointers /\ Reverts(a, pointers', pointers)
      /\ a.edit = [kind |-> "cut", node |-> n, others |-> {Sibling(F, n)}]
      /\ G = CutEdge(F, n)
  BY <1>1, <1>2, <1>3 DEF CutDone
<1>5. Edits!Undone(G, a.edit) = F
  <2>1. UncutEdge(G, n, Sibling(F, n)) = F
    BY <1>2, <1>4, CutIsUndone
  <2>2. a.edit.kind = "cut" /\ a.edit.node = n /\ UNION a.edit.others = Sibling(F, n)
    BY <1>4
  <2>3. Edits!UncutEdge(G, n, Sibling(F, n)) = UncutEdge(G, n, Sibling(F, n))
    BY DEF Edits!UncutEdge, UncutEdge
  <2> QED
    BY <2>1, <2>2, <2>3 DEF Edits!Undone
<1>6. Packed(pointers)
  BY DEF Packed, pointers, links, labelling
<1> QED
  BY <1>1, <1>2, <1>4, <1>5, <1>6 DEF Rewinds

\* The same for a collapse.
LEMMA CollapseRewinds ==
    ASSUME NEW cs, Good(pointers, cs), NEW k, NEW nd \in Reachable, CollapseSubtree(nd),
           NEW a, CollapseDone(a, pointers, pointers', cs, k, nd)
    PROVE  /\ Rewinds(a, pointers', cs)
           /\ ~ IsTerminal(Seen(pointers), subtreeTerminals[nd])
           /\ subtreeTerminals[nd] \in Seen(pointers) /\ subtreeTerminals[nd] \in Node
           /\ a.edit = [kind |-> "collapse", node |-> subtreeTerminals[nd],
                        others |-> Below(Seen(pointers), subtreeTerminals[nd])]
           /\ Seen(pointers') = CollapseAt(Seen(pointers), subtreeTerminals[nd])
<1>1. PICK F, G, n : F = Seen(pointers) /\ G = Seen(pointers') /\ n = subtreeTerminals[nd]
  OBVIOUS
<1>2. F \in Forest /\ n \in F /\ n \in Node /\ ~ IsTerminal(F, n)
  <2>1. leftChild[nd] # NullNode
    BY DEF CollapseSubtree
  <2> QED
    BY <1>1, <2>1, SeenForest
<1>3. pointers[2] = subtreeTerminals
  BY DEF pointers
<1>4. /\ a.kind = "collapse" /\ a.before = pointers /\ Reverts(a, pointers', pointers)
      /\ a.edit = [kind |-> "collapse", node |-> n, others |-> Below(F, n)]
      /\ G = CollapseAt(F, n)
  BY <1>1, <1>3 DEF CollapseDone
<1>5. Edits!Undone(G, a.edit) = F
  <2>1. UncollapseAt(G, Below(F, n)) = F
    BY <1>2, <1>4, CollapseIsUndone
  <2>2. a.edit.kind = "collapse" /\ a.edit.others = Below(F, n)
    BY <1>4
  <2> QED
    BY <2>1, <2>2 DEF Edits!Undone, Edits!UncollapseAt, UncollapseAt
<1>6. Packed(pointers)
  BY DEF Packed, pointers, links, labelling
<1> QED
  BY <1>1, <1>2, <1>4, <1>5, <1>6 DEF Rewinds

-----------------------------------------------------------------------------
(* The stack of edits.                                                     *)

\* The edits the actions record.
EditsOf(acts) == [k \in DOMAIN acts |-> acts[k].edit]

\* They are stacked like the actions.
LEMMA EditsStack ==
    ASSUME NEW acts, IsStack(acts)
    PROVE  IsStack(EditsOf(acts)) /\ Len(EditsOf(acts)) = Len(acts)
<1>1. PICK n, e, S : n = Len(acts) /\ e = EditsOf(acts)
                     /\ S = {acts[k].edit : k \in DOMAIN acts}
  OBVIOUS
<1>2. n \in Nat /\ DOMAIN acts = 1..n
  BY <1>1, StackPlaces
<1>3. e \in [1..n -> S]
  BY <1>1, <1>2 DEF EditsOf
<1>4. e \in Seq(S)
  BY <1>2, <1>3, SeqDef
<1>5. Len(e) \in Nat /\ DOMAIN e = 1..Len(e) /\ DOMAIN e = 1..n
  BY <1>3, <1>4, LenProperties
<1>6. Len(e) = n
  <2>1. PICK m : m = Len(e)
    OBVIOUS
  <2>2. m \in Nat /\ 1..m = 1..n
    BY <1>5, <2>1
  <2>3. CASE m < n
    <3>1. n \in 1..n /\ n \notin 1..m
      BY <1>2, <2>2, <2>3
    <3> QED
      BY <2>2, <3>1
  <2>4. CASE n < m
    <3>1. m \in 1..m /\ m \notin 1..n
      BY <1>2, <2>2, <2>4
    <3> QED
      BY <2>2, <3>1
  <2> QED
    BY <1>2, <2>1, <2>2, <2>3, <2>4
<1> QED
  BY <1>1, <1>4, <1>6 DEF IsStack

\* A new action puts its edit on top.
LEMMA EditsAppended ==
    ASSUME NEW acts, IsStack(acts), NEW a
    PROVE  EditsOf(Append(acts, a)) = Append(EditsOf(acts), a.edit)
<1>1. PICK n, b, t, u : /\ n = Len(acts) /\ b = Append(acts, a) /\ t = EditsOf(b)
                        /\ u = Append(EditsOf(acts), a.edit)
  OBVIOUS
<1>2. /\ n \in Nat /\ DOMAIN acts = 1..n /\ IsStack(b) /\ DOMAIN b = 1..(n + 1)
      /\ b[n + 1] = a /\ \A k \in 1..n : b[k] = acts[k]
  BY <1>1, StackPlaces, Appended
<1>3. IsStack(EditsOf(acts)) /\ Len(EditsOf(acts)) = n
  BY <1>1, EditsStack
<1>4. DOMAIN u = 1..(n + 1) /\ u[n + 1] = a.edit /\ \A k \in 1..n : u[k] = EditsOf(acts)[k]
  BY <1>1, <1>3, Appended
<1>5. IsStack(u) /\ Len(u) = n + 1
  BY <1>1, <1>3, Appended
<1>6. ASSUME NEW k \in 1..(n + 1) PROVE t[k] = u[k]
  <2>1. CASE k = n + 1
    BY <1>1, <1>2, <1>4, <2>1 DEF EditsOf
  <2>2. CASE k # n + 1
    <3>1. k \in 1..n
      BY <1>2, <2>2
    <3> QED
      BY <1>1, <1>2, <1>4, <3>1 DEF EditsOf
  <2> QED
    BY <2>1, <2>2
<1>7. u = [k \in 1..(n + 1) |-> u[k]]
  <2>1. PICK S : u \in Seq(S)
    BY <1>5 DEF IsStack
  <2> QED
    BY <1>2, <1>5, <2>1
<1>8. t = [k \in 1..(n + 1) |-> t[k]]
  BY <1>1, <1>2 DEF EditsOf
<1> QED
  BY <1>1, <1>6, <1>7, <1>8

\* The newest action takes the newest edit away.
LEMMA EditsTakenOff ==
    ASSUME NEW acts, IsStack(acts), acts # <<>>
    PROVE  /\ EditsOf(acts) # <<>>
           /\ EditsOf(Front(acts)) = SubSeq(EditsOf(acts), 1, Len(EditsOf(acts)) - 1)
           /\ EditsOf(acts)[Len(EditsOf(acts))] = Last(acts).edit
<1>1. PICK n, e : n = Len(acts) /\ e = EditsOf(acts)
  OBVIOUS
<1>2. n \in Nat \ {0} /\ DOMAIN acts = 1..n
  BY <1>1, TakenOff, StackPlaces
<1>3. IsStack(e) /\ Len(e) = n
  BY <1>1, EditsStack
<1>4. e # <<>> /\ e[n] = Last(acts).edit
  BY <1>1, <1>2, <1>3 DEF EditsOf, Last
<1>5. PICK b, t, u : b = Front(acts) /\ t = EditsOf(b) /\ u = SubSeq(e, 1, n - 1)
  OBVIOUS
<1>6. /\ DOMAIN b = 1..(n - 1) /\ \A k \in 1..(n - 1) : b[k] = acts[k]
  BY <1>1, <1>5, TakenOff
<1>7. PICK S : e \in Seq(S)
  BY <1>3 DEF IsStack
<1>8. u \in Seq(S) /\ Len(u) = n - 1 /\ \A k \in 1..(n - 1) : u[k] = e[k]
  BY <1>2, <1>3, <1>5, <1>7
<1>9. u = [k \in 1..(n - 1) |-> u[k]]
  BY <1>8
<1>10. t = [k \in 1..(n - 1) |-> t[k]] /\ \A k \in 1..(n - 1) : t[k] = acts[k].edit
  BY <1>5, <1>6 DEF EditsOf
<1>11. \A k \in 1..(n - 1) : e[k] = acts[k].edit
  BY <1>1, <1>2 DEF EditsOf
<1>12. t = u
  BY <1>8, <1>9, <1>10, <1>11
<1> QED
  BY <1>1, <1>3, <1>4, <1>5, <1>12

\* An action taken out takes its own edit away.
LEMMA EditsTakenOut ==
    ASSUME NEW acts, IsStack(acts), NEW k \in DOMAIN acts
    PROVE  EditsOf(RemoveAt(acts, k)) = RemoveAt(EditsOf(acts), k)
<1>1. PICK n, e : n = Len(acts) /\ e = EditsOf(acts)
  OBVIOUS
<1>2. n \in Nat /\ DOMAIN acts = 1..n /\ k \in 1..n
  BY <1>1, StackPlaces
<1>3. IsStack(e) /\ Len(e) = n
  BY <1>1, EditsStack
<1>4. PICK b, t, u : b = RemoveAt(acts, k) /\ t = EditsOf(b) /\ u = RemoveAt(e, k)
  OBVIOUS
<1>5. PICK S, R : e \in Seq(S) /\ acts \in Seq(R)
  BY <1>3 DEF IsStack
<1>6. /\ b \in Seq(R) /\ Len(b) = n - 1
      /\ \A j \in 1..(n - 1) : b[j] = IF j < k THEN acts[j] ELSE acts[j + 1]
  BY <1>1, <1>2, <1>4, <1>5, RemovedAt
<1>7. /\ u \in Seq(S) /\ Len(u) = n - 1
      /\ \A j \in 1..(n - 1) : u[j] = IF j < k THEN e[j] ELSE e[j + 1]
  BY <1>2, <1>3, <1>4, <1>5, RemovedAt
<1>8. DOMAIN b = 1..(n - 1)
  BY <1>6
<1>9. \A j \in 1..n : e[j] = acts[j].edit
  BY <1>1, <1>2 DEF EditsOf
<1>10. \A j \in 1..(n - 1) : t[j] = u[j]
  <2> SUFFICES ASSUME NEW j \in 1..(n - 1) PROVE t[j] = u[j]
    OBVIOUS
  <2>1. j \in 1..n /\ j + 1 \in 1..n
    BY <1>2
  <2>2. t[j] = b[j].edit
    BY <1>4, <1>8 DEF EditsOf
  <2> QED
    BY <1>6, <1>7, <1>9, <2>1, <2>2
<1>11. t = [j \in 1..(n - 1) |-> t[j]]
  BY <1>4, <1>8 DEF EditsOf
<1>12. u = [j \in 1..(n - 1) |-> u[j]]
  BY <1>7
<1>13. t = u
  BY <1>10, <1>11, <1>12
<1> QED
  BY <1>1, <1>4, <1>13

-----------------------------------------------------------------------------
(* The steps.                                                              *)

\* What the specification on label sets sees of a step.
LEMMA SeenReads ==
    /\ Seen(pointers) = {subtreeTerminals[n] : n \in Reachable}
    /\ Seen(pointers') = {subtreeTerminals[n] : n \in Reachable}'
<1>1. /\ pointers[1][1] = parent /\ pointers[1][3] = leftChild
      /\ pointers[1][4] = rightChild /\ pointers[2] = subtreeTerminals
      /\ pointers[3] = roots
  BY DEF pointers, links
<1>2. /\ pointers'[1][1] = parent' /\ pointers'[1][3] = leftChild'
      /\ pointers'[1][4] = rightChild' /\ pointers'[2] = subtreeTerminals'
      /\ pointers'[3] = roots'
  BY DEF pointers, links
<1>3. ReachedFrom(DOMAIN parent, leftChild, rightChild, Range(roots)) = Reachable
  BY DEF Reachable, ReachedFrom, Nodes
<1>4. ReachedFrom(DOMAIN parent', leftChild', rightChild', Range(roots')) = Reachable'
  BY DEF Reachable, ReachedFrom, Nodes
<1>5. Seen(pointers) = {subtreeTerminals[n] : n \in Reachable}
  BY <1>1, <1>3 DEF Seen
<1>6. Seen(pointers') = {subtreeTerminals'[n] : n \in Reachable'}
  BY <1>2, <1>4 DEF Seen
<1> QED
  BY <1>5, <1>6

\* A cut.
LEMMA DeleteEdgeStep ==
    ASSUME ZeroWordsAreHarmless, IInv, NEW c \in Reachable, DeleteEdge(c)
    PROVE  IInv' /\ Edits!Next
<1>1. PICK cs : cs = CollapsesOf(actions)
  OBVIOUS
<1>2. IsStack(actions) /\ Kinds(actions) /\ Good(pointers, cs)
  BY <1>1 DEF IInv
<1>3. ~ restoring /\ restoring' = restoring
  BY DEF DeleteEdge
<1>4. Rewindable(actions, pointers)
  BY <1>3 DEF IInv
<1>5. PICK a : actions' = Append(actions, a) /\ CutDone(a, pointers, pointers', cs, c)
  BY <1>2, CutStep
<1>6. /\ Rewinds(a, pointers', cs)
      /\ HasParent(Seen(pointers), subtreeTerminals[c])
      /\ subtreeTerminals[c] \in Seen(pointers) /\ subtreeTerminals[c] \in Node
      /\ a.edit = [kind |-> "cut", node |-> subtreeTerminals[c],
                   others |-> {Sibling(Seen(pointers), subtreeTerminals[c])}]
      /\ Seen(pointers') = CutEdge(Seen(pointers), subtreeTerminals[c])
  BY <1>2, <1>5, CutRewinds
<1>7. a.kind = "cut" /\ a.before = pointers /\ Good(pointers', cs)
  BY <1>5 DEF CutDone
<1>8. IsStack(actions)' /\ Kinds(actions)' /\ Rewindable(actions, pointers)'
  <2>1. a.kind \in {"cut", "collapse"} /\ a.edit.kind = a.kind
    BY <1>6, <1>7
  <2> QED
    BY <1>1, <1>2, <1>4, <1>5, <1>6, <1>7, <2>1, RewindableOnTop
<1>9. Good(pointers, CollapsesOf(actions))'
  <2>1. CollapsesOf(Append(actions, a)) = CollapsesOf(actions)
    BY <1>2, <1>7, AppendedCollapses
  <2> QED
    BY <1>1, <1>5, <1>7, <2>1
<1>10. IInv'
  BY <1>3, <1>8, <1>9 DEF IInv
<1>11. Edits!Next
  <2>1. PICK F, n : F = Seen(pointers) /\ n = subtreeTerminals[c]
    OBVIOUS
  <2>2. F = {subtreeTerminals[m] : m \in Reachable}
    BY <2>1, SeenReads
  <2>3. {subtreeTerminals[m] : m \in Reachable}' = Edits!CutEdge(F, n)
    <3>1. Edits!CutEdge(F, n) = CutEdge(F, n)
      BY DEF Edits!CutEdge, CutEdge
    <3> QED
      BY <1>6, <2>1, <3>1, SeenReads
  <2>4. Edits!HasParent(F, n) /\ Edits!Sibling(F, n) = Sibling(F, n)
    <3>1. Edits!HasParent(F, n) <=> HasParent(F, n)
      BY DEF Edits!HasParent, HasParent, Edits!NullNode, NullNode
    <3>2. Edits!Parent(F, n) = Parent(F, n)
      BY <3>1 DEF Edits!Parent, Parent, Edits!NullNode, NullNode
    <3>3. Edits!Sibling(F, n) = Sibling(F, n)
      BY <3>2 DEF Edits!Sibling, Sibling
    <3> QED
      BY <1>6, <2>1, <3>1, <3>3
  <2>5. EditsOf(actions)' = Append(EditsOf(actions),
            [kind |-> "cut", node |-> n, others |-> {Edits!Sibling(F, n)}])
    <3>1. EditsOf(Append(actions, a)) = Append(EditsOf(actions), a.edit)
      BY <1>2, EditsAppended
    <3>2. EditsOf(actions)' = EditsOf(actions')
      BY DEF EditsOf
    <3> QED
      BY <1>5, <1>6, <2>1, <2>4, <3>1, <3>2
  <2>6. Edits!Cut(n)
    BY <1>3, <1>6, <2>1, <2>2, <2>3, <2>4, <2>5 DEF Edits!Cut, EditsOf
  <2>7. n \in Edits!Node
    BY <1>6, <2>1 DEF Edits!Node, Node
  <2> QED
    BY <2>6, <2>7 DEF Edits!Next
<1> QED
  BY <1>10, <1>11

\* A collapse.
LEMMA CollapseSubtreeStep ==
    ASSUME IInv, NEW nd \in Reachable, CollapseSubtree(nd)
    PROVE  IInv' /\ Edits!Next
<1>1. PICK cs, k : cs = CollapsesOf(actions) /\ k = Len(actions) + 1
  OBVIOUS
<1>2. IsStack(actions) /\ Kinds(actions) /\ Good(pointers, cs)
  BY <1>1 DEF IInv
<1>3. ~ restoring /\ restoring' = restoring
  BY DEF CollapseSubtree
<1>4. Rewindable(actions, pointers)
  BY <1>3 DEF IInv
<1>5. Topped(cs, k)
  BY <1>1, <1>2, AppendedCollapses
<1>6. PICK a : /\ actions' = Append(actions, a)
               /\ CollapseDone(a, pointers, pointers', cs, k, nd)
  BY <1>2, <1>5, CollapseStep
<1>7. /\ Rewinds(a, pointers', cs)
      /\ ~ IsTerminal(Seen(pointers), subtreeTerminals[nd])
      /\ subtreeTerminals[nd] \in Seen(pointers) /\ subtreeTerminals[nd] \in Node
      /\ a.edit = [kind |-> "collapse", node |-> subtreeTerminals[nd],
                   others |-> Below(Seen(pointers), subtreeTerminals[nd])]
      /\ Seen(pointers') = CollapseAt(Seen(pointers), subtreeTerminals[nd])
  BY <1>2, <1>6, CollapseRewinds
<1>8. a.kind = "collapse" /\ a.before = pointers /\ Good(pointers', Added(cs, k, a))
  BY <1>6 DEF CollapseDone
<1>9. IsStack(actions)' /\ Kinds(actions)' /\ Rewindable(actions, pointers)'
  <2>1. a.kind \in {"cut", "collapse"} /\ a.edit.kind = a.kind
    BY <1>7, <1>8
  <2> QED
    BY <1>1, <1>2, <1>4, <1>6, <1>7, <1>8, <2>1, RewindableOnTop
<1>10. Good(pointers, CollapsesOf(actions))'
  <2>1. CollapsesOf(Append(actions, a)) = Added(CollapsesOf(actions), Len(actions) + 1, a)
    BY <1>2, <1>8, AppendedCollapses
  <2> QED
    BY <1>1, <1>6, <1>8, <2>1
<1>11. IInv'
  BY <1>3, <1>9, <1>10 DEF IInv
<1>12. Edits!Next
  <2>1. PICK F, n : F = Seen(pointers) /\ n = subtreeTerminals[nd]
    OBVIOUS
  <2>2. F = {subtreeTerminals[m] : m \in Reachable}
    BY <2>1, SeenReads
  <2>3. Edits!Below(F, n) = Below(F, n)
    BY DEF Edits!Below, Below
  <2>4. {subtreeTerminals[m] : m \in Reachable}' = Edits!CollapseAt(F, n)
    <3>1. Edits!CollapseAt(F, n) = CollapseAt(F, n)
      BY <2>3 DEF Edits!CollapseAt, CollapseAt
    <3> QED
      BY <1>7, <2>1, <3>1, SeenReads
  <2>5. ~ Edits!IsTerminal(F, n)
    BY <1>7, <2>1 DEF Edits!IsTerminal, IsTerminal
  <2>6. EditsOf(actions)' = Append(EditsOf(actions),
            [kind |-> "collapse", node |-> n, others |-> Edits!Below(F, n)])
    <3>1. EditsOf(Append(actions, a)) = Append(EditsOf(actions), a.edit)
      BY <1>2, EditsAppended
    <3>2. EditsOf(actions)' = EditsOf(actions')
      BY DEF EditsOf
    <3> QED
      BY <1>6, <1>7, <2>1, <2>3, <3>1, <3>2
  <2>7. Edits!Collapse(n)
    BY <1>3, <1>7, <2>1, <2>2, <2>4, <2>5, <2>6 DEF Edits!Collapse, EditsOf
  <2>8. n \in Edits!Node
    BY <1>7, <2>1 DEF Edits!Node, Node
  <2> QED
    BY <2>7, <2>8 DEF Edits!Next
<1> QED
  BY <1>11, <1>12

\* The newest action is undone.
LEMMA UndoLastStep ==
    ASSUME IInv, UndoLast
    PROVE  IInv' /\ pointers' = Last(actions).before /\ Edits!UndoLast
<1>1. /\ ~ restoring /\ actions # <<>> /\ Undo(Last(actions))
      /\ actions' = Front(actions) /\ restoring' = restoring
  BY DEF UndoLast
<1>2. IsStack(actions) /\ Kinds(actions) /\ Rewindable(actions, pointers)
  BY <1>1 DEF IInv
<1>3. PICK n, b, a, p2 : /\ n = Len(actions) /\ b = Front(actions)
                         /\ a = Last(actions) /\ p2 = pointers'
  OBVIOUS
<1>4. /\ n \in Nat \ {0} /\ DOMAIN actions = 1..n /\ n \in DOMAIN actions
      /\ a = actions[n]
  <2>1. n \in Nat \ {0} /\ DOMAIN actions = 1..n
    BY <1>1, <1>2, <1>3, TakenOff, StackPlaces
  <2> QED
    BY <1>3, <2>1 DEF Last
<1>5. /\ IsStack(b) /\ Len(b) = n - 1 /\ DOMAIN b = 1..(n - 1)
      /\ \A k \in 1..(n - 1) : b[k] = actions[k]
      /\ CollapsesOf(b) = CollapsesUnder(actions, n)
      /\ \A k \in 1..(n - 1) : CollapsesUnder(b, k) = CollapsesUnder(actions, k)
  BY <1>1, <1>2, <1>3, TakenOff
<1>6. Rewinds(a, pointers, CollapsesUnder(actions, n))
  BY <1>2, <1>3, <1>4 DEF Rewindable, After
<1>7. p2 = a.before /\ Good(p2, CollapsesOf(b))
  <2>1. /\ Packed(a.before) /\ Reverts(a, pointers, a.before)
        /\ Good(a.before, CollapsesUnder(actions, n))
    BY <1>6 DEF Rewinds
  <2>2. pointers' = a.before
    <3>1. Undo(a)
      BY <1>1, <1>3
    <3> QED
      BY <2>1, <3>1, UndoneTo
  <2> QED
    BY <1>3, <1>5, <2>1, <2>2
<1>8. Kinds(b)
  BY <1>2, <1>4, <1>5 DEF Kinds
<1>9. Rewindable(b, p2)
  <2> SUFFICES ASSUME NEW k \in 1..(n - 1)
               PROVE  Rewinds(b[k], After(b, p2, k), CollapsesUnder(b, k))
    BY <1>5 DEF Rewindable
  <2>1. Rewinds(actions[k], After(actions, pointers, k), CollapsesUnder(actions, k))
    BY <1>2, <1>4 DEF Rewindable
  <2>2. After(b, p2, k) = After(actions, pointers, k)
    <3>1. CASE k = n - 1
      <4>1. After(b, p2, k) = p2
        BY <1>5, <3>1 DEF After
      <4>2. k # n /\ k + 1 = n
        BY <1>4, <3>1
      <4>3. After(actions, pointers, k) = actions[n].before
        BY <1>3, <4>2 DEF After
      <4> QED
        BY <1>4, <1>7, <4>1, <4>3
    <3>2. CASE k # n - 1
      <4>1. k + 1 \in 1..(n - 1) /\ k # n
        BY <1>4, <3>2
      <4> QED
        BY <1>3, <1>5, <3>2, <4>1 DEF After
    <3> QED
      BY <3>1, <3>2
  <2> QED
    BY <1>5, <2>1, <2>2
<1>10. IInv'
  <2>1. actions' = b /\ pointers' = p2 /\ restoring' \in BOOLEAN
    BY <1>1, <1>3 DEF IInv
  <2> QED
    BY <1>5, <1>7, <1>8, <1>9, <2>1 DEF IInv, Kinds, IsStack, Rewindable
<1>11. Edits!UndoLast
  <2>1. PICK F, e : F = Seen(pointers) /\ e = EditsOf(actions)
    OBVIOUS
  <2>2. F = {subtreeTerminals[m] : m \in Reachable}
    BY <2>1, SeenReads
  <2>3. /\ e # <<>> /\ EditsOf(b) = SubSeq(e, 1, Len(e) - 1) /\ e[Len(e)] = a.edit
    BY <1>1, <1>2, <1>3, <2>1, EditsTakenOff
  <2>4. {subtreeTerminals[m] : m \in Reachable}' = Edits!Undone(F, e[Len(e)])
    <3>1. Edits!Undone(Seen(pointers), a.edit) = Seen(a.before)
      BY <1>6 DEF Rewinds
    <3> QED
      BY <1>3, <1>7, <2>1, <2>3, <3>1, SeenReads
  <2>5. EditsOf(actions)' = SubSeq(e, 1, Len(e) - 1)
    <3>1. EditsOf(actions)' = EditsOf(actions')
      BY DEF EditsOf
    <3> QED
      BY <1>1, <1>3, <2>3, <3>1
  <2>6. e = [k \in DOMAIN actions |-> actions[k].edit]
    BY <2>1 DEF EditsOf
  <2>7. [k \in DOMAIN actions |-> actions[k].edit]' = SubSeq(e, 1, Len(e) - 1)
    BY <2>5 DEF EditsOf
  <2> HIDE DEF EditsOf
  <2> QED
    BY <1>1, <2>2, <2>3, <2>4, <2>6, <2>7 DEF Edits!UndoLast
<1> QED
  BY <1>3, <1>7, <1>10, <1>11

\* The newest collapse is undone.
LEMMA UndoLastCollapseStep ==
    ASSUME IInv, UndoLastCollapse
    PROVE  IInv' /\ Edits!UndoLastCollapse
<1>1. PICK k \in Collapses : /\ \A j \in Collapses : j <= k
                             /\ Undo(actions[k])
                             /\ actions' = RemoveAt(actions, k)
                             /\ restoring' = TRUE
  BY DEF UndoLastCollapse
<1>2. /\ k \in DOMAIN actions /\ actions[k].kind = "collapse"
      /\ \A j \in DOMAIN actions : actions[j].kind = "collapse" => j <= k
  BY <1>1 DEF Collapses
<1>3. IsStack(actions) /\ Kinds(actions) /\ Good(pointers, CollapsesOf(actions))
  BY DEF IInv
<1>4. PICK n, b, a, cs : /\ n = Len(actions) /\ b = RemoveAt(actions, k)
                         /\ a = actions[k] /\ cs = CollapsesUnder(actions, k)
  OBVIOUS
<1>5. /\ IsStack(b) /\ DOMAIN b = 1..(n - 1)
      /\ \A j \in 1..(n - 1) : b[j] = IF j < k THEN actions[j] ELSE actions[j + 1]
      /\ CollapsesOf(b) = cs /\ CollapsesOf(actions) = Added(cs, k, a) /\ Topped(cs, k)
  BY <1>2, <1>3, <1>4, TakenOut
<1>6. /\ Good(pointers', cs)
      /\ Seen(pointers') = UncollapseAt(Seen(pointers), a.edit.others)
  BY <1>1, <1>2, <1>3, <1>4, <1>5, UncollapseStep
<1>7. n \in Nat /\ DOMAIN actions = 1..n
  BY <1>3, <1>4, StackPlaces
<1>8. Kinds(b)
  <2> SUFFICES ASSUME NEW j \in 1..(n - 1)
               PROVE  b[j].kind \in {"cut", "collapse"} /\ b[j].edit.kind = b[j].kind
    BY <1>5 DEF Kinds
  <2>1. j \in DOMAIN actions /\ j + 1 \in DOMAIN actions
    BY <1>7
  <2>2. b[j] = actions[j] \/ b[j] = actions[j + 1]
    BY <1>5
  <2> QED
    BY <1>3, <2>1, <2>2 DEF Kinds
<1>9. IInv'
  <2>1. actions' = b /\ restoring' = TRUE
    BY <1>1, <1>4
  <2> QED
    BY <1>5, <1>6, <1>8, <2>1 DEF IInv, Kinds, IsStack
<1>10. Edits!UndoLastCollapse
  <2>1. PICK F, e : F = Seen(pointers) /\ e = EditsOf(actions)
    OBVIOUS
  <2>2. F = {subtreeTerminals[m] : m \in Reachable}
    BY <2>1, SeenReads
  <2>3. DOMAIN e = DOMAIN actions /\ \A j \in DOMAIN actions : e[j] = actions[j].edit
    BY <2>1 DEF EditsOf
  <2>4. \A j \in DOMAIN actions : e[j].kind = actions[j].kind
    BY <1>3, <2>3 DEF Kinds
  <2>5. {subtreeTerminals[m] : m \in Reachable}' = Edits!Undone(F, e[k])
    <3>1. e[k] = a.edit /\ e[k].kind = "collapse"
      BY <1>2, <1>4, <2>3, <2>4
    <3>2. Edits!UncollapseAt(F, a.edit.others) = UncollapseAt(F, a.edit.others)
      BY DEF Edits!UncollapseAt, UncollapseAt
    <3>3. Edits!Undone(F, e[k]) = UncollapseAt(F, a.edit.others)
      BY <3>1, <3>2 DEF Edits!Undone
    <3> QED
      BY <1>6, <2>1, <3>3, SeenReads
  <2>6. EditsOf(actions)' = SubSeq(e, 1, k - 1) \o SubSeq(e, k + 1, Len(e))
    <3>1. EditsOf(actions)' = EditsOf(actions')
      BY DEF EditsOf
    <3>2. EditsOf(b) = RemoveAt(e, k)
      BY <1>2, <1>3, <1>4, <2>1, EditsTakenOut
    <3> QED
      BY <1>1, <1>4, <3>1, <3>2 DEF RemoveAt
  <2>7. /\ k \in {j \in DOMAIN e : e[j].kind = "collapse"}
        /\ \A j \in {i \in DOMAIN e : e[i].kind = "collapse"} : j <= k
    BY <1>2, <2>3, <2>4
  <2>8. e = [j \in DOMAIN actions |-> actions[j].edit]
    BY <2>1 DEF EditsOf
  <2>9. [j \in DOMAIN actions |-> actions[j].edit]'
           = SubSeq(e, 1, k - 1) \o SubSeq(e, k + 1, Len(e))
    BY <2>6 DEF EditsOf
  <2> QED
    BY <1>1, <2>2, <2>5, <2>7, <2>8, <2>9 DEF Edits!UndoLastCollapse, Edits!Collapses
<1> QED
  BY <1>9, <1>10

\* The tree that was read fits, with nothing collapsed.
LEMMA InitGood == Init => IInv
<1> SUFFICES ASSUME Init PROVE IInv
  OBVIOUS
<1>1. PICK T \in FirstForests :
         FirstPointers(T, parent, sibling, leftChild, rightChild, subtreeTerminals,
                       roots, labelToTerminal, terminalToLabel)
  BY DEF Init, FirstPointers
<1>2. actions = <<>> /\ restoring = FALSE
  BY DEF Init
<1>3. Shaped(T, T, leftChild, rightChild, {}, parent, sibling, leftChild, rightChild,
             subtreeTerminals, roots, labelToTerminal, terminalToLabel)
  BY <1>1, FirstShaped
<1>4. PICK cs : cs = CollapsesOf(actions)
  OBVIOUS
<1>5. DOMAIN cs = {} /\ NodesOf(cs) = {}
  <2>1. DOMAIN actions = {}
    BY <1>2
  <2> QED
    BY <1>4, <2>1 DEF CollapsesOf, NodesOf
<1>6. Nodes = T
  BY <1>1 DEF FirstPointers, Nodes
<1>7. Recollected(T, leftChild, rightChild, subtreeTerminals, cs)
  BY <1>5 DEF Recollected
<1>8. Fits(pointers, cs, T, leftChild, rightChild)
  BY <1>3, <1>5, <1>6, <1>7 DEF Fits, pointers, links, labelling, Nodes
<1>9. Good(pointers, CollapsesOf(actions))
  BY <1>4, <1>8 DEF Good
<1>10. IsStack(actions) /\ Kinds(actions) /\ Rewindable(actions, pointers)
  <2>1. actions \in Seq({}) /\ DOMAIN actions = {}
    BY <1>2
  <2> QED
    BY <2>1 DEF IsStack, Kinds, Rewindable
<1> QED
  BY <1>2, <1>9, <1>10 DEF IInv

\* At first the label sets seen are the nodes of the tree.
LEMMA InitRefines == Init => Edits!Init
<1> SUFFICES ASSUME Init PROVE Edits!Init
  OBVIOUS
<1>1. PICK T \in FirstForests :
         FirstPointers(T, parent, sibling, leftChild, rightChild, subtreeTerminals,
                       roots, labelToTerminal, terminalToLabel)
  BY DEF Init, FirstPointers
<1>2. actions = <<>> /\ restoring = FALSE
  BY DEF Init
<1>3. /\ Shaped(T, T, leftChild, rightChild, {}, parent, sibling, leftChild, rightChild,
                subtreeTerminals, roots, labelToTerminal, terminalToLabel)
      /\ LabelSets(subtreeTerminals, Visible(T, subtreeTerminals, {})) = T
  BY <1>1, FirstShaped
<1>4. Fits(pointers, <<>>, T, leftChild, rightChild)
  <2>1. Nodes = T
    BY <1>1 DEF FirstPointers, Nodes
  <2>2. NodesOf(<<>>) = {}
    BY DEF NodesOf
  <2>3. Recollected(T, leftChild, rightChild, subtreeTerminals, <<>>)
    BY DEF Recollected
  <2> QED
    BY <1>3, <2>1, <2>2, <2>3 DEF Fits, pointers, links, labelling, Nodes
<1>5. {subtreeTerminals[n] : n \in Reachable} = T
  <2>1. Seen(pointers) = LabelSets(subtreeTerminals,
                                   Visible(T, subtreeTerminals, NodesOf(<<>>)))
    BY <1>4, FitsNow
  <2>2. NodesOf(<<>>) = {}
    BY DEF NodesOf
  <2> QED
    BY <1>3, <2>1, <2>2, SeenReads
<1>6. [k \in DOMAIN actions |-> actions[k].edit] = <<>>
  <2>1. DOMAIN actions = {}
    BY <1>2
  <2>2. PICK e : e = [k \in DOMAIN actions |-> actions[k].edit]
    OBVIOUS
  <2>3. e \in [1..0 -> {}]
    BY <2>1, <2>2
  <2>4. e \in Seq({})
    BY <2>3, SeqDef
  <2>5. e = <<>>
    BY <2>4
  <2> QED
    BY <2>2, <2>5
<1> QED
  BY <1>1, <1>2, <1>5, <1>6 DEF Edits!Init

\* Every step keeps the invariant, is a step on label sets, and undoing the
\* newest action gives the pointers back.
LEMMA StepKeeps ==
    ASSUME ZeroWordsAreHarmless, IInv, [Next]_vars
    PROVE  /\ IInv'
           /\ [Edits!Next]_<<{subtreeTerminals[n] : n \in Reachable},
                             [k \in DOMAIN actions |-> actions[k].edit], restoring>>
           /\ UndoLast => pointers' = Last(actions).before
<1> DEFINE F == {subtreeTerminals[n] : n \in Reachable}
           e == [k \in DOMAIN actions |-> actions[k].edit]
<1>1. ASSUME UNCHANGED vars
      PROVE  IInv' /\ F' = F /\ e' = e /\ restoring' = restoring
  <2>1. pointers' = pointers /\ actions' = actions /\ restoring' = restoring
    BY <1>1 DEF vars
  <2>2. IInv'
    BY <2>1 DEF IInv, IsStack, Kinds, Rewindable
  <2>3. F' = F
    BY <2>1, SeenReads
  <2> QED
    BY <2>1, <2>2, <2>3
<1>2. ASSUME NEW n \in Reachable, DeleteEdge(n)
      PROVE  IInv' /\ Edits!Next
  BY <1>2, DeleteEdgeStep
<1>3. ASSUME NEW n \in Reachable, CollapseSubtree(n)
      PROVE  IInv' /\ Edits!Next
  BY <1>3, CollapseSubtreeStep
<1>4. ASSUME UndoLast
      PROVE  IInv' /\ Edits!Next /\ pointers' = Last(actions).before
  BY <1>4, UndoLastStep DEF Edits!Next
<1>5. ASSUME UndoLastCollapse
      PROVE  IInv' /\ Edits!Next
  BY <1>5, UndoLastCollapseStep DEF Edits!Next
<1>6. Rest => UNCHANGED vars
  BY DEF Rest
<1> HIDE DEF F, e
<1>7. IInv' /\ [Edits!Next]_<<F, e, restoring>>
  BY <1>1, <1>2, <1>3, <1>4, <1>5, <1>6 DEF Next
<1>8. UndoLast => pointers' = Last(actions).before
  BY <1>4
<1> QED
  BY <1>7, <1>8 DEF F, e

-----------------------------------------------------------------------------
(* What Forest::isValid asks.                                              *)

\* A forest that fits is valid.
LEMMA GoodIsValid ==
    ASSUME IInv
    PROVE  IsValid
<1>1. PICK cs : cs = CollapsesOf(actions)
  OBVIOUS
<1>2. PICK M, lx, rx : Fits(pointers, cs, M, lx, rx)
  BY <1>1 DEF IInv, Good
<1>3. PICK C, L : C = NodesOf(cs) /\ L = Visible(M, subtreeTerminals, C)
  OBVIOUS
<1>4. /\ Shaped(Nodes, M, lx, rx, C, parent, sibling, leftChild, rightChild,
                subtreeTerminals, roots, labelToTerminal, terminalToLabel)
      /\ Reachable = L
  BY <1>2, <1>3, FitsNow
<1>5. /\ Linked(Nodes, L, parent, sibling, leftChild, rightChild, subtreeTerminals)
      /\ InChildOrder(L, leftChild, rightChild, subtreeTerminals)
      /\ Rooted(L, parent, subtreeTerminals, roots)
      /\ \A n \in M : leftChild[n] = IF n \in C THEN NullNode ELSE lx[n]
  BY <1>3, <1>4, ShapedVisible
<1>6. /\ Linked(Nodes, M, parent, sibling, lx, rx, subtreeTerminals)
      /\ C \in SUBSET M
      /\ Labelled(M, lx, subtreeTerminals, C, labelToTerminal, terminalToLabel)
  BY <1>4 DEF Shaped
<1>7. PICK T : T = Tips(M, lx, subtreeTerminals, C)
  OBVIOUS
<1>8. T = {n \in L : leftChild[n] = NullNode}
  BY <1>3, <1>5, <1>7 DEF Tips, Visible
<1>9. /\ labelToTerminal \in [Labels -> T]
      /\ \A l \in Labels : l \in subtreeTerminals[labelToTerminal[l]]
      /\ terminalToLabel = [n \in T |-> Smallest(subtreeTerminals[n])]
  BY <1>6, <1>7 DEF Labelled
<1>10. \A n \in T : \A l \in subtreeTerminals[n] : labelToTerminal[l] = n
  BY <1>6, <1>7, LabelledOnce
<1>11. ASSUME NEW n \in L, leftChild[n] = NullNode
       PROVE  ProperLeaf(n)
  <2>1. rightChild[n] = NullNode
    BY <1>5, <1>11, Downward DEF Bottom
  <2>2. n \in T
    BY <1>8, <1>11
  <2>3. \A l \in subtreeTerminals[n] : l \in Labels
    BY <1>5 DEF Linked, Typed, Node
  <2>4. subtreeTerminals[n] = {l \in Labels : labelToTerminal[l] = n}
    BY <1>9, <1>10, <2>2, <2>3
  <2> QED
    BY <1>9, <2>1, <2>2, <2>4 DEF ProperLeaf
<1>12. ASSUME NEW n \in L, leftChild[n] # NullNode
       PROVE  ProperInner(n)
  <2>1. /\ Splits(L, parent, sibling, leftChild, rightChild, subtreeTerminals, n)
        /\ rightChild[n] # NullNode
    BY <1>5, <1>12, Downward
  <2>2. Smallest(subtreeTerminals[leftChild[n]]) < Smallest(subtreeTerminals[rightChild[n]])
    BY <1>5, <1>12 DEF InChildOrder
  <2> QED
    BY <2>1, <2>2 DEF ProperInner, Splits
<1>13. Range(roots) = {n \in L : parent[n] = NullNode}
  BY <1>5 DEF Rooted
<1>14. ASSUME NEW k \in DOMAIN roots
       PROVE  roots[k] \in L /\ parent[roots[k]] = NullNode /\ sibling[roots[k]] = NullNode
  <2>1. roots[k] \in L /\ parent[roots[k]] = NullNode
    BY <1>13 DEF Range
  <2> QED
    BY <1>5, <2>1 DEF Linked, Hooked
<1>15. ASSUME NEW l \in Labels
       PROVE  \E k \in DOMAIN roots : l \in subtreeTerminals[roots[k]]
  <2>1. PICK n \in L : l \in subtreeTerminals[n]
    BY <1>5 DEF Linked, Apart
  <2>2. PICK F : F = LabelSets(subtreeTerminals, L)
    OBVIOUS
  <2>3. /\ F \in Forest /\ WellFormed(F)
        /\ \A m \in L : parent[m] # NullNode => HasParent(F, subtreeTerminals[m])
    BY <1>5, <2>2, LinkedForest
  <2>4. subtreeTerminals[n] \in F
    BY <2>2 DEF LabelSets
  <2>5. PICK r \in Roots(F) : subtreeTerminals[n] \subseteq r
    BY <2>3, <2>4, RootAbove
  <2>6. PICK m \in L : r = subtreeTerminals[m]
    BY <2>2 DEF Roots, LabelSets
  <2>7. parent[m] = NullNode
    BY <2>3, <2>5, <2>6 DEF HasParent, Roots
  <2>8. m \in Range(roots)
    BY <1>13, <2>7
  <2> QED
    BY <2>1, <2>5, <2>6, <2>8 DEF Range
<1>16. UNION {subtreeTerminals[roots[k]] : k \in DOMAIN roots} = Labels
  <2>1. \A n \in L : subtreeTerminals[n] \subseteq Labels
    BY <1>5 DEF Linked, Typed, Node
  <2> QED
    BY <1>14, <1>15, <2>1
<1>17. DOMAIN terminalToLabel = {n \in Reachable : leftChild[n] = NullNode}
  BY <1>4, <1>8, <1>9
<1>18. \A j, k \in DOMAIN roots :
          j < k => Smallest(subtreeTerminals[roots[j]]) < Smallest(subtreeTerminals[roots[k]])
  BY <1>5 DEF Rooted
<1> QED
  BY <1>4, <1>11, <1>12, <1>14, <1>16, <1>17, <1>18 DEF IsValid

-----------------------------------------------------------------------------
(* The theorems.                                                           *)

\* The inductive invariant.
THEOREM ForestInvariant == ZeroWordsAreHarmless => (Spec => []IInv)
<1> SUFFICES ASSUME ZeroWordsAreHarmless PROVE Spec => []IInv
  OBVIOUS
<1>1. Init => IInv
  BY InitGood
<1>2. IInv /\ [Next]_vars => IInv'
  BY StepKeeps
<1> QED
  BY <1>1, <1>2, PTL DEF Spec

\* Forest::isValid holds after any edits and undone edits.
THEOREM PointersStayValid == ZeroWordsAreHarmless => (Spec => []IsValid)
<1> SUFFICES ASSUME ZeroWordsAreHarmless PROVE Spec => []IsValid
  OBVIOUS
<1>1. Spec => []IInv
  BY ForestInvariant
<1>2. IInv => IsValid
  BY GoodIsValid
<1> QED
  BY <1>1, <1>2, PTL

\* Undoing the newest action restores every pointer.
THEOREM UndoRestoresHolds == ZeroWordsAreHarmless => (Spec => UndoRestores)
<1> SUFFICES ASSUME ZeroWordsAreHarmless PROVE Spec => UndoRestores
  OBVIOUS
<1>1. Spec => []IInv
  BY ForestInvariant
<1>2. IInv /\ [Next]_vars => [UndoLast => pointers' = Last(actions).before]_vars
  BY StepKeeps
<1> QED
  BY <1>1, <1>2, PTL DEF Spec, UndoRestores

\* The pointers implement the edits on label sets.
THEOREM PointersImplementEdits == ZeroWordsAreHarmless => (Spec => ImplementsForestEdits)
<1> SUFFICES ASSUME ZeroWordsAreHarmless PROVE Spec => ImplementsForestEdits
  OBVIOUS
<1>1. Spec => []IInv
  BY ForestInvariant
<1>2. Init => Edits!Init
  BY InitRefines
<1>3. IInv /\ [Next]_vars =>
         [Edits!Next]_<<{subtreeTerminals[n] : n \in Reachable},
                        [k \in DOMAIN actions |-> actions[k].edit], restoring>>
  BY StepKeeps
<1> QED
  BY <1>1, <1>2, <1>3, PTL DEF Spec, ImplementsForestEdits, Edits!Spec
=============================================================================
