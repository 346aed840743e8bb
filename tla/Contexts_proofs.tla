---------------------------- MODULE Contexts_proofs ----------------------------
(***************************************************************************)
(* The engine's contexts share blocks: a fork reads the rows of its source *)
(* and the rows a sequence decodes are written in place.  The invariant    *)
(* says when that is harmless.  Every sequence holds the rows of one text; *)
(* a block two sequences have lies at the same place of both tables and    *)
(* begins with rows of both; and behind the shorter text, up to the end of *)
(* the block, the longer one is what greedy decoding writes there.  Each   *)
(* call of the engine keeps it, and does to the texts what it should.      *)
(***************************************************************************)
EXTENDS Contexts, SequenceTheorems, WellFoundedInduction, TLAPS

-------------------------------------------------------------------------------
(* Positions and blocks. *)

\* BlockSize is a positive natural number.
LEMMA BlockSizeType == BlockSize \in Nat \ {0} /\ NumBlocks \in Nat /\ Stop \in Nat
  BY PoolAssumption

\* The blocks before one end where it begins.
LEMMA BlocksInOrder ==
    ASSUME NEW k \in Int, NEW j \in Int, k < j
    PROVE  k * BlockSize \in Int /\ k * BlockSize <= (j - 1) * BlockSize
  <1> DEFINE m == j - 1 - k
  <1>1. m \in Nat /\ j - 1 = k + m
    OBVIOUS
  <1>2. (k + m) * BlockSize = k * BlockSize + m * BlockSize /\ m * BlockSize >= 0
        /\ k * BlockSize \in Int
    BY <1>1, BlockSizeType
  <1>3. (j - 1) * BlockSize = (k + m) * BlockSize
    BY <1>1
  <1> QED BY <1>2, <1>3, <1>1, BlockSizeType

\* Slot i of block k lies within the block.
LEMMA PosWithin ==
    ASSUME NEW k \in Nat \ {0}, NEW i \in 1..BlockSize
    PROVE  /\ Pos(k, i) \in Nat \ {0}
           /\ (k - 1) * BlockSize < Pos(k, i)
           /\ Pos(k, i) <= k * BlockSize
           /\ (k - 1) * BlockSize \in Nat /\ k * BlockSize \in Nat
  <1>1. (k - 1) * BlockSize \in Nat
    BY BlockSizeType
  <1>2. k * BlockSize = (k - 1) * BlockSize + BlockSize
    BY BlockSizeType
  <1> QED BY <1>1, <1>2, BlockSizeType DEF Pos

\* The block and the slot of a position.
LEMMA HomeOf ==
    ASSUME NEW p \in Nat \ {0}
    PROVE  /\ (p - 1) \div BlockSize + 1 \in Nat \ {0}
           /\ ((p - 1) % BlockSize) + 1 \in 1..BlockSize
           /\ Pos((p - 1) \div BlockSize + 1, ((p - 1) % BlockSize) + 1) = p
  <1> DEFINE d == (p - 1) \div BlockSize
             r == (p - 1) % BlockSize
  <1>1. d \in Nat /\ r \in 0..BlockSize-1 /\ p - 1 = d * BlockSize + r
    <2>1. d \in Int /\ d >= 0
      BY BlockSizeType
    <2>2. r \in 0..BlockSize-1
      BY BlockSizeType
    <2>3. p - 1 = BlockSize * d + r
      BY BlockSizeType
    <2>4. d * BlockSize = BlockSize * d
      BY <2>1, BlockSizeType
    <2> QED BY <2>1, <2>2, <2>3, <2>4
  <1>2. Pos(d + 1, r + 1) = d * BlockSize + (r + 1)
    BY <1>1 DEF Pos
  <1> QED BY <1>1, <1>2, BlockSizeType

\* A position within n blocks is in one of them.
LEMMA HomeWithin ==
    ASSUME NEW n \in Nat, NEW k \in Nat \ {0}, NEW i \in 1..BlockSize,
           Pos(k, i) <= n * BlockSize
    PROVE  k <= n
  <1> SUFFICES ASSUME n < k PROVE FALSE
    OBVIOUS
  <1>1. n * BlockSize <= (k - 1) * BlockSize /\ n * BlockSize \in Int
    BY BlocksInOrder
  <1> QED BY <1>1, PosWithin

\* BlocksFor(n) blocks are enough for n tokens and one less is not.
LEMMA BlocksForEnough ==
    ASSUME NEW n \in Nat
    PROVE  /\ BlocksFor(n) \in Nat \ {0}
           /\ n <= BlocksFor(n) * BlockSize
           /\ n > 0 => (BlocksFor(n) - 1) * BlockSize < n
  <1>1. CASE n = 0
    BY <1>1, BlockSizeType DEF BlocksFor
  <1>2. CASE n > 0
    <2> DEFINE d == (n + BlockSize - 1) \div BlockSize
               r == (n + BlockSize - 1) % BlockSize
    <2>1. d \in Int /\ d >= 0 /\ r \in 0..BlockSize-1 /\ n + BlockSize - 1 = BlockSize * d + r
      BY <1>2, BlockSizeType
    <2>2. BlockSize * d = d * BlockSize /\ (d - 1) * BlockSize = d * BlockSize - BlockSize
      BY <2>1, BlockSizeType
    <2>3. d # 0
      BY <2>1, <1>2, BlockSizeType
    <2>4. BlocksFor(n) = d
      BY <1>2 DEF BlocksFor
    <2> QED BY <2>1, <2>2, <2>3, <2>4, <1>2, BlockSizeType
  <1> QED BY <1>1, <1>2

\* More tokens need no fewer blocks.
LEMMA BlocksForGrows ==
    ASSUME NEW n \in Nat, NEW m \in Nat, n <= m
    PROVE  BlocksFor(n) <= BlocksFor(m)
  <1>1. CASE n = 0
    BY <1>1, BlocksForEnough, BlockSizeType DEF BlocksFor
  <1>2. CASE n > 0
    <2> SUFFICES ASSUME BlocksFor(m) < BlocksFor(n) PROVE FALSE
      BY BlocksForEnough
    <2> DEFINE a == BlocksFor(m)
               b == BlocksFor(n)
    <2>1. a \in Nat /\ b \in Nat /\ m <= a * BlockSize /\ (b - 1) * BlockSize < n
      BY <1>2, BlocksForEnough
    <2>2. a * BlockSize <= (b - 1) * BlockSize /\ a * BlockSize \in Int
      BY <2>1, BlocksInOrder
    <2>3. (b - 1) * BlockSize \in Int
      BY <2>1, BlockSizeType
    <2> QED BY <2>1, <2>2, <2>3
  <1> QED BY <1>1, <1>2

\* A text that ends behind the beginning of block k needs k blocks.
LEMMA BlocksForReach ==
    ASSUME NEW n \in Nat, NEW k \in Nat \ {0}, (k - 1) * BlockSize < n
    PROVE  k <= BlocksFor(n)
  <1> SUFFICES ASSUME BlocksFor(n) < k PROVE FALSE
    BY BlocksForEnough
  <1> DEFINE b == BlocksFor(n)
  <1>1. b \in Nat /\ n <= b * BlockSize
    BY BlocksForEnough
  <1>2. b * BlockSize <= (k - 1) * BlockSize /\ b * BlockSize \in Int
    BY <1>1, BlocksInOrder
  <1>3. (k - 1) * BlockSize \in Int
    BY BlockSizeType
  <1> QED BY <1>1, <1>2, <1>3

-------------------------------------------------------------------------------
(* Sequences. *)

\* The parts of a sequence.
LEMMA SeqFacts ==
    ASSUME NEW S, NEW a \in Seq(S)
    PROVE  /\ Len(a) \in Nat /\ DOMAIN a = 1..Len(a)
           /\ \A i \in 1..Len(a) : a[i] \in S
           /\ a = [i \in 1..Len(a) |-> a[i]]
  OBVIOUS

\* A prefix of a sequence.
LEMMA Prefix ==
    ASSUME NEW S, NEW a \in Seq(S), NEW n \in 0..Len(a)
    PROVE  /\ SubSeq(a, 1, n) \in Seq(S)
           /\ Len(SubSeq(a, 1, n)) = n
           /\ \A i \in 1..n : SubSeq(a, 1, n)[i] = a[i]
  OBVIOUS

\* The whole of it is a prefix.
LEMMA PrefixAll ==
    ASSUME NEW S, NEW a \in Seq(S)
    PROVE  SubSeq(a, 1, Len(a)) = a
  <1>1. Len(a) \in 0..Len(a)
    OBVIOUS
  <1>2. SubSeq(a, 1, Len(a)) \in Seq(S) /\ Len(SubSeq(a, 1, Len(a))) = Len(a)
        /\ \A i \in 1..Len(a) : SubSeq(a, 1, Len(a))[i] = a[i]
    BY <1>1, Prefix
  <1> QED BY <1>2, SeqEqual

\* A prefix of a prefix.
LEMMA PrefixOfPrefix ==
    ASSUME NEW S, NEW a \in Seq(S), NEW n \in 0..Len(a), NEW p \in 0..n
    PROVE  SubSeq(SubSeq(a, 1, n), 1, p) = SubSeq(a, 1, p)
  <1> DEFINE b == SubSeq(a, 1, n)
             c == SubSeq(b, 1, p)
             d == SubSeq(a, 1, p)
  <1>1. b \in Seq(S) /\ Len(b) = n /\ \A i \in 1..n : b[i] = a[i]
    BY Prefix
  <1> HIDE DEF b
  <1>2. c \in Seq(S) /\ Len(c) = p /\ \A i \in 1..p : c[i] = b[i]
    BY <1>1, Prefix
  <1>3. d \in Seq(S) /\ Len(d) = p /\ \A i \in 1..p : d[i] = a[i]
    BY Prefix
  <1> HIDE DEF c, d
  <1>4. c = d
    BY <1>1, <1>2, <1>3, SeqEqual
  <1> QED BY <1>4 DEF b, c, d

\* Sequences that agree on a prefix agree on a shorter one.
LEMMA ShorterPrefix ==
    ASSUME NEW S, NEW a \in Seq(S), NEW b \in Seq(S), NEW n \in 0..Len(a), n <= Len(b),
           SubSeq(a, 1, n) = SubSeq(b, 1, n), NEW p \in 0..n
    PROVE  SubSeq(a, 1, p) = SubSeq(b, 1, p)
  <1>1. n \in 0..Len(b)
    OBVIOUS
  <1>2. SubSeq(SubSeq(a, 1, n), 1, p) = SubSeq(a, 1, p)
    BY PrefixOfPrefix
  <1>3. SubSeq(SubSeq(b, 1, n), 1, p) = SubSeq(b, 1, p)
    BY <1>1, PrefixOfPrefix
  <1> QED BY <1>2, <1>3

\* A sequence and what is put behind it.
LEMMA Concat ==
    ASSUME NEW S, NEW a \in Seq(S), NEW b \in Seq(S)
    PROVE  /\ a \o b \in Seq(S)
           /\ Len(a \o b) = Len(a) + Len(b)
           /\ \A i \in 1..Len(a) : (a \o b)[i] = a[i]
           /\ \A i \in Len(a)+1..Len(a)+Len(b) : (a \o b)[i] = b[i - Len(a)]
  OBVIOUS

\* A prefix that ends in the first of two sequences.
LEMMA PrefixOfFirst ==
    ASSUME NEW S, NEW a \in Seq(S), NEW b \in Seq(S), NEW p \in 0..Len(a)
    PROVE  SubSeq(a \o b, 1, p) = SubSeq(a, 1, p)
  <1> DEFINE c == a \o b
             l == SubSeq(c, 1, p)
             r == SubSeq(a, 1, p)
  <1>1. c \in Seq(S) /\ Len(c) = Len(a) + Len(b) /\ \A i \in 1..Len(a) : c[i] = a[i]
    BY Concat
  <1> HIDE DEF c
  <1>2. l \in Seq(S) /\ Len(l) = p /\ \A i \in 1..p : l[i] = c[i]
    <2>1. p \in 0..Len(c)
      BY <1>1
    <2> QED BY <1>1, <2>1, Prefix
  <1>3. r \in Seq(S) /\ Len(r) = p /\ \A i \in 1..p : r[i] = a[i]
    BY Prefix
  <1> HIDE DEF l, r
  <1>4. \A i \in 1..p : l[i] = r[i]
    BY <1>1, <1>2, <1>3
  <1>5. l = r
    BY <1>2, <1>3, <1>4, SeqEqual
  <1> QED BY <1>5 DEF c, l, r

\* A prefix that ends in the second of two sequences.
LEMMA PrefixOfSecond ==
    ASSUME NEW S, NEW a \in Seq(S), NEW b \in Seq(S), NEW n \in 0..Len(b)
    PROVE  SubSeq(a \o b, 1, Len(a) + n) = a \o SubSeq(b, 1, n)
  <1> DEFINE c == a \o b
             l == SubSeq(c, 1, Len(a) + n)
             d == SubSeq(b, 1, n)
             r == a \o d
  <1>1. c \in Seq(S) /\ Len(c) = Len(a) + Len(b) /\ (\A i \in 1..Len(a) : c[i] = a[i])
        /\ \A i \in Len(a)+1..Len(a)+Len(b) : c[i] = b[i - Len(a)]
    BY Concat
  <1>2. d \in Seq(S) /\ Len(d) = n /\ \A i \in 1..n : d[i] = b[i]
    BY Prefix
  <1> HIDE DEF c, d
  <1>3. l \in Seq(S) /\ Len(l) = Len(a) + n /\ \A i \in 1..Len(a)+n : l[i] = c[i]
    <2>1. Len(a) + n \in 0..Len(c)
      BY <1>1
    <2> QED BY <1>1, <2>1, Prefix
  <1>4. r \in Seq(S) /\ Len(r) = Len(a) + n /\ (\A i \in 1..Len(a) : r[i] = a[i])
        /\ \A i \in Len(a)+1..Len(a)+n : r[i] = d[i - Len(a)]
    <2> DEFINE m == Len(d)
    <2>1. r \in Seq(S) /\ Len(r) = Len(a) + m /\ (\A i \in 1..Len(a) : r[i] = a[i])
          /\ \A i \in Len(a)+1..Len(a)+m : r[i] = d[i - Len(a)]
      <3>1. d \in Seq(S)
        BY <1>2
      <3> QED BY <3>1, Concat, Zenon
    <2> QED BY <1>2, <2>1
  <1> HIDE DEF l, r
  <1>5. \A i \in 1..Len(a)+n : l[i] = r[i]
    <2> TAKE i \in 1..Len(a)+n
    <2>1. CASE i <= Len(a)
      BY <2>1, <1>1, <1>3, <1>4
    <2>2. CASE i > Len(a)
      <3>1. i - Len(a) \in 1..n /\ i \in Len(a)+1..Len(a)+n /\ i \in Len(a)+1..Len(a)+Len(b)
        BY <2>2
      <3>2. l[i] = c[i] /\ c[i] = b[i - Len(a)] /\ r[i] = d[i - Len(a)] /\ d[i - Len(a)] = b[i - Len(a)]
        BY <3>1, <1>1, <1>2, <1>3, <1>4
      <3> QED BY <3>2
    <2> QED BY <2>1, <2>2
  <1>6. l = r
    BY <1>5, <1>3, <1>4, SeqEqual
  <1> QED BY <1>6 DEF c, l, d, r

\* A sequence is a prefix of it and the rest.
LEMMA Rejoined ==
    ASSUME NEW S, NEW a \in Seq(S), NEW n \in 0..Len(a)
    PROVE  /\ SubSeq(a, n + 1, Len(a)) \in Seq(S)
           /\ Len(SubSeq(a, n + 1, Len(a))) = Len(a) - n
           /\ SubSeq(a, 1, n) \o SubSeq(a, n + 1, Len(a)) = a
  <1> DEFINE l == SubSeq(a, 1, n)
             d == SubSeq(a, n + 1, Len(a))
             r == l \o d
  <1>1. l \in Seq(S) /\ Len(l) = n /\ \A i \in 1..n : l[i] = a[i]
    BY Prefix
  <1>2. d \in Seq(S) /\ Len(d) = Len(a) - n /\ \A i \in 1..Len(a)-n : d[i] = a[n + i]
    OBVIOUS
  <1> HIDE DEF l, d
  <1>3. r \in Seq(S) /\ Len(r) = Len(a) /\ (\A i \in 1..n : r[i] = l[i])
        /\ \A i \in n+1..Len(a) : r[i] = d[i - n]
    BY <1>1, <1>2, Concat
  <1> HIDE DEF r
  <1>4. \A i \in 1..Len(a) : r[i] = a[i]
    <2> TAKE i \in 1..Len(a)
    <2>1. CASE i <= n
      BY <2>1, <1>1, <1>3
    <2>2. CASE i > n
      <3>1. i - n \in 1..Len(a)-n /\ n + (i - n) = i /\ i \in n+1..Len(a)
        BY <2>2
      <3>2. r[i] = d[i - n]
        BY <3>1, <1>3
      <3>3. d[i - n] = a[n + (i - n)]
        BY <3>1, <1>2
      <3> QED BY <3>1, <3>2, <3>3
    <2> QED BY <2>1, <2>2
  <1>5. r = a
    BY <1>3, <1>4, SeqEqual
  <1> QED BY <1>5, <1>2 DEF l, d, r

-------------------------------------------------------------------------------
(* Recursion over the natural numbers. *)

\* A set of natural numbers that is not empty has a least element.
LEMMA LeastExists ==
    ASSUME NEW S \in SUBSET Nat, S # {}
    PROVE  \E m \in S : \A x \in S : m <= x
  <1>1. PICK m \in S : \A y \in S : ~(<<y, m>> \in OpToRel(<, Nat))
    BY NatLessThanWellFounded, WFMin
  <1>2. \A y \in S : m <= y
    <2> TAKE y \in S
    <2>1. ~(y < m)
      BY <1>1 DEF OpToRel
    <2> QED BY <2>1
  <1> QED BY <1>2

\* What holds of 0 and of the number after each it holds of, up to n.
LEMMA UpTo ==
    ASSUME NEW n \in Nat, NEW S, 0 \in S, \A i \in 1..n : i - 1 \in S => i \in S
    PROVE  \A i \in 0..n : i \in S
  <1> DEFINE bad == {i \in 0..n : i \notin S}
  <1> SUFFICES ASSUME bad # {} PROVE FALSE
    OBVIOUS
  <1>1. bad \in SUBSET Nat
    OBVIOUS
  <1> HIDE DEF bad
  <1>2. PICK m \in bad : \A x \in bad : m <= x
    BY <1>1, LeastExists
  <1>3. m \in 0..n /\ m \notin S
    BY DEF bad
  <1>4. m \in 1..n /\ m - 1 \in 0..n
    BY <1>3
  <1>5. m - 1 \notin bad
    BY <1>1, <1>2
  <1>6. m - 1 \in S
    BY <1>4, <1>5 DEF bad
  <1> QED BY <1>3, <1>4, <1>6

\* A function is defined by its first value and the step from each to the next.
Runs(g, n, base, step) == g[0] = base /\ \A i \in 1..n : g[i] = step[<<i, g[i-1]>>]

\* Such a function exists, for any number of steps.
LEMMA RunExists ==
    ASSUME NEW n \in Nat, NEW V, NEW base \in V, NEW step \in [(1..n) \X V -> V]
    PROVE  \E g \in [0..n -> V] : Runs(g, n, base, step)
  <1> DEFINE Run(g, m) == g[0] = base /\ \A i \in 1..m : g[i] = step[<<i, g[i-1]>>]
             S == {m \in 0..n : \E g \in [0..n -> V] : Run(g, m)}
  <1>1. 0 \in S
    <2> DEFINE g == [i \in 0..n |-> base]
    <2>1. g \in [0..n -> V] /\ Run(g, 0) /\ 0 \in 0..n
      OBVIOUS
    <2> QED BY <2>1
  <1>2. ASSUME NEW m \in 1..n, m - 1 \in S PROVE m \in S
    <2>1. PICK g \in [0..n -> V] : Run(g, m - 1)
      BY <1>2
    <2> DEFINE h == [g EXCEPT ![m] = step[<<m, g[m-1]>>]]
    <2>2. m \in 0..n /\ m - 1 \in 0..n /\ m \in Nat
      OBVIOUS
    <2>3. g[m-1] \in V
      BY <2>2
    <2>4. step[<<m, g[m-1]>>] \in V
      BY <2>3
    <2>5. h \in [0..n -> V]
      BY <2>4
    <2>6. h[m] = step[<<m, g[m-1]>>] /\ \A i \in 0..n : i # m => h[i] = g[i]
      BY <2>2
    <2> HIDE DEF h
    <2>7. h[0] = base
      BY <2>1, <2>6
    <2>8. ASSUME NEW i \in 1..m PROVE h[i] = step[<<i, h[i-1]>>]
      <3>1. h[i-1] = g[i-1]
        BY <2>6
      <3>2. CASE i = m
        BY <3>1, <3>2, <2>6
      <3>3. CASE i # m
        <4>1. i \in 1..m-1 /\ i \in 0..n
          BY <3>3
        <4>2. g[i] = step[<<i, g[i-1]>>]
          BY <2>1, <4>1
        <4> QED BY <3>1, <3>3, <4>1, <4>2, <2>6
      <3> QED BY <3>2, <3>3
    <2>9. Run(h, m)
      BY <2>7, <2>8
    <2> QED BY <2>2, <2>5, <2>9
  <1> HIDE DEF S
  <1>3. \A i \in 0..n : i \in S
    BY <1>1, <1>2, UpTo
  <1>4. n \in S
    BY <1>3
  <1> QED BY <1>4 DEF S, Runs

-------------------------------------------------------------------------------
(* The engine's state, and what makes it sound. *)

Context == [tab : Seq(1..NumBlocks), len : Nat, hist : Seq(Nat), pend : Seq(Int)]

Engines == [ctx : UNION {[S -> Context] : S \in SUBSET Int},
            cell : [1..NumBlocks -> [1..BlockSize -> Seq(Int)]],
            count : Nat,
            resident : Seq([entry : Nat, id : Int])]

Tab(e, s) == e.ctx[s].tab

\* No block is twice in a table.
Distinct(tab) == \A k, j \in DOMAIN tab : tab[k] = tab[j] => k = j

\* The blocks of a table hold the rows of a text.
Stored(cell, tab, text) ==
    /\ Len(text) <= Len(tab) * BlockSize
    /\ \A k \in DOMAIN tab, i \in 1..BlockSize :
          Pos(k, i) <= Len(text) => cell[tab[k]][i] = SubSeq(text, 1, Pos(k, i))

\* A block of two tables is at one place in both, and begins with a row of the
\* text of the first.
Aligned(tab, text, other) ==
    \A k \in DOMAIN tab, j \in DOMAIN other :
        tab[k] = other[j] => k = j /\ (k - 1) * BlockSize < Len(text)

\* Behind a text, up to the end of a shared block, a longer one is what greedy
\* decoding writes there.
Follows(tab, text, other, longer) ==
    \A k \in DOMAIN tab \cap DOMAIN other : tab[k] = other[k] =>
        \A p \in Len(text)+1..Len(longer) :
            p <= k * BlockSize => longer[p] = Greedy(SubSeq(longer, 1, p - 1))

\* Every live sequence s of engine e holds the rows of the text T[s].
Layout(e, T) ==
    /\ e \in Engines
    /\ T \in [Live(e) -> Seq(Nat)]
    /\ \A s \in Live(e) : /\ Distinct(Tab(e, s))
                          /\ e.ctx[s].len = Len(T[s])
                          /\ Stored(e.cell, Tab(e, s), T[s])
    /\ \A s, t \in Live(e) : s # t => Aligned(Tab(e, s), T[s], Tab(e, t))

\* What the sequences of S decode next, in place, is what is there.
Settled(e, T, S) ==
    \A s \in S, t \in Live(e) : s # t => Follows(Tab(e, s), T[s], Tab(e, t), T[t])

Hists(e) == [s \in Live(e) |-> e.ctx[s].hist]

\* An engine between two calls.
Good(e) ==
    /\ Layout(e, Hists(e))
    /\ Settled(e, Hists(e), Live(e))
    /\ \A s \in Live(e) : e.ctx[s].pend \in {e.ctx[s].hist, NoLogits}

\* The parts of an engine.
LEMMA EngineFacts ==
    ASSUME NEW e \in Engines
    PROVE  /\ Live(e) \in SUBSET Int
           /\ e.ctx \in [Live(e) -> Context]
           /\ e.cell \in [1..NumBlocks -> [1..BlockSize -> Seq(Int)]]
           /\ e.count \in Nat
           /\ e.resident \in Seq([entry : Nat, id : Int])
           /\ e = [ctx |-> e.ctx, cell |-> e.cell, count |-> e.count, resident |-> e.resident]
  BY DEF Engines, Live

\* An engine is the record of its four parts.
LEMMA EngineRecord ==
    ASSUME NEW e \in Engines
    PROVE  e = [ctx |-> e.ctx, cell |-> e.cell, count |-> e.count, resident |-> e.resident]
  BY DEF Engines

\* A row is a sequence of numbers.
LEMMA CellType ==
    ASSUME NEW e \in Engines, NEW b \in 1..NumBlocks, NEW i \in 1..BlockSize
    PROVE  e.cell[b][i] \in Seq(Int)
  <1>1. e.cell \in [1..NumBlocks -> [1..BlockSize -> Seq(Int)]]
    BY DEF Engines
  <1> QED BY <1>1

\* The parts of a context.
LEMMA ContextFacts ==
    ASSUME NEW e \in Engines, NEW s \in Live(e)
    PROVE  /\ e.ctx[s] \in Context
           /\ Tab(e, s) \in Seq(1..NumBlocks)
           /\ Len(Tab(e, s)) \in Nat
           /\ DOMAIN Tab(e, s) = 1..Len(Tab(e, s))
           /\ \A k \in DOMAIN Tab(e, s) : k \in Nat \ {0} /\ Tab(e, s)[k] \in 1..NumBlocks
           /\ e.ctx[s].len \in Nat
           /\ e.ctx[s].hist \in Seq(Nat)
           /\ e.ctx[s].pend \in Seq(Int)
           /\ e.ctx[s] = [tab |-> e.ctx[s].tab, len |-> e.ctx[s].len,
                          hist |-> e.ctx[s].hist, pend |-> e.ctx[s].pend]
  <1>1. e.ctx[s] \in Context
    BY EngineFacts
  <1>2. /\ Tab(e, s) \in Seq(1..NumBlocks) /\ e.ctx[s].len \in Nat
        /\ e.ctx[s].hist \in Seq(Nat) /\ e.ctx[s].pend \in Seq(Int)
        /\ e.ctx[s] = [tab |-> e.ctx[s].tab, len |-> e.ctx[s].len,
                       hist |-> e.ctx[s].hist, pend |-> e.ctx[s].pend]
    BY <1>1 DEF Context, Tab
  <1> DEFINE t == Tab(e, s)
  <1>3. t \in Seq(1..NumBlocks)
    BY <1>2
  <1> HIDE DEF t
  <1>4. Len(t) \in Nat /\ DOMAIN t = 1..Len(t) /\ \A k \in 1..Len(t) : t[k] \in 1..NumBlocks
    BY <1>3, SeqFacts, Zenon
  <1>5. \A k \in DOMAIN t : k \in Nat \ {0} /\ t[k] \in 1..NumBlocks
    BY <1>4
  <1> QED BY <1>1, <1>2, <1>4, <1>5 DEF t

\* An engine put together from its parts.
LEMMA EngineOf ==
    ASSUME NEW S \in SUBSET Int, NEW ctx \in [S -> Context],
           NEW cell \in [1..NumBlocks -> [1..BlockSize -> Seq(Int)]],
           NEW count \in Nat, NEW resident \in Seq([entry : Nat, id : Int]),
           NEW r, r = [ctx |-> ctx, cell |-> cell, count |-> count, resident |-> resident]
    PROVE  r \in Engines /\ Live(r) = S
  BY DEF Engines, Live

\* The greedy token is a token.
LEMMA GreedyType ==
    ASSUME NEW t \in Seq(Nat)
    PROVE  Greedy(t) \in Nat
  <1> DEFINE n == Len(t)
             Sums(f) == f = [i \in 0..n |-> IF i = 0 THEN 0 ELSE f[i-1] + t[i]]
             f == CHOOSE g : Sums(g)
             step == [p \in (1..n) \X Int |-> p[2] + t[p[1]]]
  <1>1. n \in Nat /\ \A i \in 1..n : t[i] \in Int
    OBVIOUS
  <1>2. step \in [(1..n) \X Int -> Int]
    BY <1>1
  <1>3. PICK g \in [0..n -> Int] : g[0] = 0 /\ \A i \in 1..n : g[i] = step[<<i, g[i-1]>>]
    <2> HIDE DEF step, n
    <2> DEFINE zero == 0
    <2>1. zero \in Int
      OBVIOUS
    <2> HIDE DEF zero
    <2>2. \E g \in [0..n -> Int] : Runs(g, n, zero, step)
      BY <1>1, <1>2, <2>1, RunExists, Zenon
    <2> QED BY <2>2 DEF zero, Runs
  <1>4. Sums(g)
    <2>1. \A i \in 0..n : g[i] = IF i = 0 THEN 0 ELSE g[i-1] + t[i]
      <3> TAKE i \in 0..n
      <3>1. CASE i = 0
        BY <3>1, <1>3
      <3>2. CASE i # 0
        <4>1. i \in 1..n /\ i - 1 \in 0..n /\ g[i-1] \in Int
          BY <3>2
        <4>2. g[i] = step[<<i, g[i-1]>>]
          BY <4>1, <1>3
        <4>3. step[<<i, g[i-1]>>] = g[i-1] + t[i]
          BY <4>1
        <4> QED BY <3>2, <4>2, <4>3
      <3> QED BY <3>1, <3>2
    <2> HIDE DEF n
    <2> QED BY <2>1
  <1>5. Sums(f)
    BY <1>4
  <1>6. Total(t) = f[n]
    BY DEF Total
  <1> HIDE DEF f
  <1>7. \A i \in 0..n : f[i] = IF i = 0 THEN 0 ELSE f[i-1] + t[i]
    BY <1>5
  <1> DEFINE S == {i \in 0..n : f[i] \in Nat}
  <1>8. 0 \in S
    BY <1>1, <1>7
  <1>9. ASSUME NEW i \in 1..n, i - 1 \in S PROVE i \in S
    <2>1. f[i] = f[i-1] + t[i] /\ i \in 0..n /\ t[i] \in Nat /\ f[i-1] \in Nat
      BY <1>7, <1>9
    <2> QED BY <2>1
  <1> HIDE DEF S
  <1>10. \A i \in 0..n : i \in S
    BY <1>1, <1>8, <1>9, UpTo
  <1>11. f[n] \in Nat
    BY <1>1, <1>10 DEF S
  <1>12. Total(t) \in Nat
    BY <1>6, <1>11
  <1> QED BY <1>12 DEF Greedy

\* A list of free blocks up to block b.
FreeUpTo(e, l, b) ==
    /\ l \in Seq(1..NumBlocks)
    /\ \A k \in DOMAIN l : l[k] <= b /\ Held(e, l[k]) = {}
    /\ Distinct(l)

\* The next block is put behind it when it is free.
LEMMA FreeUpToNext ==
    ASSUME NEW e, NEW b \in 1..NumBlocks, NEW l, FreeUpTo(e, l, b - 1)
    PROVE  /\ Held(e, b) = {} => FreeUpTo(e, Append(l, b), b)
           /\ FreeUpTo(e, l, b)
  <1> DEFINE m == Append(l, b)
  <1>0. b \in Nat /\ b # 0
    BY BlockSizeType
  <1>1. /\ l \in Seq(1..NumBlocks) /\ Len(l) \in Nat /\ DOMAIN l = 1..Len(l)
        /\ \A k \in 1..Len(l) : l[k] \in Nat
    <2>1. l \in Seq(1..NumBlocks)
      BY DEF FreeUpTo
    <2> QED BY <2>1, BlockSizeType
  <1>2. /\ m \in Seq(1..NumBlocks) /\ Len(m) = Len(l) + 1 /\ DOMAIN m = 1..Len(l)+1
        /\ m[Len(l)+1] = b /\ \A k \in 1..Len(l) : m[k] = l[k]
    BY <1>1
  <1> HIDE DEF m
  <1>3. \A k \in 1..Len(l) : l[k] < b /\ l[k] <= b /\ Held(e, l[k]) = {}
    BY <1>0, <1>1 DEF FreeUpTo
  <1>4. FreeUpTo(e, l, b)
    BY <1>1, <1>3 DEF FreeUpTo
  <1>5. ASSUME Held(e, b) = {} PROVE FreeUpTo(e, m, b)
    <2>1. \A k \in DOMAIN m : m[k] <= b /\ Held(e, m[k]) = {}
      BY <1>0, <1>1, <1>2, <1>3, <1>5
    <2>2. ASSUME NEW k \in 1..Len(l)+1, NEW j \in 1..Len(l)+1, m[k] = m[j] PROVE k = j
      <3>1. k \in 1..Len(l) \/ k = Len(l)+1
        BY <1>1
      <3>2. j \in 1..Len(l) \/ j = Len(l)+1
        BY <1>1
      <3>3. CASE k \in 1..Len(l) /\ j \in 1..Len(l)
        BY <3>3, <2>2, <1>1, <1>2 DEF FreeUpTo, Distinct
      <3> QED BY <3>1, <3>2, <3>3, <2>2, <1>2, <1>3, <1>1, <1>0
    <2> QED BY <2>1, <2>2, <1>2 DEF FreeUpTo, Distinct
  <1> QED BY <1>4, <1>5 DEF m

\* The free blocks: distinct, and no sequence has one.
LEMMA FreeBlocksFree ==
    ASSUME NEW e \in Engines
    PROVE  /\ FreeBlocks(e) \in Seq(1..NumBlocks)
           /\ Distinct(FreeBlocks(e))
           /\ \A k \in DOMAIN FreeBlocks(e) : Held(e, FreeBlocks(e)[k]) = {}
  <1> DEFINE n == NumBlocks
             Lists(f) == f = [b \in 0..n |->
                                IF b = 0 THEN <<>>
                                ELSE IF Held(e, b) = {} THEN Append(f[b-1], b) ELSE f[b-1]]
             f == CHOOSE g : Lists(g)
             V == Seq(1..n)
             step == [p \in (1..n) \X V |->
                        IF Held(e, p[1]) = {} THEN Append(p[2], p[1]) ELSE p[2]]
  <1>1. n \in Nat
    BY BlockSizeType
  <1>2. step \in [(1..n) \X V -> V]
    <2>1. \A p \in (1..n) \X V : Append(p[2], p[1]) \in V /\ p[2] \in V
      OBVIOUS
    <2> HIDE DEF V
    <2> QED BY <2>1
  <1>3. PICK g \in [0..n -> V] : g[0] = <<>> /\ \A i \in 1..n : g[i] = step[<<i, g[i-1]>>]
    <2> DEFINE none == <<>>
    <2>1. none \in V
      OBVIOUS
    <2> HIDE DEF step, n, V, none
    <2>2. \E g \in [0..n -> V] : Runs(g, n, none, step)
      BY <1>1, <1>2, <2>1, RunExists, Zenon
    <2> QED BY <2>2 DEF none, Runs
  <1>4. Lists(g)
    <2>1. \A b \in 0..n : g[b] = IF b = 0 THEN <<>>
                                 ELSE IF Held(e, b) = {} THEN Append(g[b-1], b) ELSE g[b-1]
      <3> TAKE b \in 0..n
      <3>1. CASE b = 0
        BY <3>1, <1>3
      <3>2. CASE b # 0
        <4>1. b \in 1..n /\ b - 1 \in 0..n /\ g[b-1] \in V
          BY <3>2, <1>1
        <4>2. g[b] = step[<<b, g[b-1]>>]
          BY <4>1, <1>3
        <4>3. step[<<b, g[b-1]>>] = IF Held(e, b) = {} THEN Append(g[b-1], b) ELSE g[b-1]
          BY <4>1
        <4> QED BY <3>2, <4>2, <4>3
      <3> QED BY <3>1, <3>2
    <2> HIDE DEF n
    <2> QED BY <2>1
  <1>5. Lists(f)
    BY <1>4
  <1>6. FreeBlocks(e) = f[n]
    BY DEF FreeBlocks
  <1> HIDE DEF f
  <1>7. \A b \in 0..n : f[b] = IF b = 0 THEN <<>>
                               ELSE IF Held(e, b) = {} THEN Append(f[b-1], b) ELSE f[b-1]
    BY <1>5
  <1> DEFINE S == {b \in 0..n : FreeUpTo(e, f[b], b)}
  <1> HIDE DEF step, V, Lists
  <1>8. 0 \in S
    <2>1. f[0] = <<>> /\ 0 \in 0..n
      BY <1>1, <1>7
    <2>2. FreeUpTo(e, <<>>, 0)
      BY DEF FreeUpTo, Distinct
    <2> QED BY <2>1, <2>2
  <1>9. ASSUME NEW b \in 1..n, b - 1 \in S PROVE b \in S
    <2>1. FreeUpTo(e, f[b-1], b - 1) /\ b \in 0..n /\ b # 0
      BY <1>9
    <2>2. f[b] = IF Held(e, b) = {} THEN Append(f[b-1], b) ELSE f[b-1]
      BY <2>1, <1>7
    <2>3. (Held(e, b) = {} => FreeUpTo(e, Append(f[b-1], b), b)) /\ FreeUpTo(e, f[b-1], b)
      BY <2>1, FreeUpToNext
    <2>4. FreeUpTo(e, f[b], b)
      BY <2>2, <2>3, Zenon
    <2> QED BY <2>1, <2>4
  <1> HIDE DEF S
  <1>10. \A b \in 0..n : b \in S
    BY <1>1, <1>8, <1>9, UpTo
  <1>11. FreeUpTo(e, f[n], n)
    BY <1>1, <1>10 DEF S
  <1> QED BY <1>6, <1>11 DEF FreeUpTo

-------------------------------------------------------------------------------
(* One sequence is replaced, some are freed, the free rows are blanked. *)

\* The engine with sequence s as c, and these cells.
Replaced(e, s, c, cell) ==
    [ctx |-> Put(e.ctx, s, c), cell |-> cell, count |-> e.count, resident |-> e.resident]

\* What that changes, and what it leaves.
IsReplaced(r, e, s, c, cell) ==
    /\ r \in Engines
    /\ Live(r) = Live(e) \cup {s}
    /\ r.ctx[s] = c /\ Tab(r, s) = c.tab
    /\ \A t \in Live(e) \ {s} : r.ctx[t] = e.ctx[t] /\ Tab(r, t) = Tab(e, t)
    /\ r.cell = cell /\ r.count = e.count /\ r.resident = e.resident

\* A replaced context is all that changes, besides the rows.
LEMMA ReplacedFacts ==
    ASSUME NEW e \in Engines, NEW s \in Int, NEW c \in Context,
           NEW cell \in [1..NumBlocks -> [1..BlockSize -> Seq(Int)]]
    PROVE  IsReplaced(Replaced(e, s, c, cell), e, s, c, cell)
  <1> DEFINE r == Replaced(e, s, c, cell)
             f == Put(e.ctx, s, c)
             D == Live(e) \cup {s}
  <1>1. f \in [D -> Context] /\ D \in SUBSET Int
        /\ f[s] = c /\ \A t \in Live(e) \ {s} : f[t] = e.ctx[t]
    BY EngineFacts DEF Put, Live
  <1>2. r = [ctx |-> f, cell |-> cell, count |-> e.count, resident |-> e.resident]
    BY DEF Replaced
  <1> HIDE DEF f, D, r
  <1>3. e.count \in Nat /\ e.resident \in Seq([entry : Nat, id : Int])
    BY EngineFacts
  <1>4. r \in Engines /\ Live(r) = D
    <2> DEFINE n == e.count
               l == e.resident
    <2>1. /\ n \in Nat /\ l \in Seq([entry : Nat, id : Int])
          /\ r = [ctx |-> f, cell |-> cell, count |-> n, resident |-> l]
      BY <1>2, <1>3
    <2> HIDE DEF n, l
    <2> QED BY <1>1, <2>1, EngineOf
  <1>5. r.ctx = f /\ r.cell = cell /\ r.count = e.count /\ r.resident = e.resident
    BY <1>2
  <1>6. \A t \in Live(e) \ {s} : r.ctx[t] = e.ctx[t] /\ Tab(r, t) = Tab(e, t)
    BY <1>1, <1>5 DEF Tab
  <1>7. r.ctx[s] = c /\ Tab(r, s) = c.tab
    BY <1>1, <1>5 DEF Tab
  <1> QED BY <1>4, <1>5, <1>6, <1>7 DEF D, r, IsReplaced

\* An assignment to some fields of one sequence replaces it.
LEMMA ReplacedIs ==
    ASSUME NEW e \in Engines, NEW s \in Live(e), NEW c
    PROVE  /\ [e EXCEPT !.ctx[s] = c] = Replaced(e, s, c, e.cell)
           /\ \A cell : [e EXCEPT !.ctx[s] = c, !.cell = cell] = Replaced(e, s, c, cell)
  <1> DEFINE f == [e.ctx EXCEPT ![s] = c]
  <1>1. e = [ctx |-> e.ctx, cell |-> e.cell, count |-> e.count, resident |-> e.resident]
    BY EngineFacts
  <1>2. f = Put(e.ctx, s, c)
    <2>1. e.ctx = [t \in Live(e) |-> e.ctx[t]] /\ DOMAIN e.ctx = Live(e)
      BY EngineFacts
    <2>2. f = [t \in Live(e) |-> IF t = s THEN c ELSE e.ctx[t]]
      BY <2>1
    <2>3. Live(e) \cup {s} = Live(e)
      OBVIOUS
    <2> QED BY <2>1, <2>2, <2>3 DEF Put
  <1> HIDE DEF f
  <1>3. [e EXCEPT !.ctx = f] = [ctx |-> f, cell |-> e.cell, count |-> e.count, resident |-> e.resident]
    BY <1>1
  <1>4. \A cell : [e EXCEPT !.ctx = f, !.cell = cell]
                  = [ctx |-> f, cell |-> cell, count |-> e.count, resident |-> e.resident]
    <2> TAKE cell
    <2> DEFINE g == [e EXCEPT !.ctx = f]
    <2>1. [e EXCEPT !.ctx = f, !.cell = cell] = [g EXCEPT !.cell = cell]
      OBVIOUS
    <2> HIDE DEF g
    <2>2. g = [ctx |-> f, cell |-> e.cell, count |-> e.count, resident |-> e.resident]
      BY <1>3 DEF g
    <2>3. [g EXCEPT !.cell = cell]
          = [ctx |-> f, cell |-> cell, count |-> e.count, resident |-> e.resident]
      BY <2>2
    <2> QED BY <2>1, <2>3
  <1> QED BY <1>2, <1>3, <1>4 DEF Replaced, f

\* The texts with that of s as x.
IsRetold(U, D, T, s, x) ==
    /\ U \in [D \cup {s} -> Seq(Nat)]
    /\ U[s] = x
    /\ \A t \in D \ {s} : U[t] = T[t]

\* Telling one text anew keeps the others.
LEMMA TextsFacts ==
    ASSUME NEW D, NEW T \in [D -> Seq(Nat)], NEW s, NEW x \in Seq(Nat)
    PROVE  IsRetold(Put(T, s, x), D, T, s, x)
  BY DEF Put, IsRetold

\* The layout is kept when it fits the sequence replaced and the cells the others.
LEMMA ReplacedLayout ==
    ASSUME NEW e, NEW T, Layout(e, T), NEW s \in Int, NEW c \in Context,
           NEW cell \in [1..NumBlocks -> [1..BlockSize -> Seq(Int)]],
           NEW x \in Seq(Nat),
           Distinct(c.tab), c.len = Len(x), Stored(cell, c.tab, x),
           \A t \in Live(e) \ {s} : /\ Stored(cell, Tab(e, t), T[t])
                                    /\ Aligned(c.tab, x, Tab(e, t))
                                    /\ Aligned(Tab(e, t), T[t], c.tab)
    PROVE  Layout(Replaced(e, s, c, cell), Put(T, s, x))
  <1> DEFINE r == Replaced(e, s, c, cell)
             U == Put(T, s, x)
  <1>1. e \in Engines /\ T \in [Live(e) -> Seq(Nat)]
    BY DEF Layout
  <1>2. /\ r \in Engines /\ Live(r) = Live(e) \cup {s}
        /\ r.ctx[s] = c /\ Tab(r, s) = c.tab
        /\ \A t \in Live(e) \ {s} : r.ctx[t] = e.ctx[t] /\ Tab(r, t) = Tab(e, t)
        /\ r.cell = cell
    <2>1. IsReplaced(r, e, s, c, cell)
      BY <1>1, ReplacedFacts, Zenon
    <2> HIDE DEF r
    <2> QED BY <2>1 DEF IsReplaced
  <1>3. /\ U \in [Live(e) \cup {s} -> Seq(Nat)] /\ U[s] = x
        /\ \A t \in Live(e) \ {s} : U[t] = T[t]
    <2>1. IsRetold(U, Live(e), T, s, x)
      BY <1>1, TextsFacts, Zenon
    <2> HIDE DEF U
    <2> QED BY <2>1 DEF IsRetold
  <1> HIDE DEF r, U
  <1>4. ASSUME NEW t \in Live(r)
        PROVE  Distinct(Tab(r, t)) /\ r.ctx[t].len = Len(U[t]) /\ Stored(r.cell, Tab(r, t), U[t])
    <2>1. CASE t = s
      BY <2>1, <1>2, <1>3
    <2>2. CASE t # s
      <3>1. t \in Live(e) \ {s}
        BY <1>2, <2>2
      <3>2. Distinct(Tab(e, t)) /\ e.ctx[t].len = Len(T[t])
        BY <3>1 DEF Layout
      <3> QED BY <3>1, <3>2, <1>2, <1>3
    <2> QED BY <2>1, <2>2
  <1>5. ASSUME NEW t \in Live(r), NEW u \in Live(r), t # u
        PROVE  Aligned(Tab(r, t), U[t], Tab(r, u))
    <2>1. CASE t = s
      <3>1. u \in Live(e) \ {s}
        BY <1>2, <1>5, <2>1
      <3> QED BY <2>1, <3>1, <1>2, <1>3
    <2>2. CASE u = s
      <3>1. t \in Live(e) \ {s}
        BY <1>2, <1>5, <2>2
      <3> QED BY <2>2, <3>1, <1>2, <1>3
    <2>3. CASE t # s /\ u # s
      <3>1. t \in Live(e) \ {s} /\ u \in Live(e) \ {s}
        BY <1>2, <2>3
      <3>2. Aligned(Tab(e, t), T[t], Tab(e, u))
        BY <3>1, <1>5 DEF Layout
      <3> QED BY <3>1, <3>2, <1>2, <1>3
    <2> QED BY <2>1, <2>2, <2>3
  <1>6. Layout(r, U)
    BY <1>2, <1>3, <1>4, <1>5, Zenon DEF Layout
  <1> QED BY <1>6 DEF r, U

\* So is what the sequences of S decode next.
LEMMA ReplacedSettled ==
    ASSUME NEW e, NEW T, Layout(e, T), NEW s \in Int, NEW c \in Context,
           NEW cell \in [1..NumBlocks -> [1..BlockSize -> Seq(Int)]],
           NEW x \in Seq(Nat), NEW S,
           Settled(e, T, S \ {s}), S \subseteq Live(e) \cup {s},
           \A t \in Live(e) \ {s} : t \in S => Follows(Tab(e, t), T[t], c.tab, x),
           s \in S => \A t \in Live(e) \ {s} : Follows(c.tab, x, Tab(e, t), T[t])
    PROVE  Settled(Replaced(e, s, c, cell), Put(T, s, x), S)
  <1> DEFINE r == Replaced(e, s, c, cell)
             U == Put(T, s, x)
  <1>1. e \in Engines /\ T \in [Live(e) -> Seq(Nat)]
    BY DEF Layout
  <1>2. /\ Live(r) = Live(e) \cup {s} /\ Tab(r, s) = c.tab
        /\ \A t \in Live(e) \ {s} : Tab(r, t) = Tab(e, t)
    <2>1. IsReplaced(r, e, s, c, cell)
      BY <1>1, ReplacedFacts, Zenon
    <2> HIDE DEF r
    <2> QED BY <2>1 DEF IsReplaced
  <1>3. U[s] = x /\ \A t \in Live(e) \ {s} : U[t] = T[t]
    <2>1. IsRetold(U, Live(e), T, s, x)
      BY <1>1, TextsFacts, Zenon
    <2> HIDE DEF U
    <2> QED BY <2>1 DEF IsRetold
  <1> HIDE DEF r, U
  <1>4. ASSUME NEW t \in S, NEW u \in Live(r), t # u
        PROVE  Follows(Tab(r, t), U[t], Tab(r, u), U[u])
    <2>1. CASE t = s
      <3>1. u \in Live(e) \ {s} /\ s \in S
        BY <1>2, <1>4, <2>1
      <3> QED BY <2>1, <3>1, <1>2, <1>3
    <2>2. CASE u = s
      <3>1. t \in Live(e) \ {s}
        BY <1>4, <2>2
      <3> QED BY <2>2, <3>1, <1>2, <1>3
    <2>3. CASE t # s /\ u # s
      <3>1. t \in Live(e) \ {s} /\ u \in Live(e) \ {s} /\ t \in S \ {s}
        BY <1>2, <2>3
      <3>2. Follows(Tab(e, t), T[t], Tab(e, u), T[u])
        BY <3>1, <1>4 DEF Settled
      <3> QED BY <3>1, <3>2, <1>2, <1>3
    <2> QED BY <2>1, <2>2, <2>3
  <1>5. Settled(r, U, S)
    BY <1>4, Zenon DEF Settled
  <1> QED BY <1>5 DEF r, U

\* An engine with the contexts of e, and the cells as far as they are read.
LEMMA SameContexts ==
    ASSUME NEW e, NEW T, Layout(e, T), NEW r \in Engines, r.ctx = e.ctx,
           \A s \in Live(e) : \A k \in DOMAIN Tab(e, s), i \in 1..BlockSize :
               Pos(k, i) <= Len(T[s]) => r.cell[Tab(e, s)[k]][i] = e.cell[Tab(e, s)[k]][i]
    PROVE  /\ Layout(r, T)
           /\ \A S : Settled(e, T, S) => Settled(r, T, S)
  <1>1. Live(r) = Live(e) /\ \A s : Tab(r, s) = Tab(e, s)
    BY DEF Live, Tab
  <1>2. ASSUME NEW s \in Live(e) PROVE Stored(r.cell, Tab(e, s), T[s])
    <2>1. Stored(e.cell, Tab(e, s), T[s])
      BY DEF Layout
    <2> QED BY <2>1 DEF Stored
  <1>3. /\ T \in [Live(e) -> Seq(Nat)]
        /\ \A s \in Live(e) : Distinct(Tab(e, s)) /\ e.ctx[s].len = Len(T[s])
        /\ \A s, t \in Live(e) : s # t => Aligned(Tab(e, s), T[s], Tab(e, t))
    BY DEF Layout
  <1>4. Layout(r, T)
    BY <1>1, <1>2, <1>3 DEF Layout
  <1>5. \A S : Settled(e, T, S) => Settled(r, T, S)
    BY <1>1 DEF Settled
  <1> QED BY <1>4, <1>5

\* The free rows are blanked, those of the sequences are not.
LEMMA SweptKeeps ==
    ASSUME NEW e, NEW T, Layout(e, T)
    PROVE  /\ Layout(Swept(e), T)
           /\ \A S : Settled(e, T, S) => Settled(Swept(e), T, S)
           /\ Swept(e).ctx = e.ctx
           /\ Swept(e).count = e.count /\ Swept(e).resident = e.resident
  <1> DEFINE r == Swept(e)
             cell == [b \in 1..NumBlocks |-> [i \in 1..BlockSize |->
                        IF Reached(e, b, i) THEN e.cell[b][i] ELSE Junk]]
  <1>1. e \in Engines
    BY DEF Layout
  <1>2. cell \in [1..NumBlocks -> [1..BlockSize -> Seq(Int)]]
    <2>1. \A b \in 1..NumBlocks, i \in 1..BlockSize : e.cell[b][i] \in Seq(Int)
      BY <1>1, CellType
    <2>2. Junk \in Seq(Int)
      BY DEF Junk
    <2> QED BY <2>1, <2>2
  <1>3. r = [ctx |-> e.ctx, cell |-> cell, count |-> e.count, resident |-> e.resident]
    <2>1. e = [ctx |-> e.ctx, cell |-> e.cell, count |-> e.count, resident |-> e.resident]
      BY <1>1, EngineRecord
    <2>2. r = [e EXCEPT !.cell = cell]
      BY DEF Swept
    <2> HIDE DEF r, cell
    <2> QED BY <2>1, <2>2
  <1>4. \A b \in 1..NumBlocks, i \in 1..BlockSize : Reached(e, b, i) => cell[b][i] = e.cell[b][i]
    OBVIOUS
  <1> HIDE DEF r, cell
  <1>5. r.ctx = e.ctx /\ r.cell = cell /\ r.count = e.count /\ r.resident = e.resident
    BY <1>3
  <1>6. r \in Engines
    BY <1>1, <1>2, <1>3, EngineFacts DEF Engines
  <1>7. ASSUME NEW s \in Live(e), NEW k \in DOMAIN Tab(e, s), NEW i \in 1..BlockSize,
               Pos(k, i) <= Len(T[s])
        PROVE  r.cell[Tab(e, s)[k]][i] = e.cell[Tab(e, s)[k]][i]
    <2>1. Tab(e, s)[k] \in 1..NumBlocks
      BY <1>1, ContextFacts
    <2>2. e.ctx[s].len = Len(T[s])
      BY DEF Layout
    <2>3. Reached(e, Tab(e, s)[k], i)
      BY <1>7, <2>2 DEF Reached, Tab
    <2> QED BY <1>4, <1>5, <2>1, <2>3
  <1>8. Layout(r, T) /\ \A S : Settled(e, T, S) => Settled(r, T, S)
    BY <1>5, <1>6, <1>7, SameContexts
  <1> QED BY <1>5, <1>8 DEF r

\* The counter and the resident cache are no part of it.
LEMMA CountedKeeps ==
    ASSUME NEW e, NEW T, Layout(e, T), NEW n \in Nat,
           NEW l \in Seq([entry : Nat, id : Int]),
           NEW r, r = [ctx |-> e.ctx, cell |-> e.cell, count |-> n, resident |-> l]
    PROVE  /\ Layout(r, T)
           /\ \A S : Settled(e, T, S) => Settled(r, T, S)
           /\ Live(r) = Live(e)
  <1>1. e \in Engines
    BY DEF Layout
  <1>2. r \in Engines
    BY <1>1, EngineFacts DEF Engines
  <1>3. r.ctx = e.ctx /\ r.cell = e.cell
    OBVIOUS
  <1>4. Layout(r, T) /\ \A S : Settled(e, T, S) => Settled(r, T, S)
    BY <1>2, <1>3, SameContexts
  <1> QED BY <1>3, <1>4 DEF Live

\* Sequences are freed: what they shared stays with the others.
IsFreed(r, e, T, S) ==
    /\ Layout(r, Restrict(T, Live(e) \ S))
    /\ \A R \in SUBSET Live(e) :
          Settled(e, T, R) => Settled(r, Restrict(T, Live(e) \ S), R \ S)
    /\ Live(r) = Live(e) \ S
    /\ \A t \in Live(e) \ S : r.ctx[t] = e.ctx[t]
    /\ r.count = e.count /\ r.resident = e.resident

\* FreeAll does just that.
LEMMA FreeAllKeeps ==
    ASSUME NEW e, NEW T, Layout(e, T), NEW S
    PROVE  IsFreed(FreeAll(e, S), e, T, S)
  <1> DEFINE D == Live(e) \ S
             f == Restrict(e.ctx, D)
             d == [e EXCEPT !.ctx = f]
             U == Restrict(T, D)
             r == FreeAll(e, S)
  <1>1. e \in Engines /\ T \in [Live(e) -> Seq(Nat)]
    BY DEF Layout
  <1>2. /\ f \in [D -> Context] /\ D \in SUBSET Int
        /\ \A t \in D : f[t] = e.ctx[t]
    BY <1>1, EngineFacts DEF Restrict
  <1>3. U \in [D -> Seq(Nat)] /\ \A t \in D : U[t] = T[t]
    BY <1>1 DEF Restrict
  <1>4. D \subseteq Live(e)
    OBVIOUS
  <1>5. r = Swept(d)
    BY DEF FreeAll
  <1> HIDE DEF f, U, D
  <1>6. d = [ctx |-> f, cell |-> e.cell, count |-> e.count, resident |-> e.resident]
    <2>1. e = [ctx |-> e.ctx, cell |-> e.cell, count |-> e.count, resident |-> e.resident]
      BY <1>1, EngineRecord
    <2> QED BY <2>1
  <1> HIDE DEF d
  <1>7. d \in Engines /\ Live(d) = D
    <2> DEFINE n == e.count
               l == e.resident
               c == e.cell
    <2>1. /\ n \in Nat /\ l \in Seq([entry : Nat, id : Int])
          /\ c \in [1..NumBlocks -> [1..BlockSize -> Seq(Int)]]
          /\ d = [ctx |-> f, cell |-> c, count |-> n, resident |-> l]
      BY <1>1, <1>6, EngineFacts
    <2> HIDE DEF n, l, c
    <2>2. f \in [D -> Context] /\ D \in SUBSET Int
      BY <1>2
    <2> HIDE DEF D, f
    <2> DEFINE A == UNION {[Q -> Context] : Q \in SUBSET Int}
               B == [1..NumBlocks -> [1..BlockSize -> Seq(Int)]]
               C == Seq([entry : Nat, id : Int])
    <2>3. f \in A /\ c \in B /\ l \in C /\ DOMAIN f = D
      BY <2>1, <2>2
    <2>4. Engines = [ctx : A, cell : B, count : Nat, resident : C]
      BY DEF Engines
    <2> HIDE DEF A, B, C
    <2>5. d \in Engines /\ d.ctx = f
      BY <2>1, <2>3, <2>4
    <2> QED BY <2>3, <2>5 DEF Live
  <1>8. d.ctx = f /\ d.cell = e.cell /\ d.count = e.count /\ d.resident = e.resident
    BY <1>6
  <1>9. \A t \in D : d.ctx[t] = e.ctx[t] /\ Tab(d, t) = Tab(e, t)
    BY <1>2, <1>8 DEF Tab
  <1>10. Layout(d, U)
    <2>1. \A t \in D : Distinct(Tab(e, t)) /\ e.ctx[t].len = Len(T[t])
                       /\ Stored(e.cell, Tab(e, t), T[t])
      BY <1>4 DEF Layout
    <2>2. \A t, u \in D : t # u => Aligned(Tab(e, t), T[t], Tab(e, u))
      BY <1>4 DEF Layout
    <2>3. \A t \in D : Distinct(Tab(d, t)) /\ d.ctx[t].len = Len(U[t])
                       /\ Stored(d.cell, Tab(d, t), U[t])
      BY <2>1, <1>3, <1>8, <1>9
    <2>4. \A t, u \in D : t # u => Aligned(Tab(d, t), U[t], Tab(d, u))
      BY <2>2, <1>3, <1>9
    <2> QED BY <2>3, <2>4, <1>3, <1>7 DEF Layout
  <1>11. ASSUME NEW R \in SUBSET Live(e), Settled(e, T, R) PROVE Settled(d, U, R \ S)
    <2> SUFFICES ASSUME NEW s \in R \ S, NEW t \in D, s # t
                 PROVE  Follows(Tab(d, s), U[s], Tab(d, t), U[t])
      BY <1>7 DEF Settled
    <2>1. t \in Live(e) /\ s \in R
      BY <1>4
    <2>2. Follows(Tab(e, s), T[s], Tab(e, t), T[t])
      BY <2>1, <1>11 DEF Settled
    <2>3. s \in D
      BY DEF D
    <2> QED BY <2>2, <2>3, <1>3, <1>9
  <1>12. /\ Layout(r, U) /\ (\A R : Settled(d, U, R) => Settled(r, U, R))
         /\ r.ctx = d.ctx /\ r.count = d.count /\ r.resident = d.resident
    BY <1>5, <1>10, SweptKeeps, Zenon
  <1> HIDE DEF r
  <1>13. Live(r) = D /\ \A t \in D : r.ctx[t] = e.ctx[t]
    BY <1>7, <1>9, <1>12 DEF Live
  <1>14. \A R \in SUBSET Live(e) : Settled(e, T, R) => Settled(r, U, R \ S)
    BY <1>11, <1>12
  <1>15. IsFreed(r, e, T, S)
    BY <1>8, <1>12, <1>13, <1>14 DEF IsFreed, U, D
  <1> QED BY <1>15 DEF r

-------------------------------------------------------------------------------
(* What is read: the rows of a sequence are those of its text. *)

\* Row p of the text is at slot p of the table.
LEMMA RowAtText ==
    ASSUME NEW e, NEW T, Layout(e, T), NEW s \in Live(e), NEW p \in 1..Len(T[s])
    PROVE  RowAt(e, s, p) = SubSeq(T[s], 1, p)
  <1> DEFINE k == (p - 1) \div BlockSize + 1
             i == ((p - 1) % BlockSize) + 1
             tab == Tab(e, s)
  <1>1. e \in Engines /\ T[s] \in Seq(Nat) /\ Stored(e.cell, tab, T[s])
    BY DEF Layout
  <1>2. Len(tab) \in Nat /\ DOMAIN tab = 1..Len(tab)
    BY <1>1, ContextFacts
  <1>3. Len(T[s]) \in Nat /\ p \in Nat \ {0} /\ p <= Len(T[s])
    BY <1>1
  <1>4. k \in Nat \ {0} /\ i \in 1..BlockSize /\ Pos(k, i) = p
    BY <1>3, HomeOf
  <1>5. RowAt(e, s, p) = e.cell[tab[k]][i]
    BY DEF RowAt, Tab
  <1> HIDE DEF k, i, tab
  <1>6. Len(T[s]) <= Len(tab) * BlockSize
    BY <1>1 DEF Stored
  <1>7. Pos(k, i) <= Len(tab) * BlockSize
    BY <1>2, <1>3, <1>4, <1>6, BlockSizeType
  <1>8. k <= Len(tab)
    BY <1>2, <1>4, <1>7, HomeWithin
  <1>9. k \in DOMAIN tab
    BY <1>2, <1>4, <1>8
  <1>10. e.cell[tab[k]][i] = SubSeq(T[s], 1, Pos(k, i))
    BY <1>1, <1>3, <1>4, <1>9 DEF Stored
  <1> QED BY <1>4, <1>5, <1>10

\* The rows of a text are a sequence as long as it is, the last one is the text.
LEMMA RowsOfFacts ==
    ASSUME NEW t \in Seq(Nat)
    PROVE  /\ RowsOf(t) \in Seq(Seq(Nat))
           /\ Len(RowsOf(t)) = Len(t)
           /\ \A p \in 1..Len(t) : RowsOf(t)[p] = SubSeq(t, 1, p)
           /\ t # <<>> => RowsOf(t) # <<>> /\ Last(RowsOf(t)) = t
  <1> DEFINE n == Len(t)
             r == RowsOf(t)
  <1>1. n \in Nat /\ \A p \in 1..n : SubSeq(t, 1, p) \in Seq(Nat)
    OBVIOUS
  <1>2. r = [p \in 1..n |-> SubSeq(t, 1, p)]
    BY DEF RowsOf
  <1>3. SubSeq(t, 1, n) = t
    BY PrefixAll
  <1>4. t # <<>> => n # 0
    OBVIOUS
  <1> HIDE DEF n, r
  <1>5. r \in Seq(Seq(Nat)) /\ Len(r) = n /\ \A p \in 1..n : r[p] = SubSeq(t, 1, p)
    <2> DEFINE V == Seq(Nat)
    <2>1. \A p \in 1..n : r[p] = SubSeq(t, 1, p) /\ r[p] \in V
      BY <1>1, <1>2
    <2>2. r = [p \in 1..n |-> r[p]]
      BY <1>2, <2>1
    <2> HIDE DEF V
    <2>3. r \in Seq(V) /\ Len(r) = n
      BY <1>1, <2>1, <2>2
    <2> QED BY <2>1, <2>3 DEF V
  <1>6. n # 0 => r # <<>> /\ r[n] = t
    BY <1>1, <1>3, <1>5
  <1>7. t # <<>> => r # <<>> /\ Last(r) = t
    BY <1>4, <1>5, <1>6 DEF Last
  <1> QED BY <1>5, <1>7 DEF n, r

\* A sequence reads as its text.
LEMMA RowsRead ==
    ASSUME NEW e, NEW T, Layout(e, T), NEW s \in Live(e)
    PROVE  Rows(e, s) = RowsOf(T[s]) /\ Seen(e, s) = T[s]
  <1> DEFINE t == T[s]
             r == Rows(e, s)
  <1>1. t \in Seq(Nat) /\ e.ctx[s].len = Len(t)
    BY DEF Layout
  <1>2. \A p \in 1..Len(t) : RowAt(e, s, p) = SubSeq(t, 1, p)
    BY RowAtText
  <1>3. r = RowsOf(t)
    BY <1>1, <1>2 DEF Rows, RowsOf
  <1>4. Seen(e, s) = IF r = <<>> THEN <<>>
                     ELSE IF r = RowsOf(Last(r)) THEN Last(r) ELSE Junk
    BY DEF Seen
  <1> HIDE DEF r, t
  <1>5. CASE t = <<>>
    <2>1. Len(r) = 0 /\ r \in Seq(Seq(Nat))
      BY <1>1, <1>3, <1>5, RowsOfFacts
    <2>2. r = <<>>
      BY <2>1
    <2> QED BY <1>3, <1>4, <1>5, <2>2 DEF r, t
  <1>6. CASE t # <<>>
    <2>1. r # <<>> /\ Last(r) = t
      BY <1>1, <1>3, <1>6, RowsOfFacts
    <2> QED BY <1>3, <1>4, <2>1 DEF r, t
  <1> QED BY <1>5, <1>6

\* A snapshot of a sequence between two calls.
LEMMA SnapshotRead ==
    ASSUME NEW e, Good(e), NEW s \in Live(e)
    PROVE  /\ Rows(e, s) = RowsOf(e.ctx[s].hist)
           /\ Snapshot(e, s) = [rows |-> RowsOf(e.ctx[s].hist), hist |-> e.ctx[s].hist,
                                pend |-> e.ctx[s].pend]
           /\ e.ctx[s].hist \in Seq(Nat)
           /\ e.ctx[s].pend \in {e.ctx[s].hist, NoLogits}
  <1>1. Layout(e, Hists(e)) /\ Hists(e)[s] = e.ctx[s].hist
    BY DEF Good, Hists
  <1>2. Rows(e, s) = RowsOf(e.ctx[s].hist)
    BY <1>1, RowsRead
  <1>3. Hists(e)[s] \in Seq(Nat)
    BY <1>1 DEF Layout
  <1> QED BY <1>1, <1>2, <1>3 DEF Snapshot, Good

-------------------------------------------------------------------------------
(* Blocks are claimed: they are nobody's, so nothing is shared anew. *)

\* Blocks of nobody, each once.
Fresh(e, new) ==
    /\ new \in Seq(1..NumBlocks)
    /\ Distinct(new)
    /\ \A s \in Live(e) : \A k \in DOMAIN new, j \in DOMAIN Tab(e, s) : new[k] # Tab(e, s)[j]

\* The free blocks are nobody's, and each is listed once.
LEMMA FreeIsFresh ==
    ASSUME NEW e \in Engines
    PROVE  Fresh(e, FreeBlocks(e))
  <1> DEFINE new == FreeBlocks(e)
  <1>1. new \in Seq(1..NumBlocks) /\ Distinct(new) /\ \A k \in DOMAIN new : Held(e, new[k]) = {}
    BY FreeBlocksFree
  <1> HIDE DEF new
  <1>2. ASSUME NEW s \in Live(e), NEW k \in DOMAIN new, NEW j \in DOMAIN Tab(e, s),
               new[k] = Tab(e, s)[j]
        PROVE  FALSE
    <2>1. Tab(e, s)[j] \in Range(e.ctx[s].tab)
      BY DEF Tab, Range
    <2>2. s \in Held(e, new[k])
      BY <1>2, <2>1 DEF Held
    <2> QED BY <1>1, <2>2
  <1>3. Fresh(e, new)
    BY <1>1, <1>2 DEF Fresh
  <1> QED BY <1>3 DEF new

\* So are those that a claim takes.
LEMMA ClaimIsFresh ==
    ASSUME NEW e \in Engines, NEW n \in Nat, CanClaim(e, n)
    PROVE  Fresh(e, Claim(e, n)) /\ Len(Claim(e, n)) = n
  <1> DEFINE all == FreeBlocks(e)
             new == SubSeq(all, 1, n)
  <1>1. Fresh(e, all)
    BY FreeIsFresh
  <1>2. n <= Len(all)
    BY DEF CanClaim
  <1>3. Claim(e, n) = new
    BY DEF Claim
  <1> HIDE DEF all
  <1>4. all \in Seq(1..NumBlocks)
    BY <1>1 DEF Fresh
  <1>5. Len(all) \in Nat /\ DOMAIN all = 1..Len(all)
    BY <1>4, SeqFacts, Zenon
  <1>6. n \in 0..Len(all)
    BY <1>2, <1>5
  <1>7. new \in Seq(1..NumBlocks) /\ Len(new) = n /\ \A k \in 1..n : new[k] = all[k]
    BY <1>4, <1>6, Prefix, Zenon
  <1> HIDE DEF new
  <1>8. DOMAIN new = 1..n
    BY <1>7, SeqFacts
  <1>9. \A k \in DOMAIN new : k \in DOMAIN all /\ new[k] = all[k]
    BY <1>5, <1>6, <1>7, <1>8
  <1>10. Fresh(e, new)
    BY <1>1, <1>7, <1>9 DEF Fresh, Distinct
  <1> QED BY <1>3, <1>7, <1>10


-------------------------------------------------------------------------------
(* A table grows. *)

\* A context with another table, with another length, told otherwise.
WithTab(c, tab) == [tab |-> tab, len |-> c.len, hist |-> c.hist, pend |-> c.pend]
WithLen(c, len) == [tab |-> c.tab, len |-> len, hist |-> c.hist, pend |-> c.pend]
WithWords(c, hist, pend) == [tab |-> c.tab, len |-> c.len, hist |-> hist, pend |-> pend]

\* The code's assignment to a table, as the replacement of a context.
LEMMA WithTabIs ==
    ASSUME NEW e \in Engines, NEW s \in Live(e), NEW x
    PROVE  /\ [e EXCEPT !.ctx[s].tab = x] = Replaced(e, s, WithTab(e.ctx[s], x), e.cell)
           /\ x \in Seq(1..NumBlocks) => WithTab(e.ctx[s], x) \in Context
  <1> DEFINE c == e.ctx[s]
  <1>1. c = [tab |-> c.tab, len |-> c.len, hist |-> c.hist, pend |-> c.pend]
        /\ c.len \in Nat /\ c.hist \in Seq(Nat) /\ c.pend \in Seq(Int)
    BY ContextFacts
  <1>2. [e EXCEPT !.ctx[s].tab = x] = [e EXCEPT !.ctx[s] = [c EXCEPT !.tab = x]]
    BY EngineFacts
  <1> HIDE DEF c
  <1>3. [c EXCEPT !.tab = x] = WithTab(c, x)
    <2>1. \A t, l, h, q : [[tab |-> t, len |-> l, hist |-> h, pend |-> q] EXCEPT !.tab = x]
                         = [tab |-> x, len |-> l, hist |-> h, pend |-> q]
      BY SMTT(40)
    <2> DEFINE t == c.tab
               l == c.len
               h == c.hist
               q == c.pend
    <2>2. c = [tab |-> t, len |-> l, hist |-> h, pend |-> q]
      BY <1>1
    <2>3. WithTab(c, x) = [tab |-> x, len |-> l, hist |-> h, pend |-> q]
      BY DEF WithTab
    <2> HIDE DEF t, l, h, q
    <2> QED BY <2>1, <2>2, <2>3
  <1>4. [e EXCEPT !.ctx[s] = WithTab(c, x)] = Replaced(e, s, WithTab(c, x), e.cell)
    BY ReplacedIs
  <1>5. x \in Seq(1..NumBlocks) => WithTab(c, x) \in Context
    BY <1>1 DEF WithTab, Context
  <1> QED BY <1>2, <1>3, <1>4, <1>5 DEF c

\* A text that is put where it was.
LEMMA PutSame ==
    ASSUME NEW D, NEW T \in [D -> Seq(Nat)], NEW s \in D
    PROVE  Put(T, s, T[s]) = T
  <1>1. T = [t \in D |-> T[t]] /\ D \cup {s} = D /\ DOMAIN T = D
    OBVIOUS
  <1>2. Put(T, s, T[s]) = [t \in D |-> T[t]]
    BY <1>1 DEF Put
  <1> QED BY <1>1, <1>2

\* The blocks of s that end behind n are its own.
Private(e, s, n) ==
    \A t \in Live(e) \ {s} : \A k \in DOMAIN Tab(e, s), j \in DOMAIN Tab(e, t) :
        Tab(e, s)[k] = Tab(e, t)[j] => k * BlockSize <= n

\* Fresh blocks behind a table: everything is where it was.
IsGrown(r, e, T, s, new) ==
    /\ Layout(r, T)
    /\ \A S \in SUBSET Live(e) : Settled(e, T, S) => Settled(r, T, S)
    /\ Live(r) = Live(e)
    /\ r.ctx[s] = WithTab(e.ctx[s], Tab(e, s) \o new)
    /\ Len(Tab(r, s)) = Len(Tab(e, s)) + Len(new)
    /\ \A t \in Live(e) \ {s} : r.ctx[t] = e.ctx[t]
    /\ \A m : Private(e, s, m) => Private(r, s, m)
    /\ r.count = e.count /\ r.resident = e.resident

\* Blocks of nobody behind a table disturb nothing.
LEMMA GrowKeeps ==
    ASSUME NEW e, NEW T, Layout(e, T), NEW s \in Live(e), NEW new, Fresh(e, new)
    PROVE  IsGrown([e EXCEPT !.ctx[s].tab = Tab(e, s) \o new], e, T, s, new)
  <1> DEFINE old == Tab(e, s)
             tab == old \o new
             c == WithTab(e.ctx[s], tab)
             r == Replaced(e, s, c, e.cell)
             x == T[s]
  <1>1. e \in Engines /\ T \in [Live(e) -> Seq(Nat)] /\ x \in Seq(Nat) /\ s \in Int
    BY EngineFacts DEF Layout
  <1>2. /\ old \in Seq(1..NumBlocks) /\ Len(old) \in Nat /\ DOMAIN old = 1..Len(old)
        /\ new \in Seq(1..NumBlocks) /\ Len(new) \in Nat /\ DOMAIN new = 1..Len(new)
    BY <1>1, ContextFacts, SeqFacts DEF Fresh
  <1>3. /\ tab \in Seq(1..NumBlocks) /\ Len(tab) = Len(old) + Len(new)
        /\ \A k \in 1..Len(old) : tab[k] = old[k]
        /\ \A k \in Len(old)+1..Len(old)+Len(new) : tab[k] = new[k - Len(old)]
    BY <1>2, Concat
  <1> HIDE DEF tab
  <1>4. DOMAIN tab = 1..Len(old)+Len(new)
    BY <1>3, SeqFacts
  <1>5. /\ c \in Context /\ [e EXCEPT !.ctx[s].tab = tab] = r
    BY <1>1, <1>3, WithTabIs
  <1>6. c.tab = tab /\ c.len = Len(x)
    BY DEF Layout, WithTab
  <1>7. /\ Distinct(old) /\ Stored(e.cell, old, x)
        /\ \A t \in Live(e) \ {s} : /\ Stored(e.cell, Tab(e, t), T[t])
                                    /\ Aligned(old, x, Tab(e, t))
                                    /\ Aligned(Tab(e, t), T[t], old)
    BY DEF Layout
  <1>8. e.cell \in [1..NumBlocks -> [1..BlockSize -> Seq(Int)]]
    BY <1>1, EngineFacts
  <1>9. /\ Distinct(new)
        /\ \A t \in Live(e) : \A k \in DOMAIN new, j \in DOMAIN Tab(e, t) : new[k] # Tab(e, t)[j]
    BY DEF Fresh
  <1>10. ASSUME NEW k \in DOMAIN tab
         PROVE  k \in DOMAIN old \/ (k - Len(old) \in DOMAIN new /\ tab[k] = new[k - Len(old)])
    <2>1. CASE k \in 1..Len(old)
      BY <2>1, <1>2
    <2>2. CASE k \notin 1..Len(old)
      <3>1. k \in Len(old)+1..Len(old)+Len(new) /\ k - Len(old) \in 1..Len(new)
        BY <2>2, <1>2, <1>4
      <3> QED BY <3>1, <1>2, <1>3
    <2> QED BY <2>1, <2>2
  <1>11. \A k \in DOMAIN old : k \in DOMAIN tab /\ tab[k] = old[k] /\ k \in Nat
    BY <1>2, <1>3, <1>4
  <1> HIDE DEF old, x
  <1>12. Distinct(tab)
    <2> SUFFICES ASSUME NEW k \in DOMAIN tab, NEW j \in DOMAIN tab, tab[k] = tab[j]
                 PROVE  k = j
      BY DEF Distinct
    <2>1. CASE k \in DOMAIN old /\ j \in DOMAIN old
      BY <2>1, <1>7, <1>11 DEF Distinct
    <2>2. CASE k \in DOMAIN old /\ j \notin DOMAIN old
      BY <2>2, <1>9, <1>10, <1>11 DEF old
    <2>3. CASE k \notin DOMAIN old /\ j \in DOMAIN old
      BY <2>3, <1>9, <1>10, <1>11 DEF old
    <2>4. CASE k \notin DOMAIN old /\ j \notin DOMAIN old
      <3>1. k - Len(old) = j - Len(old)
        BY <2>4, <1>9, <1>10 DEF Distinct
      <3> QED BY <3>1, <1>2, <1>4
    <2> QED BY <2>1, <2>2, <2>3, <2>4
  <1>13. Stored(e.cell, tab, x)
    <2>1. Len(x) \in Nat /\ Len(x) <= Len(old) * BlockSize
      BY <1>1, <1>7 DEF Stored
    <2>2. Len(x) <= Len(tab) * BlockSize
      <3>1. (Len(old) + Len(new)) * BlockSize = Len(old) * BlockSize + Len(new) * BlockSize
            /\ Len(new) * BlockSize >= 0 /\ Len(old) * BlockSize \in Int
        BY <1>2, BlockSizeType
      <3> QED BY <3>1, <2>1, <1>3, BlockSizeType
    <2>3. ASSUME NEW k \in DOMAIN tab, NEW i \in 1..BlockSize, Pos(k, i) <= Len(x)
          PROVE  e.cell[tab[k]][i] = SubSeq(x, 1, Pos(k, i))
      <3>1. k \in Nat \ {0}
        BY <1>2, <1>4
      <3>2. k <= Len(old)
        <4>1. Pos(k, i) <= Len(old) * BlockSize
          <5> DEFINE a == Len(old) * BlockSize
                     p == Pos(k, i)
          <5>1. a \in Int /\ p \in Int
            <6>1. p \in Nat \ {0}
              BY <3>1, PosWithin, Zenon
            <6>2. a \in Int
              BY <1>2, BlockSizeType
            <6> QED BY <6>1, <6>2
          <5> HIDE DEF a, p
          <5>2. p <= a
            BY <2>1, <2>3, <5>1 DEF a, p
          <5> QED BY <5>2 DEF a, p
        <4> QED BY <4>1, <3>1, <1>2, HomeWithin
      <3>3. k \in DOMAIN old
        BY <3>1, <3>2, <1>2
      <3> QED BY <3>3, <2>3, <1>7, <1>11 DEF Stored
    <2> QED BY <2>2, <2>3 DEF Stored
  <1>14. ASSUME NEW t \in Live(e) \ {s}, NEW k \in DOMAIN tab, NEW j \in DOMAIN Tab(e, t),
                tab[k] = Tab(e, t)[j]
         PROVE  k \in DOMAIN old /\ old[k] = Tab(e, t)[j]
    BY <1>9, <1>10, <1>11, <1>14
  <1>15. \A t \in Live(e) \ {s} : Aligned(tab, x, Tab(e, t)) /\ Aligned(Tab(e, t), T[t], tab)
    BY <1>7, <1>14 DEF Aligned
  <1>16. Put(T, s, x) = T
    BY <1>1, PutSame DEF x
  <1>17. Layout(r, T)
    <2> HIDE DEF r, c
    <2>1. Layout(Replaced(e, s, c, e.cell), Put(T, s, x))
      BY <1>1, <1>5, <1>6, <1>7, <1>8, <1>12, <1>13, <1>15, ReplacedLayout
    <2> QED BY <2>1, <1>16 DEF r
  <1>18. ASSUME NEW S \in SUBSET Live(e), Settled(e, T, S) PROVE Settled(r, T, S)
    <2>1. Settled(e, T, S \ {s}) /\ S \subseteq Live(e) \cup {s}
      BY <1>18 DEF Settled
    <2>2. \A t \in Live(e) \ {s} : t \in S => Follows(Tab(e, t), T[t], tab, x)
      <3> SUFFICES ASSUME NEW t \in Live(e) \ {s}, t \in S
                   PROVE  Follows(Tab(e, t), T[t], tab, x)
        OBVIOUS
      <3>1. Follows(Tab(e, t), T[t], old, x)
        BY <1>18 DEF Settled, old, x
      <3> QED BY <3>1, <1>14 DEF Follows
    <2>3. s \in S => \A t \in Live(e) \ {s} : Follows(tab, x, Tab(e, t), T[t])
      <3> SUFFICES ASSUME NEW t \in Live(e) \ {s}, s \in S
                   PROVE  Follows(tab, x, Tab(e, t), T[t])
        OBVIOUS
      <3>1. Follows(old, x, Tab(e, t), T[t])
        BY <1>18 DEF Settled, old, x
      <3> QED BY <3>1, <1>14 DEF Follows
    <2> HIDE DEF r, c
    <2>4. Settled(Replaced(e, s, c, e.cell), Put(T, s, x), S)
      BY <2>1, <2>2, <2>3, <1>1, <1>5, <1>6, <1>8, ReplacedSettled
    <2> QED BY <2>4, <1>16 DEF r
  <1>19. IsReplaced(r, e, s, c, e.cell)
    BY <1>1, <1>5, <1>8, ReplacedFacts, Zenon
  <1> HIDE DEF r
  <1>21. ASSUME NEW m, Private(e, s, m) PROVE Private(r, s, m)
    <2>1. /\ Live(r) = Live(e) /\ Tab(r, s) = tab
          /\ \A t \in Live(e) \ {s} : Tab(r, t) = Tab(e, t)
      BY <1>6, <1>19 DEF IsReplaced, Tab
    <2> SUFFICES ASSUME NEW t \in Live(e) \ {s}, NEW k \in DOMAIN tab,
                        NEW j \in DOMAIN Tab(e, t), tab[k] = Tab(e, t)[j]
                 PROVE  k * BlockSize <= m
      BY <2>1 DEF Private
    <2>2. k \in DOMAIN old /\ old[k] = Tab(e, t)[j]
      BY <1>14
    <2> QED BY <2>2, <1>21 DEF Private, old
  <1>20. IsGrown(r, e, T, s, new)
    BY <1>3, <1>6, <1>17, <1>18, <1>19, <1>21 DEF IsGrown, IsReplaced, c, tab, old
  <1> QED BY <1>5, <1>20 DEF tab, old

\* More blocks hold more.
LEMMA MoreBlocks ==
    ASSUME NEW b \in Nat, NEW l \in Nat, b <= l
    PROVE  b * BlockSize <= l * BlockSize /\ b * BlockSize \in Int /\ l * BlockSize \in Int
  <1> DEFINE d == l - b
  <1>1. d \in Nat /\ l = b + d
    OBVIOUS
  <1>2. (b + d) * BlockSize = b * BlockSize + d * BlockSize /\ d * BlockSize \in Nat
        /\ b * BlockSize \in Int
    BY <1>1, BlockSizeType
  <1> HIDE DEF d
  <1> QED BY <1>1, <1>2

\* What ensure_capacity leaves: the table, longer or not, and when it returned
\* one that is long enough.
IsEnsured(r, e, T, s, n) ==
    /\ Layout(r.e, T)
    /\ \A S \in SUBSET Live(e) : Settled(e, T, S) => Settled(r.e, T, S)
    /\ Live(r.e) = Live(e)
    /\ r.e.ctx[s] = WithTab(e.ctx[s], Tab(r.e, s))
    /\ \A t \in Live(e) \ {s} : r.e.ctx[t] = e.ctx[t]
    /\ r.e.count = e.count /\ r.e.resident = e.resident
    /\ Private(e, s, Len(T[s])) => Private(r.e, s, Len(T[s]))
    /\ r.ok \in BOOLEAN
    /\ r.ok => Len(T[s]) + n <= Len(Tab(r.e, s)) * BlockSize

\* EnsureCapacity grows its sequence's table, also when it runs dry.
LEMMA EnsureKeeps ==
    ASSUME NEW e, NEW T, Layout(e, T), NEW s \in Live(e), NEW n \in Nat
    PROVE  IsEnsured(EnsureCapacity(e, s, n), e, T, s, n)
  <1> DEFINE tab == Tab(e, s)
             len == e.ctx[s].len
             missing == BlocksFor(len + n) - Len(tab)
             all == FreeBlocks(e)
             new == Claim(e, missing)
             r == EnsureCapacity(e, s, n)
  <1>1. e \in Engines /\ T[s] \in Seq(Nat) /\ len = Len(T[s])
    BY DEF Layout
  <1>2. len \in Nat /\ Len(tab) \in Nat
    BY <1>1, ContextFacts
  <1>3. /\ BlocksFor(len + n) \in Nat
        /\ len + n <= BlocksFor(len + n) * BlockSize
    <2> DEFINE m == len + n
    <2>1. m \in Nat
      BY <1>2
    <2> HIDE DEF m
    <2>2. BlocksFor(m) \in Nat /\ m <= BlocksFor(m) * BlockSize
      BY <2>1, BlocksForEnough
    <2> QED BY <2>2 DEF m
  <1>4. ASSUME NEW l \in Nat, BlocksFor(len + n) <= l PROVE len + n <= l * BlockSize
    <2> DEFINE b == BlocksFor(len + n)
               a == b * BlockSize
               d == l * BlockSize
    <2>1. a <= d /\ a \in Int /\ d \in Int
      <3>1. b \in Nat /\ b <= l
        BY <1>3, <1>4
      <3> HIDE DEF b
      <3> QED BY <3>1, MoreBlocks
    <2>2. len + n <= a
      BY <1>3
    <2> HIDE DEF a, d
    <2> QED BY <2>1, <2>2, <1>2 DEF a, d
  <1>5. r = IF missing <= 0 THEN Done(e)
            ELSE IF CanClaim(e, missing) THEN Done([e EXCEPT !.ctx[s].tab = tab \o new])
            ELSE Raised([e EXCEPT !.ctx[s].tab = tab \o all])
    BY DEF EnsureCapacity, Tab
  <1> HIDE DEF missing, r, len, all, new
  <1>6. missing = BlocksFor(len + n) - Len(tab)
    BY DEF missing
  <1>7. CASE missing <= 0
    <2>1. r = [e |-> e, ok |-> TRUE]
      BY <1>5, <1>7 DEF Done
    <2>2. BlocksFor(len + n) <= Len(tab)
      BY <1>2, <1>3, <1>6, <1>7
    <2>3. len + n <= Len(tab) * BlockSize
      BY <1>2, <1>4, <2>2
    <2>4. e.ctx[s] = WithTab(e.ctx[s], tab)
      BY <1>1, ContextFacts DEF WithTab, Tab
    <2>5. r.e = e /\ r.ok = TRUE
      BY <2>1
    <2>6. IsEnsured(r, e, T, s, n)
      BY <2>3, <2>4, <2>5, <1>1 DEF IsEnsured
    <2> QED BY <2>6 DEF r
  <1>8. CASE missing > 0 /\ CanClaim(e, missing)
    <2> DEFINE d == [e EXCEPT !.ctx[s].tab = tab \o new]
    <2>1. r = [e |-> d, ok |-> TRUE]
      BY <1>2, <1>3, <1>5, <1>6, <1>8 DEF Done
    <2>2. missing \in Nat
      BY <1>2, <1>3, <1>6, <1>8
    <2>3. Fresh(e, new) /\ Len(new) = missing
      BY <1>1, <1>8, <2>2, ClaimIsFresh DEF new
    <2>4. IsGrown(d, e, T, s, new)
      BY <2>3, GrowKeeps
    <2> HIDE DEF d
    <2>5. /\ Len(Tab(d, s)) = BlocksFor(len + n)
          /\ d.ctx[s] = WithTab(e.ctx[s], Tab(d, s))
      <3>1. Len(Tab(d, s)) = Len(tab) + missing /\ d.ctx[s] = WithTab(e.ctx[s], tab \o new)
        BY <2>3, <2>4 DEF IsGrown
      <3> QED BY <3>1, <1>2, <1>3, <1>6 DEF Tab, WithTab
    <2>6. len + n <= Len(Tab(d, s)) * BlockSize
      BY <2>5, <1>3
    <2>7. r.e = d /\ r.ok = TRUE
      BY <2>1
    <2>8. IsEnsured(r, e, T, s, n)
      BY <2>4, <2>5, <2>6, <2>7, <1>1 DEF IsEnsured, IsGrown
    <2> QED BY <2>8 DEF r
  <1>9. CASE missing > 0 /\ ~CanClaim(e, missing)
    <2> DEFINE d == [e EXCEPT !.ctx[s].tab = tab \o all]
    <2>1. r = [e |-> d, ok |-> FALSE]
      BY <1>2, <1>3, <1>5, <1>6, <1>9 DEF Raised
    <2>2. IsGrown(d, e, T, s, all)
      BY <1>1, FreeIsFresh, GrowKeeps DEF all
    <2> HIDE DEF d
    <2>3. d.ctx[s] = WithTab(e.ctx[s], Tab(d, s))
      BY <2>2 DEF IsGrown, Tab, WithTab
    <2>4. r.e = d /\ r.ok = FALSE
      BY <2>1
    <2>5. IsEnsured(r, e, T, s, n)
      BY <2>2, <2>3, <2>4 DEF IsEnsured, IsGrown
    <2> QED BY <2>5 DEF r
  <1> QED BY <1>2, <1>3, <1>6, <1>7, <1>8, <1>9

-------------------------------------------------------------------------------
(* Rows are written. *)

\* More rows, and the length that counts them.
WithRows(e, s, n, cell) == [e EXCEPT !.ctx[s].len = n, !.cell = cell]

\* The code's assignment to a length and the rows, as a replacement.
LEMMA WithLenIs ==
    ASSUME NEW e \in Engines, NEW s \in Live(e), NEW n \in Nat, NEW cell
    PROVE  /\ WithRows(e, s, n, cell) = Replaced(e, s, WithLen(e.ctx[s], n), cell)
           /\ WithLen(e.ctx[s], n) \in Context
  <1> DEFINE c == e.ctx[s]
  <1>1. c = [tab |-> c.tab, len |-> c.len, hist |-> c.hist, pend |-> c.pend]
        /\ c.tab \in Seq(1..NumBlocks) /\ c.hist \in Seq(Nat) /\ c.pend \in Seq(Int)
    BY ContextFacts DEF Tab
  <1>2. [e EXCEPT !.ctx[s].len = n, !.cell = cell]
        = [e EXCEPT !.ctx[s] = [c EXCEPT !.len = n], !.cell = cell]
    <2> DEFINE d == [e EXCEPT !.ctx[s].len = n]
    <2>1. [e EXCEPT !.ctx[s].len = n, !.cell = cell] = [d EXCEPT !.cell = cell]
      OBVIOUS
    <2>2. d = [e EXCEPT !.ctx[s] = [c EXCEPT !.len = n]]
      BY EngineFacts
    <2> QED BY <2>1, <2>2
  <1> HIDE DEF c
  <1>3. [c EXCEPT !.len = n] = WithLen(c, n)
    BY <1>1 DEF WithLen
  <1>4. [e EXCEPT !.ctx[s] = WithLen(c, n), !.cell = cell] = Replaced(e, s, WithLen(c, n), cell)
    <2> DEFINE w == WithLen(c, n)
    <2> HIDE DEF w
    <2>1. [e EXCEPT !.ctx[s] = w] = Replaced(e, s, w, e.cell)
      BY ReplacedIs
    <2> DEFINE d == [e EXCEPT !.ctx[s] = w]
    <2>2. [e EXCEPT !.ctx[s] = w, !.cell = cell] = [d EXCEPT !.cell = cell]
      OBVIOUS
    <2> HIDE DEF d
    <2>3. d = Replaced(e, s, w, e.cell)
      BY <2>1 DEF d
    <2>4. [d EXCEPT !.cell = cell] = Replaced(e, s, w, cell)
      BY <2>3 DEF Replaced
    <2> QED BY <2>2, <2>4 DEF w
  <1>5. WithLen(c, n) \in Context
    BY <1>1 DEF WithLen, Context
  <1> QED BY <1>2, <1>3, <1>4, <1>5 DEF c, WithRows

\* A text is not junk.
LEMMA NotJunk ==
    ASSUME NEW t \in Seq(Nat)
    PROVE  t # Junk /\ t # NoLogits /\ t \in Seq(Int)
  <1>1. t \in Seq(Int)
    OBVIOUS
  <1>2. ASSUME t = <<-1>> \/ t = <<-2>> PROVE FALSE
    <2>1. Len(t) = 1 /\ (t[1] = -1 \/ t[1] = -2)
      BY <1>2
    <2>2. t[1] \in Nat
      BY <2>1
    <2> QED BY <2>1, <2>2
  <1> QED BY <1>1, <1>2 DEF Junk, NoLogits

\* The rows of g behind those of s change no row of another sequence.
Harmless(e, T, s, g) ==
    \A t \in Live(e) \ {s} : \A k \in DOMAIN Tab(e, s) \cap DOMAIN Tab(e, t) :
        Tab(e, s)[k] = Tab(e, t)[k] =>
            \A p \in Len(T[s])+1..Len(T[s])+Len(g) :
                (k - 1) * BlockSize < p /\ p <= k * BlockSize /\ p <= Len(T[t])
                    => SubSeq(T[t], 1, p) = SubSeq(T[s] \o g, 1, p)

IsWritten(r, e, T, s, g) ==
    /\ Layout(r, Put(T, s, T[s] \o g))
    /\ Live(r) = Live(e)
    /\ r.ctx[s] = WithLen(e.ctx[s], Len(T[s]) + Len(g))
    /\ \A t \in Live(e) \ {s} : r.ctx[t] = e.ctx[t]
    /\ r.count = e.count /\ r.resident = e.resident

\* A write that disturbs nobody's text stores its own.
LEMMA WrittenKeeps ==
    ASSUME NEW e, NEW T, Layout(e, T), NEW s \in Live(e), NEW g \in Seq(Nat),
           Harmless(e, T, s, g), Len(T[s]) + Len(g) <= Len(Tab(e, s)) * BlockSize
    PROVE  IsWritten(Written(e, s, g), e, T, s, g)
  <1> DEFINE tab == Tab(e, s)
             x == T[s]
             len == Len(x)
             n == Len(g)
             y == x \o g
             seen == Seen(e, s)
             row(m) == IF seen = Junk THEN Junk ELSE seen \o SubSeq(g, 1, m)
             home(b, i) == Pos(CHOOSE k \in DOMAIN tab : tab[k] = b, i)
             new(b, i) == IF b \in Range(tab) /\ home(b, i) \in len+1..len+n
                            THEN row(home(b, i) - len) ELSE e.cell[b][i]
             cell == [b \in 1..NumBlocks |-> [i \in 1..BlockSize |-> new(b, i)]]
             c == WithLen(e.ctx[s], len + n)
             r == Replaced(e, s, c, cell)
  <1>1. e \in Engines /\ x \in Seq(Nat) /\ s \in Int /\ e.ctx[s].len = len /\ Distinct(tab)
        /\ Stored(e.cell, tab, x)
    BY EngineFacts DEF Layout
  <1>2. len \in Nat /\ n \in Nat /\ y \in Seq(Nat) /\ Len(y) = len + n
    BY <1>1, Concat
  <1>3. /\ tab \in Seq(1..NumBlocks) /\ Len(tab) \in Nat /\ DOMAIN tab = 1..Len(tab)
        /\ \A k \in DOMAIN tab : k \in Nat \ {0} /\ tab[k] \in 1..NumBlocks
    BY <1>1, ContextFacts
  <1>4. Written(e, s, g) = [e EXCEPT !.ctx[s].len = len + n, !.cell = cell]
    BY <1>1 DEF Written, Tab
  <1>5. r = Written(e, s, g) /\ c \in Context
    <2> DEFINE m == len + n
    <2>1. m \in Nat
      BY <1>2
    <2>2. Written(e, s, g) = [e EXCEPT !.ctx[s].len = m, !.cell = cell]
      BY <1>4
    <2> HIDE DEF cell, m
    <2>3. /\ WithRows(e, s, m, cell) = Replaced(e, s, WithLen(e.ctx[s], m), cell)
          /\ WithLen(e.ctx[s], m) \in Context
      BY <1>1, <2>1, WithLenIs, Zenon
    <2> QED BY <2>2, <2>3 DEF m, WithRows
  <1>6. seen = x /\ x # Junk
    BY <1>1, RowsRead, NotJunk
  <1>7. \A m \in 0..n : row(m) = SubSeq(y, 1, len + m)
    <2> TAKE m \in 0..n
    <2>1. SubSeq(x \o g, 1, Len(x) + m) = x \o SubSeq(g, 1, m)
      <3> HIDE DEF x
      <3> QED BY <1>1, PrefixOfSecond
    <2> HIDE DEF x, seen
    <2> QED BY <2>1, <1>6
  <1>8. \A k \in DOMAIN tab, i \in 1..BlockSize : tab[k] \in Range(tab) /\ home(tab[k], i) = Pos(k, i)
    <2>1. \A k \in DOMAIN tab : (CHOOSE j \in DOMAIN tab : tab[j] = tab[k]) = k
      BY <1>1 DEF Distinct
    <2> QED BY <2>1 DEF Range
  <1>9. \A b \in 1..NumBlocks, i \in 1..BlockSize : cell[b][i] = new(b, i)
    OBVIOUS
  <1>10. \A b \in 1..NumBlocks, i \in 1..BlockSize : b \notin Range(tab) => cell[b][i] = e.cell[b][i]
    BY <1>9
  <1>11. ASSUME NEW k \in DOMAIN tab, NEW i \in 1..BlockSize
         PROVE  cell[tab[k]][i] = IF Pos(k, i) \in len+1..len+n THEN SubSeq(y, 1, Pos(k, i))
                                  ELSE e.cell[tab[k]][i]
    <2>1. cell[tab[k]][i] = IF Pos(k, i) \in len+1..len+n THEN row(Pos(k, i) - len)
                            ELSE e.cell[tab[k]][i]
      BY <1>3, <1>8, <1>9
    <2> DEFINE p == Pos(k, i)
    <2>2. p \in Nat
      BY <1>3, PosWithin
    <2> HIDE DEF p, row
    <2>3. ASSUME p \in len+1..len+n PROVE row(p - len) = SubSeq(y, 1, p)
      <3>1. p - len \in 0..n /\ len + (p - len) = p
        BY <1>2, <2>2, <2>3
      <3> QED BY <3>1, <1>7
    <2> QED BY <2>1, <2>3 DEF p
  <1>12. cell \in [1..NumBlocks -> [1..BlockSize -> Seq(Int)]]
    <2>1. \A b \in 1..NumBlocks, i \in 1..BlockSize : e.cell[b][i] \in Seq(Int)
      BY <1>1, CellType
    <2>2. ASSUME NEW b \in 1..NumBlocks, NEW i \in 1..BlockSize PROVE new(b, i) \in Seq(Int)
      <3>1. CASE b \in Range(tab) /\ home(b, i) \in len+1..len+n
        <4> DEFINE m == home(b, i) - len
        <4> HIDE DEF row, home
        <4>1. m \in 0..n
          BY <3>1, <1>2, SMTT(40)
        <4> HIDE DEF m, y, len, n
        <4>2. row(m) = SubSeq(y, 1, len + m) /\ len + m \in 0..Len(y)
          BY <4>1, <1>2, <1>7
        <4>3. SubSeq(y, 1, len + m) \in Seq(Nat)
          BY <4>2, <1>2, Prefix
        <4>4. row(m) \in Seq(Int)
          BY <4>2, <4>3, NotJunk
        <4> QED BY <3>1, <4>4 DEF m
      <3>2. CASE ~(b \in Range(tab) /\ home(b, i) \in len+1..len+n)
        <4> HIDE DEF row, home
        <4> QED BY <3>2, <2>1
      <3> QED BY <3>1, <3>2
    <2> HIDE DEF new
    <2> QED BY <2>2
  <1> HIDE DEF cell, new, row, home, seen, r, c, tab, x, y, len, n
  <1>13. Stored(cell, tab, y)
    <2>1. Len(y) <= Len(tab) * BlockSize
      BY <1>2 DEF tab, x, n, len
    <2>2. ASSUME NEW k \in DOMAIN tab, NEW i \in 1..BlockSize, Pos(k, i) <= Len(y)
          PROVE  cell[tab[k]][i] = SubSeq(y, 1, Pos(k, i))
      <3> DEFINE p == Pos(k, i)
      <3>1. p \in Nat /\ p <= len + n
        BY <1>2, <1>3, <2>2, PosWithin
      <3>2. CASE p \in len+1..len+n
        BY <3>2, <1>11
      <3>3. CASE p \notin len+1..len+n
        <4>1. p <= len /\ p \in 0..len
          BY <1>2, <3>1, <3>3
        <4>2. e.cell[tab[k]][i] = SubSeq(x, 1, p)
          BY <4>1, <1>1 DEF Stored, len
        <4>3. SubSeq(y, 1, p) = SubSeq(x, 1, p)
          BY <4>1, <1>1, PrefixOfFirst DEF len, y
        <4> QED BY <3>3, <4>2, <4>3, <1>11
      <3> QED BY <3>2, <3>3
    <2> QED BY <2>1, <2>2 DEF Stored
  <1>14. ASSUME NEW t \in Live(e) \ {s}
         PROVE  /\ Stored(cell, Tab(e, t), T[t])
                /\ Aligned(tab, y, Tab(e, t))
                /\ Aligned(Tab(e, t), T[t], tab)
    <2>1. /\ Stored(e.cell, Tab(e, t), T[t]) /\ Aligned(tab, x, Tab(e, t))
          /\ Aligned(Tab(e, t), T[t], tab) /\ T[t] \in Seq(Nat)
      BY DEF Layout, tab, x
    <2>2. \A j \in DOMAIN Tab(e, t) : j \in Nat \ {0} /\ Tab(e, t)[j] \in 1..NumBlocks
      BY <1>1, ContextFacts
    <2>3. Aligned(tab, y, Tab(e, t))
      <3>1. \A k \in DOMAIN tab : (k - 1) * BlockSize < len => (k - 1) * BlockSize < len + n
        BY <1>2, <1>3, BlockSizeType
      <3> QED BY <3>1, <2>1, <1>2 DEF Aligned, len
    <2>4. ASSUME NEW j \in DOMAIN Tab(e, t), NEW i \in 1..BlockSize, Pos(j, i) <= Len(T[t])
          PROVE  cell[Tab(e, t)[j]][i] = SubSeq(T[t], 1, Pos(j, i))
      <3>1. e.cell[Tab(e, t)[j]][i] = SubSeq(T[t], 1, Pos(j, i))
        BY <2>1, <2>4 DEF Stored
      <3>2. CASE Tab(e, t)[j] \notin Range(tab)
        BY <3>1, <3>2, <1>10, <2>2
      <3>3. CASE Tab(e, t)[j] \in Range(tab)
        <4>1. j \in DOMAIN tab /\ tab[j] = Tab(e, t)[j]
          BY <3>3, <2>1 DEF Range, Aligned
        <4>2. cell[tab[j]][i] = IF Pos(j, i) \in len+1..len+n THEN SubSeq(y, 1, Pos(j, i))
                                ELSE e.cell[tab[j]][i]
          BY <4>1, <1>11
        <4>3. ASSUME Pos(j, i) \in len+1..len+n
              PROVE  SubSeq(T[t], 1, Pos(j, i)) = SubSeq(y, 1, Pos(j, i))
          <5>1. (j - 1) * BlockSize < Pos(j, i) /\ Pos(j, i) <= j * BlockSize
            BY <2>2, PosWithin
          <5> QED BY <5>1, <4>1, <4>3, <2>4 DEF Harmless, tab, len, n, y, x
        <4> QED BY <4>1, <4>2, <4>3, <3>1
      <3> QED BY <3>2, <3>3
    <2>5. Len(T[t]) <= Len(Tab(e, t)) * BlockSize
      BY <2>1 DEF Stored
    <2> QED BY <2>1, <2>3, <2>4, <2>5 DEF Stored
  <1>15. c.tab = tab /\ c.len = Len(y)
    BY <1>2 DEF c, WithLen, tab, Tab
  <1>16. Layout(r, Put(T, s, y))
    BY <1>1, <1>2, <1>5, <1>12, <1>13, <1>14, <1>15, ReplacedLayout DEF r
  <1>17. IsReplaced(r, e, s, c, cell)
    BY <1>1, <1>5, <1>12, ReplacedFacts DEF r
  <1>18. IsWritten(r, e, T, s, g)
    BY <1>16, <1>17 DEF IsReplaced, IsWritten, c, y, x, len, n
  <1> QED BY <1>5, <1>18

\* What the sequences decode next, when s went on by g.
LEMMA WrittenSettled ==
    ASSUME NEW e, NEW T, Layout(e, T), NEW s \in Live(e), NEW g \in Seq(Nat),
           NEW r, IsWritten(r, e, T, s, g), Settled(e, T, Live(e) \ {s}),
           \A t \in Live(e) \ {s} : /\ Follows(Tab(e, t), T[t], Tab(e, s), T[s] \o g)
                                    /\ Follows(Tab(e, s), T[s] \o g, Tab(e, t), T[t])
    PROVE  Settled(r, Put(T, s, T[s] \o g), Live(e))
  <1> DEFINE y == T[s] \o g
             U == Put(T, s, y)
  <1>1. T \in [Live(e) -> Seq(Nat)] /\ y \in Seq(Nat)
    BY Concat DEF Layout
  <1> HIDE DEF y
  <1>2. U[s] = y /\ \A t \in Live(e) \ {s} : U[t] = T[t]
    <2>1. IsRetold(U, Live(e), T, s, y)
      BY <1>1, TextsFacts, Zenon
    <2> HIDE DEF U
    <2> QED BY <2>1 DEF IsRetold
  <1> HIDE DEF U
  <1>3. Live(r) = Live(e) /\ \A t \in Live(e) : Tab(r, t) = Tab(e, t)
    BY DEF IsWritten, Tab, WithLen
  <1>4. ASSUME NEW t \in Live(e), NEW u \in Live(e), t # u
        PROVE  Follows(Tab(e, t), U[t], Tab(e, u), U[u])
    <2>1. CASE t = s
      BY <1>2, <1>4, <2>1 DEF y
    <2>2. CASE u = s
      BY <1>2, <1>4, <2>2 DEF y
    <2>3. CASE t # s /\ u # s
      BY <1>2, <1>4, <2>3 DEF Settled
    <2> QED BY <2>1, <2>2, <2>3
  <1> QED BY <1>3, <1>4 DEF Settled, U, y

\* The block a sequence writes next, when it shares it, begins with rows of
\* the other text too: that one begins with its own.
LEMMA SharedPrefix ==
    ASSUME NEW e, NEW T, Layout(e, T), NEW s \in Live(e), NEW t \in Live(e) \ {s},
           NEW k \in DOMAIN Tab(e, s) \cap DOMAIN Tab(e, t), Tab(e, s)[k] = Tab(e, t)[k],
           Len(T[s]) < k * BlockSize, Len(T[s]) <= Len(T[t])
    PROVE  SubSeq(T[t], 1, Len(T[s])) = T[s]
  <1> DEFINE x == T[s]
             z == T[t]
             len == Len(x)
             i == len - (k - 1) * BlockSize
             a == (k - 1) * BlockSize
  <1>1. e \in Engines /\ x \in Seq(Nat) /\ z \in Seq(Nat)
    BY DEF Layout
  <1>2. len \in Nat /\ k \in Nat \ {0}
    <2>1. k \in DOMAIN Tab(e, s)
      OBVIOUS
    <2>2. k \in Nat \ {0}
      BY <1>1, <2>1, ContextFacts, Zenon
    <2> HIDE DEF x
    <2> QED BY <1>1, <2>2
  <1>3. a < len
    BY DEF Layout, Aligned
  <1>4. a \in Int /\ k * BlockSize = a + BlockSize
    BY <1>2, BlockSizeType
  <1> HIDE DEF a, x, z
  <1>5. i \in 1..BlockSize /\ Pos(k, i) = len
    <2>1. i = len - a
      BY DEF a
    <2>2. len < a + BlockSize
      BY <1>4 DEF x
    <2>3. i \in 1..BlockSize
      BY <2>1, <2>2, <1>2, <1>3, <1>4, BlockSizeType
    <2>4. Pos(k, i) = a + i
      BY DEF Pos, a
    <2> QED BY <2>1, <2>3, <2>4, <1>2, <1>4
  <1> HIDE DEF i
  <1>6. e.cell[Tab(e, s)[k]][i] = SubSeq(x, 1, len)
    <2>1. Stored(e.cell, Tab(e, s), x)
      BY DEF Layout, x
    <2> QED BY <2>1, <1>2, <1>5 DEF Stored
  <1>7. e.cell[Tab(e, t)[k]][i] = SubSeq(z, 1, len)
    <2>1. Stored(e.cell, Tab(e, t), z) /\ len <= Len(z)
      BY DEF Layout, z, x
    <2> QED BY <2>1, <1>2, <1>5 DEF Stored
  <1>8. SubSeq(x, 1, len) = x
    BY <1>1, PrefixAll
  <1> QED BY <1>6, <1>7, <1>8 DEF x, z

\* A decode step writes in place what is there already, or nothing is.
LEMMA DecodeWrites ==
    ASSUME NEW e, NEW T, Layout(e, T), Settled(e, T, Live(e)), NEW s \in Live(e), NEW g,
           g = <<Greedy(T[s])>>, Len(T[s]) + 1 <= Len(Tab(e, s)) * BlockSize
    PROVE  /\ IsWritten(Written(e, s, g), e, T, s, g)
           /\ Settled(Written(e, s, g), Put(T, s, T[s] \o g), Live(e))
  <1> DEFINE x == T[s]
             len == Len(x)
             y == x \o g
             tab == Tab(e, s)
             r == Written(e, s, g)
  <1>1. e \in Engines /\ x \in Seq(Nat)
    BY DEF Layout
  <1>2. g \in Seq(Nat) /\ Len(g) = 1 /\ g[1] = Greedy(x)
    BY <1>1, GreedyType
  <1>3. len \in Nat /\ y \in Seq(Nat) /\ Len(y) = len + 1 /\ y[len+1] = Greedy(x)
    BY <1>1, <1>2, Concat
  <1>4. SubSeq(y, 1, len) = x /\ SubSeq(y, 1, len + 1) = y
    <2>1. len \in 0..len
      BY <1>3
    <2>2. SubSeq(y, 1, len) = SubSeq(x, 1, len)
      BY <2>1, <1>1, <1>2, PrefixOfFirst
    <2>3. SubSeq(x, 1, len) = x
      BY <1>1, PrefixAll
    <2> HIDE DEF y
    <2> QED BY <2>2, <2>3, <1>3, PrefixAll
  <1>5. \A p \in 1..len : y[p] = x[p] /\ SubSeq(y, 1, p - 1) = SubSeq(x, 1, p - 1)
    <2> TAKE p \in 1..len
    <2>1. p - 1 \in 0..len
      BY <1>3
    <2>2. SubSeq(y, 1, p - 1) = SubSeq(x, 1, p - 1)
      BY <2>1, <1>1, <1>2, PrefixOfFirst
    <2>3. y[p] = x[p]
      BY <1>1, <1>2, Concat
    <2> QED BY <2>2, <2>3
  <1> HIDE DEF x, y, len, tab
  <1>6. ASSUME NEW t \in Live(e) \ {s}
        PROVE  /\ Follows(Tab(e, t), T[t], tab, x) /\ Follows(tab, x, Tab(e, t), T[t])
               /\ T[t] \in Seq(Nat) /\ Len(T[t]) \in Nat
    <2>1. T[t] \in Seq(Nat)
      BY DEF Layout
    <2> QED BY <2>1 DEF Settled, tab, x
  <1>7. ASSUME NEW t \in Live(e) \ {s}, NEW k \in DOMAIN tab \cap DOMAIN Tab(e, t),
               tab[k] = Tab(e, t)[k], len + 1 <= k * BlockSize, len + 1 <= Len(T[t])
        PROVE  SubSeq(T[t], 1, len + 1) = y
    <2> DEFINE z == T[t]
    <2>1. k \in Nat
      BY <1>1, <1>7, ContextFacts DEF tab
    <2>2. len < k * BlockSize /\ len <= Len(z)
      <3> DEFINE a == k * BlockSize
      <3>1. a \in Int
        BY <2>1, BlockSizeType
      <3>2. len + 1 <= a
        BY <1>7
      <3> HIDE DEF a
      <3>3. len < a
        BY <3>1, <3>2, <1>3
      <3> QED BY <3>3, <1>3, <1>6, <1>7 DEF a
    <2>3. SubSeq(z, 1, len) = x
      BY <2>2, <1>7, SharedPrefix DEF len, x, tab
    <2>4. z[len + 1] = Greedy(SubSeq(z, 1, len))
      <3>1. len + 1 \in len+1..Len(z) /\ (len + 1) - 1 = len
        BY <1>3, <1>6, <1>7
      <3>2. Follows(tab, x, Tab(e, t), z)
        BY <1>6
      <3> HIDE DEF z
      <3>3. z[len+1] = Greedy(SubSeq(z, 1, (len + 1) - 1))
        BY <3>1, <3>2, <1>7 DEF Follows, len
      <3> QED BY <3>1, <3>3
    <2>5. z \in Seq(Nat) /\ Len(z) \in Nat /\ len + 1 \in 0..Len(z)
      BY <1>3, <1>6, <1>7
    <2> DEFINE w == SubSeq(z, 1, len + 1)
    <2>6. w \in Seq(Nat) /\ Len(w) = len + 1 /\ \A p \in 1..len+1 : w[p] = z[p]
      <3> DEFINE m == len + 1
      <3> HIDE DEF z, m
      <3>1. SubSeq(z, 1, m) \in Seq(Nat) /\ Len(SubSeq(z, 1, m)) = m
            /\ \A p \in 1..m : SubSeq(z, 1, m)[p] = z[p]
        BY <2>5, Prefix DEF m
      <3> QED BY <3>1 DEF m
    <2> HIDE DEF w, z
    <2>7. \A p \in 1..len+1 : w[p] = y[p]
      <3> TAKE p \in 1..len+1
      <3>1. CASE p = len + 1
        BY <3>1, <2>3, <2>4, <2>6, <1>3
      <3>2. CASE p # len + 1
        <4>1. p \in 1..len
          BY <3>2, <1>3
        <4>2. SubSeq(z, 1, len)[p] = z[p]
          <5>1. len \in 0..Len(z)
            BY <1>3, <2>5
          <5> QED BY <4>1, <5>1, <2>5, Prefix
        <4> QED BY <4>1, <4>2, <2>3, <2>6, <1>5
      <3> QED BY <3>1, <3>2
    <2>8. w = y
      BY <2>6, <2>7, <1>3, SeqEqual
    <2> QED BY <2>8 DEF w, z
  <1>8. Harmless(e, T, s, g)
    <2> SUFFICES ASSUME NEW t \in Live(e) \ {s}, NEW k \in DOMAIN tab \cap DOMAIN Tab(e, t),
                        tab[k] = Tab(e, t)[k], NEW p \in len+1..len+1,
                        p <= k * BlockSize, p <= Len(T[t])
                 PROVE  SubSeq(T[t], 1, p) = SubSeq(y, 1, p)
      BY <1>2 DEF Harmless, tab, len, x, y
    <2>1. p = len + 1
      BY <1>3
    <2> QED BY <2>1, <1>4, <1>7
  <1>9. IsWritten(r, e, T, s, g)
    BY <1>2, <1>8, WrittenKeeps DEF len, x, tab
  <1>10. ASSUME NEW t \in Live(e) \ {s} PROVE Follows(tab, y, Tab(e, t), T[t])
    <2> SUFFICES ASSUME NEW k \in DOMAIN tab \cap DOMAIN Tab(e, t), tab[k] = Tab(e, t)[k],
                        NEW p \in Len(y)+1..Len(T[t]), p <= k * BlockSize
                 PROVE  T[t][p] = Greedy(SubSeq(T[t], 1, p - 1))
      BY DEF Follows
    <2>1. p \in len+1..Len(T[t])
      BY <1>3, <1>6
    <2> QED BY <2>1, <1>6 DEF Follows, len
  <1>11. ASSUME NEW t \in Live(e) \ {s} PROVE Follows(Tab(e, t), T[t], tab, y)
    <2> SUFFICES ASSUME NEW k \in DOMAIN tab \cap DOMAIN Tab(e, t), tab[k] = Tab(e, t)[k],
                        NEW p \in Len(T[t])+1..Len(y), p <= k * BlockSize
                 PROVE  y[p] = Greedy(SubSeq(y, 1, p - 1))
      BY DEF Follows
    <2>1. CASE p = len + 1
      <3>1. p - 1 = len
        BY <2>1, <1>3
      <3> QED BY <2>1, <3>1, <1>3, <1>4
    <2>2. CASE p # len + 1
      <3>1. p \in 1..len /\ p \in Len(T[t])+1..len
        BY <2>2, <1>3, <1>6
      <3>2. x[p] = Greedy(SubSeq(x, 1, p - 1))
        BY <3>1, <1>6 DEF Follows, len
      <3> QED BY <3>1, <3>2, <1>5
    <2> QED BY <2>1, <2>2
  <1>12. Settled(e, T, Live(e) \ {s})
    BY DEF Settled
  <1> HIDE DEF r
  <1>13. Settled(r, Put(T, s, T[s] \o g), Live(e))
    BY <1>2, <1>9, <1>10, <1>11, <1>12, WrittenSettled DEF tab, y, x
  <1> QED BY <1>9, <1>13 DEF r

\* What is written into them changes nothing for the others.
LEMMA PrivateWrites ==
    ASSUME NEW e, NEW T, Layout(e, T), NEW s \in Live(e), NEW g \in Seq(Nat),
           Settled(e, T, Live(e) \ {s}), Private(e, s, Len(T[s])),
           Len(T[s]) + Len(g) <= Len(Tab(e, s)) * BlockSize
    PROVE  /\ IsWritten(Written(e, s, g), e, T, s, g)
           /\ Settled(Written(e, s, g), Put(T, s, T[s] \o g), Live(e))
  <1> DEFINE x == T[s]
             len == Len(x)
             y == x \o g
             tab == Tab(e, s)
             r == Written(e, s, g)
  <1>1. e \in Engines /\ x \in Seq(Nat)
    BY DEF Layout
  <1>2. len \in Nat /\ y \in Seq(Nat) /\ Len(y) = len + Len(g) /\ Len(g) \in Nat
    BY <1>1, Concat
  <1>3. \A p \in 1..len : y[p] = x[p] /\ SubSeq(y, 1, p - 1) = SubSeq(x, 1, p - 1)
    <2> TAKE p \in 1..len
    <2>1. p - 1 \in 0..len
      BY <1>2
    <2>2. SubSeq(y, 1, p - 1) = SubSeq(x, 1, p - 1)
      BY <2>1, <1>1, PrefixOfFirst
    <2>3. y[p] = x[p]
      BY <1>1, Concat
    <2> QED BY <2>2, <2>3
  <1> HIDE DEF x, y, len, tab
  <1>4. ASSUME NEW t \in Live(e) \ {s}, NEW k \in DOMAIN tab \cap DOMAIN Tab(e, t),
               tab[k] = Tab(e, t)[k], NEW p \in Nat, p <= k * BlockSize
        PROVE  p <= len
    <2>1. k * BlockSize <= len
      BY <1>4 DEF Private, tab, len, x
    <2>2. k \in Nat
      BY <1>1, ContextFacts DEF tab
    <2> DEFINE a == k * BlockSize
    <2>3. a \in Int
      BY <2>2, BlockSizeType
    <2>4. p <= a /\ a <= len
      BY <2>1, <1>4
    <2> HIDE DEF a
    <2> QED BY <2>3, <2>4, <1>2
  <1>5. Harmless(e, T, s, g)
    <2> SUFFICES ASSUME NEW t \in Live(e) \ {s}, NEW k \in DOMAIN tab \cap DOMAIN Tab(e, t),
                        tab[k] = Tab(e, t)[k], NEW p \in len+1..len+Len(g), p <= k * BlockSize
                 PROVE  FALSE
      BY DEF Harmless, tab, len, x, y
    <2>1. p \in Nat /\ p > len
      BY <1>2, SMTT(40)
    <2> QED BY <2>1, <1>4, <1>2
  <1>6. IsWritten(r, e, T, s, g)
    BY <1>5, WrittenKeeps DEF len, x, tab
  <1>7. ASSUME NEW t \in Live(e) \ {s} PROVE Follows(tab, y, Tab(e, t), T[t])
    <2> SUFFICES ASSUME NEW k \in DOMAIN tab \cap DOMAIN Tab(e, t), tab[k] = Tab(e, t)[k],
                        NEW p \in Len(y)+1..Len(T[t]), p <= k * BlockSize
                 PROVE  FALSE
      BY DEF Follows
    <2>1. p \in Nat /\ p > len
      BY <1>2
    <2> QED BY <2>1, <1>4, <1>2
  <1>8. ASSUME NEW t \in Live(e) \ {s} PROVE Follows(Tab(e, t), T[t], tab, y)
    <2> SUFFICES ASSUME NEW k \in DOMAIN tab \cap DOMAIN Tab(e, t), tab[k] = Tab(e, t)[k],
                        NEW p \in Len(T[t])+1..Len(y), p <= k * BlockSize
                 PROVE  y[p] = Greedy(SubSeq(y, 1, p - 1))
      BY DEF Follows
    <2>1. T[t] \in Seq(Nat)
      BY DEF Layout
    <2>2. p \in Nat \ {0} /\ p > Len(T[t]) /\ Len(T[t]) \in Nat
      <3>1. Len(T[t]) \in Nat /\ Len(y) \in Nat
        BY <1>2, <2>1
      <3> DEFINE z == Len(T[t])
      <3>2. p \in z+1..Len(y) /\ z \in Nat
        BY <3>1
      <3> HIDE DEF z
      <3>3. p \in Nat \ {0} /\ p > z
        BY <3>1, <3>2
      <3> QED BY <3>2, <3>3 DEF z
    <2>3. p \in 1..len /\ p \in Len(T[t])+1..len
      BY <2>2, <1>4, <1>2
    <2>4. Follows(Tab(e, t), T[t], tab, x)
      BY DEF Settled, tab, x
    <2>5. x[p] = Greedy(SubSeq(x, 1, p - 1))
      BY <2>3, <2>4 DEF Follows, len
    <2> QED BY <2>3, <2>5, <1>3
  <1> HIDE DEF r
  <1>9. Settled(r, Put(T, s, T[s] \o g), Live(e))
    BY <1>6, <1>7, <1>8, WrittenSettled DEF tab, y, x
  <1> QED BY <1>6, <1>9 DEF r

\* Every block behind the one written next is its own, as a shared one begins
\* with a row of its text.
LEMMA OwnBehind ==
    ASSUME NEW e, NEW T, Layout(e, T), NEW s \in Live(e), NEW i \in Nat,
           i = Len(T[s]) \div BlockSize + 1,
           i \in DOMAIN Tab(e, s) => Held(e, Tab(e, s)[i]) = {s}
    PROVE  Private(e, s, Len(T[s]))
  <1> DEFINE len == Len(T[s])
             d == len \div BlockSize
  <1>1. e \in Engines /\ T[s] \in Seq(Nat)
    BY DEF Layout
  <1>2. len \in Nat
    BY <1>1
  <1>3. d \in Nat /\ d * BlockSize <= len /\ len < (d + 1) * BlockSize
    <2>1. d \in Int /\ d >= 0 /\ len = BlockSize * d + (len % BlockSize)
          /\ len % BlockSize \in 0..BlockSize-1
      <3> HIDE DEF len
      <3> QED BY <1>2, BlockSizeType
    <2>2. BlockSize * d = d * BlockSize /\ (d + 1) * BlockSize = d * BlockSize + BlockSize
          /\ d * BlockSize \in Int
      <3> HIDE DEF d
      <3> QED BY <2>1, BlockSizeType
    <2> HIDE DEF d, len
    <2> DEFINE a == d * BlockSize
               z == len % BlockSize
    <2>3. len = a + z /\ z \in 0..BlockSize-1 /\ (d + 1) * BlockSize = a + BlockSize /\ a \in Int
      BY <2>1, <2>2
    <2>4. a <= len /\ len < (d + 1) * BlockSize
      <3> HIDE DEF a, z
      <3> QED BY <2>3, BlockSizeType
    <2> QED BY <2>1, <2>4
  <1>4. i = d + 1
    OBVIOUS
  <1> HIDE DEF d, len
  <1> SUFFICES ASSUME NEW t \in Live(e) \ {s}, NEW k \in DOMAIN Tab(e, s),
                      NEW j \in DOMAIN Tab(e, t), Tab(e, s)[k] = Tab(e, t)[j]
               PROVE  k * BlockSize <= len
    BY DEF Private, len
  <1>5. k = j /\ (k - 1) * BlockSize < len
    BY DEF Layout, Aligned, len
  <1>6. k \in Nat \ {0}
    BY <1>1, ContextFacts
  <1>7. k # i
    <2> SUFFICES ASSUME k = i PROVE FALSE
      OBVIOUS
    <2>1. Tab(e, s)[i] \in Range(e.ctx[t].tab)
      BY DEF Range, Tab
    <2>2. t \in Held(e, Tab(e, s)[i])
      BY <2>1 DEF Held
    <2> QED BY <2>2
  <1>8. k <= d
    <2> SUFFICES ASSUME d + 1 < k PROVE FALSE
      BY <1>3, <1>4, <1>6, <1>7
    <2>1. (d + 1) * BlockSize <= (k - 1) * BlockSize /\ (d + 1) * BlockSize \in Int
      BY <1>3, <1>6, BlocksInOrder
    <2>2. (k - 1) * BlockSize \in Int
      BY <1>6, BlockSizeType
    <2> QED BY <2>1, <2>2, <1>2, <1>3, <1>5
  <1>9. k * BlockSize <= d * BlockSize /\ k * BlockSize \in Int /\ d * BlockSize \in Int
    BY <1>3, <1>6, <1>8, MoreBlocks
  <1> QED BY <1>9, <1>2, <1>3

\* The block s writes next is copied when another sequence has it.
IsOwned(r, e, T, s) ==
    /\ Layout(r.e, T)
    /\ Settled(e, T, Live(e) \ {s}) => Settled(r.e, T, Live(e) \ {s})
    /\ Live(r.e) = Live(e)
    /\ r.e.ctx[s] = WithTab(e.ctx[s], Tab(r.e, s))
    /\ \A t \in Live(e) \ {s} : r.e.ctx[t] = e.ctx[t]
    /\ r.e.count = e.count /\ r.e.resident = e.resident
    /\ Len(Tab(r.e, s)) = Len(Tab(e, s))
    /\ r.ok \in BOOLEAN
    /\ r.ok => Private(r.e, s, Len(T[s]))

\* A block of a table is another one, with these rows.
WithCopy(e, s, i, b, rows) == [e EXCEPT !.cell[b] = rows, !.ctx[s].tab[i] = b]

\* The code's copy of a block, as a replacement.
LEMMA WithCopyIs ==
    ASSUME NEW e \in Engines, NEW s \in Live(e), NEW b \in 1..NumBlocks, NEW rows,
           NEW i \in DOMAIN Tab(e, s)
    PROVE  WithCopy(e, s, i, b, rows)
           = Replaced(e, s, WithTab(e.ctx[s], [Tab(e, s) EXCEPT ![i] = b]),
                      [e.cell EXCEPT ![b] = rows])
  <1> DEFINE d == [e EXCEPT !.cell[b] = rows]
             cell == [e.cell EXCEPT ![b] = rows]
             c == e.ctx[s]
             tab == [c.tab EXCEPT ![i] = b]
             f == [e.ctx EXCEPT ![s] = WithTab(c, tab)]
  <1>1. [e EXCEPT !.cell[b] = rows, !.ctx[s].tab[i] = b] = [d EXCEPT !.ctx[s].tab[i] = b]
    OBVIOUS
  <1>2. e = [ctx |-> e.ctx, cell |-> e.cell, count |-> e.count, resident |-> e.resident]
    BY EngineFacts
  <1>3. d = [ctx |-> e.ctx, cell |-> cell, count |-> e.count, resident |-> e.resident]
    BY <1>2
  <1>4. c = [tab |-> c.tab, len |-> c.len, hist |-> c.hist, pend |-> c.pend]
    BY ContextFacts
  <1> HIDE DEF d, cell
  <1>5. [d EXCEPT !.ctx[s].tab[i] = b] = [d EXCEPT !.ctx[s] = [c EXCEPT !.tab = tab]]
    BY <1>3
  <1>6. [c EXCEPT !.tab = tab] = WithTab(c, tab)
    <2> HIDE DEF tab, c
    <2> QED BY <1>4 DEF WithTab
  <1>7. [d EXCEPT !.ctx[s] = WithTab(c, tab)] = [d EXCEPT !.ctx = f]
    BY <1>3
  <1>8. f = Put(e.ctx, s, WithTab(c, tab))
    <2> DEFINE w == WithTab(c, tab)
    <2> HIDE DEF w
    <2>1. [e EXCEPT !.ctx[s] = w] = Replaced(e, s, w, e.cell)
      BY ReplacedIs
    <2>2. [e EXCEPT !.ctx[s] = w].ctx = [e.ctx EXCEPT ![s] = w]
      BY <1>2
    <2> QED BY <2>1, <2>2 DEF Replaced, w
  <1> HIDE DEF f
  <1>9. [d EXCEPT !.ctx = f]
        = [ctx |-> f, cell |-> cell, count |-> e.count, resident |-> e.resident]
    BY <1>3
  <1> QED BY <1>1, <1>5, <1>6, <1>7, <1>8, <1>9 DEF Replaced, cell, Tab, WithCopy

\* After CopyOnWrite the block written next is the sequence's own.
LEMMA CopyOnWriteOwns ==
    ASSUME NEW e, NEW T, Layout(e, T), NEW s \in Live(e),
           Len(T[s]) < Len(Tab(e, s)) * BlockSize
    PROVE  IsOwned(CopyOnWrite(e, s), e, T, s)
  <1> DEFINE x == T[s]
             len == Len(x)
             tab == Tab(e, s)
             i == len \div BlockSize + 1
             b == tab[i]
             new == Claim(e, 1)[1]
             r == CopyOnWrite(e, s)
  <1>1. /\ e \in Engines /\ T \in [Live(e) -> Seq(Nat)] /\ x \in Seq(Nat) /\ s \in Int
        /\ e.ctx[s].len = len
    BY EngineFacts DEF Layout
  <1>2. len \in Nat
    BY <1>1
  <1>3. /\ tab \in Seq(1..NumBlocks) /\ Len(tab) \in Nat /\ DOMAIN tab = 1..Len(tab)
        /\ \A k \in DOMAIN tab : k \in Nat \ {0} /\ tab[k] \in 1..NumBlocks
    BY <1>1, ContextFacts
  <1>4. i \in DOMAIN tab /\ i \in Nat
    <2> DEFINE d == len \div BlockSize
    <2> HIDE DEF len
    <2>1. d \in Int /\ d >= 0 /\ len = BlockSize * d + (len % BlockSize)
          /\ len % BlockSize \in 0..BlockSize-1
      BY <1>2, BlockSizeType
    <2>2. BlockSize * d = d * BlockSize /\ d * BlockSize \in Int
      <3> HIDE DEF d
      <3> QED BY <2>1, BlockSizeType
    <2>3. i = d + 1
      OBVIOUS
    <2> HIDE DEF d, i
    <2>4. d * BlockSize <= len
      BY <2>1, <2>2, BlockSizeType
    <2>5. ASSUME Len(tab) <= d PROVE FALSE
      <3> DEFINE n == Len(tab)
                 a == n * BlockSize
      <3>1. n * BlockSize <= d * BlockSize /\ a \in Int
        BY <2>1, <2>5, <1>3, MoreBlocks
      <3>2. len < a /\ a <= d * BlockSize
        BY <3>1 DEF len
      <3> HIDE DEF a
      <3> QED BY <3>1, <3>2, <2>2, <2>4, <1>2
    <2>6. i \in 1..Len(tab)
      BY <2>1, <2>3, <2>5, <1>3
    <2> QED BY <2>1, <2>3, <2>6, <1>3
  <1>5. r = IF Held(e, b) = {s} THEN Done(e)
            ELSE IF ~CanClaim(e, 1) THEN Raised(e)
            ELSE Done([e EXCEPT !.cell[new] = e.cell[b], !.ctx[s].tab[i] = new])
    BY <1>1 DEF CopyOnWrite, Tab
  <1>6. e.ctx[s] = WithTab(e.ctx[s], tab)
    BY <1>1, ContextFacts DEF WithTab, Tab
  <1>7. i = Len(T[s]) \div BlockSize + 1
    OBVIOUS
  <1> HIDE DEF r, x, len, i
  <1>8. CASE Held(e, b) = {s}
    <2>1. r.e = e /\ r.ok = TRUE
      BY <1>5, <1>8 DEF Done
    <2>2. Private(e, s, Len(T[s]))
      BY <1>4, <1>7, <1>8, OwnBehind
    <2>3. IsOwned(r, e, T, s)
      BY <2>1, <2>2, <1>6 DEF IsOwned
    <2> QED BY <2>3 DEF r
  <1>9. CASE Held(e, b) # {s} /\ ~CanClaim(e, 1)
    <2>1. r.e = e /\ r.ok = FALSE
      BY <1>5, <1>9 DEF Raised
    <2>2. IsOwned(r, e, T, s)
      BY <2>1, <1>6 DEF IsOwned
    <2> QED BY <2>2 DEF r
  <1>10. CASE Held(e, b) # {s} /\ CanClaim(e, 1)
    <2> DEFINE d == [e EXCEPT !.cell[new] = e.cell[b], !.ctx[s].tab[i] = new]
               owned == [tab EXCEPT ![i] = new]
               cell == [e.cell EXCEPT ![new] = e.cell[b]]
               c == WithTab(e.ctx[s], owned)
    <2>1. r.e = d /\ r.ok = TRUE
      BY <1>5, <1>10 DEF Done
    <2>2. /\ new \in 1..NumBlocks
          /\ \A t \in Live(e) : \A j \in DOMAIN Tab(e, t) : new # Tab(e, t)[j]
      <3> DEFINE one == 1
                 claim == Claim(e, one)
      <3>1. one \in Nat /\ one = 1
        OBVIOUS
      <3> HIDE DEF one
      <3>2. Fresh(e, claim) /\ Len(claim) = one
        BY <3>1, <1>1, <1>10, ClaimIsFresh
      <3>3. new = claim[1]
        BY <3>1
      <3> HIDE DEF claim, new
      <3>4. claim \in Seq(1..NumBlocks)
        BY <3>2 DEF Fresh
      <3>5. 1 \in DOMAIN claim /\ claim[1] \in 1..NumBlocks
        <4>1. DOMAIN claim = 1..Len(claim) /\ \A j \in 1..Len(claim) : claim[j] \in 1..NumBlocks
          BY <3>4, SeqFacts, Zenon
        <4> QED BY <3>1, <3>2, <4>1
      <3> QED BY <3>2, <3>3, <3>5 DEF Fresh
    <2> HIDE DEF new
    <2>3. d = Replaced(e, s, c, cell)
      <3> DEFINE rows == e.cell[b]
      <3> HIDE DEF rows
      <3>1. WithCopy(e, s, i, new, rows)
            = Replaced(e, s, WithTab(e.ctx[s], [Tab(e, s) EXCEPT ![i] = new]),
                       [e.cell EXCEPT ![new] = rows])
        <4> HIDE DEF c, cell
        <4> QED BY <1>1, <1>4, <2>2, WithCopyIs, ZenonT(40)
      <3> QED BY <3>1 DEF rows, WithCopy
    <2>4. /\ owned \in Seq(1..NumBlocks) /\ Len(owned) = Len(tab) /\ DOMAIN owned = DOMAIN tab
          /\ owned[i] = new /\ \A k \in DOMAIN tab : k # i => owned[k] = tab[k]
      <3> HIDE DEF tab
      <3> QED BY <1>3, <1>4, <2>2
    <2>5. /\ e.cell \in [1..NumBlocks -> [1..BlockSize -> Seq(Int)]]
          /\ b \in 1..NumBlocks
      BY <1>1, <1>3, <1>4, EngineFacts
    <2>6. /\ cell \in [1..NumBlocks -> [1..BlockSize -> Seq(Int)]]
          /\ cell[new] = e.cell[b] /\ \A a \in 1..NumBlocks : a # new => cell[a] = e.cell[a]
      BY <2>2, <2>5
    <2>7. c \in Context /\ c.tab = owned /\ c.len = len
      <3> HIDE DEF owned
      <3>1. c \in Context
        BY <1>1, <2>4, WithTabIs
      <3> QED BY <3>1, <1>1 DEF WithTab
    <2> HIDE DEF d, owned, cell, c
    <2>8. Distinct(tab) /\ Stored(e.cell, tab, x)
      BY DEF Layout, x
    <2>9. \A k \in DOMAIN tab : tab[k] # new
      BY <2>2
    <2>10. Distinct(owned)
      <3> SUFFICES ASSUME NEW k \in DOMAIN tab, NEW j \in DOMAIN tab, owned[k] = owned[j]
                   PROVE  k = j
        BY <2>4 DEF Distinct
      <3>1. CASE k = i \/ j = i
        BY <3>1, <2>4, <2>9
      <3>2. CASE k # i /\ j # i
        BY <3>2, <2>4, <2>8 DEF Distinct
      <3> QED BY <3>1, <3>2
    <2>11. Stored(cell, owned, x)
      <3>1. \A k \in DOMAIN tab : cell[owned[k]] = e.cell[tab[k]]
        <4> TAKE k \in DOMAIN tab
        <4>1. CASE k = i
          BY <4>1, <2>4, <2>6
        <4>2. CASE k # i
          BY <4>2, <2>4, <2>6, <2>9, <1>3
        <4> QED BY <4>1, <4>2
      <3> QED BY <3>1, <2>4, <2>8 DEF Stored
    <2>12. ASSUME NEW t \in Live(e) \ {s}
           PROVE  /\ Stored(cell, Tab(e, t), T[t])
                  /\ Aligned(owned, x, Tab(e, t)) /\ Aligned(Tab(e, t), T[t], owned)
      <3>1. /\ Stored(e.cell, Tab(e, t), T[t]) /\ Aligned(tab, x, Tab(e, t))
            /\ Aligned(Tab(e, t), T[t], tab)
        BY DEF Layout, x
      <3>2. \A j \in DOMAIN Tab(e, t) : Tab(e, t)[j] \in 1..NumBlocks /\ Tab(e, t)[j] # new
        BY <1>1, <2>2, ContextFacts
      <3>3. \A j \in DOMAIN Tab(e, t) : cell[Tab(e, t)[j]] = e.cell[Tab(e, t)[j]]
        BY <3>2, <2>6
      <3>4. Stored(cell, Tab(e, t), T[t])
        BY <3>1, <3>3 DEF Stored
      <3>5. \A k \in DOMAIN tab, j \in DOMAIN Tab(e, t) :
                owned[k] = Tab(e, t)[j] => tab[k] = Tab(e, t)[j]
        BY <3>2, <2>4
      <3>6. Aligned(owned, x, Tab(e, t)) /\ Aligned(Tab(e, t), T[t], owned)
        BY <3>1, <3>5, <2>4 DEF Aligned
      <3> QED BY <3>4, <3>6
    <2>13. Put(T, s, x) = T
      BY <1>1, PutSame DEF x
    <2>14. Layout(Replaced(e, s, c, cell), Put(T, s, x))
      BY <1>1, <2>6, <2>7, <2>10, <2>11, <2>12, ReplacedLayout DEF len
    <2>15. Layout(d, T)
      BY <2>3, <2>13, <2>14
    <2>16. ASSUME Settled(e, T, Live(e) \ {s}) PROVE Settled(d, T, Live(e) \ {s})
      <3> DEFINE S == Live(e) \ {s}
      <3>1. S \ {s} = S /\ S \subseteq Live(e) \cup {s} /\ s \notin S
        OBVIOUS
      <3>2. ASSUME NEW t \in Live(e) \ {s} PROVE Follows(Tab(e, t), T[t], owned, x)
        <4>1. Follows(Tab(e, t), T[t], tab, x)
          BY <2>16 DEF Settled, x
        <4>2. \A k \in DOMAIN Tab(e, t) \cap DOMAIN owned :
                  Tab(e, t)[k] = owned[k] => k \in DOMAIN tab /\ Tab(e, t)[k] = tab[k]
          BY <2>2, <2>4
        <4> QED BY <4>1, <4>2 DEF Follows
      <3> HIDE DEF S
      <3>3. Settled(e, T, S)
        BY <2>16 DEF S
      <3>4. Settled(Replaced(e, s, c, cell), Put(T, s, x), S)
        BY <1>1, <2>6, <2>7, <3>1, <3>2, <3>3, ReplacedSettled
      <3> QED BY <3>4, <2>3, <2>13 DEF S
    <2>17. IsReplaced(d, e, s, c, cell)
      BY <1>1, <2>3, <2>6, <2>7, ReplacedFacts
    <2>18. Private(d, s, Len(T[s]))
      <3>1. Live(d) = Live(e)
        BY <2>17 DEF IsReplaced
      <3>2. Tab(d, s) = owned /\ \A t \in Live(e) \ {s} : Tab(d, t) = Tab(e, t)
        BY <2>7, <2>17 DEF IsReplaced
      <3>3. Held(d, new) = {s}
        <4>1. new \in Range(d.ctx[s].tab)
          BY <3>2, <2>4, <1>4 DEF Tab, Range
        <4>2. \A t \in Live(e) \ {s} : new \notin Range(d.ctx[t].tab)
          BY <3>2, <2>2 DEF Tab, Range
        <4> QED BY <3>1, <4>1, <4>2 DEF Held
      <3>4. i \in DOMAIN Tab(d, s) => Held(d, Tab(d, s)[i]) = {s}
        BY <3>2, <3>3, <2>4
      <3>5. s \in Live(d)
        BY <3>1
      <3> QED BY <3>4, <3>5, <2>15, <1>4, <1>7, OwnBehind
    <2>19. IsOwned(r, e, T, s)
      <3>1. d.ctx[s] = WithTab(e.ctx[s], Tab(d, s)) /\ Len(Tab(d, s)) = Len(tab)
        BY <2>4, <2>7, <2>17 DEF IsReplaced, c
      <3> QED BY <3>1, <2>1, <2>15, <2>16, <2>17, <2>18 DEF IsOwned, IsReplaced
    <2> QED BY <2>19 DEF r
  <1> QED BY <1>8, <1>9, <1>10

-------------------------------------------------------------------------------
(* Sequences come into being. *)

\* A new context, as a replacement.
LEMMA NewIs ==
    ASSUME NEW e \in Engines, NEW s, NEW c
    PROVE  [e EXCEPT !.ctx = Put(@, s, c)] = Replaced(e, s, c, e.cell)
  <1> DEFINE f == Put(e.ctx, s, c)
  <1>1. e = [ctx |-> e.ctx, cell |-> e.cell, count |-> e.count, resident |-> e.resident]
    BY EngineRecord
  <1>2. [e EXCEPT !.ctx = Put(@, s, c)] = [e EXCEPT !.ctx = f]
    OBVIOUS
  <1> HIDE DEF f
  <1>3. [e EXCEPT !.ctx = f]
        = [ctx |-> f, cell |-> e.cell, count |-> e.count, resident |-> e.resident]
    BY <1>1
  <1> QED BY <1>2, <1>3 DEF Replaced, f

\* A table of blocks that nobody else has.
IsAllocated(r, e, T, s, n) ==
    /\ r.ok \in BOOLEAN
    /\ ~r.ok => r.e = e
    /\ r.ok => /\ s \notin Live(e)
               /\ Layout(r.e, Put(T, s, <<>>))
               /\ Settled(e, T, Live(e)) => Settled(r.e, Put(T, s, <<>>), Live(e) \cup {s})
               /\ Live(r.e) = Live(e) \cup {s}
               /\ \A t \in Live(e) : r.e.ctx[t] = e.ctx[t]
               /\ r.e.count = e.count /\ r.e.resident = e.resident
               /\ r.e.ctx[s].hist = <<>>
               /\ n <= Len(Tab(r.e, s)) * BlockSize
               /\ Private(r.e, s, 0)

\* Allocate makes an empty sequence in blocks of its own, or nothing.
LEMMA AllocateMakes ==
    ASSUME NEW e, NEW T, Layout(e, T), NEW s \in Int, NEW n \in Nat
    PROVE  IsAllocated(Allocate(e, s, n), e, T, s, n)
  <1> DEFINE m == BlocksFor(n)
             tab == Claim(e, m)
             c == [tab |-> tab, len |-> 0, hist |-> <<>>, pend |-> NoLogits]
             r == Allocate(e, s, n)
             none == <<>>
  <1>1. e \in Engines /\ T \in [Live(e) -> Seq(Nat)]
    BY DEF Layout
  <1>2. r = IF s \in Live(e) \/ ~CanClaim(e, m) THEN Raised(e)
            ELSE Done([e EXCEPT !.ctx = Put(@, s, c)])
    BY DEF Allocate
  <1>3. m \in Nat /\ n <= m * BlockSize
    BY BlocksForEnough
  <1>4. none \in Seq(Nat) /\ Len(none) = 0
    OBVIOUS
  <1> HIDE DEF r, m, c
  <1>5. CASE s \in Live(e) \/ ~CanClaim(e, m)
    <2>1. r.e = e /\ r.ok = FALSE
      BY <1>2, <1>5 DEF Raised
    <2> QED BY <2>1 DEF IsAllocated, r
  <1>6. CASE s \notin Live(e) /\ CanClaim(e, m)
    <2> DEFINE d == Replaced(e, s, c, e.cell)
               U == Put(T, s, none)
    <2>1. r = [e |-> d, ok |-> TRUE]
      BY <1>1, <1>2, <1>6, NewIs DEF Done
    <2>2. Fresh(e, tab) /\ Len(tab) = m
      BY <1>1, <1>3, <1>6, ClaimIsFresh
    <2> HIDE DEF tab
    <2>3. c \in Context /\ c.tab = tab /\ c.len = 0 /\ c.hist = none /\ tab \in Seq(1..NumBlocks)
      BY <2>2 DEF Fresh, Context, c, NoLogits, tab
    <2>4. DOMAIN tab = 1..m /\ \A k \in DOMAIN tab : k \in Nat \ {0}
      <3>1. DOMAIN tab = 1..Len(tab)
        BY <2>3, SeqFacts, Zenon
      <3> QED BY <3>1, <2>2, <1>3
    <2>5. Distinct(tab) /\ \A t \in Live(e) : \A k \in DOMAIN tab, j \in DOMAIN Tab(e, t) :
                               tab[k] # Tab(e, t)[j]
      BY <2>2 DEF Fresh
    <2>6. Stored(e.cell, tab, none)
      <3>1. \A k \in DOMAIN tab, i \in 1..BlockSize : ~(Pos(k, i) <= 0)
        <4> TAKE k \in DOMAIN tab, i \in 1..BlockSize
        <4>1. Pos(k, i) \in Nat \ {0}
          BY <2>4, PosWithin
        <4> QED BY <4>1
      <3>2. 0 <= Len(tab) * BlockSize
        BY <2>2, <1>3, BlockSizeType
      <3> HIDE DEF none
      <3> QED BY <3>1, <3>2, <1>4 DEF Stored
    <2>7. e.cell \in [1..NumBlocks -> [1..BlockSize -> Seq(Int)]]
      BY <1>1, EngineFacts
    <2>8. \A t \in Live(e) \ {s} : /\ Stored(e.cell, Tab(e, t), T[t])
                                   /\ Aligned(tab, none, Tab(e, t))
                                   /\ Aligned(Tab(e, t), T[t], tab)
      <3>1. \A t \in Live(e) : Stored(e.cell, Tab(e, t), T[t])
        BY DEF Layout
      <3> QED BY <2>5, <3>1 DEF Aligned
    <2> HIDE DEF none
    <2>9. Layout(d, U)
      BY <1>4, <2>3, <2>5, <2>6, <2>7, <2>8, ReplacedLayout
    <2>10. ASSUME Settled(e, T, Live(e)) PROVE Settled(d, U, Live(e) \cup {s})
      <3> DEFINE S == Live(e) \cup {s}
      <3>1. Settled(e, T, S \ {s}) /\ S \subseteq Live(e) \cup {s}
        BY <2>10 DEF Settled
      <3>2. \A t \in Live(e) \ {s} : Follows(Tab(e, t), T[t], c.tab, none)
                                     /\ Follows(c.tab, none, Tab(e, t), T[t])
        <4>1. \A t \in Live(e) \ {s} : \A k \in DOMAIN Tab(e, t) \cap DOMAIN tab :
                  Tab(e, t)[k] # tab[k]
          BY <2>5
        <4> QED BY <2>3, <4>1 DEF Follows
      <3> HIDE DEF S
      <3>3. Settled(d, U, S)
        BY <1>4, <2>3, <2>7, <3>1, <3>2, ReplacedSettled
      <3> QED BY <3>3 DEF S
    <2>11. IsReplaced(d, e, s, c, e.cell)
      BY <1>1, <2>3, <2>7, ReplacedFacts
    <2> HIDE DEF d
    <2>12. Live(d) = Live(e) \cup {s} /\ Tab(d, s) = tab
           /\ (\A t \in Live(e) \ {s} : d.ctx[t] = e.ctx[t] /\ Tab(d, t) = Tab(e, t))
      BY <2>3, <2>11 DEF IsReplaced
    <2>13. Private(d, s, 0)
      BY <2>5, <2>12 DEF Private
    <2>14. n <= Len(Tab(d, s)) * BlockSize
      BY <1>3, <2>2, <2>12
    <2>15. r.e = d /\ r.ok = TRUE
      BY <2>1
    <2>16. IsAllocated(r, e, T, s, n)
      BY <1>6, <2>3, <2>9, <2>10, <2>11, <2>12, <2>13, <2>14, <2>15 DEF IsAllocated, IsReplaced, none
    <2> QED BY <2>16 DEF r
  <1> QED BY <1>5, <1>6

\* The sequence s of d instead of whatever it was in e.
IsMade(d, e, T, s, h, pend) ==
    /\ Layout(d, Put(T, s, h))
    /\ Settled(e, T, Live(e) \ {s}) => Settled(d, Put(T, s, h), Live(d))
    /\ Live(d) = Live(e) \cup {s}
    /\ \A t \in Live(e) \ {s} : d.ctx[t] = e.ctx[t]
    /\ d.ctx[s].hist = h /\ d.ctx[s].pend = pend
    /\ d.count = e.count /\ d.resident = e.resident

\* The rows of a snapshot are copied into blocks of its own.
LEMMA CopiedMakes ==
    ASSUME NEW e, NEW T, Layout(e, T), NEW s \in Live(e), Private(e, s, 0),
           NEW h \in Seq(Nat), NEW pend \in Seq(Int), Len(h) <= Len(Tab(e, s)) * BlockSize,
           NEW snap, snap = [rows |-> RowsOf(h), hist |-> h, pend |-> pend]
    PROVE  /\ IsMade(Copied(e, s, snap).e, e, T, s, h, pend)
           /\ Copied(e, s, snap).ok = TRUE
  <1> DEFINE tab == Tab(e, s)
             rows == snap.rows
             n == Len(rows)
             home(b, i) == Pos(CHOOSE k \in DOMAIN tab : tab[k] = b, i)
             new(b, i) == IF b \notin Range(tab) THEN e.cell[b][i]
                          ELSE IF home(b, i) <= n THEN rows[home(b, i)] ELSE Junk
             cell == [b \in 1..NumBlocks |-> [i \in 1..BlockSize |-> new(b, i)]]
             c == [tab |-> tab, len |-> n, hist |-> snap.hist, pend |-> snap.pend]
             d == Replaced(e, s, c, cell)
  <1>1. e \in Engines /\ s \in Int /\ Distinct(tab) /\ n \in Nat /\ n = Len(h)
    <2>1. n = Len(h)
      BY RowsOfFacts
    <2> HIDE DEF n
    <2> QED BY <2>1, EngineFacts DEF Layout
  <1>2. /\ tab \in Seq(1..NumBlocks)
        /\ \A k \in DOMAIN tab : k \in Nat \ {0} /\ tab[k] \in 1..NumBlocks
    BY <1>1, ContextFacts
  <1>3. /\ \A p \in 1..n : rows[p] = SubSeq(h, 1, p)
        /\ snap.hist = h /\ snap.pend = pend
    BY <1>1, RowsOfFacts
  <1>4. Copied(e, s, snap) = Done([e EXCEPT !.ctx[s] = c, !.cell = cell])
    BY DEF Copied, Tab
  <1>5. [e EXCEPT !.ctx[s] = c, !.cell = cell] = d
    <2> HIDE DEF c, cell
    <2>1. [e EXCEPT !.ctx[s] = c] = Replaced(e, s, c, e.cell)
      BY <1>1, ReplacedIs
    <2> DEFINE g == [e EXCEPT !.ctx[s] = c]
    <2>2. [e EXCEPT !.ctx[s] = c, !.cell = cell] = [g EXCEPT !.cell = cell]
      OBVIOUS
    <2> HIDE DEF g
    <2>3. g = Replaced(e, s, c, e.cell)
      BY <2>1 DEF g
    <2>4. [g EXCEPT !.cell = cell] = Replaced(e, s, c, cell)
      BY <2>3 DEF Replaced
    <2> QED BY <2>2, <2>4
  <1>6. Copied(e, s, snap).e = d /\ Copied(e, s, snap).ok = TRUE
    <2> HIDE DEF d, c, cell
    <2> QED BY <1>4, <1>5 DEF Done
  <1>7. c \in Context /\ c.tab = tab /\ c.len = n /\ c.hist = h /\ c.pend = pend
    <2> HIDE DEF n, tab
    <2> QED BY <1>1, <1>2, <1>3 DEF Context
  <1>8. \A k \in DOMAIN tab, i \in 1..BlockSize : tab[k] \in Range(tab) /\ home(tab[k], i) = Pos(k, i)
    <2>1. \A k \in DOMAIN tab : (CHOOSE j \in DOMAIN tab : tab[j] = tab[k]) = k
      BY <1>1 DEF Distinct
    <2> QED BY <2>1 DEF Range
  <1>9. \A b \in 1..NumBlocks, i \in 1..BlockSize : cell[b][i] = new(b, i)
    OBVIOUS
  <1>10. \A k \in DOMAIN tab, i \in 1..BlockSize :
             Pos(k, i) <= n => cell[tab[k]][i] = SubSeq(h, 1, Pos(k, i))
    <2> TAKE k \in DOMAIN tab, i \in 1..BlockSize
    <2> HAVE Pos(k, i) <= n
    <2> DEFINE p == Pos(k, i)
    <2>1. p \in Nat \ {0}
      BY <1>2, PosWithin
    <2> HIDE DEF p
    <2>2. p \in 1..n
      BY <2>1, <1>1 DEF p
    <2>3. cell[tab[k]][i] = rows[p]
      <3>1. cell[tab[k]][i] = new(tab[k], i)
        BY <1>2, <1>9
      <3>2. new(tab[k], i) = rows[p]
        BY <1>8 DEF p
      <3> QED BY <3>1, <3>2
    <2> QED BY <2>2, <2>3, <1>3 DEF p
  <1>11. \A b \in 1..NumBlocks, i \in 1..BlockSize : b \notin Range(tab) => cell[b][i] = e.cell[b][i]
    BY <1>9
  <1>12. cell \in [1..NumBlocks -> [1..BlockSize -> Seq(Int)]]
    <2>1. ASSUME NEW b \in 1..NumBlocks, NEW i \in 1..BlockSize PROVE new(b, i) \in Seq(Int)
      <3>1. CASE b \notin Range(tab)
        BY <3>1, <1>1, CellType
      <3>2. CASE b \in Range(tab)
        <4>1. PICK k \in DOMAIN tab : tab[k] = b
          BY <3>2 DEF Range
        <4>2. home(b, i) = Pos(k, i) /\ Pos(k, i) \in Nat \ {0}
          <5>1. Pos(k, i) \in Nat \ {0}
            BY <1>2, PosWithin
          <5> HIDE DEF home, tab
          <5> QED BY <4>1, <5>1, <1>8
        <4> DEFINE p == home(b, i)
        <4>3. p \in Nat \ {0}
          BY <4>2
        <4> HIDE DEF p
        <4>4. ASSUME p <= n PROVE rows[p] \in Seq(Int)
          <5>1. p \in 1..n /\ p \in 0..Len(h)
            BY <4>3, <4>4, <1>1
          <5>2. rows[p] = SubSeq(h, 1, p) /\ SubSeq(h, 1, p) \in Seq(Nat)
            BY <5>1, <1>3, Prefix
          <5> QED BY <5>2, NotJunk
        <4>5. Junk \in Seq(Int)
          BY DEF Junk
        <4>6. new(b, i) = IF p <= n THEN rows[p] ELSE Junk
          BY <3>2 DEF p
        <4> QED BY <4>4, <4>5, <4>6
      <3> QED BY <3>1, <3>2
    <2> HIDE DEF new
    <2> QED BY <2>1
  <1> HIDE DEF cell, new, home, d, c, tab, n
  <1>13. Stored(cell, tab, h)
    BY <1>1, <1>10 DEF Stored, tab
  <1>14. ASSUME NEW t \in Live(e) \ {s}, NEW k \in DOMAIN tab, NEW j \in DOMAIN Tab(e, t)
         PROVE  tab[k] # Tab(e, t)[j]
    <2> SUFFICES ASSUME tab[k] = Tab(e, t)[j] PROVE FALSE
      OBVIOUS
    <2>1. k * BlockSize <= 0
      BY DEF Private, tab
    <2>2. k * BlockSize = (k - 1) * BlockSize + BlockSize /\ (k - 1) * BlockSize \in Nat
      <3>1. k \in Nat \ {0}
        BY <1>1, ContextFacts DEF tab
      <3> QED BY <3>1, BlockSizeType, SMTT(40)
    <2> DEFINE a == (k - 1) * BlockSize
    <2>3. a \in Nat /\ a + BlockSize <= 0
      BY <2>1, <2>2
    <2> HIDE DEF a
    <2> QED BY <2>3, BlockSizeType
  <1>15. \A t \in Live(e) \ {s} : /\ Stored(cell, Tab(e, t), T[t])
                                  /\ Aligned(tab, h, Tab(e, t)) /\ Aligned(Tab(e, t), T[t], tab)
    <2> TAKE t \in Live(e) \ {s}
    <2>1. Stored(e.cell, Tab(e, t), T[t])
      BY DEF Layout
    <2>2. \A j \in DOMAIN Tab(e, t) : Tab(e, t)[j] \in 1..NumBlocks /\ Tab(e, t)[j] \notin Range(tab)
      <3> TAKE j \in DOMAIN Tab(e, t)
      <3>1. Tab(e, t)[j] \in 1..NumBlocks
        BY <1>1, ContextFacts
      <3>2. \A k \in DOMAIN tab : tab[k] # Tab(e, t)[j]
        BY <1>14
      <3> QED BY <3>1, <3>2 DEF Range
    <2>3. Stored(cell, Tab(e, t), T[t])
      BY <2>1, <2>2, <1>11 DEF Stored
    <2> QED BY <2>3, <1>14 DEF Aligned
  <1>16. Layout(d, Put(T, s, h))
    BY <1>1, <1>7, <1>12, <1>13, <1>15, ReplacedLayout DEF d
  <1>17. ASSUME Settled(e, T, Live(e) \ {s}) PROVE Settled(d, Put(T, s, h), Live(e))
    <2>1. Live(e) \subseteq Live(e) \cup {s}
      OBVIOUS
    <2>2. \A t \in Live(e) \ {s} : Follows(Tab(e, t), T[t], tab, h)
                                   /\ Follows(tab, h, Tab(e, t), T[t])
      BY <1>14 DEF Follows
    <2> QED BY <1>1, <1>7, <1>12, <1>17, <2>1, <2>2, ReplacedSettled DEF d
  <1>18. IsReplaced(d, e, s, c, cell)
    BY <1>1, <1>7, <1>12, ReplacedFacts DEF d
  <1>19. Live(d) = Live(e) \cup {s} /\ Live(d) = Live(e) /\ d.ctx[s].hist = h /\ d.ctx[s].pend = pend
    BY <1>7, <1>18 DEF IsReplaced
  <1>20. IsMade(d, e, T, s, h, pend)
    BY <1>16, <1>17, <1>18, <1>19 DEF IsMade, IsReplaced
  <1> QED BY <1>6, <1>20

\* A text of n tokens needs no more blocks than hold it.
LEMMA TableReaches ==
    ASSUME NEW n \in Nat \ {0}, NEW m \in Nat, n <= m * BlockSize
    PROVE  BlocksFor(n) <= m
  <1> DEFINE b == BlocksFor(n)
             a == m * BlockSize
             d == (b - 1) * BlockSize
  <1>1. b \in Nat /\ d < n
    BY BlocksForEnough
  <1> SUFFICES ASSUME m < b PROVE FALSE
    BY <1>1
  <1> HIDE DEF b
  <1>2. a <= d /\ a \in Int
    BY <1>1, BlocksInOrder
  <1>3. d \in Int
    BY <1>1, BlockSizeType
  <1>4. n <= a
    OBVIOUS
  <1> HIDE DEF a, d
  <1> QED BY <1>1, <1>2, <1>3, <1>4

\* A fork holds what its source holds, and none of the two disturbs the other.
LEMMA ForkMakes ==
    ASSUME NEW e, NEW T, Layout(e, T), Settled(e, T, Live(e)),
           NEW src \in Live(e), e.ctx[src].hist = T[src], T[src] # <<>>,
           NEW s \in Int, NEW room \in Nat
    PROVE  LET r == ForkContextPrefix(e, src, s, room)
           IN  /\ r.ok \in BOOLEAN
               /\ ~r.ok => r.e = e
               /\ r.ok => s \notin Live(e) /\ IsMade(r.e, e, T, s, T[src], e.ctx[src].pend)
  <1> DEFINE x == T[src]
             from == e.ctx[src]
             len == from.len
             old == Tab(e, src)
             data == BlocksFor(len)
             extra == BlocksFor(len + room) - data
             new == Claim(e, extra)
             shared == SubSeq(old, 1, data)
             tab == shared \o new
             c == WithTab(from, tab)
             d == Replaced(e, s, c, e.cell)
             r == ForkContextPrefix(e, src, s, room)
  <1>1. e \in Engines /\ T \in [Live(e) -> Seq(Nat)] /\ x \in Seq(Nat) /\ len = Len(x)
    BY DEF Layout
  <1>2. len \in Nat \ {0}
    <2>1. Len(x) \in Nat \ {0}
      <3> HIDE DEF x
      <3>1. x # <<>>
        BY DEF x
      <3> QED BY <1>1, <3>1
    <2> QED BY <1>1, <2>1
  <1>3. /\ old \in Seq(1..NumBlocks) /\ Len(old) \in Nat /\ DOMAIN old = 1..Len(old)
        /\ \A k \in DOMAIN old : k \in Nat \ {0} /\ old[k] \in 1..NumBlocks
    BY <1>1, ContextFacts
  <1>4. from = [tab |-> old, len |-> len, hist |-> from.hist, pend |-> from.pend]
    BY <1>1, ContextFacts DEF Tab
  <1>5. r = IF s \in Live(e) \/ ~CanClaim(e, extra) THEN Raised(e)
            ELSE Done([e EXCEPT !.ctx = Put(@, s, [from EXCEPT !.tab = tab])])
    BY DEF ForkContextPrefix, Tab
  <1> HIDE DEF from, old, r, x, len
  <1>6. [from EXCEPT !.tab = tab] = c
    <2> HIDE DEF tab
    <2> QED BY <1>4 DEF WithTab
  <1>7. /\ data \in Nat /\ extra \in Nat /\ (data - 1) * BlockSize < len
        /\ data \in 0..Len(old) /\ len <= data * BlockSize
    <2>1. data \in Nat /\ BlocksFor(len + room) \in Nat /\ (data - 1) * BlockSize < len
          /\ len <= data * BlockSize
      <3> DEFINE m == len + room
      <3>1. m \in Nat
        BY <1>2
      <3> HIDE DEF m
      <3>2. BlocksFor(m) \in Nat
        BY <3>1, BlocksForEnough
      <3>3. (data - 1) * BlockSize < len /\ len <= data * BlockSize /\ data \in Nat
        BY <1>2, BlocksForEnough
      <3> QED BY <3>2, <3>3 DEF m
    <2>2. data <= BlocksFor(len + room)
      <3> DEFINE m == len + room
      <3>1. m \in Nat /\ len <= m
        BY <1>2
      <3> HIDE DEF m
      <3>2. BlocksFor(len) <= BlocksFor(m)
        BY <3>1, <1>2, BlocksForGrows
      <3> QED BY <3>2 DEF m
    <2>3. data <= Len(old)
      <3>1. Stored(e.cell, old, x)
        BY DEF Layout, old, x
      <3>2. len <= Len(old) * BlockSize
        BY <3>1, <1>1 DEF Stored
      <3> QED BY <3>2, <1>2, <1>3, TableReaches
    <2> HIDE DEF data
    <2> QED BY <2>1, <2>2, <2>3, <1>3
  <1> HIDE DEF data, extra
  <1>8. CASE s \in Live(e) \/ ~CanClaim(e, extra)
    <2>1. r.e = e /\ r.ok = FALSE
      BY <1>5, <1>8 DEF Raised
    <2> QED BY <2>1 DEF r
  <1>9. CASE s \notin Live(e) /\ CanClaim(e, extra)
    <2>1. r = [e |-> d, ok |-> TRUE]
      <3> HIDE DEF c
      <3> QED BY <1>1, <1>5, <1>6, <1>9, NewIs DEF Done
    <2>2. Fresh(e, new) /\ Len(new) = extra
      BY <1>1, <1>7, <1>9, ClaimIsFresh
    <2> HIDE DEF new, d
    <2>3. new \in Seq(1..NumBlocks) /\ DOMAIN new = 1..extra /\ Distinct(new)
          /\ \A t \in Live(e) : \A k \in DOMAIN new, j \in DOMAIN Tab(e, t) : new[k] # Tab(e, t)[j]
      <3>1. new \in Seq(1..NumBlocks)
        BY <2>2 DEF Fresh
      <3>2. DOMAIN new = 1..Len(new)
        BY <3>1, SeqFacts, Zenon
      <3> QED BY <2>2, <3>1, <3>2 DEF Fresh
    <2>4. shared \in Seq(1..NumBlocks) /\ Len(shared) = data /\ \A k \in 1..data : shared[k] = old[k]
      BY <1>3, <1>7, Prefix
    <2> HIDE DEF shared
    <2>5. /\ tab \in Seq(1..NumBlocks) /\ Len(tab) = data + extra
          /\ \A k \in 1..data : tab[k] = old[k]
          /\ \A k \in data+1..data+extra : tab[k] = new[k - data]
      <3>1. /\ tab \in Seq(1..NumBlocks) /\ Len(tab) = Len(shared) + Len(new)
            /\ \A k \in 1..Len(shared) : tab[k] = shared[k]
            /\ \A k \in Len(shared)+1..Len(shared)+Len(new) : tab[k] = new[k - Len(shared)]
        <4> DEFINE B == 1..NumBlocks
        <4>1. shared \in Seq(B) /\ new \in Seq(B)
          BY <2>3, <2>4
        <4> HIDE DEF B
        <4>2. /\ tab \in Seq(B) /\ Len(tab) = Len(shared) + Len(new)
              /\ \A k \in 1..Len(shared) : tab[k] = shared[k]
              /\ \A k \in Len(shared)+1..Len(shared)+Len(new) : tab[k] = new[k - Len(shared)]
          BY <4>1, Concat
        <4> QED BY <4>2 DEF B
      <3> HIDE DEF tab
      <3> QED BY <3>1, <2>2, <2>4
    <2> HIDE DEF tab
    <2>6. DOMAIN tab = 1..data+extra
      BY <2>5, SeqFacts
    <2>7. ASSUME NEW k \in DOMAIN tab
          PROVE  \/ k \in 1..data /\ k \in DOMAIN old /\ tab[k] = old[k]
                 \/ k - data \in DOMAIN new /\ tab[k] = new[k - data]
      <3>1. CASE k \in 1..data
        BY <3>1, <1>3, <1>7, <2>5
      <3>2. CASE k \notin 1..data
        <4>1. k \in data+1..data+extra /\ k - data \in 1..extra
          BY <3>2, <1>7, <2>6
        <4> QED BY <4>1, <2>3, <2>5
      <3> QED BY <3>1, <3>2
    <2>8. /\ Distinct(old) /\ Stored(e.cell, old, x)
          /\ \A t \in Live(e) \ {src} : Aligned(old, x, Tab(e, t)) /\ Aligned(Tab(e, t), T[t], old)
      BY DEF Layout, old, x
    <2>9. Distinct(tab)
      <3> SUFFICES ASSUME NEW k \in DOMAIN tab, NEW j \in DOMAIN tab, tab[k] = tab[j]
                   PROVE  k = j
        BY DEF Distinct
      <3>1. CASE k \in 1..data /\ j \in 1..data
        BY <3>1, <1>3, <1>7, <2>5, <2>8 DEF Distinct
      <3>2. CASE k \in 1..data /\ j \notin 1..data
        BY <3>2, <2>3, <2>7, <1>3, <1>7, <2>5 DEF old
      <3>3. CASE k \notin 1..data /\ j \in 1..data
        BY <3>3, <2>3, <2>7, <1>3, <1>7, <2>5 DEF old
      <3>4. CASE k \notin 1..data /\ j \notin 1..data
        <4>1. k - data = j - data
          BY <3>4, <2>3, <2>7 DEF Distinct
        <4> QED BY <4>1, <1>7, <2>6
      <3> QED BY <3>1, <3>2, <3>3, <3>4
    <2>10. Stored(e.cell, tab, x)
      <3>1. Len(x) <= Len(tab) * BlockSize
        <4> DEFINE a == data * BlockSize
                   b == extra * BlockSize
        <4>1. (data + extra) * BlockSize = a + b /\ a \in Int /\ b \in Nat
          BY <1>7, BlockSizeType
        <4>2. len <= a
          BY <1>7
        <4> HIDE DEF a, b
        <4> QED BY <4>1, <4>2, <1>1, <1>2, <2>5
      <3>2. ASSUME NEW k \in DOMAIN tab, NEW i \in 1..BlockSize, Pos(k, i) <= Len(x)
            PROVE  e.cell[tab[k]][i] = SubSeq(x, 1, Pos(k, i))
        <4>1. k \in Nat \ {0}
          BY <1>7, <2>6
        <4>2. k <= data
          <5> DEFINE p == Pos(k, i)
                     a == data * BlockSize
          <5>1. p \in Nat /\ a \in Int /\ p <= Len(x) /\ len <= a
            <6>1. p \in Nat
              BY <4>1, PosWithin
            <6>2. a \in Int
              BY <1>7, BlockSizeType
            <6> QED BY <6>1, <6>2, <3>2, <1>7
          <5> HIDE DEF p, a
          <5>2. p <= a
            BY <5>1, <1>1, <1>2
          <5> QED BY <5>2, <4>1, <1>7, HomeWithin DEF p, a
        <4>3. k \in DOMAIN old /\ tab[k] = old[k]
          BY <4>1, <4>2, <1>3, <1>7, <2>5
        <4> QED BY <4>3, <3>2, <2>8 DEF Stored
      <3> QED BY <3>1, <3>2 DEF Stored
    <2>11. ASSUME NEW t \in Live(e), NEW k \in DOMAIN tab, NEW j \in DOMAIN Tab(e, t),
                  tab[k] = Tab(e, t)[j]
           PROVE  /\ k \in 1..data /\ k \in DOMAIN old /\ old[k] = Tab(e, t)[j]
                  /\ (k - 1) * BlockSize < len
      <3>1. k \in 1..data /\ k \in DOMAIN old /\ old[k] = Tab(e, t)[j]
        BY <2>3, <2>7, <2>11
      <3>2. (k - 1) * BlockSize <= (data - 1) * BlockSize
            /\ (k - 1) * BlockSize \in Int /\ (data - 1) * BlockSize \in Int
        <4> DEFINE a == k - 1
                   b == data - 1
        <4>1. a \in Nat /\ b \in Nat /\ a <= b
          BY <3>1, <1>7
        <4> HIDE DEF a, b
        <4>2. a * BlockSize <= b * BlockSize /\ a * BlockSize \in Int /\ b * BlockSize \in Int
          BY <4>1, MoreBlocks
        <4> QED BY <4>2 DEF a, b
      <3> QED BY <3>1, <3>2, <1>2, <1>7
    <2>12. ASSUME NEW t \in Live(e)
           PROVE  /\ Stored(e.cell, Tab(e, t), T[t])
                  /\ Aligned(tab, x, Tab(e, t)) /\ Aligned(Tab(e, t), T[t], tab)
      <3>1. Stored(e.cell, Tab(e, t), T[t])
        BY DEF Layout
      <3>2. CASE t = src
        <4>1. Tab(e, t) = old /\ T[t] = x
          BY <3>2 DEF old, x
        <4>2. ASSUME NEW k \in DOMAIN tab, NEW j \in DOMAIN old, tab[k] = old[j]
              PROVE  k = j /\ (k - 1) * BlockSize < len
          <5>1. k \in DOMAIN old /\ old[k] = old[j] /\ (k - 1) * BlockSize < len
            BY <2>11, <3>2, <4>1, <4>2
          <5> QED BY <5>1, <2>8 DEF Distinct
        <4>3. Aligned(tab, x, old)
          BY <4>2, <1>1 DEF Aligned
        <4>4. Aligned(old, x, tab)
          BY <4>2, <1>1 DEF Aligned
        <4> QED BY <3>1, <4>1, <4>3, <4>4
      <3>3. CASE t # src
        <4>1. Aligned(old, x, Tab(e, t)) /\ Aligned(Tab(e, t), T[t], old)
          BY <3>3, <2>8
        <4>2. Aligned(tab, x, Tab(e, t))
          BY <2>11, <4>1 DEF Aligned
        <4>3. Aligned(Tab(e, t), T[t], tab)
          BY <2>11, <4>1 DEF Aligned
        <4> QED BY <3>1, <4>2, <4>3
      <3> QED BY <3>2, <3>3
    <2>13. c \in Context /\ c.tab = tab /\ c.len = Len(x) /\ c.hist = from.hist /\ c.pend = from.pend
      BY <1>1, <2>5, WithTabIs DEF WithTab, from, len
    <2>14. e.cell \in [1..NumBlocks -> [1..BlockSize -> Seq(Int)]]
      BY <1>1, EngineFacts
    <2> HIDE DEF c
    <2>15. Layout(d, Put(T, s, x))
      BY <1>1, <2>9, <2>10, <2>12, <2>13, <2>14, ReplacedLayout DEF d
    <2>16. Settled(d, Put(T, s, x), Live(e) \cup {s})
      <3> DEFINE S == Live(e) \cup {s}
      <3>1. Settled(e, T, S \ {s}) /\ S \subseteq Live(e) \cup {s}
        BY DEF Settled
      <3>2. ASSUME NEW t \in Live(e) \ {s}
            PROVE  Follows(Tab(e, t), T[t], tab, x) /\ Follows(tab, x, Tab(e, t), T[t])
        <4>1. CASE t = src
          <5>1. T[t] = x
            BY <4>1 DEF x
          <5>2. Len(x)+1..Len(x) = {}
            BY <1>1, <1>2
          <5> QED BY <5>1, <5>2 DEF Follows
        <4>2. CASE t # src
          <5>1. Follows(Tab(e, t), T[t], old, x) /\ Follows(old, x, Tab(e, t), T[t])
            BY <4>2 DEF Settled, old, x
          <5>2. \A k \in DOMAIN tab \cap DOMAIN Tab(e, t) :
                    tab[k] = Tab(e, t)[k] => k \in DOMAIN old /\ old[k] = Tab(e, t)[k]
            BY <2>11
          <5> QED BY <5>1, <5>2 DEF Follows
        <4> QED BY <4>1, <4>2
      <3> HIDE DEF S
      <3>3. Settled(d, Put(T, s, x), S)
        BY <1>1, <2>13, <2>14, <3>1, <3>2, ReplacedSettled DEF d
      <3> QED BY <3>3 DEF S
    <2>17. IsReplaced(d, e, s, c, e.cell)
      BY <1>1, <2>13, <2>14, ReplacedFacts DEF d
    <2>18. IsMade(d, e, T, s, x, from.pend)
      <3>1. d.ctx[s].hist = x /\ d.ctx[s].pend = from.pend
        BY <2>13, <2>17 DEF IsReplaced, from, x
      <3> QED BY <3>1, <2>15, <2>16, <2>17 DEF IsMade, IsReplaced
    <2>19. r.e = d /\ r.ok = TRUE
      BY <2>1
    <2> QED BY <1>9, <2>18, <2>19 DEF r, x, from
  <1> QED BY <1>8, <1>9

\* A text is cut: what is behind the cut is no longer waited for.
IsCut(d, e, T, s, n) ==
    /\ Layout(d, Put(T, s, SubSeq(T[s], 1, n)))
    /\ Settled(e, T, Live(e)) => Settled(d, Put(T, s, SubSeq(T[s], 1, n)), Live(e) \ {s})
    /\ Live(d) = Live(e)
    /\ \A t \in Live(e) \ {s} : d.ctx[t] = e.ctx[t]
    /\ d.ctx[s].hist = SubSeq(e.ctx[s].hist, 1, n) /\ d.ctx[s].pend = NoLogits
    /\ d.count = e.count /\ d.resident = e.resident

\* TruncateContext cuts its sequence's text and nobody else's.
LEMMA TruncateKeeps ==
    ASSUME NEW e, NEW T, Layout(e, T), NEW s \in Live(e), e.ctx[s].hist = T[s],
           NEW n \in 1..Len(T[s])
    PROVE  IsCut(TruncateContext(e, s, n), e, T, s, n)
  <1> DEFINE x == T[s]
             y == SubSeq(x, 1, n)
             old == Tab(e, s)
             m == BlocksFor(n)
             tab == SubSeq(old, 1, m)
             c == [tab |-> tab, len |-> n, hist |-> y, pend |-> NoLogits]
             d == Replaced(e, s, c, e.cell)
  <1>1. e \in Engines /\ T \in [Live(e) -> Seq(Nat)] /\ x \in Seq(Nat) /\ s \in Int
    BY EngineFacts DEF Layout
  <1>2. n \in Nat \ {0} /\ n \in 0..Len(x) /\ n <= Len(x) /\ Len(x) \in Nat
    BY <1>1
  <1>3. /\ y \in Seq(Nat) /\ Len(y) = n /\ \A p \in 1..n : y[p] = x[p]
        /\ \A p \in 0..n : SubSeq(y, 1, p) = SubSeq(x, 1, p)
    BY <1>1, <1>2, Prefix, PrefixOfPrefix
  <1>4. /\ old \in Seq(1..NumBlocks) /\ Len(old) \in Nat /\ DOMAIN old = 1..Len(old)
        /\ \A k \in DOMAIN old : k \in Nat \ {0} /\ old[k] \in 1..NumBlocks
    BY <1>1, ContextFacts
  <1>5. TruncateContext(e, s, n) = Swept([e EXCEPT !.ctx[s] = c])
    <2>1. [e EXCEPT !.ctx[s] = [tab |-> SubSeq(@.tab, 1, BlocksFor(n)), len |-> n,
                                hist |-> SubSeq(@.hist, 1, n), pend |-> NoLogits]]
          = [e EXCEPT !.ctx[s] = [tab |-> SubSeq(e.ctx[s].tab, 1, BlocksFor(n)), len |-> n,
                                  hist |-> SubSeq(e.ctx[s].hist, 1, n), pend |-> NoLogits]]
      BY <1>1, EngineFacts
    <2> QED BY <2>1 DEF TruncateContext, Tab
  <1> HIDE DEF c, y, old, x
  <1>6. [e EXCEPT !.ctx[s] = c] = d
    BY <1>1, ReplacedIs
  <1>7. Stored(e.cell, old, x) /\ Distinct(old)
    BY DEF Layout, old, x
  <1>8. m \in 0..Len(old) /\ m \in Nat /\ n <= m * BlockSize /\ (m - 1) * BlockSize < n
    <2>1. m \in Nat /\ n <= m * BlockSize /\ (m - 1) * BlockSize < n
      BY <1>2, BlocksForEnough
    <2>2. n <= Len(old) * BlockSize
      <3> DEFINE a == Len(old) * BlockSize
      <3>1. a \in Int /\ Len(x) <= a
        BY <1>4, <1>7, BlockSizeType DEF Stored
      <3> HIDE DEF a
      <3>2. n <= a
        BY <3>1, <1>2
      <3> QED BY <3>2 DEF a
    <2>3. m <= Len(old)
      BY <2>2, <1>2, <1>4, TableReaches
    <2> HIDE DEF m
    <2> QED BY <2>1, <2>3, <1>4
  <1> HIDE DEF m
  <1>9. tab \in Seq(1..NumBlocks) /\ Len(tab) = m /\ \A k \in 1..m : tab[k] = old[k]
    BY <1>4, <1>8, Prefix
  <1> HIDE DEF tab
  <1>10. DOMAIN tab = 1..m
    BY <1>9, SeqFacts
  <1>11. \A k \in DOMAIN tab : k \in DOMAIN old /\ tab[k] = old[k]
    BY <1>4, <1>8, <1>9, <1>10
  <1>12. c \in Context /\ c.tab = tab /\ c.len = Len(y) /\ c.hist = y /\ c.pend = NoLogits
    BY <1>2, <1>3, <1>9 DEF c, Context, NoLogits
  <1>13. Distinct(tab)
    BY <1>7, <1>11 DEF Distinct
  <1>14. Stored(e.cell, tab, y)
    <2>1. ASSUME NEW k \in DOMAIN tab, NEW i \in 1..BlockSize, Pos(k, i) <= Len(y)
          PROVE  e.cell[tab[k]][i] = SubSeq(y, 1, Pos(k, i))
      <3> DEFINE p == Pos(k, i)
      <3>1. k \in Nat \ {0}
        BY <1>4, <1>11
      <3>2. p \in Nat
        BY <3>1, PosWithin
      <3>3. p \in 0..n /\ p <= Len(x)
        <4>1. p <= n
          BY <2>1, <1>3
        <4> HIDE DEF p
        <4> QED BY <3>2, <4>1, <1>2
      <3>4. e.cell[old[k]][i] = SubSeq(x, 1, p)
        BY <3>3, <1>7, <1>11 DEF Stored
      <3> QED BY <3>3, <3>4, <1>3, <1>11
    <2> QED BY <2>1, <1>3, <1>8, <1>9 DEF Stored
  <1>15. ASSUME NEW t \in Live(e) \ {s}
         PROVE  /\ Stored(e.cell, Tab(e, t), T[t])
                /\ Aligned(tab, y, Tab(e, t)) /\ Aligned(Tab(e, t), T[t], tab)
    <2>1. /\ Stored(e.cell, Tab(e, t), T[t])
          /\ Aligned(old, x, Tab(e, t)) /\ Aligned(Tab(e, t), T[t], old)
      BY DEF Layout, old, x
    <2>2. \A k \in DOMAIN tab : (k - 1) * BlockSize < Len(y)
      <3> TAKE k \in DOMAIN tab
      <3> DEFINE a == k - 1
                 b == m - 1
      <3>1. a \in Nat /\ b \in Nat /\ a <= b
        BY <1>8, <1>10
      <3> HIDE DEF a, b
      <3>2. a * BlockSize <= b * BlockSize /\ a * BlockSize \in Int /\ b * BlockSize \in Int
        BY <3>1, MoreBlocks
      <3>3. b * BlockSize < n
        BY <1>8 DEF b
      <3>4. a * BlockSize < n
        BY <3>2, <3>3, <1>2
      <3> QED BY <3>4, <1>3 DEF a
    <2>3. Aligned(tab, y, Tab(e, t))
      BY <2>1, <2>2, <1>11 DEF Aligned
    <2>4. Aligned(Tab(e, t), T[t], tab)
      BY <2>1, <1>11 DEF Aligned
    <2> QED BY <2>1, <2>3, <2>4
  <1>16. e.cell \in [1..NumBlocks -> [1..BlockSize -> Seq(Int)]]
    BY <1>1, EngineFacts
  <1>17. Layout(d, Put(T, s, y))
    BY <1>1, <1>3, <1>12, <1>13, <1>14, <1>15, <1>16, ReplacedLayout
  <1>18. ASSUME Settled(e, T, Live(e)) PROVE Settled(d, Put(T, s, y), Live(e) \ {s})
    <2> DEFINE S == Live(e) \ {s}
    <2>1. Settled(e, T, S \ {s}) /\ S \subseteq Live(e) \cup {s} /\ s \notin S
      BY <1>18 DEF Settled
    <2>2. ASSUME NEW t \in Live(e) \ {s} PROVE Follows(Tab(e, t), T[t], tab, y)
      <3> SUFFICES ASSUME NEW k \in DOMAIN Tab(e, t) \cap DOMAIN tab, Tab(e, t)[k] = tab[k],
                          NEW p \in Len(T[t])+1..Len(y), p <= k * BlockSize
                   PROVE  y[p] = Greedy(SubSeq(y, 1, p - 1))
        BY DEF Follows
      <3>1. Follows(Tab(e, t), T[t], old, x) /\ T[t] \in Seq(Nat)
        BY <1>18 DEF Settled, old, x, Layout
      <3>2. p \in Len(T[t])+1..Len(x) /\ p \in 1..n /\ p - 1 \in 0..n
        BY <3>1, <1>2, <1>3
      <3>3. x[p] = Greedy(SubSeq(x, 1, p - 1))
        BY <3>1, <3>2, <1>11 DEF Follows
      <3> QED BY <3>2, <3>3, <1>3
    <2> HIDE DEF S
    <2>3. Settled(d, Put(T, s, y), S)
      BY <1>1, <1>3, <1>12, <1>16, <2>1, <2>2, ReplacedSettled
    <2> QED BY <2>3 DEF S
  <1>19. IsReplaced(d, e, s, c, e.cell)
    BY <1>1, <1>12, <1>16, ReplacedFacts
  <1> HIDE DEF d
  <1> DEFINE z == Swept(d)
  <1>20. /\ Layout(z, Put(T, s, y)) /\ (\A S : Settled(d, Put(T, s, y), S) => Settled(z, Put(T, s, y), S))
         /\ z.ctx = d.ctx /\ z.count = d.count /\ z.resident = d.resident
    BY <1>17, SweptKeeps, Zenon
  <1>21. TruncateContext(e, s, n) = z
    BY <1>5, <1>6
  <1> HIDE DEF z
  <1>22. IsCut(z, e, T, s, n)
    BY <1>12, <1>18, <1>19, <1>20 DEF IsCut, IsReplaced, Live, y, x
  <1> QED BY <1>21, <1>22

-------------------------------------------------------------------------------
(* The calls. *)

\* An engine between two calls, but for what the sequences of S decode next.
GoodBut(e, S) ==
    /\ Layout(e, Hists(e))
    /\ Settled(e, Hists(e), Live(e) \ S)
    /\ \A s \in Live(e) : e.ctx[s].pend \in {e.ctx[s].hist, NoLogits}

\* The other sequences are told what they were, the counter and the resident
\* cache are what they were.
Kept(d, e, s) ==
    /\ \A t \in Live(e) \ {s} : d.ctx[t].hist = e.ctx[t].hist /\ d.ctx[t].pend = e.ctx[t].pend
    /\ d.count = e.count /\ d.resident = e.resident

\* A call leaves s, new or not, with this history and these logits.
Holds(d, e, s, h, pend) ==
    /\ Live(d) = Live(e) \cup {s}
    /\ d.ctx[s].hist = h /\ d.ctx[s].pend = pend
    /\ Kept(d, e, s)

\* A good engine is good but for any sequence.
LEMMA GoodGoodBut ==
    ASSUME NEW e, Good(e), NEW S
    PROVE  GoodBut(e, S)
  BY DEF Good, GoodBut, Settled

\* A text put twice is put the second time.
LEMMA PutTwice ==
    ASSUME NEW T, NEW s, NEW x, NEW y
    PROVE  Put(Put(T, s, x), s, y) = Put(T, s, y)
  <1> DEFINE f == Put(T, s, x)
  <1>1. DOMAIN f = DOMAIN T \cup {s} /\ \A t \in DOMAIN T : t # s => f[t] = T[t]
    BY DEF Put
  <1> HIDE DEF f
  <1>2. DOMAIN f \cup {s} = DOMAIN T \cup {s}
    BY <1>1
  <1>3. Put(f, s, y) = [t \in DOMAIN T \cup {s} |-> IF t = s THEN y ELSE f[t]]
    BY <1>2 DEF Put
  <1>4. \A t \in DOMAIN T \cup {s} : (IF t = s THEN y ELSE f[t]) = (IF t = s THEN y ELSE T[t])
    BY <1>1
  <1>5. Put(f, s, y) = [t \in DOMAIN T \cup {s} |-> IF t = s THEN y ELSE T[t]]
    BY <1>3, <1>4
  <1> QED BY <1>5 DEF Put, f

\* The histories after a call.
Retold(d, e, s, h) ==
    /\ Live(d) = Live(e) \cup {s} /\ d.ctx[s].hist = h
    /\ \A t \in Live(e) \ {s} : d.ctx[t].hist = e.ctx[t].hist

\* They differ in the one that was told.
LEMMA HistsPut ==
    ASSUME NEW e, NEW d, NEW s, NEW h, Retold(d, e, s, h)
    PROVE  Hists(d) = Put(Hists(e), s, h)
  <1>1. DOMAIN Hists(e) = Live(e) /\ \A t \in Live(e) : Hists(e)[t] = e.ctx[t].hist
    BY DEF Hists
  <1>2. Put(Hists(e), s, h) = [t \in Live(e) \cup {s} |-> IF t = s THEN h ELSE Hists(e)[t]]
    BY <1>1 DEF Put
  <1>3. Hists(d) = [t \in Live(e) \cup {s} |-> d.ctx[t].hist]
    BY DEF Hists, Retold
  <1>4. \A t \in Live(e) \cup {s} : d.ctx[t].hist = IF t = s THEN h ELSE Hists(e)[t]
    BY <1>1 DEF Retold
  <1> QED BY <1>2, <1>3, <1>4

\* An engine in which s was made is good.
LEMMA MadeGood ==
    ASSUME NEW e, NEW s, GoodBut(e, {s}), NEW h, NEW pend \in {h, NoLogits}, NEW d,
           IsMade(d, e, Hists(e), s, h, pend)
    PROVE  Good(d) /\ Holds(d, e, s, h, pend)
  <1>1. /\ Live(d) = Live(e) \cup {s} /\ d.ctx[s].hist = h /\ d.ctx[s].pend = pend
        /\ \A t \in Live(e) \ {s} : d.ctx[t] = e.ctx[t]
        /\ d.count = e.count /\ d.resident = e.resident
    BY DEF IsMade
  <1>2. Hists(d) = Put(Hists(e), s, h)
    <2>1. Retold(d, e, s, h)
      BY <1>1 DEF Retold
    <2> QED BY <2>1, HistsPut
  <1>3. Layout(d, Hists(d)) /\ Settled(d, Hists(d), Live(d))
    BY <1>2 DEF IsMade, GoodBut
  <1>4. \A t \in Live(d) : d.ctx[t].pend \in {d.ctx[t].hist, NoLogits}
    BY <1>1 DEF GoodBut
  <1>5. Holds(d, e, s, h, pend)
    BY <1>1 DEF Holds, Kept
  <1> QED BY <1>3, <1>4, <1>5 DEF Good

\* Sequences are freed.
LEMMA FreeAllMakes ==
    ASSUME NEW e, NEW S, GoodBut(e, S)
    PROVE  LET d == FreeAll(e, S)
           IN  /\ Good(d) /\ Live(d) = Live(e) \ S
               /\ \A t \in Live(d) : d.ctx[t] = e.ctx[t]
               /\ d.count = e.count /\ d.resident = e.resident
  <1> DEFINE d == FreeAll(e, S)
             T == Hists(e)
             U == Restrict(T, Live(e) \ S)
  <1>1. Layout(e, T)
    BY DEF GoodBut
  <1> HIDE DEF d, T
  <1>2. IsFreed(d, e, T, S)
    BY <1>1, FreeAllKeeps DEF d
  <1>3. Live(d) = Live(e) \ S /\ \A t \in Live(e) \ S : d.ctx[t] = e.ctx[t]
    BY <1>2 DEF IsFreed
  <1>4. U = [t \in Live(e) \ S |-> T[t]] /\ \A t \in Live(e) : T[t] = e.ctx[t].hist
    BY DEF T, Hists, Restrict
  <1>5. U = Hists(d)
    <2>1. \A t \in Live(e) \ S : T[t] = d.ctx[t].hist
      BY <1>3, <1>4
    <2>2. Hists(d) = [t \in Live(e) \ S |-> d.ctx[t].hist]
      BY <1>3 DEF Hists
    <2> HIDE DEF U
    <2> QED BY <2>1, <2>2, <1>4
  <1>6. Settled(d, U, Live(d))
    <2> DEFINE R == Live(e) \ S
    <2>1. R \in SUBSET Live(e) /\ R \ S = R /\ Settled(e, T, R)
      BY DEF GoodBut, T
    <2> HIDE DEF R, U
    <2>2. Settled(d, Restrict(T, Live(e) \ S), R \ S)
      BY <1>2, <2>1 DEF IsFreed
    <2> QED BY <2>1, <2>2, <1>3 DEF R, U
  <1>7. Layout(d, U)
    BY <1>2 DEF IsFreed
  <1>8. \A t \in Live(d) : d.ctx[t].pend \in {d.ctx[t].hist, NoLogits}
    BY <1>3 DEF GoodBut
  <1>9. Good(d)
    BY <1>5, <1>6, <1>7, <1>8 DEF Good
  <1>10. d.count = e.count /\ d.resident = e.resident
    BY <1>2 DEF IsFreed
  <1> QED BY <1>3, <1>9, <1>10 DEF d

\* One of them.
LEMMA FreeIsFreeAll ==
    ASSUME NEW e, NEW s
    PROVE  FreeSequence(e, s) = FreeAll(e, {s})
  BY DEF FreeSequence, FreeAll

\* The engine records what a sequence holds.
WithSaid(e, s, h, pend) == [e EXCEPT !.ctx[s].hist = h, !.ctx[s].pend = pend]

IsTold(d, e, T, s, h, pend) ==
    /\ Layout(d, T)
    /\ \A S \in SUBSET Live(e) : Settled(e, T, S) => Settled(d, T, S)
    /\ Live(d) = Live(e)
    /\ \A t \in Live(e) \ {s} : d.ctx[t] = e.ctx[t]
    /\ d.ctx[s].hist = h /\ d.ctx[s].pend = pend
    /\ d.count = e.count /\ d.resident = e.resident

\* The code's record of what was said, as a replacement.
LEMMA WithSaidIs ==
    ASSUME NEW e \in Engines, NEW s \in Live(e), NEW h, NEW pend
    PROVE  WithSaid(e, s, h, pend) = Replaced(e, s, WithWords(e.ctx[s], h, pend), e.cell)
  <1> DEFINE c == e.ctx[s]
             w == WithWords(c, h, pend)
  <1>1. c = [tab |-> c.tab, len |-> c.len, hist |-> c.hist, pend |-> c.pend]
    BY ContextFacts
  <1>2. WithSaid(e, s, h, pend) = [e EXCEPT !.ctx[s] = [c EXCEPT !.hist = h, !.pend = pend]]
    BY EngineFacts DEF WithSaid
  <1> HIDE DEF c
  <1>3. [c EXCEPT !.hist = h, !.pend = pend] = w
    <2> DEFINE f == [c EXCEPT !.hist = h]
    <2>1. [c EXCEPT !.hist = h, !.pend = pend] = [f EXCEPT !.pend = pend]
      OBVIOUS
    <2>2. f = [tab |-> c.tab, len |-> c.len, hist |-> h, pend |-> c.pend]
      BY <1>1
    <2> HIDE DEF f
    <2>3. [f EXCEPT !.pend = pend] = w
      BY <2>2 DEF WithWords
    <2> QED BY <2>1, <2>3
  <1> HIDE DEF w
  <1>4. [e EXCEPT !.ctx[s] = w] = Replaced(e, s, w, e.cell)
    BY ReplacedIs
  <1> QED BY <1>2, <1>3, <1>4 DEF w, c

\* Recording what was said changes no rows.
LEMMA ToldKeeps ==
    ASSUME NEW e, NEW T, Layout(e, T), NEW s \in Live(e), NEW h \in Seq(Nat),
           NEW pend \in Seq(Int)
    PROVE  IsTold(WithSaid(e, s, h, pend), e, T, s, h, pend)
  <1> DEFINE w == WithWords(e.ctx[s], h, pend)
             d == Replaced(e, s, w, e.cell)
  <1>1. e \in Engines /\ T \in [Live(e) -> Seq(Nat)] /\ s \in Int
        /\ e.cell \in [1..NumBlocks -> [1..BlockSize -> Seq(Int)]]
    BY EngineFacts DEF Layout
  <1>2. e.ctx[s].tab \in Seq(1..NumBlocks) /\ e.ctx[s].len \in Nat
    BY <1>1, ContextFacts DEF Tab
  <1>3. /\ w \in Context /\ w.tab = Tab(e, s) /\ w.len = e.ctx[s].len
        /\ w.hist = h /\ w.pend = pend
    BY <1>2 DEF WithWords, Context, Tab
  <1> HIDE DEF w, d
  <1>4. IsReplaced(d, e, s, w, e.cell)
    BY <1>1, <1>3, ReplacedFacts DEF d
  <1>5. /\ Live(d) = Live(e) /\ d \in Engines
        /\ \A t \in Live(e) : Tab(d, t) = Tab(e, t) /\ d.ctx[t].len = e.ctx[t].len
        /\ d.cell = e.cell
    BY <1>3, <1>4 DEF IsReplaced
  <1>6. Layout(d, T)
    BY <1>5 DEF Layout
  <1>7. \A S \in SUBSET Live(e) : Settled(e, T, S) => Settled(d, T, S)
    BY <1>5 DEF Settled
  <1>8. d = WithSaid(e, s, h, pend)
    BY <1>1, WithSaidIs DEF d, w
  <1>9. IsTold(d, e, T, s, h, pend)
    BY <1>3, <1>4, <1>5, <1>6, <1>7 DEF IsTold, IsReplaced
  <1> QED BY <1>8, <1>9

\* A prefilled context holds the prompt.
LEMMA PrefillMakes ==
    ASSUME NEW e, Good(e), NEW s \in Int, NEW prompt \in Seq(Nat), NEW room \in Nat
    PROVE  LET r == PrefillContext(e, s, prompt, room)
           IN  /\ r.ok \in BOOLEAN
               /\ ~r.ok => r.e = e
               /\ r.ok => s \notin Live(e) /\ Good(r.e) /\ Holds(r.e, e, s, prompt, prompt)
  <1> DEFINE n == Len(prompt) + IF room > 1 THEN room ELSE 1
             a == Allocate(e, s, n)
             none == <<>>
             T == Hists(e)
             U == Put(T, s, none)
             b == Written(a.e, s, prompt)
             d == WithSaid(b, s, b.ctx[s].hist \o prompt, Seen(b, s))
             r == PrefillContext(e, s, prompt, room)
  <1>1. Layout(e, T) /\ Settled(e, T, Live(e)) /\ T \in [Live(e) -> Seq(Nat)]
    BY DEF Good, Layout
  <1>2. Len(prompt) \in Nat /\ n \in Nat /\ Len(prompt) <= n
    OBVIOUS
  <1>3. r = IF a.ok THEN Done(d) ELSE a
    BY DEF PrefillContext, Then, Remembered, WithSaid
  <1>4. none \in Seq(Nat) /\ Len(none) = 0 /\ none \o prompt = prompt
    OBVIOUS
  <1> HIDE DEF n, T, none, U
  <1>5. IsAllocated(a, e, T, s, n)
    BY <1>1, <1>2, AllocateMakes
  <1> HIDE DEF r, a, d
  <1>6. CASE ~a.ok
    <2>1. r.ok = FALSE /\ r.e = e
      BY <1>3, <1>5, <1>6 DEF IsAllocated
    <2> QED BY <2>1 DEF r
  <1>7. CASE a.ok
    <2> DEFINE e1 == a.e
    <2>1. /\ s \notin Live(e) /\ Layout(e1, U) /\ Settled(e1, U, Live(e) \cup {s})
          /\ Live(e1) = Live(e) \cup {s}
          /\ \A t \in Live(e) : e1.ctx[t] = e.ctx[t]
          /\ e1.count = e.count /\ e1.resident = e.resident
          /\ e1.ctx[s].hist = none
          /\ n <= Len(Tab(e1, s)) * BlockSize
          /\ Private(e1, s, 0)
      BY <1>1, <1>5, <1>7 DEF IsAllocated, U, none
    <2>2. U[s] = none /\ s \in Live(e1) /\ e1 \in Engines
      <3>1. IsRetold(U, Live(e), T, s, none)
        BY <1>1, <1>4, TextsFacts, Zenon DEF U
      <3> QED BY <3>1, <2>1 DEF IsRetold, Layout
    <2>3. Len(U[s]) + Len(prompt) <= Len(Tab(e1, s)) * BlockSize
      <3> DEFINE k == Len(Tab(e1, s)) * BlockSize
      <3>1. k \in Int
        BY <2>2, ContextFacts, BlockSizeType
      <3>2. n <= k
        BY <2>1
      <3> HIDE DEF k, e1
      <3>3. Len(prompt) <= k
        BY <3>1, <3>2, <1>2
      <3> QED BY <3>3, <2>2, <1>2, <1>4 DEF k
    <2>4. Settled(e1, U, Live(e1) \ {s}) /\ Private(e1, s, Len(U[s]))
      BY <2>1, <2>2, <1>4 DEF Settled
    <2> DEFINE V == Put(U, s, U[s] \o prompt)
    <2>5. IsWritten(b, e1, U, s, prompt) /\ Settled(b, V, Live(e1))
      <3> HIDE DEF e1
      <3> QED BY <2>1, <2>2, <2>3, <2>4, PrivateWrites DEF e1
    <2>6. V = Put(T, s, prompt)
      <3>1. V = Put(U, s, prompt)
        BY <2>2, <1>4
      <3> QED BY <3>1, PutTwice DEF U
    <2> HIDE DEF V, b, e1
    <2>7. /\ Layout(b, V) /\ Live(b) = Live(e1) /\ b.ctx[s].hist = none
          /\ \A t \in Live(e1) \ {s} : b.ctx[t] = e1.ctx[t]
          /\ b.count = e1.count /\ b.resident = e1.resident
      BY <2>1, <2>5 DEF IsWritten, WithLen, V
    <2>8. Seen(b, s) = prompt /\ prompt \in Seq(Int)
      <3>1. V[s] = prompt
        <4>1. IsRetold(Put(T, s, prompt), Live(e), T, s, prompt)
          BY <1>1, TextsFacts, Zenon
        <4> QED BY <4>1, <2>6 DEF IsRetold
      <3>2. Seen(b, s) = V[s]
        BY <2>2, <2>7, RowsRead
      <3> QED BY <3>1, <3>2, NotJunk
    <2>9. d = WithSaid(b, s, prompt, prompt)
      BY <2>7, <2>8, <1>4 DEF d
    <2>10. IsTold(d, b, V, s, prompt, prompt)
      BY <2>2, <2>7, <2>8, <2>9, ToldKeeps
    <2>11. Settled(d, V, Live(d))
      <3>1. Live(d) = Live(b) /\ Live(b) = Live(e1) /\ Live(b) \in SUBSET Live(b)
        BY <2>7, <2>10 DEF IsTold
      <3>2. Settled(b, V, Live(b)) => Settled(d, V, Live(b))
        BY <2>10, <3>1 DEF IsTold
      <3> QED BY <2>5, <3>1, <3>2
    <2>12. IsMade(d, e, T, s, prompt, prompt)
      <3>1. \A t \in Live(e) \ {s} : d.ctx[t] = e.ctx[t]
        BY <2>1, <2>7, <2>10 DEF IsTold
      <3> QED BY <3>1, <2>1, <2>6, <2>7, <2>10, <2>11 DEF IsTold, IsMade
    <2>13. Good(d) /\ Holds(d, e, s, prompt, prompt)
      <3>1. GoodBut(e, {s})
        BY GoodGoodBut
      <3> DEFINE p == prompt
      <3>2. p \in {prompt, NoLogits} /\ IsMade(d, e, Hists(e), s, prompt, p)
        BY <2>12 DEF T
      <3> HIDE DEF p
      <3>3. Good(d) /\ Holds(d, e, s, prompt, p)
        BY <3>1, <3>2, MadeGood
      <3> QED BY <3>3 DEF p
    <2>14. r.ok = TRUE /\ r.e = d
      BY <1>3, <1>7 DEF Done
    <2> QED BY <2>1, <2>13, <2>14 DEF r
  <1>8. a.ok \in BOOLEAN
    BY <1>5 DEF IsAllocated
  <1> QED BY <1>6, <1>7, <1>8

\* A restored context holds what the snapshot does.
LEMMA RestoreMakes ==
    ASSUME NEW e, Good(e), NEW s \in Int, NEW h \in Seq(Nat), NEW pend \in {h, NoLogits},
           NEW snap, snap = [rows |-> RowsOf(h), hist |-> h, pend |-> pend], NEW room \in Nat
    PROVE  LET r == RestoreContext(e, s, snap, room)
           IN  /\ r.ok \in BOOLEAN
               /\ ~r.ok => r.e = e
               /\ r.ok => s \notin Live(e) /\ Good(r.e) /\ Holds(r.e, e, s, h, pend)
  <1> DEFINE n == Len(snap.rows) + room
             a == Allocate(e, s, n)
             none == <<>>
             T == Hists(e)
             U == Put(T, s, none)
             q == Copied(a.e, s, snap)
             d == q.e
             r == RestoreContext(e, s, snap, room)
  <1>1. Layout(e, T) /\ Settled(e, T, Live(e)) /\ T \in [Live(e) -> Seq(Nat)]
    BY DEF Good, Layout
  <1>2. Len(h) \in Nat /\ n \in Nat /\ Len(h) <= n
    <2>1. Len(snap.rows) = Len(h)
      BY RowsOfFacts
    <2> QED BY <2>1
  <1>3. r = IF a.ok THEN q ELSE a
    BY DEF RestoreContext, Then
  <1>4. none \in Seq(Nat) /\ Len(none) = 0
    OBVIOUS
  <1> HIDE DEF n, T, none, U
  <1>5. IsAllocated(a, e, T, s, n)
    BY <1>1, <1>2, AllocateMakes
  <1> HIDE DEF r, a, q
  <1>6. CASE ~a.ok
    <2>1. r.ok = FALSE /\ r.e = e
      BY <1>3, <1>5, <1>6 DEF IsAllocated
    <2> QED BY <2>1 DEF r
  <1>7. CASE a.ok
    <2> DEFINE e1 == a.e
    <2>1. /\ s \notin Live(e) /\ Layout(e1, U) /\ Settled(e1, U, Live(e) \cup {s})
          /\ Live(e1) = Live(e) \cup {s}
          /\ \A t \in Live(e) : e1.ctx[t] = e.ctx[t]
          /\ e1.count = e.count /\ e1.resident = e.resident
          /\ n <= Len(Tab(e1, s)) * BlockSize
          /\ Private(e1, s, 0)
      BY <1>1, <1>5, <1>7 DEF IsAllocated, U, none
    <2>2. s \in Live(e1) /\ e1 \in Engines
      BY <2>1 DEF Layout
    <2>3. Len(h) <= Len(Tab(e1, s)) * BlockSize
      <3> DEFINE k == Len(Tab(e1, s)) * BlockSize
      <3>1. k \in Int
        BY <2>2, ContextFacts, BlockSizeType
      <3>2. n <= k
        BY <2>1
      <3> HIDE DEF k, e1
      <3>3. Len(h) <= k
        BY <3>1, <3>2, <1>2
      <3> QED BY <3>3 DEF k
    <2>4. Settled(e1, U, Live(e1) \ {s})
      BY <2>1 DEF Settled
    <2>5. pend \in Seq(Int)
      <3>1. h \in Seq(Int) /\ NoLogits \in Seq(Int)
        BY NotJunk DEF NoLogits
      <3> QED BY <3>1
    <2>6. q = Copied(e1, s, snap)
      BY DEF q
    <2> HIDE DEF e1
    <2>7. IsMade(d, e1, U, s, h, pend) /\ q.ok = TRUE
      BY <2>1, <2>2, <2>3, <2>5, <2>6, CopiedMakes
    <2>8. Put(U, s, h) = Put(T, s, h)
      BY PutTwice DEF U
    <2> HIDE DEF d
    <2>9. IsMade(d, e, T, s, h, pend)
      BY <2>1, <2>2, <2>4, <2>7, <2>8 DEF IsMade
    <2>10. Good(d) /\ Holds(d, e, s, h, pend)
      <3>1. GoodBut(e, {s})
        BY GoodGoodBut
      <3> QED BY <3>1, <2>9, MadeGood DEF T
    <2> QED BY <1>3, <1>7, <2>1, <2>7, <2>10 DEF r, d
  <1>8. a.ok \in BOOLEAN
    BY <1>5 DEF IsAllocated
  <1> QED BY <1>6, <1>7, <1>8

\* A forked context holds what its source does.
LEMMA ForkHolds ==
    ASSUME NEW e, Good(e), NEW src \in Live(e), e.ctx[src].hist # <<>>,
           NEW s \in Int, NEW room \in Nat
    PROVE  LET r == ForkContextPrefix(e, src, s, room)
           IN  /\ r.ok \in BOOLEAN
               /\ ~r.ok => r.e = e
               /\ r.ok => /\ s \notin Live(e) /\ Good(r.e)
                          /\ Holds(r.e, e, s, e.ctx[src].hist, e.ctx[src].pend)
  <1> DEFINE r == ForkContextPrefix(e, src, s, room)
             T == Hists(e)
             h == e.ctx[src].hist
             p == e.ctx[src].pend
  <1>1. Layout(e, T) /\ Settled(e, T, Live(e)) /\ T[src] = h /\ p \in {h, NoLogits}
    BY DEF Good, Hists
  <1> HIDE DEF r, T, h, p
  <1>2. /\ r.ok \in BOOLEAN
        /\ ~r.ok => r.e = e
        /\ r.ok => s \notin Live(e) /\ IsMade(r.e, e, T, s, T[src], p)
    BY <1>1, ForkMakes DEF r, h, p
  <1>3. r.ok => Good(r.e) /\ Holds(r.e, e, s, h, p)
    <2>1. GoodBut(e, {s})
      BY GoodGoodBut
    <2>2. r.ok => IsMade(r.e, e, Hists(e), s, h, p)
      BY <1>1, <1>2 DEF T
    <2> DEFINE d == r.e
    <2> HIDE DEF d
    <2>3. IsMade(d, e, Hists(e), s, h, p) => Good(d) /\ Holds(d, e, s, h, p)
      BY <1>1, <2>1, MadeGood
    <2> QED BY <2>2, <2>3 DEF d
  <1> QED BY <1>2, <1>3 DEF r, h, p

\* A call that changed no words.
SameWords(d, e) ==
    /\ Live(d) = Live(e)
    /\ \A t \in Live(e) : d.ctx[t].hist = e.ctx[t].hist /\ d.ctx[t].pend = e.ctx[t].pend
    /\ d.count = e.count /\ d.resident = e.resident

\* Such a call leaves every context holding what it held.
LEMMA SameWordsHold ==
    ASSUME NEW e, NEW s \in Live(e), NEW d, SameWords(d, e)
    PROVE  Hists(d) = Hists(e) /\ Holds(d, e, s, e.ctx[s].hist, e.ctx[s].pend)
  <1>1. Hists(d) = [t \in Live(e) |-> d.ctx[t].hist]
    BY DEF SameWords, Hists
  <1>2. Hists(e) = [t \in Live(e) |-> e.ctx[t].hist]
    BY DEF Hists
  <1>3. \A t \in Live(e) : d.ctx[t].hist = e.ctx[t].hist
    BY DEF SameWords
  <1>4. Hists(d) = Hists(e)
    BY <1>1, <1>2, <1>3
  <1> QED BY <1>4 DEF SameWords, Holds, Kept

\* A context that was cut holds the tokens before the cut, and no logits.
LEMMA TruncateMakes ==
    ASSUME NEW e, Good(e), NEW s \in Live(e), NEW n \in 1..Len(e.ctx[s].hist)
    PROVE  LET d == TruncateContext(e, s, n)
           IN  GoodBut(d, {s}) /\ Holds(d, e, s, SubSeq(e.ctx[s].hist, 1, n), NoLogits)
  <1> DEFINE T == Hists(e)
             d == TruncateContext(e, s, n)
             y == SubSeq(T[s], 1, n)
  <1>1. Layout(e, T) /\ Settled(e, T, Live(e)) /\ T[s] = e.ctx[s].hist
    BY DEF Good, Hists
  <1> HIDE DEF T, d
  <1>2. n \in 1..Len(T[s])
    BY <1>1
  <1>3. IsCut(d, e, T, s, n)
    BY <1>1, <1>2, TruncateKeeps DEF d
  <1>4. /\ Live(d) = Live(e) /\ d.ctx[s].hist = y /\ d.ctx[s].pend = NoLogits
        /\ \A t \in Live(e) \ {s} : d.ctx[t] = e.ctx[t]
        /\ d.count = e.count /\ d.resident = e.resident
    BY <1>1, <1>3 DEF IsCut
  <1>5. Layout(d, Put(T, s, y)) /\ Settled(d, Put(T, s, y), Live(e) \ {s})
    BY <1>1, <1>3 DEF IsCut
  <1> HIDE DEF y
  <1>6. Hists(d) = Put(T, s, y)
    <2>1. Retold(d, e, s, y)
      BY <1>4 DEF Retold
    <2> QED BY <2>1, HistsPut DEF T
  <1>7. \A t \in Live(d) : d.ctx[t].pend \in {d.ctx[t].hist, NoLogits}
    BY <1>4 DEF Good
  <1>8. GoodBut(d, {s})
    BY <1>4, <1>5, <1>6, <1>7 DEF GoodBut
  <1>9. Holds(d, e, s, y, NoLogits)
    BY <1>4 DEF Holds, Kept
  <1> QED BY <1>1, <1>8, <1>9 DEF d, y

\* Tokens that are replayed through prefill_suffix are behind the context's,
\* in blocks of its own; when the pool runs dry nothing is.
LEMMA ReplayMakes ==
    ASSUME NEW e, NEW s \in Live(e), GoodBut(e, {s}), NEW tail \in Seq(Nat), Len(tail) > 1,
           SuffixPrefill = TRUE
    PROVE  LET r == ReplayTokens(e, s, tail)
               h == e.ctx[s].hist \o tail
           IN  /\ r.ok \in BOOLEAN
               /\ r.ok => Good(r.e) /\ Holds(r.e, e, s, h, h)
               /\ ~r.ok => /\ GoodBut(r.e, {s})
                           /\ Holds(r.e, e, s, e.ctx[s].hist, e.ctx[s].pend)
  <1> DEFINE n == Len(tail)
             T == Hists(e)
             x == T[s]
             h == x \o tail
             a == EnsureCapacity(e, s, n)
             b == CopyOnWrite(a.e, s)
             w == Written(b.e, s, tail)
             d == WithSaid(w, s, w.ctx[s].hist \o tail, Seen(w, s))
             r == ReplayTokens(e, s, tail)
             S == Live(e) \ {s}
  <1>1. /\ Layout(e, T) /\ Settled(e, T, S) /\ T \in [Live(e) -> Seq(Nat)] /\ x \in Seq(Nat)
        /\ x = e.ctx[s].hist /\ S \in SUBSET Live(e)
    BY DEF GoodBut, Layout, Hists
  <1>2. n \in Nat /\ tail # <<>> /\ Len(x) \in Nat /\ h \in Seq(Nat)
    <2> HIDE DEF x
    <2> QED BY <1>1, Concat
  <1>3. r = IF ~a.ok THEN a ELSE IF ~b.ok THEN b ELSE Done(d)
    <2> DEFINE z == Remembered(w, s, tail)
    <2>1. z = Done(d)
      BY Zenon DEF Remembered, WithSaid
    <2>2. r = IF ~a.ok THEN a ELSE IF ~b.ok THEN b ELSE z
      <3> HIDE DEF x, h, T, S
      <3>1. /\ SuffixPrefill /\ Len(tail) > 1 /\ tail # <<>>
        BY <1>2
      <3> QED BY <3>1 DEF ReplayTokens, Then
    <2> HIDE DEF z, d, a, b, r
    <2> QED BY <2>1, <2>2
  <1> HIDE DEF n, T, x, h, S, r
  <1>4. IsEnsured(a, e, T, s, n)
    BY <1>1, <1>2, EnsureKeeps
  <1> HIDE DEF a
  <1>5. /\ a.ok \in BOOLEAN /\ Layout(a.e, T) /\ Settled(a.e, T, S)
        /\ SameWords(a.e, e) /\ Live(a.e) = Live(e)
        /\ a.ok => Len(x) + n <= Len(Tab(a.e, s)) * BlockSize
    <2>1. /\ a.ok \in BOOLEAN /\ Layout(a.e, T) /\ Live(a.e) = Live(e)
          /\ Settled(e, T, S) => Settled(a.e, T, S)
          /\ a.ok => Len(T[s]) + n <= Len(Tab(a.e, s)) * BlockSize
      BY <1>1, <1>4 DEF IsEnsured
    <2>2. SameWords(a.e, e)
      BY <1>4, SMTT(40) DEF IsEnsured, WithTab, SameWords
    <2> QED BY <2>1, <2>2, <1>1 DEF x
  <1>6. ASSUME NEW g, Layout(g, T), Settled(g, T, S), SameWords(g, e)
        PROVE  GoodBut(g, {s}) /\ Holds(g, e, s, e.ctx[s].hist, e.ctx[s].pend)
    <2>1. Hists(g) = T /\ Holds(g, e, s, e.ctx[s].hist, e.ctx[s].pend)
      BY <1>6, SameWordsHold DEF T
    <2>2. Live(g) = Live(e) /\ \A t \in Live(g) : g.ctx[t].pend \in {g.ctx[t].hist, NoLogits}
      BY <1>6 DEF SameWords, GoodBut
    <2> QED BY <2>1, <2>2, <1>6 DEF GoodBut, S
  <1>7. CASE ~a.ok
    <2>1. r = a
      BY <1>3, <1>7
    <2>2. GoodBut(a.e, {s}) /\ Holds(a.e, e, s, e.ctx[s].hist, e.ctx[s].pend)
      BY <1>5, <1>6
    <2> QED BY <2>1, <2>2, <1>5, <1>7 DEF r
  <1>8. CASE a.ok
    <2> DEFINE f == a.e
    <2>1. Layout(f, T) /\ s \in Live(f) /\ Len(x) + n <= Len(Tab(f, s)) * BlockSize /\ f \in Engines
          /\ Settled(f, T, S) /\ SameWords(f, e) /\ Live(f) = Live(e)
      BY <1>5, <1>8 DEF Layout
    <2>2. b = CopyOnWrite(f, s)
      OBVIOUS
    <2> HIDE DEF b, f, d
    <2>3. Len(T[s]) < Len(Tab(f, s)) * BlockSize
      <3> DEFINE k == Len(Tab(f, s)) * BlockSize
      <3>1. k \in Int
        BY <2>1, ContextFacts, BlockSizeType
      <3>2. Len(x) + n <= k /\ n > 1
        BY <2>1 DEF n
      <3> HIDE DEF k
      <3>3. Len(x) < k
        BY <3>1, <3>2, <1>2
      <3> QED BY <3>3 DEF k, x
    <2>4. IsOwned(b, f, T, s)
      BY <2>1, <2>2, <2>3, CopyOnWriteOwns
    <2>5. /\ b.ok \in BOOLEAN /\ Layout(b.e, T) /\ Settled(b.e, T, S)
          /\ SameWords(b.e, e) /\ Live(b.e) = Live(e)
          /\ Len(x) + n <= Len(Tab(b.e, s)) * BlockSize
          /\ b.ok => Private(b.e, s, Len(x))
      BY <2>1, <2>4 DEF IsOwned, WithTab, SameWords, S, x
    <2>6. CASE ~b.ok
      <3>1. r = b
        BY <1>3, <1>8, <2>6
      <3>2. GoodBut(b.e, {s}) /\ Holds(b.e, e, s, e.ctx[s].hist, e.ctx[s].pend)
        BY <2>5, <1>6
      <3> QED BY <3>1, <3>2, <2>5, <2>6 DEF r
    <2>7. CASE b.ok
      <3> DEFINE g == b.e
                 V == Put(T, s, h)
      <3>1. /\ Layout(g, T) /\ s \in Live(g) /\ Settled(g, T, Live(g) \ {s})
            /\ Private(g, s, Len(T[s])) /\ Len(T[s]) + Len(tail) <= Len(Tab(g, s)) * BlockSize
            /\ Live(g) = Live(e)
        BY <2>1, <2>5, <2>7 DEF S, x, n
      <3> HIDE DEF g
      <3>2. IsWritten(Written(g, s, tail), g, T, s, tail)
            /\ Settled(Written(g, s, tail), Put(T, s, T[s] \o tail), Live(g))
        BY <3>1, PrivateWrites
      <3>3. w = Written(g, s, tail)
        BY DEF g
      <3> HIDE DEF w, V
      <3>4. /\ Layout(w, V) /\ Settled(w, V, Live(e)) /\ Live(w) = Live(e)
            /\ w.ctx[s].hist = x
            /\ \A t \in Live(e) \ {s} : w.ctx[t] = g.ctx[t]
            /\ w.count = e.count /\ w.resident = e.resident
        BY <3>1, <3>2, <3>3, <2>5, <1>1 DEF IsWritten, WithLen, V, h, x, SameWords, g
      <3>5. Seen(w, s) = h /\ h \in Seq(Int)
        <4>1. V[s] = h
          <5>1. IsRetold(Put(T, s, h), Live(e), T, s, h)
            BY <1>1, <1>2, TextsFacts, Zenon
          <5> QED BY <5>1 DEF IsRetold, V
        <4>2. Seen(w, s) = V[s]
          BY <3>4, RowsRead
        <4> QED BY <4>1, <4>2, <1>2, NotJunk
      <3>6. d = WithSaid(w, s, h, h)
        BY <3>4, <3>5 DEF d, h
      <3>7. IsTold(d, w, V, s, h, h)
        BY <3>4, <3>5, <3>6, <1>2, ToldKeeps
      <3>8. Settled(d, V, Live(d)) /\ Live(d) = Live(e)
        <4>1. Live(d) = Live(w) /\ Live(w) \in SUBSET Live(w)
          BY <3>7 DEF IsTold
        <4>2. Settled(w, V, Live(w)) => Settled(d, V, Live(w))
          BY <3>7, <4>1 DEF IsTold
        <4> QED BY <3>4, <4>1, <4>2
      <3>9. \A t \in Live(e) \ {s} : d.ctx[t].hist = e.ctx[t].hist /\ d.ctx[t].pend = e.ctx[t].pend
        BY <3>4, <3>7, <2>5 DEF IsTold, SameWords, g
      <3>10. Holds(d, e, s, h, h)
        BY <3>4, <3>7, <3>8, <3>9 DEF Holds, Kept, IsTold
      <3>11. Hists(d) = V
        <4>1. Retold(d, e, s, h)
          BY <3>7, <3>8, <3>9 DEF Retold, IsTold
        <4> QED BY <4>1, HistsPut DEF V, T
      <3>12. \A t \in Live(d) : d.ctx[t].pend \in {d.ctx[t].hist, NoLogits}
        <4> TAKE t \in Live(d)
        <4>1. CASE t = s
          BY <4>1, <3>7 DEF IsTold
        <4>2. CASE t # s
          BY <4>2, <3>8, <3>9 DEF GoodBut
        <4> QED BY <4>1, <4>2
      <3>13. Layout(d, V)
        BY <3>7 DEF IsTold
      <3>14. Good(d)
        BY <3>8, <3>11, <3>12, <3>13 DEF Good
      <3>15. r.ok = TRUE /\ r.e = d
        BY <1>3, <1>8, <2>7 DEF Done
      <3> QED BY <3>10, <3>14, <3>15, <1>1 DEF r, h
    <2> QED BY <2>5, <2>6, <2>7
  <1> QED BY <1>5, <1>7, <1>8

\* A text that goes on behind x with tokens of V, or as the model would have.
GoesOn(V, x, y) ==
    /\ y \in Seq(Nat) /\ Len(x) <= Len(y) /\ SubSeq(y, 1, Len(x)) = x
    /\ \A p \in Len(x)+1..Len(y) : y[p] \in {Greedy(SubSeq(y, 1, p - 1))} \cup V

\* Concatenation groups as one likes.
LEMMA Regroup ==
    ASSUME NEW x \in Seq(Nat), NEW y \in Seq(Nat), NEW z \in Seq(Nat)
    PROVE  x \o (y \o z) = (x \o y) \o z
  BY ConcatAssociative, SMTT(40)

\* Every text goes on behind itself.
LEMMA GoesOnSelf ==
    ASSUME NEW V, NEW x \in Seq(Nat)
    PROVE  GoesOn(V, x, x)
  <1>1. SubSeq(x, 1, Len(x)) = x /\ Len(x) \in Nat
    BY PrefixAll
  <1>2. Len(x)+1..Len(x) = {}
    BY <1>1
  <1> QED BY <1>1, <1>2 DEF GoesOn

\* Going on can be done in two parts.
LEMMA GoesOnFurther ==
    ASSUME NEW V, NEW x \in Seq(Nat), NEW y, NEW z, GoesOn(V, x, y), GoesOn(V, y, z)
    PROVE  GoesOn(V, x, z)
  <1>1. /\ y \in Seq(Nat) /\ z \in Seq(Nat) /\ Len(x) \in Nat /\ Len(y) \in Nat /\ Len(z) \in Nat
        /\ Len(x) <= Len(y) /\ Len(y) <= Len(z) /\ SubSeq(y, 1, Len(x)) = x
        /\ SubSeq(z, 1, Len(y)) = y
    BY DEF GoesOn
  <1>2. \A p \in 0..Len(y) : SubSeq(z, 1, p) = SubSeq(y, 1, p)
    BY <1>1, PrefixOfPrefix
  <1>3. \A p \in 1..Len(y) : z[p] = y[p]
    BY <1>1, Prefix
  <1>4. ASSUME NEW p \in Len(x)+1..Len(z)
        PROVE  z[p] \in {Greedy(SubSeq(z, 1, p - 1))} \cup V
    <2>1. CASE p \in Len(y)+1..Len(z)
      BY <2>1 DEF GoesOn
    <2>2. CASE p \in Len(x)+1..Len(y)
      <3>1. /\ y[p] \in {Greedy(SubSeq(y, 1, p - 1))} \cup V
            /\ p \in 1..Len(y) /\ p - 1 \in 0..Len(y)
        BY <2>2, <1>1 DEF GoesOn
      <3>2. SubSeq(z, 1, p - 1) = SubSeq(y, 1, p - 1) /\ z[p] = y[p]
        BY <3>1, <1>2, <1>3
      <3> QED BY <3>1, <3>2
    <2> QED BY <2>1, <2>2, <1>1
  <1>5. SubSeq(z, 1, Len(x)) = x /\ Len(x) <= Len(z)
    <2>1. Len(x) \in 0..Len(y)
      BY <1>1
    <2>2. SubSeq(z, 1, Len(x)) = SubSeq(y, 1, Len(x))
      BY <2>1, <1>2
    <2>3. Len(x) <= Len(z)
      <3> DEFINE m == Len(x)
                 n == Len(y)
                 k == Len(z)
      <3>1. m \in Nat /\ n \in Nat /\ k \in Nat /\ m <= n /\ n <= k
        BY <1>1
      <3> HIDE DEF m, n, k
      <3>2. m <= k
        BY <3>1
      <3> QED BY <3>2 DEF m, k
    <2> QED BY <2>2, <2>3, <1>1
  <1> QED BY <1>1, <1>4, <1>5 DEF GoesOn

\* One token goes on.
LEMMA GoesOnByOne ==
    ASSUME NEW V, NEW x \in Seq(Nat), NEW token \in Nat, token \in {Greedy(x)} \cup V
    PROVE  GoesOn(V, x, x \o <<token>>)
  <1> DEFINE g == <<token>>
             y == x \o g
  <1>1. g \in Seq(Nat) /\ Len(g) = 1 /\ g[1] = token
    OBVIOUS
  <1> HIDE DEF g
  <1>2. /\ y \in Seq(Nat) /\ Len(y) = Len(x) + 1 /\ Len(x) \in Nat
        /\ \A i \in Len(x)+1..Len(x)+1 : y[i] = g[i - Len(x)]
    <2>1. /\ y \in Seq(Nat) /\ Len(y) = Len(x) + Len(g)
          /\ \A i \in Len(x)+1..Len(x)+Len(g) : y[i] = g[i - Len(x)]
      BY <1>1, Concat
    <2> HIDE DEF y
    <2> QED BY <1>1, <2>1
  <1>3. SubSeq(y, 1, Len(x)) = x
    BY <1>1, <1>2, PrefixOfFirst, PrefixAll
  <1>4. ASSUME NEW p \in Len(x)+1..Len(y)
        PROVE  y[p] \in {Greedy(SubSeq(y, 1, p - 1))} \cup V
    <2>1. p = Len(x) + 1 /\ p - 1 = Len(x) /\ p - Len(x) = 1
      BY <1>2
    <2>2. y[p] = token
      BY <2>1, <1>1, <1>2
    <2> QED BY <2>1, <2>2, <1>1, <1>3
  <1> QED BY <1>2, <1>3, <1>4 DEF GoesOn, g

\* Blocks that are its own behind a length are its own behind a greater one.
LEMMA PrivateFurther ==
    ASSUME NEW d \in Engines, NEW s \in Live(d), NEW n \in Nat, Private(d, s, n),
           NEW m \in Nat, n <= m,
           NEW e, Live(e) = Live(d), \A t \in Live(d) : Tab(e, t) = Tab(d, t)
    PROVE  Private(e, s, m)
  <1> SUFFICES ASSUME NEW t \in Live(d) \ {s}, NEW k \in DOMAIN Tab(d, s),
                      NEW j \in DOMAIN Tab(d, t), Tab(d, s)[k] = Tab(d, t)[j]
               PROVE  k * BlockSize <= m
    BY DEF Private
  <1> DEFINE a == k * BlockSize
  <1>1. k \in Nat
    BY ContextFacts
  <1>2. a \in Int
    BY <1>1, BlockSizeType
  <1>3. a <= n
    BY DEF Private
  <1> HIDE DEF a
  <1>4. a <= m
    BY <1>2, <1>3
  <1> QED BY <1>4 DEF a

\* The blocks of a sequence whose next token is decoded in a block of its own.
LEMMA NotSharedPrivate ==
    ASSUME NEW e, NEW T, Layout(e, T), NEW s \in Live(e), ~EndShared(e, s)
    PROVE  Private(e, s, Len(T[s]))
  <1>1. e \in Engines /\ e.ctx[s].len = Len(T[s]) /\ Len(T[s]) \in Nat
    BY DEF Layout
  <1> SUFFICES ASSUME NEW t \in Live(e) \ {s}, NEW k \in DOMAIN Tab(e, s),
                      NEW j \in DOMAIN Tab(e, t), Tab(e, s)[k] = Tab(e, t)[j]
               PROVE  k * BlockSize <= Len(T[s])
    BY DEF Private
  <1>2. t \in Held(e, Tab(e, s)[k])
    BY DEF Held, Range, Tab
  <1>3. Held(e, Tab(e, s)[k]) # {s}
    BY <1>2
  <1>4. ~(Len(T[s]) < k * BlockSize)
    BY <1>1, <1>3 DEF EndShared, Tab
  <1>5. k \in Nat
    BY <1>1, ContextFacts
  <1> DEFINE a == k * BlockSize
             len == Len(T[s])
  <1>6. a \in Int /\ len \in Int /\ ~(len < a)
    BY <1>1, <1>4, <1>5, BlockSizeType
  <1> HIDE DEF a, len
  <1>7. a <= len
    BY <1>6
  <1> QED BY <1>7 DEF a, len

\* The loop's record.
Loop(e, pend, stopped, said, out) ==
    [e |-> e, pend |-> pend, stopped |-> stopped, said |-> said, out |-> out]
Halt(r, v) == [r EXCEPT !.stopped = v, !.out = Append(@, Stop)]

\* Where the sampling loop is after at most i tokens: what it has said is behind
\* the context's tokens, and nothing else has changed.
InLoop(V, r, d, T, s, i) ==
    /\ r = Loop(r.e, r.pend, r.stopped, r.said, r.out)
    /\ r.stopped \in BOOLEAN
    /\ r.said \in Seq(Nat) /\ Len(r.said) <= i
    /\ GoesOn(V, T[s], T[s] \o r.said)
    /\ r.pend = T[s] \o r.said
    /\ Layout(r.e, Put(T, s, T[s] \o r.said))
    /\ Settled(r.e, Put(T, s, T[s] \o r.said), Live(d))
    /\ Live(r.e) = Live(d) /\ Tab(r.e, s) = Tab(d, s)
    /\ r.e.ctx[s].hist = d.ctx[s].hist
    /\ \A t \in Live(d) \ {s} : r.e.ctx[t] = d.ctx[t]
    /\ r.e.count = d.count /\ r.e.resident = d.resident

\* Once it has stopped.
LEMMA LoopStops ==
    ASSUME NEW e, NEW pend, NEW stopped, NEW said, NEW out, NEW v, NEW r,
           r = Loop(e, pend, stopped, said, out)
    PROVE  Halt(r, v) = Loop(e, pend, v, said, Append(out, Stop))
  <1> DEFINE a == Append(r.out, Stop)
             z == [r EXCEPT !.stopped = v, !.out = Append(@, Stop)]
             y == [r EXCEPT !.stopped = v, !.out = a]
  <1>1. z = y
    OBVIOUS
  <1> HIDE DEF a, z
  <1> DEFINE u == [r EXCEPT !.stopped = v]
  <1>2. u = [e |-> e, pend |-> pend, stopped |-> v, said |-> said, out |-> out]
    BY DEF Loop
  <1>3. y = [u EXCEPT !.out = a]
    OBVIOUS
  <1>4. r.out = out
    BY DEF Loop
  <1> HIDE DEF u, y
  <1>5. y = [e |-> e, pend |-> pend, stopped |-> v, said |-> said, out |-> a]
    BY <1>2, <1>3
  <1> QED BY <1>1, <1>4, <1>5 DEF a, z, Loop, Halt

\* The loop stays there.
LEMMA NextInLoop ==
    ASSUME NEW d, NEW T, Layout(d, T), NEW s \in Live(d), NEW n \in Nat, NEW i \in 1..n,
           Len(T[s]) + n <= Len(Tab(d, s)) * BlockSize,
           NEW V, NEW r, InLoop(V, r, d, T, s, i - 1), NEW token,
           \/ token = Greedy(r.pend)
           \/ token \in Nat \cap V /\ Private(d, s, Len(T[s]))
    PROVE  InLoop(V, NextToken(r, s, token), d, T, s, i)
  <1> DEFINE x == T[s]
             y == x \o r.said
             U == Put(T, s, y)
             k == Len(Tab(d, s)) * BlockSize
             g == <<token>>
             next == Written(r.e, s, g)
             j == Len(r.said)
  <1>1. /\ x \in Seq(Nat) /\ Len(x) \in Nat /\ r.said \in Seq(Nat) /\ j \in Nat /\ j <= i - 1
        /\ y \in Seq(Nat) /\ Len(y) = Len(x) + j /\ k \in Int /\ d \in Engines
    <2>1. x \in Seq(Nat) /\ r.said \in Seq(Nat) /\ j <= i - 1 /\ d \in Engines
      BY DEF InLoop, Layout
    <2>2. k \in Int
      BY <2>1, ContextFacts, BlockSizeType
    <2> HIDE DEF x, k
    <2>3. y \in Seq(Nat) /\ Len(y) = Len(x) + j
      BY <2>1, Concat
    <2> QED BY <2>1, <2>2, <2>3
  <1>2. /\ Layout(r.e, U) /\ Settled(r.e, U, Live(r.e)) /\ s \in Live(r.e) /\ r.pend = y
        /\ GoesOn(V, x, y) /\ Tab(r.e, s) = Tab(d, s)
    BY DEF InLoop
  <1>3. U[s] = y
    <2>1. IsRetold(U, Live(d), T, s, y)
      BY <1>1, TextsFacts, Zenon DEF Layout
    <2> QED BY <2>1 DEF IsRetold
  <1>4. Len(x) + n <= k
    OBVIOUS
  <1>9. token = Greedy(y) \/ (token \in V /\ Private(r.e, s, Len(y)))
    <2>1. CASE token = Greedy(r.pend)
      BY <2>1, <1>2
    <2>2. CASE token \in Nat \cap V /\ Private(d, s, Len(x))
      <3>1. Live(r.e) = Live(d) /\ \A t \in Live(d) \ {s} : Tab(r.e, t) = Tab(d, t)
        BY DEF InLoop, Tab
      <3> HIDE DEF x, y, j
      <3>2. Len(x) <= Len(y) /\ Len(x) \in Nat /\ Len(y) \in Nat
        BY <1>1
      <3>3. Private(r.e, s, Len(y))
        BY <2>2, <3>1, <3>2, <1>1, <1>2, PrivateFurther
      <3> QED BY <2>2, <3>3
    <2> QED BY <2>1, <2>2
  <1>10. token \in Nat /\ token \in {Greedy(y)} \cup V
    BY <1>1, <1>2, <1>9, GreedyType
  <1> HIDE DEF x, y, U, k, j
  <1>5. CASE r.stopped
    <2>1. NextToken(r, s, token) = r
      BY <1>5 DEF NextToken
    <2>2. Len(r.said) <= i
      BY <1>1 DEF j
    <2> HIDE DEF g, next
    <2> QED BY <2>1, <2>2 DEF InLoop
  <1>6. CASE ~r.stopped /\ token = Stop
    <2> DEFINE z == Halt(r, TRUE)
               c == Loop(r.e, r.pend, TRUE, r.said, Append(r.out, Stop))
    <2>1. NextToken(r, s, token) = z
      BY <1>6 DEF NextToken, Halt
    <2>2. z = c
      <3>1. r = Loop(r.e, r.pend, r.stopped, r.said, r.out)
        BY DEF InLoop
      <3>2. \A v : Halt(r, v) = Loop(r.e, r.pend, v, r.said, Append(r.out, Stop))
        BY <3>1, LoopStops
      <3> QED BY <3>2
    <2>3. /\ c.e = r.e /\ c.pend = r.pend /\ c.stopped = TRUE /\ c.said = r.said
          /\ c = Loop(c.e, c.pend, c.stopped, c.said, c.out)
      BY DEF Loop
    <2>4. Len(r.said) <= i
      BY <1>1 DEF j
    <2> HIDE DEF c, z, g, next
    <2>5. InLoop(V, c, d, T, s, i)
      BY <2>3, <2>4 DEF InLoop
    <2> QED BY <2>1, <2>2, <2>5
  <1>7. CASE ~r.stopped /\ token # Stop
    <2> DEFINE c == Loop(next, Seen(next, s), FALSE, Append(r.said, token),
                         Append(r.out, token))
               said == Append(r.said, token)
               w == y \o g
    <2>1. NextToken(r, s, token) = c
      BY <1>7 DEF NextToken, Decoded, Loop
    <2>2. g \in Seq(Nat) /\ Len(g) = 1
      BY <1>10
    <2>3. said \in Seq(Nat) /\ Len(said) = j + 1 /\ x \o said = w
      <3>1. said = r.said \o g
        BY <1>1, <1>10, AppendIsConcat
      <3>2. said \in Seq(Nat) /\ Len(said) = j + 1
        BY <1>1, <1>10 DEF j
      <3>3. x \o (r.said \o g) = (x \o r.said) \o g
        <4> HIDE DEF g
        <4>1. x \in Seq(Nat) /\ r.said \in Seq(Nat) /\ g \in Seq(Nat)
          BY <1>1, <2>2
        <4> QED BY <4>1, Regroup
      <3> HIDE DEF g, said
      <3> QED BY <3>1, <3>2, <3>3 DEF w, y
    <2>4. Len(y) + 1 <= k
      BY <1>1, <1>4
    <2>5. Len(U[s]) + 1 <= Len(Tab(r.e, s)) * BlockSize
      BY <2>4, <1>2, <1>3 DEF k
    <2>6. g = <<token>>
      OBVIOUS
    <2> HIDE DEF g
    <2>7. /\ IsWritten(next, r.e, U, s, g)
          /\ Settled(next, Put(U, s, U[s] \o g), Live(r.e))
      <3>1. CASE token = Greedy(y)
        BY <3>1, <1>2, <1>3, <2>5, <2>6, DecodeWrites
      <3>2. CASE Private(r.e, s, Len(y))
        <4>1. Settled(r.e, U, Live(r.e) \ {s})
          BY <1>2 DEF Settled
        <4>2. Private(r.e, s, Len(U[s])) /\ Len(U[s]) + Len(g) <= Len(Tab(r.e, s)) * BlockSize
          BY <3>2, <1>3, <2>2, <2>5
        <4> HIDE DEF next
        <4>3. next = Written(r.e, s, g)
          BY <2>6 DEF next
        <4> QED BY <4>1, <4>2, <4>3, <1>2, <2>2, PrivateWrites
      <3> QED BY <3>1, <3>2, <1>9
    <2>8. Put(U, s, U[s] \o g) = Put(T, s, w)
      BY <1>3, PutTwice DEF U
    <2>9. /\ Layout(next, Put(T, s, w)) /\ Settled(next, Put(T, s, w), Live(d))
          /\ Live(next) = Live(d) /\ Tab(next, s) = Tab(d, s)
          /\ next.ctx[s].hist = d.ctx[s].hist
          /\ \A t \in Live(d) \ {s} : next.ctx[t] = d.ctx[t]
          /\ next.count = d.count /\ next.resident = d.resident
      BY <2>7, <2>8, <1>2 DEF IsWritten, InLoop, WithLen, Tab
    <2>10. w \in Seq(Nat) /\ GoesOn(V, x, w)
      <3>1. GoesOn(V, y, w)
        BY <1>1, <1>10, GoesOnByOne DEF g
      <3>2. GoesOn(V, x, w)
        BY <1>1, <1>2, <3>1, GoesOnFurther
      <3> QED BY <3>2 DEF GoesOn
    <2>11. Seen(next, s) = w
      <3> DEFINE W == Put(T, s, w)
      <3>1. IsRetold(W, Live(d), T, s, w)
        BY <2>10, TextsFacts, Zenon DEF Layout
      <3>2. W[s] = w /\ s \in Live(next)
        BY <2>9, <3>1 DEF IsRetold
      <3>3. Layout(next, W)
        BY <2>9
      <3> HIDE DEF W, w
      <3> QED BY <3>2, <3>3, RowsRead
    <2>12. /\ c.e = next /\ c.pend = Seen(next, s) /\ c.stopped = FALSE /\ c.said = said
           /\ c = Loop(c.e, c.pend, c.stopped, c.said, c.out)
      BY DEF Loop
    <2>13. Len(said) <= i
      BY <1>1, <2>3
    <2> HIDE DEF c, next, w, said
    <2>14. InLoop(V, c, d, T, s, i)
      BY <2>3, <2>9, <2>10, <2>11, <2>12, <2>13 DEF InLoop, x
    <2> QED BY <2>1, <2>14
  <1>8. r.stopped \in BOOLEAN
    BY DEF InLoop
  <1> QED BY <1>5, <1>6, <1>7, <1>8

\* Where the loop starts.
LoopStart(e, s) == Loop(e, e.ctx[s].pend, FALSE, <<>>, <<>>)

\* The step that follows step i - 1 of the loop f.
Further(f, i, s, draws) == NextToken(f[i-1], s, Drawn(draws, i, f[i-1].pend))

\* The loop is one step behind another.
LEMMA SampledUnfolds ==
    ASSUME NEW e, NEW s, NEW n \in Nat, NEW draws
    PROVE  \E f : /\ f[0] = LoopStart(e, s)
                  /\ \A i \in 1..n : f[i] = Further(f, i, s, draws)
                  /\ Sampled(e, s, n, draws) = f[n]
  <1> DEFINE base == LoopStart(e, s)
             Solves(f, m) == f[0] = base /\ \A i \in 1..m : f[i] = Further(f, i, s, draws)
             S == {m \in 0..n : \E f : Solves(f, m)}
             Whole(f) == f = [i \in 0..n |-> IF i = 0 THEN base ELSE Further(f, i, s, draws)]
             run == CHOOSE f : Whole(f)
  <1> HIDE DEF base
  <1>1. 0 \in S
    <2> DEFINE f == [i \in 0..0 |-> base]
    <2>1. Solves(f, 0)
      OBVIOUS
    <2>2. \E g : Solves(g, 0)
      BY <2>1
    <2>3. 0 \in 0..n
      OBVIOUS
    <2> QED BY <2>2, <2>3
  <1>2. ASSUME NEW m \in 1..n, m - 1 \in S
        PROVE  m \in S
    <2>1. PICK f : Solves(f, m - 1)
      BY <1>2
    <2> DEFINE g == [i \in 0..m |-> IF i = m THEN Further(f, m, s, draws) ELSE f[i]]
    <2>2. g[0] = base
      BY <2>1
    <2>3. ASSUME NEW i \in 1..m
          PROVE  g[i] = Further(g, i, s, draws)
      <3>1. i - 1 \in 0..m /\ i - 1 # m /\ i \in 0..m
        OBVIOUS
      <3>2. g[i-1] = f[i-1]
        BY <3>1
      <3>5. Further(g, i, s, draws) = Further(f, i, s, draws)
        BY <3>2 DEF Further
      <3>3. CASE i = m
        BY <3>1, <3>3, <3>5
      <3>4. CASE i # m
        <4>1. i \in 1..m-1 /\ g[i] = f[i]
          BY <3>1, <3>4
        <4> QED BY <4>1, <3>5, <2>1
      <3> QED BY <3>3, <3>4
    <2> HIDE DEF g
    <2>4. Solves(g, m)
      BY <2>2, <2>3
    <2> QED BY <2>4
  <1>3. n \in S
    <2> HIDE DEF S
    <2>1. \A i \in 0..n : i \in S
      BY <1>1, <1>2, UpTo
    <2> QED BY <2>1
  <1>4. PICK f : Solves(f, n)
    BY <1>3
  <1>5. \E g : Whole(g)
    <2> DEFINE g == [i \in 0..n |-> f[i]]
    <2>1. ASSUME NEW i \in 0..n
          PROVE  g[i] = IF i = 0 THEN base ELSE Further(g, i, s, draws)
      <3>1. CASE i = 0
        BY <3>1, <1>4
      <3>2. CASE i # 0
        <4>1. i \in 1..n /\ i - 1 \in 0..n
          BY <3>2
        <4>2. g[i] = f[i] /\ g[i-1] = f[i-1]
          BY <4>1
        <4> HIDE DEF g
        <4>3. Further(g, i, s, draws) = Further(f, i, s, draws)
          BY <4>2 DEF Further
        <4> QED BY <3>2, <4>1, <4>2, <4>3, <1>4
      <3> QED BY <3>1, <3>2
    <2>2. g = [i \in 0..n |-> g[i]]
      OBVIOUS
    <2> HIDE DEF g
    <2>3. [i \in 0..n |-> g[i]] = [i \in 0..n |-> IF i = 0 THEN base ELSE Further(g, i, s, draws)]
      BY <2>1
    <2>4. Whole(g)
      BY <2>2, <2>3
    <2> QED BY <2>4
  <1>6. Whole(run)
    BY <1>5
  <1>7. Sampled(e, s, n, draws) = run[n]
    BY Zenon DEF Sampled, base, Loop, LoopStart, Further
  <1> HIDE DEF run
  <1>8. run[0] = base /\ \A i \in 1..n : run[i] = Further(run, i, s, draws)
    <2>1. \A i \in 0..n : run[i] = IF i = 0 THEN base ELSE Further(run, i, s, draws)
      BY <1>6
    <2> QED BY <2>1
  <1> QED BY <1>7, <1>8 DEF base

\* What the loop leaves behind.
LEMMA SampledInLoop ==
    ASSUME NEW d, NEW T, Layout(d, T), Settled(d, T, Live(d)), NEW s \in Live(d), NEW n \in Nat,
           Len(T[s]) + n <= Len(Tab(d, s)) * BlockSize, d.ctx[s].pend = T[s],
           NEW V \in SUBSET Nat, NEW draws \in {<<>>} \cup [1..n -> V],
           draws = <<>> \/ Private(d, s, Len(T[s]))
    PROVE  InLoop(V, Sampled(d, s, n, draws), d, T, s, n)
  <1> DEFINE base == LoopStart(d, s)
  <1>1. PICK f : /\ f[0] = base
                 /\ \A i \in 1..n : f[i] = Further(f, i, s, draws)
                 /\ Sampled(d, s, n, draws) = f[n]
    BY SampledUnfolds
  <1> DEFINE S == {i \in 0..n : InLoop(V, f[i], d, T, s, i)}
  <1>2. 0 \in S
    <2> DEFINE x == T[s]
    <2>1. x \in Seq(Nat) /\ x \o <<>> = x /\ <<>> \in Seq(Nat) /\ Len(<<>>) = 0
          /\ T \in [Live(d) -> Seq(Nat)] /\ 0 <= 0
      BY DEF Layout
    <2>2. GoesOn(V, x, x)
      BY <2>1, GoesOnSelf
    <2>3. Put(T, s, x) = T
      BY <2>1, PutSame
    <2>4. /\ base = Loop(base.e, base.pend, base.stopped, base.said, base.out)
          /\ base.e = d /\ base.pend = x /\ base.stopped = FALSE /\ base.said = <<>>
      BY DEF Loop, LoopStart
    <2> HIDE DEF base
    <2>5. Len(base.said) <= 0
      BY <2>1, <2>4
    <2>6. base.said \in Seq(Nat)
      BY <2>1, <2>4
    <2> HIDE DEF x
    <2>7. x \o base.said = x
      BY <2>1, <2>4
    <2>8. InLoop(V, base, d, T, s, 0)
      BY <2>2, <2>3, <2>4, <2>5, <2>6, <2>7 DEF InLoop, x
    <2> QED BY <2>8, <1>1
  <1>3. \A i \in 1..n : i - 1 \in S => i \in S
    <2> TAKE i \in 1..n
    <2> DEFINE q == f[i-1]
               token == Drawn(draws, i, q.pend)
    <2>1. i - 1 \in 0..n /\ i \in 0..n
      OBVIOUS
    <2>2. f[i] = NextToken(q, s, token)
      BY <1>1 DEF Further
    <2>6. \/ token = Greedy(q.pend)
          \/ token \in Nat \cap V /\ Private(d, s, Len(T[s]))
      <3>1. CASE draws = <<>>
        BY <3>1 DEF Drawn
      <3>2. CASE draws # <<>>
        <4>1. token = draws[i]
          BY <3>2 DEF Drawn
        <4>2. draws \in [1..n -> V]
          BY <3>2
        <4> QED BY <3>2, <4>1, <4>2
      <3> QED BY <3>1, <3>2
    <2>3. InLoop(V, q, d, T, s, i - 1) => InLoop(V, NextToken(q, s, token), d, T, s, i)
      <3> HIDE DEF q, S, token
      <3> QED BY <2>6, NextInLoop, SMTT(40)
    <2>4. i - 1 \in S => InLoop(V, q, d, T, s, i - 1)
      OBVIOUS
    <2>5. InLoop(V, f[i], d, T, s, i) => i \in S
      BY <2>1
    <2> HIDE DEF S, q, token
    <2> QED BY <2>2, <2>3, <2>4, <2>5
  <1> HIDE DEF S
  <1>4. \A i \in 0..n : i \in S
    BY <1>2, <1>3, UpTo
  <1>5. n \in S
    BY <1>4
  <1> QED BY <1>1, <1>5 DEF S

\* What generate_from_context leaves: the tokens it says go on behind those the
\* context had, or, when the pool runs dry, nothing is said.
IsSaid(V, r, e, s) ==
    LET h == e.ctx[s].hist
    IN  /\ r.ok \in BOOLEAN
        /\ Good(r.e)
        /\ ~r.ok => Holds(r.e, e, s, h, e.ctx[s].pend)
        /\ r.ok => /\ r.said \in Seq(Nat) /\ GoesOn(V, h, h \o r.said)
                   /\ \E pend \in {h \o r.said, NoLogits} :
                         Holds(r.e, e, s, h \o r.said, pend)

\* GenerateFromContext goes on with the tokens drawn or as the model would, or
\* changes no words; tokens are drawn into a block of nobody else.
LEMMA GenerateMakes ==
    ASSUME NEW e, Good(e), NEW s \in Live(e), NEW n \in Nat, NEW V \in SUBSET Nat,
           NEW draws \in {<<>>} \cup [1..n -> V], draws = <<>> \/ ~EndShared(e, s)
    PROVE  IsSaid(V, GenerateFromContext(e, s, n, draws), e, s)
  <1> DEFINE T == Hists(e)
             h == e.ctx[s].hist
             r == GenerateFromContext(e, s, n, draws)
             a == EnsureCapacity(e, s, n)
             q == Sampled(a.e, s, n, draws)
  <1>1. /\ Layout(e, T) /\ Settled(e, T, Live(e)) /\ T[s] = h /\ h \in Seq(Nat)
        /\ e.ctx[s].pend \in {h, NoLogits} /\ T \in [Live(e) -> Seq(Nat)]
    BY DEF Good, Hists, Layout
  <1>2. CASE e.ctx[s].pend = NoLogits
    <2>1. r.ok = FALSE /\ r.e = e
      BY <1>2 DEF GenerateFromContext, Raised
    <2>2. Holds(e, e, s, h, e.ctx[s].pend)
      BY DEF Holds, Kept
    <2> QED BY <2>1, <2>2 DEF IsSaid
  <1>3. CASE e.ctx[s].pend # NoLogits
    <2>1. r = IF a.ok THEN Finished(q, s) ELSE a
      BY <1>3 DEF GenerateFromContext, Then
    <2> HIDE DEF T, h, r, q
    <2>2. IsEnsured(a, e, T, s, n)
      BY <1>1, EnsureKeeps
    <2> HIDE DEF a
    <2>3. /\ a.ok \in BOOLEAN /\ Layout(a.e, T) /\ Settled(a.e, T, Live(e))
          /\ SameWords(a.e, e) /\ Live(a.e) = Live(e) /\ a.e \in Engines
          /\ a.ok => Len(T[s]) + n <= Len(Tab(a.e, s)) * BlockSize
      <3>1. /\ a.ok \in BOOLEAN /\ Layout(a.e, T) /\ Live(a.e) = Live(e)
            /\ Settled(e, T, Live(e)) => Settled(a.e, T, Live(e))
            /\ a.ok => Len(T[s]) + n <= Len(Tab(a.e, s)) * BlockSize
        BY <2>2 DEF IsEnsured
      <3>2. SameWords(a.e, e)
        BY <2>2 DEF IsEnsured, WithTab, SameWords
      <3>3. a.e \in Engines
        BY <3>1 DEF Layout
      <3> QED BY <1>1, <3>1, <3>2, <3>3
    <2>6. draws = <<>> \/ Private(a.e, s, Len(T[s]))
      <3> SUFFICES ASSUME draws # <<>> PROVE Private(a.e, s, Len(T[s]))
        OBVIOUS
      <3>1. Private(e, s, Len(T[s]))
        BY <1>1, NotSharedPrivate
      <3>2. IsEnsured(a, e, T, s, n)
        BY <2>2
      <3> QED BY <3>1, <3>2, <1>1 DEF IsEnsured
    <2>4. CASE ~a.ok
      <3>1. Hists(a.e) = T /\ Holds(a.e, e, s, h, e.ctx[s].pend)
        BY <2>3, SameWordsHold DEF T, h
      <3>2. \A t \in Live(a.e) : a.e.ctx[t].pend \in {a.e.ctx[t].hist, NoLogits}
        BY <2>3 DEF SameWords, Good
      <3>3. Good(a.e)
        BY <2>3, <3>1, <3>2 DEF Good
      <3>4. r = a
        BY <2>1, <2>4
      <3>5. r.ok = FALSE /\ r.e = a.e
        BY <2>3, <2>4, <3>4
      <3>6. IsSaid(V, r, e, s)
        BY <3>1, <3>3, <3>5 DEF IsSaid, h
      <3> QED BY <3>6 DEF r
    <2>5. CASE a.ok
      <3> DEFINE d == a.e
                 y == h \o q.said
                 U == Put(T, s, y)
                 pend == IF q.stopped THEN NoLogits ELSE q.pend
                 w == WithSaid(q.e, s, y, pend)
      <3>1. d.ctx[s].pend = T[s] /\ s \in Live(d) /\ d.ctx[s].hist = h
        BY <1>1, <1>3, <2>3 DEF SameWords, h
      <3>2. Layout(d, T) /\ Settled(d, T, Live(d)) /\ Len(T[s]) + n <= Len(Tab(d, s)) * BlockSize
        BY <2>3, <2>5
      <3>3. q = Sampled(d, s, n, draws)
        BY DEF q
      <3>17. draws = <<>> \/ Private(d, s, Len(T[s]))
        BY <2>6, <2>5
      <3> HIDE DEF d
      <3>4. InLoop(V, q, d, T, s, n)
        BY <3>1, <3>2, <3>3, <3>17, SampledInLoop
      <3>5. /\ q.said \in Seq(Nat) /\ GoesOn(V, h, y) /\ q.pend = y /\ q.stopped \in BOOLEAN
            /\ Layout(q.e, U) /\ Settled(q.e, U, Live(e)) /\ Live(q.e) = Live(e)
            /\ q.e.ctx[s].hist = h
            /\ \A t \in Live(e) \ {s} : q.e.ctx[t] = d.ctx[t]
            /\ q.e.count = e.count /\ q.e.resident = e.resident
        BY <3>1, <3>4, <2>3, <1>1 DEF InLoop, SameWords, d
      <3>6. y \in Seq(Nat)
        BY <3>5 DEF GoesOn
      <3>7. r.ok = TRUE /\ r.e = w /\ r.said = q.said
        <4>1. r = Finished(q, s)
          BY <2>1, <2>5
        <4>2. [q.e EXCEPT !.ctx[s].hist = @ \o q.said, !.ctx[s].pend = pend] = w
          BY <3>5, Zenon DEF WithSaid
        <4> HIDE DEF w
        <4> QED BY <4>1, <4>2 DEF Finished
      <3>8. pend \in {y, NoLogits} /\ pend \in Seq(Int)
        BY <3>5, <3>6, NotJunk DEF NoLogits
      <3> HIDE DEF y, U, w, pend
      <3>9. IsTold(w, q.e, U, s, y, pend)
        BY <3>5, <3>6, <3>8, ToldKeeps DEF w
      <3>10. Settled(w, U, Live(w)) /\ Live(w) = Live(e)
        <4>1. Live(w) = Live(q.e) /\ Live(q.e) \in SUBSET Live(q.e)
          BY <3>9 DEF IsTold
        <4>2. Settled(q.e, U, Live(q.e)) => Settled(w, U, Live(q.e))
          BY <3>9, <4>1 DEF IsTold
        <4> QED BY <3>5, <4>1, <4>2
      <3>11. \A t \in Live(e) \ {s} : w.ctx[t].hist = e.ctx[t].hist /\ w.ctx[t].pend = e.ctx[t].pend
        BY <3>5, <3>9, <2>3 DEF IsTold, SameWords, d
      <3>12. Holds(w, e, s, y, pend)
        BY <3>5, <3>9, <3>10, <3>11 DEF Holds, Kept, IsTold
      <3>13. Hists(w) = U
        <4>1. Retold(w, e, s, y)
          BY <3>9, <3>10, <3>11 DEF Retold, IsTold
        <4> QED BY <4>1, HistsPut DEF U, T
      <3>14. \A t \in Live(w) : w.ctx[t].pend \in {w.ctx[t].hist, NoLogits}
        <4> TAKE t \in Live(w)
        <4>1. CASE t = s
          BY <4>1, <3>8, <3>9 DEF IsTold
        <4>2. CASE t # s
          BY <4>2, <3>10, <3>11 DEF Good
        <4> QED BY <4>1, <4>2
      <3>15. Layout(w, U)
        BY <3>9 DEF IsTold
      <3>16. Good(w)
        BY <3>10, <3>13, <3>14, <3>15 DEF Good
      <3> QED BY <3>5, <3>7, <3>8, <3>12, <3>16 DEF IsSaid, y, h, r
    <2> QED BY <2>3, <2>4, <2>5
  <1> QED BY <1>2, <1>3

\* What the engine's counter and the resident cache's list say is no matter of
\* the contexts.
LEMMA GoodCounted ==
    ASSUME NEW e, Good(e), NEW n \in Nat, NEW l \in Seq([entry : Nat, id : Int]),
           NEW d, d = [ctx |-> e.ctx, cell |-> e.cell, count |-> n, resident |-> l]
    PROVE  Good(d) /\ d.ctx = e.ctx /\ Live(d) = Live(e) /\ d.count = n /\ d.resident = l
  <1> DEFINE T == Hists(e)
  <1>1. Layout(e, T) /\ Settled(e, T, Live(e))
    BY DEF Good
  <1>2. d.ctx = e.ctx /\ d.count = n /\ d.resident = l
    OBVIOUS
  <1>3. Hists(d) = T
    BY <1>2 DEF Hists, Live
  <1> HIDE DEF T
  <1>4. Layout(d, T) /\ Live(d) = Live(e) /\ \A S : Settled(e, T, S) => Settled(d, T, S)
    BY <1>1, CountedKeeps
  <1>5. \A s \in Live(d) : d.ctx[s].pend \in {d.ctx[s].hist, NoLogits}
    BY <1>2, <1>4 DEF Good
  <1>6. Settled(d, T, Live(d))
    BY <1>1, <1>4
  <1>7. Good(d)
    BY <1>3, <1>4, <1>5, <1>6 DEF Good
  <1> QED BY <1>2, <1>4, <1>7

\* A context that is told twice holds what it was told last.
LEMMA HoldsTwice ==
    ASSUME NEW e, NEW d, NEW f, NEW s, NEW h, NEW p, NEW g, NEW q,
           Holds(d, e, s, h, p), Holds(f, d, s, g, q)
    PROVE  Holds(f, e, s, g, q)
  BY DEF Holds, Kept
=============================================================================
