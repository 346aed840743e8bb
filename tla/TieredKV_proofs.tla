---------------------------- MODULE TieredKV_proofs ----------------------------
(***************************************************************************)
(* Proofs about TieredKV for any two pools, set of sequences, block size,  *)
(* window and bounds; at the end, that it implements SequenceStore:        *)
(* wherever the blocks of a sequence are paged to, it reads the entries    *)
(* written for it and no others.                                           *)
(***************************************************************************)
EXTENDS TieredKV, FiniteSetTheorems, WellFoundedInduction, TLAPS

-------------------------------------------------------------------------------
(* The places of logical blocks. *)

Pool == GpuBlocks \cup CpuBlocks
Entry == GpuBlocks \cup {Hole}
CpuMaps == UNION {[I -> CpuBlocks] : I \in SUBSET Nat}
Free == gpuFree \cup cpuFree

\* Tables, maps and free lists, with what PlacedOnce says of them.
Pools ==
    /\ gpuFree \subseteq GpuBlocks /\ cpuFree \subseteq CpuBlocks
    /\ tables \in [SeqIds -> Seq(Entry)]
    /\ cpuMap \in [SeqIds -> CpuMaps]
    /\ \A s \in SeqIds : DOMAIN cpuMap[s] = Holes(s)
    /\ \A x, y \in Placed : HomeOf(x) = HomeOf(y) => x = y
    /\ Free = Pool \ {HomeOf(x) : x \in Placed}

LEMMA PlacedIs ==
    /\ \A s \in SeqIds : \A i \in DOMAIN tables[s] :
          /\ <<s, i>> \in Placed
          /\ HomeOf(<<s, i>>) = Home(s, i)
    /\ \A x \in Placed : /\ x = <<x[1], x[2]>>
                         /\ x[1] \in SeqIds /\ x[2] \in DOMAIN tables[x[1]]
                         /\ HomeOf(x) = Home(x[1], x[2])
BY DEF Placed, BlocksOf, HomeOf

LEMMA TableFacts ==
    ASSUME Pools, NEW s \in SeqIds
    PROVE  /\ tables[s] \in Seq(Entry) /\ Len(tables[s]) \in Nat
           /\ DOMAIN tables[s] = 1..Len(tables[s])
           /\ \A i \in DOMAIN tables[s] : tables[s][i] \in Entry
           /\ cpuMap[s] \in [Holes(s) -> CpuBlocks]
           /\ s \in Live <=> Len(tables[s]) # 0
<1>1. tables[s] \in Seq(Entry)
  BY DEF Pools
<1>2. /\ Len(tables[s]) \in Nat /\ DOMAIN tables[s] = 1..Len(tables[s])
      /\ \A i \in DOMAIN tables[s] : tables[s][i] \in Entry
      /\ tables[s] # <<>> <=> Len(tables[s]) # 0
  BY <1>1
<1>3. cpuMap[s] \in [Holes(s) -> CpuBlocks]
  <2>1. cpuMap[s] \in CpuMaps /\ DOMAIN cpuMap[s] = Holes(s)
    BY DEF Pools
  <2>2. PICK I \in SUBSET Nat : cpuMap[s] \in [I -> CpuBlocks]
    BY <2>1 DEF CpuMaps
  <2>. QED BY <2>1, <2>2
<1>. QED BY <1>1, <1>2, <1>3 DEF Live

LEMMA HomeFacts ==
    ASSUME Pools, NEW s \in SeqIds, NEW i \in DOMAIN tables[s]
    PROVE  /\ Home(s, i) \in Pool /\ Home(s, i) \notin Free
           /\ tables[s][i] # Hole => /\ Home(s, i) = tables[s][i]
                                     /\ tables[s][i] \in GpuBlocks
           /\ tables[s][i] = Hole => /\ Home(s, i) = cpuMap[s][i]
                                     /\ cpuMap[s][i] \in CpuBlocks
                                     /\ i \in Holes(s)
<1>1. tables[s][i] \in Entry /\ cpuMap[s] \in [Holes(s) -> CpuBlocks]
  BY TableFacts
<1>2. tables[s][i] = Hole => i \in Holes(s) /\ cpuMap[s][i] \in CpuBlocks
  BY <1>1 DEF Holes, Residents, IsResident
<1>3. /\ tables[s][i] # Hole => Home(s, i) = tables[s][i] /\ tables[s][i] \in GpuBlocks
      /\ tables[s][i] = Hole => Home(s, i) = cpuMap[s][i]
  BY <1>1 DEF Home, IsResident, Entry
<1>4. <<s, i>> \in Placed /\ HomeOf(<<s, i>>) = Home(s, i)
  BY PlacedIs
<1>5. Home(s, i) \notin Free
  BY <1>4 DEF Pools
<1>. QED BY <1>2, <1>3, <1>5 DEF Pool

\* A step that keeps the blocks of K where they are and places those of M on what
\* was free, or was left by the others.
LEMMA PoolsStep ==
    ASSUME Pools, NEW K \in SUBSET Placed, NEW M,
           gpuFree' \subseteq GpuBlocks, cpuFree' \subseteq CpuBlocks,
           tables' \in [SeqIds -> Seq(Entry)],
           cpuMap' \in [SeqIds -> CpuMaps],
           \A s \in SeqIds : DOMAIN cpuMap'[s] = Holes(s)',
           K \cup M = Placed', K \cap M = {},
           \A x \in K : HomeOf(x)' = HomeOf(x),
           \A x \in M : HomeOf(x)' \in Free \cup {HomeOf(y) : y \in Placed \ K},
           \A x, y \in M : HomeOf(x)' = HomeOf(y)' => x = y,
           gpuFree' \cup cpuFree' =
               (Free \cup {HomeOf(y) : y \in Placed \ K}) \ {HomeOf(x)' : x \in M}
    PROVE  Pools'
<1>. DEFINE left == {HomeOf(y) : y \in Placed \ K}
            avail == Free \cup left
<1>1. /\ \A x, y \in Placed : HomeOf(x) = HomeOf(y) => x = y
      /\ Free = Pool \ {HomeOf(x) : x \in Placed}
  BY DEF Pools
<1>2. \A x \in Placed : HomeOf(x) \in Pool
  BY PlacedIs, HomeFacts
<1>3. avail \subseteq Pool /\ \A x \in K : HomeOf(x) \notin avail
  BY <1>1, <1>2
<1>4. \A x, y \in Placed' : HomeOf(x)' = HomeOf(y)' => x = y
  <2>. SUFFICES ASSUME NEW x \in K \cup M, NEW y \in K \cup M, HomeOf(x)' = HomeOf(y)'
                PROVE  x = y
    OBVIOUS
  <2>1. CASE x \in K /\ y \in K
    BY <1>1, <2>1
  <2>2. CASE x \in K /\ y \in M
    BY <1>3, <2>2
  <2>3. CASE x \in M /\ y \in K
    BY <1>3, <2>3
  <2>4. CASE x \in M /\ y \in M
    BY <2>4
  <2>. QED BY <2>1, <2>2, <2>3, <2>4
<1>5. Free' = Pool \ {HomeOf(x)' : x \in Placed'}
  <2>1. Free' = avail \ {HomeOf(x)' : x \in M}
    BY DEF Free
  <2>2. avail = Pool \ {HomeOf(x) : x \in K}
    BY <1>1, <1>2
  <2>3. {HomeOf(x)' : x \in Placed'} = {HomeOf(x) : x \in K} \cup {HomeOf(x)' : x \in M}
    OBVIOUS
  <2>. QED BY <2>1, <2>2, <2>3
<1>6. Pool' = Pool
  BY DEF Pool
<1>. QED BY <1>4, <1>5, <1>6 DEF Pools

LEMMA BlocksForFacts ==
    ASSUME NEW n \in Nat
    PROVE  /\ CeilDiv(n) \in Nat /\ n <= CeilDiv(n) * BlockSize
           /\ BlocksFor(n) \in Nat \ {0} /\ n <= BlocksFor(n) * BlockSize
           /\ \A m \in Nat : n <= m * BlockSize => CeilDiv(n) <= m
<1>1. BlockSize \in Nat \ {0}
  BY TieredAssumption
<1>2. CeilDiv(n) \in Nat /\ n <= CeilDiv(n) * BlockSize
  BY <1>1 DEF CeilDiv
<1>3. \A m \in Nat : n <= m * BlockSize => CeilDiv(n) <= m
  <2>. SUFFICES ASSUME NEW m \in Nat, n <= m * BlockSize PROVE CeilDiv(n) <= m
    OBVIOUS
  <2>1. n + BlockSize - 1 < (m + 1) * BlockSize
    BY <1>1
  <2>2. CeilDiv(n) * BlockSize <= n + BlockSize - 1
    BY <1>1 DEF CeilDiv
  <2>3. CeilDiv(n) * BlockSize < (m + 1) * BlockSize
    BY <1>1, <1>2, <2>1, <2>2
  <2>4. CeilDiv(n) < m + 1
    BY <1>1, <1>2, <2>3
  <2>. QED BY <1>2, <2>4
<1>4. BlocksFor(n) \in Nat \ {0} /\ n <= BlocksFor(n) * BlockSize
  <2>1. CASE CeilDiv(n) > 1
    BY <1>2, <2>1 DEF BlocksFor
  <2>2. CASE ~(CeilDiv(n) > 1)
    <3>1. BlocksFor(n) = 1 /\ CeilDiv(n) \in {0, 1}
      BY <1>2, <2>2 DEF BlocksFor
    <3>2. CeilDiv(n) * BlockSize <= BlockSize
      BY <1>1, <3>1
    <3>. QED BY <1>1, <1>2, <3>1, <3>2
  <2>. QED BY <2>1, <2>2
<1>. QED BY <1>2, <1>3, <1>4

\* A new sequence: the first blocks on the GPU, the others on the CPU.
LEMMA AllocPools ==
    ASSUME Pools, NEW s \in SeqIds, s \notin Live,
           NEW total \in Nat \ {0}, NEW onGpu \in 0..total,
           NEW g \in Injection(1..onGpu, gpuFree),
           NEW c \in Injection((onGpu+1)..total, cpuFree),
           tables' = [tables EXCEPT ![s] =
                         [i \in 1..total |-> IF i <= onGpu THEN g[i] ELSE Hole]],
           cpuMap' = [cpuMap EXCEPT ![s] = c],
           gpuFree' = gpuFree \ Range(g), cpuFree' = cpuFree \ Range(c)
    PROVE  /\ Pools' /\ tables[s] = <<>> /\ Len(tables'[s]) = total
           /\ \A t \in SeqIds \ {s} : tables'[t] = tables[t] /\ cpuMap'[t] = cpuMap[t]
           /\ \A x \in Placed : HomeOf(x)' = HomeOf(x)
<1>. DEFINE t == [i \in 1..total |-> IF i <= onGpu THEN g[i] ELSE Hole]
            M == {s} \X (1..total)
            K == Placed
<1>1. /\ g \in [1..onGpu -> gpuFree] /\ (\A i, j \in 1..onGpu : g[i] = g[j] => i = j)
      /\ c \in [(onGpu+1)..total -> cpuFree]
      /\ \A i, j \in (onGpu+1)..total : c[i] = c[j] => i = j
      /\ Range(g) = {g[i] : i \in 1..onGpu} /\ Range(c) = {c[i] : i \in (onGpu+1)..total}
  BY DEF Injection, IsInjective, Range
<1>2. gpuFree \subseteq GpuBlocks /\ cpuFree \subseteq CpuBlocks /\ GpuBlocks \cap CpuBlocks = {}
      /\ Hole \notin GpuBlocks
  BY TieredAssumption DEF Pools
<1>3. /\ t \in Seq(Entry) /\ Len(t) = total /\ DOMAIN t = 1..total
      /\ \A i \in 1..total : /\ i <= onGpu => t[i] = g[i] /\ t[i] # Hole
                             /\ ~(i <= onGpu) => t[i] = Hole
  <2>1. \A i \in 1..total : i <= onGpu => i \in 1..onGpu /\ g[i] \in GpuBlocks
    BY <1>1, <1>2
  <2>2. t \in [1..total -> Entry]
    BY <2>1 DEF Entry
  <2>. QED BY <1>2, <2>1, <2>2
<1>4. tables \in [SeqIds -> Seq(Entry)] /\ cpuMap \in [SeqIds -> CpuMaps]
  BY DEF Pools
<1>. HIDE DEF t
<1>5. /\ tables' = [tables EXCEPT ![s] = t]
      /\ tables'[s] = t /\ cpuMap'[s] = c
      /\ \A x \in SeqIds \ {s} : tables'[x] = tables[x] /\ cpuMap'[x] = cpuMap[x]
  BY <1>4 DEF t
<1>6. tables' \in [SeqIds -> Seq(Entry)]
  BY <1>3, <1>4, <1>5
<1>7. c \in CpuMaps
  <2>. DEFINE I == (onGpu+1)..total
  <2>1. I \in SUBSET Nat
    OBVIOUS
  <2>2. c \in [I -> CpuBlocks]
    BY <1>1, <1>2
  <2>. HIDE DEF I
  <2>. QED BY <2>1, <2>2 DEF CpuMaps
<1>8. cpuMap' \in [SeqIds -> CpuMaps]
  BY <1>4, <1>7
<1>9. ASSUME NEW x \in SeqIds PROVE DOMAIN cpuMap'[x] = Holes(x)'
  <2>1. CASE x = s
    <3>1. Holes(s)' = {i \in 1..total : t[i] = Hole}
      BY <1>3, <1>5 DEF Holes, Residents, IsResident
    <3>2. Holes(s)' = (onGpu+1)..total
      BY <1>3, <3>1
    <3>. QED BY <1>1, <1>5, <2>1, <3>2
  <2>2. CASE x # s
    <3>1. Holes(x)' = Holes(x)
      BY <1>5, <2>2 DEF Holes, Residents, IsResident
    <3>. QED BY <1>5, <2>2, <3>1 DEF Pools
  <2>. QED BY <2>1, <2>2
<1>10. tables[s] = <<>>
  BY DEF Live
<1>11. K \cup M = Placed' /\ K \cap M = {}
  BY <1>3, <1>5, <1>10 DEF Placed, BlocksOf
<1>12. \A x \in K : HomeOf(x)' = HomeOf(x)
  <2>. SUFFICES ASSUME NEW x \in K PROVE Home(x[1], x[2])' = Home(x[1], x[2])
    BY DEF HomeOf
  <2>1. x[1] \in SeqIds \ {s}
    BY <1>10, PlacedIs
  <2>. QED BY <1>5, <2>1 DEF Home, IsResident
<1>13. \A i \in 1..total : HomeOf(<<s, i>>)' = IF i <= onGpu THEN g[i] ELSE c[i]
  BY <1>3, <1>5 DEF HomeOf, Home, IsResident
<1>. DEFINE left == {HomeOf(y) : y \in Placed \ K}
<1>14. \A x \in M : HomeOf(x)' \in Free \cup left
  BY <1>1, <1>13 DEF Free
<1>15. \A x, y \in M : HomeOf(x)' = HomeOf(y)' => x = y
  <2>. SUFFICES ASSUME NEW i \in 1..total, NEW j \in 1..total,
                       HomeOf(<<s, i>>)' = HomeOf(<<s, j>>)'
                PROVE  i = j
    OBVIOUS
  <2>1. CASE i <= onGpu /\ j <= onGpu
    BY <1>1, <1>13, <2>1
  <2>2. CASE ~(i <= onGpu) /\ ~(j <= onGpu)
    BY <1>1, <1>13, <2>2
  <2>3. CASE ~(i <= onGpu <=> j <= onGpu)
    BY <1>1, <1>2, <1>13, <2>3
  <2>. QED BY <2>1, <2>2, <2>3
<1>16. {HomeOf(x)' : x \in M} = Range(g) \cup Range(c)
  <2>1. ASSUME NEW x \in M PROVE HomeOf(x)' \in Range(g) \cup Range(c)
    <3>1. PICK i \in 1..total : x = <<s, i>>
      OBVIOUS
    <3>2. CASE i <= onGpu
      BY <1>1, <1>13, <3>1, <3>2
    <3>3. CASE ~(i <= onGpu)
      BY <1>1, <1>13, <3>1, <3>3
    <3>. QED BY <3>2, <3>3
  <2>2. ASSUME NEW i \in 1..onGpu PROVE \E x \in M : HomeOf(x)' = g[i]
    <3>1. <<s, i>> \in M /\ HomeOf(<<s, i>>)' = g[i]
      BY <1>13
    <3>. QED BY <3>1
  <2>3. ASSUME NEW i \in (onGpu+1)..total PROVE \E x \in M : HomeOf(x)' = c[i]
    <3>1. <<s, i>> \in M /\ HomeOf(<<s, i>>)' = c[i]
      BY <1>13
    <3>. QED BY <3>1
  <2>. HIDE DEF M
  <2>. QED BY <1>1, <2>1, <2>2, <2>3
<1>17. gpuFree' \cup cpuFree' = (Free \cup left) \ {HomeOf(x)' : x \in M}
  <2>1. left = {}
    OBVIOUS
  <2>2. Range(g) \subseteq gpuFree /\ Range(c) \subseteq cpuFree
    BY <1>1
  <2>. QED BY <1>2, <1>16, <2>1, <2>2 DEF Free
<1>18. gpuFree' \subseteq GpuBlocks /\ cpuFree' \subseteq CpuBlocks
  BY <1>2
<1>. HIDE DEF M, K
<1>19. K \in SUBSET Placed
  BY DEF K
<1>20. Pools'
  BY <1>6, <1>8, <1>9, <1>11, <1>12, <1>14, <1>15, <1>17, <1>18, <1>19, PoolsStep
<1>. QED BY <1>3, <1>5, <1>10, <1>12, <1>20 DEF K

\* The blocks of s from index `first` on go back to the pool they are in.
LEMMA ReleasePools ==
    ASSUME Pools, NEW s \in SeqIds, NEW first \in Nat \ {0},
           first - 1 <= Len(tables[s]), Release(s, first)
    PROVE  /\ Pools' /\ Len(tables'[s]) = first - 1
           /\ \A i \in 1..(first-1) : tables'[s][i] = tables[s][i]
           /\ \A t \in SeqIds \ {s} : tables'[t] = tables[t]
           /\ {Home(s, i) : i \in {j \in DOMAIN tables[s] : j >= first}} \subseteq Pool
           /\ \A x \in Placed' : /\ x \in Placed /\ HomeOf(x)' = HomeOf(x)
                                 /\ x[1] = s => x[2] < first
<1>. DEFINE gone == {i \in DOMAIN tables[s] : i >= first}
            blocks == {Home(s, i) : i \in gone}
            row == SubSeq(tables[s], 1, first - 1)
            map == [i \in DOMAIN cpuMap[s] \ gone |-> cpuMap[s][i]]
            K == Placed \ ({s} \X gone)
            M == {}
<1>1. /\ tables[s] \in Seq(Entry) /\ Len(tables[s]) \in Nat
      /\ DOMAIN tables[s] = 1..Len(tables[s])
      /\ cpuMap[s] \in [Holes(s) -> CpuBlocks]
  BY TableFacts
<1>2. tables \in [SeqIds -> Seq(Entry)] /\ cpuMap \in [SeqIds -> CpuMaps]
  BY DEF Pools
<1>3. /\ row \in Seq(Entry) /\ Len(row) = first - 1 /\ DOMAIN row = 1..(first-1)
      /\ \A i \in 1..(first-1) : row[i] = tables[s][i]
  BY <1>1
<1>4. /\ tables' = [tables EXCEPT ![s] = row] /\ cpuMap' = [cpuMap EXCEPT ![s] = map]
      /\ gpuFree' = gpuFree \cup (blocks \cap GpuBlocks)
      /\ cpuFree' = cpuFree \cup (blocks \cap CpuBlocks)
  BY DEF Release
<1>5. map \in CpuMaps /\ DOMAIN map = Holes(s) \ gone
      /\ \A i \in Holes(s) \ gone : map[i] = cpuMap[s][i]
  <2>1. Holes(s) \ gone \in SUBSET Nat
    BY <1>1 DEF Holes
  <2>2. map \in [Holes(s) \ gone -> CpuBlocks]
    BY <1>1
  <2>. QED BY <1>1, <2>1, <2>2 DEF CpuMaps
<1>6. gone = {i \in 1..Len(tables[s]) : i >= first}
  BY <1>1
<1>. HIDE DEF row, map
<1>7. /\ tables'[s] = row /\ cpuMap'[s] = map
      /\ \A t \in SeqIds \ {s} : tables'[t] = tables[t] /\ cpuMap'[t] = cpuMap[t]
  BY <1>2, <1>4
<1>8. tables' \in [SeqIds -> Seq(Entry)] /\ cpuMap' \in [SeqIds -> CpuMaps]
  BY <1>2, <1>3, <1>4, <1>5
<1>9. ASSUME NEW x \in SeqIds PROVE DOMAIN cpuMap'[x] = Holes(x)'
  <2>1. CASE x = s
    <3>1. Holes(s)' = {i \in 1..(first-1) : tables[s][i] = Hole}
      BY <1>3, <1>7 DEF Holes, Residents, IsResident
    <3>2. Holes(s) = {i \in 1..Len(tables[s]) : tables[s][i] = Hole}
      BY <1>1 DEF Holes, Residents, IsResident
    <3>3. Holes(s)' = Holes(s) \ gone
      BY <1>1, <1>6, <3>1, <3>2
    <3>. QED BY <1>5, <1>7, <2>1, <3>3
  <2>2. CASE x # s
    <3>1. Holes(x)' = Holes(x)
      BY <1>7, <2>2 DEF Holes, Residents, IsResident
    <3>. QED BY <1>7, <2>2, <3>1 DEF Pools
  <2>. QED BY <2>1, <2>2
<1>10. K \cup M = Placed' /\ K \cap M = {}
  <2>1. \A x : x \in Placed' <=> x \in K
    BY <1>1, <1>3, <1>6, <1>7 DEF Placed, BlocksOf
  <2>. QED BY <2>1
<1>11. \A x \in K : HomeOf(x)' = HomeOf(x)
  <2>. SUFFICES ASSUME NEW x \in K PROVE Home(x[1], x[2])' = Home(x[1], x[2])
    BY DEF HomeOf
  <2>1. x \in Placed /\ x = <<x[1], x[2]>> /\ x[1] \in SeqIds /\ x[2] \in DOMAIN tables[x[1]]
    BY PlacedIs
  <2>2. CASE x[1] = s
    <3>1. x[2] \notin gone
      BY <2>1, <2>2
    <3>2. x[2] \in 1..(first-1)
      BY <1>1, <1>6, <2>1, <2>2, <3>1
    <3>3. tables'[s][x[2]] = tables[s][x[2]]
      BY <1>3, <1>7, <3>2
    <3>4. tables[s][x[2]] = Hole => cpuMap'[s][x[2]] = cpuMap[s][x[2]]
      BY <1>5, <1>7, <2>1, <2>2, <3>1 DEF Holes, Residents, IsResident
    <3>. QED BY <2>2, <3>3, <3>4 DEF Home, IsResident
  <2>3. CASE x[1] # s
    BY <1>7, <2>1, <2>3 DEF Home, IsResident
  <2>. QED BY <2>2, <2>3
<1>12. blocks \subseteq Pool
  BY HomeFacts
<1>13. {HomeOf(y) : y \in Placed \ K} = blocks
  <2>1. Placed \ K = {s} \X gone
    BY PlacedIs
  <2>2. \A i \in gone : <<s, i>> \in {s} \X gone /\ HomeOf(<<s, i>>) = Home(s, i)
    BY PlacedIs
  <2>3. \A x \in {s} \X gone : x[2] \in gone /\ x = <<s, x[2]>>
    OBVIOUS
  <2>4. blocks = {Home(s, i) : i \in gone}
    OBVIOUS
  <2>. HIDE DEF gone, K, blocks
  <2>5. \A b \in blocks : b \in {HomeOf(y) : y \in Placed \ K}
    BY <2>1, <2>2, <2>4
  <2>6. \A y \in Placed \ K : HomeOf(y) = Home(s, y[2]) /\ y[2] \in gone
    BY <2>1, <2>2, <2>3
  <2>. QED BY <2>4, <2>5, <2>6
<1>14. gpuFree' \cup cpuFree' = (Free \cup {HomeOf(y) : y \in Placed \ K}) \ {HomeOf(x)' : x \in M}
  BY <1>4, <1>12, <1>13 DEF Free, Pool
<1>15. gpuFree' \subseteq GpuBlocks /\ cpuFree' \subseteq CpuBlocks
  BY <1>4 DEF Pools
<1>. HIDE DEF M, K, gone, blocks
<1>16. /\ K \in SUBSET Placed
       /\ \A x \in M : HomeOf(x)' \in Free \cup {HomeOf(y) : y \in Placed \ K}
       /\ \A x, y \in M : HomeOf(x)' = HomeOf(y)' => x = y
  BY DEF K, M
<1>17. Pools'
  BY <1>8, <1>9, <1>10, <1>11, <1>14, <1>15, <1>16, PoolsStep
<1>18. first - 1 = Len(tables'[s]) /\ \A i \in 1..(first-1) : tables'[s][i] = tables[s][i]
  BY <1>3, <1>7
<1>19. \A x \in Placed' : x \in Placed /\ HomeOf(x)' = HomeOf(x) /\ (x[1] = s => x[2] < first)
  <2>. SUFFICES ASSUME NEW x \in K PROVE x[1] = s => x[2] < first
    BY <1>10, <1>11, <1>16 DEF M
  <2>1. x = <<x[1], x[2]>> /\ x[2] \in DOMAIN tables[x[1]]
    BY <1>16, PlacedIs
  <2>2. x[1] = s => x[2] \notin gone
    BY <2>1 DEF K
  <2>. QED BY <1>1, <1>6, <2>1, <2>2
<1>. QED BY <1>7, <1>12, <1>17, <1>18, <1>19 DEF blocks, gone

\* A step that moves the logical blocks of M, with their entries, to the free
\* places `to` gives them, and leaves the others where they are.
Moves(M, to) ==
    /\ to \in [M -> Free] /\ \A x, y \in M : to[x] = to[y] => x = y
    /\ \A x \in Placed : HomeOf(x)' = IF x \in M THEN to[x] ELSE HomeOf(x)
    /\ kv' = MovedEntries({<<HomeOf(x), to[x]>> : x \in M}, {HomeOf(x) : x \in M})

\* The logical blocks of E leave the GPU for CPU slots.
LEMMA EvictPools ==
    ASSUME Pools, NEW E \in SUBSET Placed, \A x \in E : IsResident(x[1], x[2]), Evict(E)
    PROVE  /\ Pools'
           /\ \A s \in SeqIds : /\ Len(tables'[s]) = Len(tables[s])
                                /\ \A i \in DOMAIN tables[s] :
                                      tables'[s][i] = IF <<s, i>> \in E THEN Hole ELSE tables[s][i]
           /\ \E to : Moves(E, to)
<1>. DEFINE freed == {tables[x[1]][x[2]] : x \in E}
            K == Placed \ E
<1>1. PICK claim \in Injection(E, cpuFree) :
           /\ tables' = TablesWithout(E) /\ cpuMap' = OffloadedTo(E, claim)
           /\ gpuFree' = gpuFree \cup freed /\ cpuFree' = cpuFree \ Range(claim)
           /\ kv' = MovedEntries({<<tables[x[1]][x[2]], claim[x]>> : x \in E}, freed)
  BY DEF Evict
<1>2. /\ claim \in [E -> cpuFree] /\ (\A x, y \in E : claim[x] = claim[y] => x = y)
      /\ Range(claim) = {claim[x] : x \in E}
  BY DEF Injection, IsInjective, Range
<1>3. gpuFree \subseteq GpuBlocks /\ cpuFree \subseteq CpuBlocks /\ GpuBlocks \cap CpuBlocks = {}
      /\ Hole \notin GpuBlocks
  BY TieredAssumption DEF Pools
<1>4. \A x \in E : /\ x[1] \in SeqIds /\ x[2] \in DOMAIN tables[x[1]] /\ x = <<x[1], x[2]>>
                   /\ HomeOf(x) = tables[x[1]][x[2]] /\ HomeOf(x) \in GpuBlocks
  BY PlacedIs, HomeFacts DEF IsResident
<1>5. ASSUME NEW s \in SeqIds
      PROVE  /\ tables'[s] \in Seq(Entry) /\ Len(tables'[s]) = Len(tables[s])
             /\ DOMAIN tables'[s] = DOMAIN tables[s]
             /\ \A i \in DOMAIN tables[s] :
                   tables'[s][i] = IF <<s, i>> \in E THEN Hole ELSE tables[s][i]
  <2>1. /\ Len(tables[s]) \in Nat /\ DOMAIN tables[s] = 1..Len(tables[s])
        /\ \A i \in DOMAIN tables[s] : tables[s][i] \in Entry
    BY TableFacts
  <2>2. tables'[s] = [i \in DOMAIN tables[s] |-> IF <<s, i>> \in E THEN Hole ELSE tables[s][i]]
    BY <1>1 DEF TablesWithout
  <2>3. tables'[s] \in [1..Len(tables[s]) -> Entry]
    BY <2>1, <2>2 DEF Entry
  <2>. QED BY <2>1, <2>2, <2>3
<1>6. tables' \in [SeqIds -> Seq(Entry)]
  BY <1>1, <1>5 DEF TablesWithout
<1>7. ASSUME NEW s \in SeqIds
      PROVE  /\ Holes(s)' = Holes(s) \cup {i \in DOMAIN tables[s] : <<s, i>> \in E}
             /\ cpuMap'[s] \in [Holes(s)' -> CpuBlocks]
             /\ \A i \in Holes(s)' :
                   cpuMap'[s][i] = IF <<s, i>> \in E THEN claim[<<s, i>>] ELSE cpuMap[s][i]
             /\ Holes(s)' \in SUBSET Nat
  <2>1. Holes(s)' = Holes(s) \cup {i \in DOMAIN tables[s] : <<s, i>> \in E}
    BY <1>5 DEF Holes, Residents, IsResident
  <2>2. {x[2] : x \in {y \in E : y[1] = s}} = {i \in DOMAIN tables[s] : <<s, i>> \in E}
    <3>1. \A x \in E : x[1] = s => x = <<s, x[2]>> /\ x[2] \in DOMAIN tables[s]
      BY <1>4
    <3>2. \A i : <<s, i>> \in E => <<s, i>>[1] = s /\ <<s, i>>[2] = i
      OBVIOUS
    <3>. QED BY <3>1, <3>2
  <2>3. cpuMap[s] \in [Holes(s) -> CpuBlocks]
    BY TableFacts
  <2>4. cpuMap'[s] = [i \in Holes(s)' |-> IF <<s, i>> \in E THEN claim[<<s, i>>] ELSE cpuMap[s][i]]
    BY <1>1, <2>1, <2>2, <2>3 DEF OffloadedTo
  <2>5. ASSUME NEW i \in Holes(s)'
        PROVE  (IF <<s, i>> \in E THEN claim[<<s, i>>] ELSE cpuMap[s][i]) \in CpuBlocks
    BY <1>2, <1>3, <2>1, <2>3
  <2>6. Holes(s)' \in SUBSET Nat
    <3>1. DOMAIN tables[s] = 1..Len(tables[s]) /\ Len(tables[s]) \in Nat
      BY TableFacts
    <3>2. Holes(s) \subseteq DOMAIN tables[s]
      BY DEF Holes
    <3>3. Holes(s)' \subseteq DOMAIN tables[s]
      BY <2>1, <3>2
    <3>4. DOMAIN tables[s] \subseteq Nat
      BY <3>1
    <3>. HIDE DEF Holes
    <3>. QED BY <3>3, <3>4
  <2>. HIDE DEF Holes
  <2>. QED BY <2>1, <2>4, <2>5, <2>6
<1>8. cpuMap' \in [SeqIds -> CpuMaps]
  <2>1. \A s \in SeqIds : cpuMap'[s] \in CpuMaps
    BY <1>7 DEF CpuMaps
  <2>. QED BY <1>1, <2>1 DEF OffloadedTo
<1>9. \A s \in SeqIds : DOMAIN cpuMap'[s] = Holes(s)'
  BY <1>7
<1>10. Placed' = Placed
  BY <1>5 DEF Placed, BlocksOf
<1>11. K \cup E = Placed' /\ K \cap E = {} /\ Placed \ K = E
  BY <1>10
<1>12. \A x \in K : HomeOf(x)' = HomeOf(x)
  <2>. SUFFICES ASSUME NEW x \in K PROVE Home(x[1], x[2])' = Home(x[1], x[2])
    BY DEF HomeOf
  <2>1. x \in Placed /\ x = <<x[1], x[2]>> /\ x[1] \in SeqIds /\ x[2] \in DOMAIN tables[x[1]]
        /\ x \notin E
    BY PlacedIs
  <2>2. tables'[x[1]][x[2]] = tables[x[1]][x[2]]
    BY <1>5, <2>1
  <2>3. tables[x[1]][x[2]] = Hole => cpuMap'[x[1]][x[2]] = cpuMap[x[1]][x[2]]
    <3>1. tables[x[1]][x[2]] = Hole => x[2] \in Holes(x[1])'
      BY <1>7, <2>1, HomeFacts
    <3>. QED BY <1>7, <2>1, <3>1
  <2>. QED BY <2>2, <2>3 DEF Home, IsResident
<1>13. \A x \in E : HomeOf(x)' = claim[x]
  <2>. SUFFICES ASSUME NEW x \in E PROVE Home(x[1], x[2])' = claim[x]
    BY DEF HomeOf
  <2>1. tables'[x[1]][x[2]] = Hole
    BY <1>4, <1>5
  <2>2. x[2] \in Holes(x[1])' /\ <<x[1], x[2]>> \in E
    BY <1>4, <1>7
  <2>3. cpuMap'[x[1]][x[2]] = claim[x]
    BY <1>4, <1>7, <2>2
  <2>. QED BY <2>1, <2>3 DEF Home, IsResident
<1>14. {HomeOf(y) : y \in E} = freed /\ freed \subseteq GpuBlocks
  BY <1>4
<1>15. {HomeOf(x)' : x \in E} = Range(claim)
  BY <1>2, <1>13
<1>16. Range(claim) \subseteq cpuFree
  BY <1>2
<1>17. gpuFree' \cup cpuFree' = (Free \cup {HomeOf(y) : y \in Placed \ K}) \ {HomeOf(x)' : x \in E}
  BY <1>1, <1>3, <1>11, <1>14, <1>15, <1>16 DEF Free
<1>18. gpuFree' \subseteq GpuBlocks /\ cpuFree' \subseteq CpuBlocks
  BY <1>1, <1>3, <1>14
<1>19. /\ \A x \in E : HomeOf(x)' \in Free \cup {HomeOf(y) : y \in Placed \ K}
       /\ \A x, y \in E : HomeOf(x)' = HomeOf(y)' => x = y
  <2>1. \A x \in E : HomeOf(x)' \in Range(claim)
    BY <1>15
  <2>. QED BY <1>2, <1>13, <1>16, <2>1 DEF Free
<1>. HIDE DEF K
<1>20. K \in SUBSET Placed
  BY DEF K
<1>21. Pools'
  BY <1>6, <1>8, <1>9, <1>11, <1>12, <1>17, <1>18, <1>19, <1>20, PoolsStep
<1>22. Moves(E, claim)
  <2>1. claim \in [E -> Free] /\ \A x, y \in E : claim[x] = claim[y] => x = y
    BY <1>2 DEF Free
  <2>2. \A x \in Placed : HomeOf(x)' = IF x \in E THEN claim[x] ELSE HomeOf(x)
    BY <1>12, <1>13 DEF K
  <2>3. /\ {<<tables[x[1]][x[2]], claim[x]>> : x \in E} = {<<HomeOf(x), claim[x]>> : x \in E}
        /\ {tables[x[1]][x[2]] : x \in E} = {HomeOf(x) : x \in E}
    BY <1>4
  <2>. QED BY <1>1, <2>1, <2>2, <2>3, Zenon DEF Moves
<1>. QED BY <1>5, <1>21, <1>22

\* The row of the sequence that grows, once block b is at its end; the other rows
\* as `base` has them.
LEMMA AppendedRows ==
    ASSUME NEW base, base \in [SeqIds -> Seq(Entry)], NEW s \in SeqIds, batch = {s},
           NEW b \in Entry, tables' = Appended(base, b)
    PROVE  /\ tables' \in [SeqIds -> Seq(Entry)]
           /\ Len(tables'[s]) = Len(base[s]) + 1 /\ tables'[s][Len(base[s]) + 1] = b
           /\ DOMAIN tables'[s] = DOMAIN base[s] \cup {Len(base[s]) + 1}
           /\ Len(base[s]) + 1 \notin DOMAIN base[s]
           /\ \A i \in DOMAIN base[s] : tables'[s][i] = base[s][i]
           /\ \A t \in SeqIds \ {s} : tables'[t] = base[t]
<1>1. base[s] \in Seq(Entry)
  OBVIOUS
<1>2. /\ Append(base[s], b) \in Seq(Entry) /\ Len(Append(base[s], b)) = Len(base[s]) + 1
      /\ Append(base[s], b)[Len(base[s]) + 1] = b
      /\ \A i \in 1..Len(base[s]) : Append(base[s], b)[i] = base[s][i]
      /\ Len(base[s]) \in Nat /\ DOMAIN base[s] = 1..Len(base[s])
      /\ DOMAIN Append(base[s], b) = 1..(Len(base[s]) + 1)
  BY <1>1
<1>3. \A t \in SeqIds : tables'[t] = IF t = s THEN Append(base[s], b) ELSE base[t]
  BY DEF Appended
<1>4. tables' \in [SeqIds -> Seq(Entry)]
  BY <1>2, <1>3 DEF Appended
<1>. QED BY <1>2, <1>3, <1>4

\* allocate_block with a free GPU block.
LEMMA GrowPools ==
    ASSUME Pools, NEW s \in SeqIds, batch = {s}, NEW b \in gpuFree,
           tables' = Appended(tables, b), gpuFree' = gpuFree \ {b},
           UNCHANGED <<cpuFree, cpuMap>>
    PROVE  /\ Pools' /\ Len(tables'[s]) = Len(tables[s]) + 1
           /\ \A i \in DOMAIN tables[s] : tables'[s][i] = tables[s][i]
           /\ \A t \in SeqIds \ {s} : tables'[t] = tables[t]
           /\ \A x \in Placed : HomeOf(x)' = HomeOf(x)
<1>. DEFINE n == Len(tables[s]) + 1
            M == {<<s, n>>}
            K == Placed
<1>1. /\ tables \in [SeqIds -> Seq(Entry)] /\ b \in Entry /\ b # Hole /\ b \in GpuBlocks
      /\ cpuMap \in [SeqIds -> CpuMaps] /\ \A t \in SeqIds : DOMAIN cpuMap[t] = Holes(t)
  BY TieredAssumption DEF Pools, Entry
<1>2. /\ tables' \in [SeqIds -> Seq(Entry)]
      /\ Len(tables'[s]) = n /\ tables'[s][n] = b
      /\ DOMAIN tables'[s] = DOMAIN tables[s] \cup {n} /\ n \notin DOMAIN tables[s]
      /\ \A i \in DOMAIN tables[s] : tables'[s][i] = tables[s][i]
      /\ \A t \in SeqIds \ {s} : tables'[t] = tables[t]
  BY <1>1, AppendedRows
<1>. HIDE DEF n
<1>3. ASSUME NEW t \in SeqIds PROVE DOMAIN cpuMap'[t] = Holes(t)'
  <2>1. Holes(t)' = Holes(t)
    <3>1. CASE t = s
      BY <1>1, <1>2, <3>1 DEF Holes, Residents, IsResident
    <3>2. CASE t # s
      BY <1>2, <3>2 DEF Holes, Residents, IsResident
    <3>. QED BY <3>1, <3>2
  <2>. QED BY <1>1, <2>1
<1>4. K \cup M = Placed' /\ K \cap M = {}
  <2>1. \A x : x \in Placed' <=> x \in K \cup M
    BY <1>2 DEF Placed, BlocksOf
  <2>2. <<s, n>> \notin K
    BY <1>2, PlacedIs
  <2>. QED BY <2>1, <2>2
<1>5. \A x \in K : HomeOf(x)' = HomeOf(x)
  <2>. SUFFICES ASSUME NEW x \in K PROVE Home(x[1], x[2])' = Home(x[1], x[2])
    BY DEF HomeOf
  <2>1. x[1] \in SeqIds /\ x[2] \in DOMAIN tables[x[1]]
    BY PlacedIs
  <2>2. tables'[x[1]][x[2]] = tables[x[1]][x[2]]
    BY <1>2, <2>1
  <2>. QED BY <2>2 DEF Home, IsResident
<1>6. \A x \in M : HomeOf(x)' = b
  BY <1>1, <1>2 DEF HomeOf, Home, IsResident
<1>7. {HomeOf(x)' : x \in M} = {b}
  BY <1>6
<1>8. gpuFree' \cup cpuFree' = (Free \cup {HomeOf(y) : y \in Placed \ K}) \ {HomeOf(x)' : x \in M}
  BY <1>1, <1>7, TieredAssumption DEF Free, Pools
<1>9. /\ gpuFree' \subseteq GpuBlocks /\ cpuFree' \subseteq CpuBlocks
      /\ cpuMap' \in [SeqIds -> CpuMaps] /\ b \in Free
  BY <1>1 DEF Pools, Free
<1>10. /\ \A x \in M : HomeOf(x)' \in Free \cup {HomeOf(y) : y \in Placed \ K}
       /\ \A x, y \in M : HomeOf(x)' = HomeOf(y)' => x = y
  BY <1>6, <1>9
<1>. HIDE DEF K, M
<1>11. K \in SUBSET Placed
  BY DEF K
<1>12. Pools'
  BY <1>2, <1>3, <1>4, <1>5, <1>8, <1>9, <1>10, <1>11, PoolsStep
<1>. QED BY <1>2, <1>5, <1>12 DEF n, K

\* allocate_block when the GPU pool is empty: the logical block v moves out to
\* the CPU slot c and its GPU block is taken.
TakesFrom(v, c) ==
    /\ gpuFree = {} /\ gpuFree' = gpuFree
    /\ tables' = Appended(TablesWithout({v}), tables[v[1]][v[2]])
    /\ cpuMap' = OffloadedTo({v}, [x \in {v} |-> c])
    /\ kv' = MovedEntries({<<tables[v[1]][v[2]], c>>}, {tables[v[1]][v[2]]})
    /\ cpuFree' = cpuFree \ {c}

LEMMA GrowEvictingPools ==
    ASSUME Pools, NEW s \in SeqIds, batch = {s},
           NEW v \in Placed, IsResident(v[1], v[2]), NEW c \in cpuFree, TakesFrom(v, c)
    PROVE  /\ Pools' /\ Len(tables'[s]) = Len(tables[s]) + 1
           /\ \A t \in SeqIds \ {s} : Len(tables'[t]) = Len(tables[t])
           /\ \A t \in SeqIds : \A i \in DOMAIN tables[t] :
                 tables'[t][i] = IF <<t, i>> = v THEN Hole ELSE tables[t][i]
           /\ \E to : Moves({v}, to)
<1>1. tables[v[1]][v[2]] \in GpuBlocks /\ HomeOf(v) = tables[v[1]][v[2]]
  BY PlacedIs, HomeFacts DEF IsResident
<1>2. PICK b \in GpuBlocks : b = tables[v[1]][v[2]] /\ HomeOf(v) = b
  BY <1>1
<1>3. PICK n \in Nat : n = Len(tables[s]) + 1
  BY TableFacts
<1>4. /\ v[1] \in SeqIds /\ v[2] \in DOMAIN tables[v[1]] /\ v = <<v[1], v[2]>>
      /\ b # Hole /\ b \in Entry /\ c \in CpuBlocks /\ b # c
  <2>1. c \in CpuBlocks
    BY DEF Pools
  <2>. QED BY <2>1, PlacedIs, TieredAssumption DEF Entry
<1>5. ASSUME NEW t \in SeqIds, NEW row, row = TablesWithout({v})[t]
      PROVE  /\ row \in Seq(Entry) /\ Len(row) = Len(tables[t]) /\ DOMAIN row = DOMAIN tables[t]
             /\ \A i \in DOMAIN tables[t] :
                   row[i] = IF <<t, i>> = v THEN Hole ELSE tables[t][i]
  <2>1. /\ Len(tables[t]) \in Nat /\ DOMAIN tables[t] = 1..Len(tables[t])
        /\ \A i \in DOMAIN tables[t] : tables[t][i] \in Entry
    BY TableFacts
  <2>2. row = [i \in DOMAIN tables[t] |-> IF <<t, i>> = v THEN Hole ELSE tables[t][i]]
    BY <1>5 DEF TablesWithout
  <2>3. row \in [1..Len(tables[t]) -> Entry]
    BY <2>1, <2>2 DEF Entry
  <2>. QED BY <2>1, <2>2, <2>3
<1>6. PICK base \in [SeqIds -> Seq(Entry)] :
         /\ base = TablesWithout({v})
         /\ \A t \in SeqIds :
               /\ Len(base[t]) = Len(tables[t]) /\ DOMAIN base[t] = DOMAIN tables[t]
               /\ \A i \in DOMAIN tables[t] :
                     base[t][i] = IF <<t, i>> = v THEN Hole ELSE tables[t][i]
  <2>1. TablesWithout({v}) \in [SeqIds -> Seq(Entry)]
    BY <1>5 DEF TablesWithout
  <2>. QED BY <1>5, <2>1
<1>. DEFINE M == {v, <<s, n>>}
            K == Placed \ {v}
<1>7. /\ tables' \in [SeqIds -> Seq(Entry)]
      /\ Len(tables'[s]) = n /\ tables'[s][n] = b
      /\ DOMAIN tables'[s] = DOMAIN tables[s] \cup {n} /\ n \notin DOMAIN tables[s]
      /\ \A i \in DOMAIN base[s] : tables'[s][i] = base[s][i]
      /\ \A t \in SeqIds \ {s} : tables'[t] = base[t]
  <2>1. tables' = Appended(base, b) /\ Len(base[s]) + 1 = n
    BY <1>2, <1>3, <1>6 DEF TakesFrom
  <2>2. /\ tables' \in [SeqIds -> Seq(Entry)]
        /\ Len(tables'[s]) = Len(base[s]) + 1 /\ tables'[s][Len(base[s]) + 1] = b
        /\ DOMAIN tables'[s] = DOMAIN base[s] \cup {Len(base[s]) + 1}
        /\ Len(base[s]) + 1 \notin DOMAIN base[s]
        /\ \A i \in DOMAIN base[s] : tables'[s][i] = base[s][i]
        /\ \A t \in SeqIds \ {s} : tables'[t] = base[t]
    BY <1>4, <2>1, AppendedRows
  <2>. QED BY <1>6, <2>1, <2>2
<1>8. \A t \in SeqIds : \A i \in DOMAIN tables[t] :
         tables'[t][i] = IF <<t, i>> = v THEN Hole ELSE tables[t][i]
  <2>. SUFFICES ASSUME NEW t \in SeqIds, NEW i \in DOMAIN tables[t]
                PROVE  tables'[t][i] = base[t][i]
    BY <1>6
  <2>. QED BY <1>6, <1>7
<1>9. \A t \in SeqIds \ {s} : /\ DOMAIN tables'[t] = DOMAIN tables[t]
                            /\ Len(tables'[t]) = Len(tables[t])
  BY <1>6, <1>7
<1>10. <<s, n>> \notin Placed /\ v # <<s, n>>
  BY <1>7, PlacedIs
<1>11. ASSUME NEW t \in SeqIds
       PROVE  /\ Holes(t)' = Holes(t) \cup {i \in DOMAIN tables[t] : <<t, i>> = v}
              /\ cpuMap'[t] \in [Holes(t)' -> CpuBlocks]
              /\ \A i \in Holes(t)' : cpuMap'[t][i] = IF <<t, i>> = v THEN c ELSE cpuMap[t][i]
              /\ Holes(t)' \in SUBSET Nat
  <2>1. Holes(t)' = Holes(t) \cup {i \in DOMAIN tables[t] : <<t, i>> = v}
    <3>1. CASE t = s
      BY <1>4, <1>7, <1>8, <3>1 DEF Holes, Residents, IsResident
    <3>2. CASE t # s
      BY <1>8, <1>9, <3>2 DEF Holes, Residents, IsResident
    <3>. QED BY <3>1, <3>2
  <2>2. {x[2] : x \in {y \in {v} : y[1] = t}} = {i \in DOMAIN tables[t] : <<t, i>> = v}
    <3>1. v[1] = t => v = <<t, v[2]>> /\ v[2] \in DOMAIN tables[t]
      BY <1>2, <1>4
    <3>2. \A i : <<t, i>> = v => v[1] = t /\ v[2] = i
      OBVIOUS
    <3>. QED BY <3>1, <3>2
  <2>3. cpuMap[t] \in [Holes(t) -> CpuBlocks]
    BY TableFacts
  <2>4. cpuMap'[t] = [i \in Holes(t)' |-> IF <<t, i>> = v THEN c ELSE cpuMap[t][i]]
    <3>1. cpuMap'[t] = [i \in Holes(t)' |-> IF <<t, i>> = v THEN [x \in {v} |-> c][<<t, i>>]
                                                                  ELSE cpuMap[t][i]]
      BY <2>1, <2>2, <2>3 DEF OffloadedTo, TakesFrom
    <3>2. [x \in {v} |-> c][v] = c
      OBVIOUS
    <3>. QED BY <3>1, <3>2
  <2>5. ASSUME NEW i \in Holes(t)' PROVE (IF <<t, i>> = v THEN c ELSE cpuMap[t][i]) \in CpuBlocks
    BY <1>4, <2>1, <2>3
  <2>6. Holes(t)' \in SUBSET Nat
    <3>1. DOMAIN tables[t] = 1..Len(tables[t]) /\ Len(tables[t]) \in Nat
      BY TableFacts
    <3>2. Holes(t) \subseteq DOMAIN tables[t]
      BY DEF Holes
    <3>3. Holes(t)' \subseteq DOMAIN tables[t]
      BY <2>1, <3>2
    <3>4. DOMAIN tables[t] \subseteq Nat
      BY <3>1
    <3>. HIDE DEF Holes
    <3>. QED BY <3>3, <3>4
  <2>. HIDE DEF Holes
  <2>. QED BY <2>1, <2>4, <2>5, <2>6
<1>12. cpuMap' \in [SeqIds -> CpuMaps]
  <2>1. \A t \in SeqIds : cpuMap'[t] \in CpuMaps
    BY <1>11 DEF CpuMaps
  <2>. QED BY <2>1 DEF OffloadedTo, TakesFrom
<1>13. \A t \in SeqIds : DOMAIN cpuMap'[t] = Holes(t)'
  BY <1>11
<1>14. K \cup M = Placed' /\ K \cap M = {}
  <2>1. \A t \in SeqIds : DOMAIN tables'[t] = DOMAIN tables[t] \cup {i \in {n} : t = s}
    BY <1>7, <1>9
  <2>2. \A x : x \in Placed' <=> x \in Placed \cup {<<s, n>>}
    <3>1. ASSUME NEW x, x \in Placed' PROVE x \in Placed \cup {<<s, n>>}
      BY <2>1, <3>1 DEF Placed, BlocksOf
    <3>2. ASSUME NEW x, x \in Placed PROVE x \in Placed'
      BY <2>1, <3>2 DEF Placed, BlocksOf
    <3>3. \A y \in {<<s, n>>} : y \in Placed'
      BY <2>1 DEF Placed, BlocksOf
    <3>. QED BY <3>1, <3>2, <3>3
  <2>. QED BY <1>10, <2>2
<1>15. \A x \in K : HomeOf(x)' = HomeOf(x)
  <2>. SUFFICES ASSUME NEW x \in K PROVE Home(x[1], x[2])' = Home(x[1], x[2])
    BY DEF HomeOf
  <2>1. x[1] \in SeqIds /\ x[2] \in DOMAIN tables[x[1]] /\ <<x[1], x[2]>> # v
    BY PlacedIs
  <2>2. tables'[x[1]][x[2]] = tables[x[1]][x[2]]
    BY <1>8, <2>1
  <2>3. tables[x[1]][x[2]] = Hole => cpuMap'[x[1]][x[2]] = cpuMap[x[1]][x[2]]
    BY <1>11, <2>1, HomeFacts
  <2>. QED BY <2>2, <2>3 DEF Home, IsResident
<1>16. HomeOf(v)' = c
  <2>1. tables'[v[1]][v[2]] = Hole
    BY <1>2, <1>4, <1>8
  <2>2. v[2] \in Holes(v[1])' /\ <<v[1], v[2]>> = v
    BY <1>2, <1>4, <1>11
  <2>3. cpuMap'[v[1]][v[2]] = c
    BY <1>2, <1>4, <1>11, <2>2
  <2>. QED BY <2>1, <2>3 DEF HomeOf, Home, IsResident
<1>17. \A x \in M : x = <<s, n>> => HomeOf(x)' = b
  <2>1. b # Hole
    BY <1>4
  <2>2. ASSUME NEW x, x = <<s, n>> PROVE x[1] = s /\ x[2] = n
    BY <2>2
  <2>. HIDE DEF M
  <2>. QED BY <1>7, <2>1, <2>2 DEF HomeOf, Home, IsResident
<1>18. Placed \ K = {v} /\ {HomeOf(y) : y \in Placed \ K} = {b}
  BY <1>2, <1>4
<1>19. {HomeOf(x)' : x \in M} = {b, c}
  <2>1. \A x \in M : HomeOf(x)' \in {b, c}
    BY <1>16, <1>17
  <2>2. \E x \in M : HomeOf(x)' = b
    BY <1>17
  <2>3. \E x \in M : HomeOf(x)' = c
    BY <1>16
  <2>. QED BY <2>1, <2>2, <2>3
<1>20. gpuFree' \cup cpuFree' = (Free \cup {HomeOf(y) : y \in Placed \ K}) \ {HomeOf(x)' : x \in M}
  <2>1. b \notin Free
    BY <1>2, <1>4, PlacedIs DEF Pools
  <2>. QED BY <1>18, <1>19, <2>1 DEF Free, TakesFrom
<1>21. /\ gpuFree' \subseteq GpuBlocks /\ cpuFree' \subseteq CpuBlocks /\ c \in Free
  BY DEF Pools, Free, TakesFrom
<1>22. /\ \A x \in M : HomeOf(x)' \in Free \cup {HomeOf(y) : y \in Placed \ K}
       /\ \A x, y \in M : HomeOf(x)' = HomeOf(y)' => x = y
  <2>1. b # c
    BY <1>4
  <2>2. \A x \in M : \/ x = v /\ HomeOf(x)' = c
                     \/ x = <<s, n>> /\ HomeOf(x)' = b
    BY <1>16, <1>17
  <2>3. c \in Free /\ b \in {HomeOf(y) : y \in Placed \ K}
    BY <1>18, <1>21
  <2>4. ASSUME NEW x \in M, NEW y \in M, HomeOf(x)' = HomeOf(y)' PROVE x = y
    <3>. HIDE DEF M, K
    <3>1. \/ x = v /\ HomeOf(x)' = c
          \/ x = <<s, n>> /\ HomeOf(x)' = b
      BY <2>2
    <3>2. \/ y = v /\ HomeOf(y)' = c
          \/ y = <<s, n>> /\ HomeOf(y)' = b
      BY <2>2
    <3>. QED BY <2>1, <2>4, <3>1, <3>2
  <2>5. ASSUME NEW x \in M PROVE HomeOf(x)' \in Free \cup {HomeOf(y) : y \in Placed \ K}
    <3>. HIDE DEF M, K
    <3>. QED BY <2>2, <2>3
  <2>. QED BY <2>4, <2>5
<1>. HIDE DEF K, M
<1>23. K \in SUBSET Placed
  BY DEF K
<1>24. Pools'
  BY <1>7, <1>12, <1>13, <1>14, <1>15, <1>20, <1>21, <1>22, <1>23, PoolsStep
<1>25. PICK to \in [{v} -> Free] : to[v] = c
  <2>1. [x \in {v} |-> c] \in [{v} -> Free] /\ [x \in {v} |-> c][v] = c
    BY <1>21
  <2>. QED BY <2>1
<1>26. Moves({v}, to)
  <2>1. \A x \in Placed : HomeOf(x)' = IF x \in {v} THEN to[x] ELSE HomeOf(x)
    BY <1>15, <1>16, <1>25 DEF K
  <2>2. {<<HomeOf(x), to[x]>> : x \in {v}} = {<<b, c>>} /\ {HomeOf(x) : x \in {v}} = {b}
    BY <1>2, <1>25
  <2>3. kv' = MovedEntries({<<b, c>>}, {b})
    BY <1>2 DEF TakesFrom
  <2>4. \A x, y \in {v} : to[x] = to[y] => x = y
    OBVIOUS
  <2>. QED BY <1>25, <2>1, <2>2, <2>3, <2>4, Zenon DEF Moves
<1>. QED BY <1>3, <1>7, <1>8, <1>9, <1>24, <1>26

\* The logical blocks of P, all in CPU slots, come back to the GPU.
FetchesFrom(P, claim) ==
    LET left == {cpuMap[x[1]][x[2]] : x \in P}
    IN  /\ tables' = [s \in SeqIds |-> [i \in DOMAIN tables[s] |->
                        IF <<s, i>> \in P THEN claim[<<s, i>>] ELSE tables[s][i]]]
        /\ cpuMap' = [s \in SeqIds |->
                        [i \in {j \in DOMAIN cpuMap[s] : <<s, j>> \notin P} |-> cpuMap[s][i]]]
        /\ kv' = MovedEntries({<<cpuMap[x[1]][x[2]], claim[x]>> : x \in P}, left)
        /\ gpuFree' = gpuFree \ Range(claim)
        /\ cpuFree' = cpuFree \cup left

LEMMA FetchPools ==
    ASSUME Pools, NEW P \in SUBSET Placed, \A x \in P : x[2] \in Holes(x[1]),
           NEW claim \in Injection(P, gpuFree), FetchesFrom(P, claim)
    PROVE  /\ Pools' /\ {cpuMap[x[1]][x[2]] : x \in P} \subseteq CpuBlocks
           /\ \A s \in SeqIds : /\ Len(tables'[s]) = Len(tables[s])
                                /\ DOMAIN tables'[s] = DOMAIN tables[s]
                                /\ \A i \in DOMAIN tables[s] : <<s, i>> \in P =>
                                      /\ tables'[s][i] \in GpuBlocks /\ tables'[s][i] # Hole
                                /\ \A i \in DOMAIN tables[s] : <<s, i>> \notin P =>
                                      tables'[s][i] = tables[s][i]
           /\ \E to : Moves(P, to)
<1>. DEFINE left == {cpuMap[x[1]][x[2]] : x \in P}
            K == Placed \ P
<1>1. /\ claim \in [P -> gpuFree] /\ (\A x, y \in P : claim[x] = claim[y] => x = y)
      /\ Range(claim) = {claim[x] : x \in P}
  BY DEF Injection, IsInjective, Range
<1>2. gpuFree \subseteq GpuBlocks /\ cpuFree \subseteq CpuBlocks /\ GpuBlocks \cap CpuBlocks = {}
      /\ Hole \notin GpuBlocks
  BY TieredAssumption DEF Pools
<1>3. ASSUME NEW x \in P
      PROVE  /\ x[1] \in SeqIds /\ x[2] \in DOMAIN tables[x[1]] /\ x = <<x[1], x[2]>>
             /\ HomeOf(x) = cpuMap[x[1]][x[2]] /\ HomeOf(x) \in CpuBlocks
             /\ claim[x] \in GpuBlocks /\ claim[x] # Hole /\ claim[x] \in gpuFree
  <2>1. x[1] \in SeqIds /\ x[2] \in DOMAIN tables[x[1]] /\ x = <<x[1], x[2]>>
    BY PlacedIs
  <2>2. tables[x[1]][x[2]] = Hole
    BY DEF Holes, Residents, IsResident
  <2>3. HomeOf(x) = cpuMap[x[1]][x[2]] /\ HomeOf(x) \in CpuBlocks
    BY <2>1, <2>2, PlacedIs, HomeFacts
  <2>. QED BY <1>1, <1>2, <2>1, <2>3
<1>4. ASSUME NEW s \in SeqIds
      PROVE  /\ tables'[s] \in Seq(Entry) /\ Len(tables'[s]) = Len(tables[s])
             /\ DOMAIN tables'[s] = DOMAIN tables[s]
             /\ \A i \in DOMAIN tables[s] :
                   tables'[s][i] = IF <<s, i>> \in P THEN claim[<<s, i>>] ELSE tables[s][i]
  <2>1. /\ Len(tables[s]) \in Nat /\ DOMAIN tables[s] = 1..Len(tables[s])
        /\ \A i \in DOMAIN tables[s] : tables[s][i] \in Entry
    BY TableFacts
  <2>2. tables'[s] = [i \in DOMAIN tables[s] |->
                        IF <<s, i>> \in P THEN claim[<<s, i>>] ELSE tables[s][i]]
    BY DEF FetchesFrom
  <2>3. \A i \in DOMAIN tables[s] : <<s, i>> \in P => claim[<<s, i>>] \in Entry
    BY <1>3 DEF Entry
  <2>4. tables'[s] \in [1..Len(tables[s]) -> Entry]
    BY <2>1, <2>2, <2>3
  <2>. QED BY <2>1, <2>2, <2>4
<1>5. tables' \in [SeqIds -> Seq(Entry)]
  BY <1>4 DEF FetchesFrom
<1>6. ASSUME NEW s \in SeqIds
      PROVE  /\ Holes(s)' = {i \in Holes(s) : <<s, i>> \notin P}
             /\ cpuMap'[s] \in [Holes(s)' -> CpuBlocks]
             /\ \A i \in Holes(s)' : cpuMap'[s][i] = cpuMap[s][i]
             /\ Holes(s)' \in SUBSET Nat
  <2>1. Holes(s)' = {i \in Holes(s) : <<s, i>> \notin P}
    <3>1. \A i \in DOMAIN tables[s] : <<s, i>> \in P => tables'[s][i] # Hole
      BY <1>3, <1>4
    <3>2. \A i \in DOMAIN tables[s] : <<s, i>> \notin P => tables'[s][i] = tables[s][i]
      BY <1>4
    <3>3. DOMAIN tables'[s] = DOMAIN tables[s]
      BY <1>4
    <3>. QED BY <3>1, <3>2, <3>3 DEF Holes, Residents, IsResident
  <2>2. cpuMap[s] \in [Holes(s) -> CpuBlocks]
    BY TableFacts
  <2>3. cpuMap'[s] = [i \in Holes(s)' |-> cpuMap[s][i]]
    BY <2>1, <2>2 DEF FetchesFrom
  <2>4. Holes(s)' \in SUBSET Nat
    <3>1. DOMAIN tables[s] = 1..Len(tables[s]) /\ Len(tables[s]) \in Nat
      BY TableFacts
    <3>2. Holes(s) \subseteq DOMAIN tables[s]
      BY DEF Holes
    <3>3. Holes(s)' \subseteq DOMAIN tables[s]
      BY <2>1, <3>2
    <3>4. DOMAIN tables[s] \subseteq Nat
      BY <3>1
    <3>. HIDE DEF Holes
    <3>. QED BY <3>3, <3>4
  <2>5. Holes(s)' \subseteq Holes(s)
    BY <2>1
  <2>. HIDE DEF Holes
  <2>. QED BY <2>1, <2>2, <2>3, <2>4, <2>5
<1>7. cpuMap' \in [SeqIds -> CpuMaps]
  <2>1. \A s \in SeqIds : cpuMap'[s] \in CpuMaps
    BY <1>6 DEF CpuMaps
  <2>. QED BY <2>1 DEF FetchesFrom
<1>8. \A s \in SeqIds : DOMAIN cpuMap'[s] = Holes(s)'
  BY <1>6
<1>9. Placed' = Placed
  BY <1>4 DEF Placed, BlocksOf
<1>10. K \cup P = Placed' /\ K \cap P = {} /\ Placed \ K = P
  BY <1>9
<1>11. \A x \in K : HomeOf(x)' = HomeOf(x)
  <2>. SUFFICES ASSUME NEW x \in K PROVE Home(x[1], x[2])' = Home(x[1], x[2])
    BY DEF HomeOf
  <2>1. x[1] \in SeqIds /\ x[2] \in DOMAIN tables[x[1]] /\ <<x[1], x[2]>> \notin P
    BY PlacedIs
  <2>2. tables'[x[1]][x[2]] = tables[x[1]][x[2]]
    BY <1>4, <2>1
  <2>3. tables[x[1]][x[2]] = Hole => cpuMap'[x[1]][x[2]] = cpuMap[x[1]][x[2]]
    BY <1>6, <2>1, HomeFacts
  <2>. QED BY <2>2, <2>3 DEF Home, IsResident
<1>12. \A x \in P : HomeOf(x)' = claim[x]
  <2>. SUFFICES ASSUME NEW x \in P PROVE Home(x[1], x[2])' = claim[x]
    BY DEF HomeOf
  <2>1. tables'[x[1]][x[2]] = claim[x] /\ claim[x] # Hole
    BY <1>3, <1>4
  <2>. QED BY <2>1 DEF Home, IsResident
<1>13. {HomeOf(y) : y \in P} = left /\ left \subseteq CpuBlocks
  BY <1>3
<1>14. {HomeOf(x)' : x \in P} = Range(claim)
  BY <1>1, <1>12
<1>15. Range(claim) \subseteq gpuFree
  BY <1>1
<1>16. gpuFree' = gpuFree \ Range(claim) /\ cpuFree' = cpuFree \cup left
  BY DEF FetchesFrom
<1>. HIDE DEF left
<1>17. gpuFree' \cup cpuFree' = (Free \cup {HomeOf(y) : y \in Placed \ K}) \ {HomeOf(x)' : x \in P}
  <2>1. (gpuFree \ Range(claim)) \cup cpuFree \cup left
          = (gpuFree \cup cpuFree \cup left) \ Range(claim)
    BY <1>2, <1>13, <1>15
  <2>. QED BY <1>10, <1>13, <1>14, <1>16, <2>1 DEF Free
<1>18. gpuFree' \subseteq GpuBlocks /\ cpuFree' \subseteq CpuBlocks
  BY <1>2, <1>13, <1>16
<1>19. /\ \A x \in P : HomeOf(x)' \in Free \cup {HomeOf(y) : y \in Placed \ K}
       /\ \A x, y \in P : HomeOf(x)' = HomeOf(y)' => x = y
  <2>1. \A x \in P : HomeOf(x)' \in Range(claim)
    BY <1>14
  <2>. QED BY <1>1, <1>12, <1>15, <2>1 DEF Free
<1>. HIDE DEF K
<1>20. K \in SUBSET Placed
  BY DEF K
<1>21. Pools'
  BY <1>5, <1>7, <1>8, <1>10, <1>11, <1>17, <1>18, <1>19, <1>20, PoolsStep
<1>22. left = {cpuMap[x[1]][x[2]] : x \in P}
  BY DEF left
<1>23. Moves(P, claim)
  <2>1. claim \in [P -> Free] /\ \A x, y \in P : claim[x] = claim[y] => x = y
    BY <1>1 DEF Free
  <2>2. \A x \in Placed : HomeOf(x)' = IF x \in P THEN claim[x] ELSE HomeOf(x)
    BY <1>11, <1>12 DEF K
  <2>3. /\ {<<cpuMap[x[1]][x[2]], claim[x]>> : x \in P} = {<<HomeOf(x), claim[x]>> : x \in P}
        /\ {cpuMap[x[1]][x[2]] : x \in P} = {HomeOf(x) : x \in P}
    BY <1>3
  <2>4. kv' = MovedEntries({<<cpuMap[x[1]][x[2]], claim[x]>> : x \in P},
                           {cpuMap[x[1]][x[2]] : x \in P})
    BY DEF FetchesFrom
  <2>. QED BY <2>1, <2>2, <2>3, <2>4, Zenon DEF Moves
<1>. QED BY <1>3, <1>4, <1>13, <1>21, <1>22, <1>23

-------------------------------------------------------------------------------
(* The invariant. *)

\* The types, and what has been written has a block.
Data ==
    /\ seqLens \in [SeqIds -> 0..MaxLen]
    /\ \A s \in SeqIds : seqLens[s] <= Len(tables[s]) * BlockSize
    /\ kv \in [Slots -> Author]
    /\ saved \in Seq(Author) /\ Len(saved) <= MaxLen

HolesOf(B) == UNION {{s} \X Holes(s) : s \in B}

\* What a call in progress works on, and what it has still to do.
Calls ==
    /\ DOMAIN tableCache \subseteq Live
    /\ pc \in {"idle", "growing", "fetching", "ready"}
    /\ batch \subseteq Live
    /\ \A x \in pending : x[1] \in batch
    /\ pc = "idle" => batch = {} /\ pending = {}
    /\ pc = "growing" => \E s \in SeqIds : batch = {s}
    /\ pc = "fetching" => pending \subseteq HolesOf(batch)
    /\ pc = "ready" => pending = {}

Inv == Pools /\ Data /\ Calls

LEMMA LiveNext ==
    ASSUME Pools', NEW s \in SeqIds
    PROVE  /\ tables'[s] \in Seq(Entry) /\ Len(tables'[s]) \in Nat
           /\ DOMAIN tables'[s] = 1..Len(tables'[s])
           /\ s \in Live' <=> Len(tables'[s]) # 0
<1>1. tables'[s] \in Seq(Entry)
  BY DEF Pools, Entry
<1>2. /\ Len(tables'[s]) \in Nat /\ DOMAIN tables'[s] = 1..Len(tables'[s])
      /\ tables'[s] # <<>> <=> Len(tables'[s]) # 0
  BY <1>1
<1>. QED BY <1>1, <1>2 DEF Live

\* No table shrinks: nobody dies, and what was written still has its block.
LEMMA KeepLive ==
    ASSUME Pools, Pools', \A s \in SeqIds : Len(tables[s]) <= Len(tables'[s])
    PROVE  Live \subseteq Live'
<1>. SUFFICES ASSUME NEW s \in Live PROVE s \in Live'
  OBVIOUS
<1>1. s \in SeqIds
  BY DEF Live
<1>2. Len(tables[s]) \in Nat /\ Len(tables[s]) # 0
  BY <1>1, TableFacts
<1>3. Len(tables'[s]) \in Nat /\ (s \in Live' <=> Len(tables'[s]) # 0)
  BY <1>1, LiveNext
<1>. QED BY <1>1, <1>2, <1>3

\* kv keeps its type when blocks are copied within the pools.
LEMMA MovedType ==
    ASSUME kv \in [Slots -> Author], NEW moves, NEW freed, \A mv \in moves : mv[1] \in Pool
    PROVE  MovedEntries(moves, freed) \in [Slots -> Author]
<1>1. ASSUME NEW x \in Slots, \E mv \in moves : mv[2] = x[1]
      PROVE  kv[<<(CHOOSE mv \in moves : mv[2] = x[1])[1], x[2]>>] \in Author
  <2>1. (CHOOSE mv \in moves : mv[2] = x[1])[1] \in Pool
    BY <1>1
  <2>2. x[2] \in 0..(BlockSize-1)
    BY DEF Slots
  <2>. QED BY <2>1, <2>2 DEF Slots, Pool
<1>2. \A x \in Slots : kv[x] \in Author /\ Nobody \in Author
  BY DEF Author
<1>. QED BY <1>1, <1>2 DEF MovedEntries

\* Data keeps its types in a step whose tables do not shrink, nor lengths grow.
LEMMA DataStep ==
    ASSUME Inv, Pools', \A s \in SeqIds : Len(tables[s]) <= Len(tables'[s]),
           kv' \in [Slots -> Author], UNCHANGED <<seqLens, saved>>
    PROVE  Data'
<1>1. ASSUME NEW s \in SeqIds PROVE seqLens'[s] <= Len(tables'[s]) * BlockSize
  <2>1. Len(tables[s]) \in Nat /\ Len(tables'[s]) \in Nat /\ BlockSize \in Nat
    BY TableFacts, LiveNext, TieredAssumption DEF Inv
  <2>2. seqLens[s] \in Nat /\ seqLens[s] <= Len(tables[s]) * BlockSize
    BY TieredAssumption DEF Inv, Data
  <2>3. Len(tables[s]) <= Len(tables'[s])
    OBVIOUS
  <2>4. Len(tables[s]) * BlockSize <= Len(tables'[s]) * BlockSize
    BY <2>1, <2>3
  <2>5. Len(tables[s]) * BlockSize \in Nat /\ Len(tables'[s]) * BlockSize \in Nat
    BY <2>1
  <2>6. seqLens[s] <= Len(tables'[s]) * BlockSize
    BY <2>2, <2>4, <2>5
  <2>. QED BY <2>6
<1>2. Slots' = Slots /\ Author' = Author
  BY DEF Slots, Author
<1>. QED BY <1>1, <1>2 DEF Data, Inv

LEMMA VictimsAre ==
    ASSUME NEW active \in SUBSET Live, NEW v \in Victims(active)
    PROVE  v \in Placed /\ IsResident(v[1], v[2]) /\ cpuFree # {}
<1>. DEFINE on(S) == UNION {{s} \X Residents(s) : s \in S}
<1>1. \A S \in SUBSET SeqIds : \A x \in on(S) : x \in Placed /\ IsResident(x[1], x[2])
  BY DEF Residents, Placed, BlocksOf
<1>2. active \in SUBSET SeqIds /\ Live \ active \in SUBSET SeqIds
  BY DEF Live
<1>3. cpuFree # {} /\ (v \in on(Live \ active) \/ v \in on(active))
  BY DEF Victims, Oldest
<1>. QED BY <1>1, <1>2, <1>3

-------------------------------------------------------------------------------
(* Every action preserves it. *)

LEMMA PoolsSame ==
    ASSUME Pools, UNCHANGED <<gpuFree, cpuFree, tables, cpuMap>>
    PROVE  Pools' /\ Live' = Live /\ \A s \in SeqIds : Holes(s)' = Holes(s)
<1>1. \A s \in SeqIds : \A i : Home(s, i)' = Home(s, i)
  BY DEF Home, IsResident
<1>2. Placed' = Placed
  BY DEF Placed, BlocksOf
<1>3. \A x \in Placed : HomeOf(x)' = HomeOf(x)
  BY <1>1, PlacedIs DEF HomeOf
<1>4. \A s \in SeqIds : Holes(s)' = Holes(s)
  BY DEF Holes, Residents, IsResident
<1>5. Free' = Free /\ Pool' = Pool /\ Live' = Live
  BY DEF Free, Pool, Live
<1>6. {HomeOf(x)' : x \in Placed'} = {HomeOf(x) : x \in Placed}
  BY <1>2, <1>3
<1>. QED BY <1>2, <1>3, <1>4, <1>5, <1>6 DEF Pools

LEMMA PendingLess ==
    ASSUME Inv, OneLess
    PROVE  /\ pending' \subseteq pending /\ pc' = pc /\ batch' = batch
BY DEF OneLess

LEMMA AllocateBlockKeeps == ASSUME Inv, AllocateBlock PROVE Inv'
<1>1. PICK b \in gpuFree : tables' = Appended(tables, b) /\ gpuFree' = gpuFree \ {b}
  BY DEF AllocateBlock
<1>2. PICK s \in SeqIds : batch = {s}
  BY DEF AllocateBlock, Inv, Calls
<1>3. /\ Pools' /\ Len(tables'[s]) = Len(tables[s]) + 1
      /\ \A t \in SeqIds \ {s} : tables'[t] = tables[t]
  BY <1>1, <1>2, GrowPools DEF AllocateBlock, Inv
<1>4. \A t \in SeqIds : Len(tables[t]) <= Len(tables'[t])
  <2>1. \A t \in SeqIds : Len(tables[t]) \in Nat
    BY TableFacts DEF Inv
  <2>. QED BY <1>3, <2>1
<1>5. kv' \in [Slots -> Author] /\ UNCHANGED <<seqLens, saved, tableCache>>
  BY DEF AllocateBlock, Inv, Data
<1>6. Data'
  BY <1>3, <1>4, <1>5, DataStep
<1>7. Live \subseteq Live'
  BY <1>3, <1>4, KeepLive DEF Inv
<1>8. pending' \subseteq pending /\ pc' = pc /\ batch' = batch /\ pc = "growing"
  BY PendingLess DEF AllocateBlock
<1>9. Calls'
  BY <1>5, <1>7, <1>8 DEF Inv, Calls
<1>. QED BY <1>3, <1>6, <1>9 DEF Inv

LEMMA EvictingFacts ==
    ASSUME Inv, AllocateBlockEvicting
    PROVE  \E s \in SeqIds, v \in Victims(batch), c \in cpuFree :
              /\ batch = {s} /\ v \in Placed /\ IsResident(v[1], v[2]) /\ TakesFrom(v, c)
<1>1. PICK v \in Victims(batch), c \in cpuFree : TakesFrom(v, c)
  BY DEF AllocateBlockEvicting, TakesFrom
<1>2. PICK s \in SeqIds : batch = {s}
  BY DEF AllocateBlockEvicting, Inv, Calls
<1>3. batch \in SUBSET Live
  BY DEF Inv, Calls
<1>4. v \in Placed /\ IsResident(v[1], v[2])
  BY <1>3, VictimsAre
<1>. QED BY <1>1, <1>2, <1>4

LEMMA AllocateBlockEvictingKeeps == ASSUME Inv, AllocateBlockEvicting PROVE Inv'
<1>1. PICK s \in SeqIds, v \in Victims(batch), c \in cpuFree :
         /\ batch = {s} /\ v \in Placed /\ IsResident(v[1], v[2]) /\ TakesFrom(v, c)
  BY EvictingFacts
<1>2. Pools
  BY DEF Inv
<1>3. /\ Pools' /\ Len(tables'[s]) = Len(tables[s]) + 1
      /\ \A t \in SeqIds \ {s} : Len(tables'[t]) = Len(tables[t])
  BY <1>1, <1>2, GrowEvictingPools
<1>4. \A t \in SeqIds : Len(tables[t]) <= Len(tables'[t])
  <2>1. \A t \in SeqIds : Len(tables[t]) \in Nat
    BY <1>2, TableFacts
  <2>. QED BY <1>3, <2>1
<1>5. kv' \in [Slots -> Author]
  <2>1. tables[v[1]][v[2]] \in Pool
    BY <1>1, <1>2, PlacedIs, HomeFacts DEF Pool, IsResident
  <2>2. kv \in [Slots -> Author]
    BY DEF Inv, Data
  <2>3. kv' = MovedEntries({<<tables[v[1]][v[2]], c>>}, {tables[v[1]][v[2]]})
    BY <1>1, Zenon DEF TakesFrom
  <2>. QED BY <2>1, <2>2, <2>3, MovedType
<1>6. UNCHANGED <<seqLens, saved, tableCache>>
  BY DEF AllocateBlockEvicting
<1>7. Data'
  BY <1>3, <1>4, <1>5, <1>6, DataStep
<1>8. Live \subseteq Live'
  BY <1>2, <1>3, <1>4, KeepLive
<1>9. pending' \subseteq pending /\ pc' = pc /\ batch' = batch /\ pc = "growing"
  BY PendingLess DEF AllocateBlockEvicting
<1>10. Calls'
  BY <1>6, <1>8, <1>9 DEF Inv, Calls
<1>. QED BY <1>3, <1>7, <1>10 DEF Inv

\* The steps that change neither the pools nor the data.
LEMMA QuietStep ==
    ASSUME Inv, UNCHANGED <<pools, seqLens, saved>>
    PROVE  /\ Pools' /\ Data' /\ Live' = Live
           /\ \A s \in SeqIds : Holes(s)' = Holes(s)
           /\ Calls' <=>
                /\ DOMAIN tableCache' \subseteq Live
                /\ pc' \in {"idle", "growing", "fetching", "ready"}
                /\ batch' \subseteq Live
                /\ \A x \in pending' : x[1] \in batch'
                /\ pc' = "idle" => batch' = {} /\ pending' = {}
                /\ pc' = "growing" => \E s \in SeqIds : batch' = {s}
                /\ pc' = "fetching" => pending' \subseteq UNION {{s} \X Holes(s) : s \in batch'}
                /\ pc' = "ready" => pending' = {}
<1>1. Pools' /\ Live' = Live /\ \A s \in SeqIds : Holes(s)' = Holes(s)
  BY PoolsSame DEF Inv, pools
<1>2. Slots' = Slots /\ Author' = Author
  BY DEF Slots, Author
<1>3. Data'
  BY <1>2 DEF Inv, Data, pools
<1>4. batch' \subseteq Live => HolesOf(batch)' = UNION {{s} \X Holes(s) : s \in batch'}
  <2>1. Live \subseteq SeqIds
    BY DEF Live
  <2>. QED BY <1>1, <2>1 DEF HolesOf
<1>. QED BY <1>1, <1>3, <1>4 DEF Calls

LEMMA ReturnKeeps ==
    ASSUME Inv, UNCHANGED <<pools, seqLens, saved>>, Return, tableCache' \in {tableCache, <<>>}
    PROVE  Inv'
<1>1. /\ Pools' /\ Data' /\ pc' = "idle" /\ batch' = {} /\ pending' = {}
      /\ DOMAIN tableCache' \subseteq Live
  <2>1. DOMAIN <<>> = {}
    OBVIOUS
  <2>. QED BY <2>1, QuietStep DEF Return, Goto, Inv, Calls
<1>. QED BY <1>1, QuietStep DEF Inv

LEMMA EnsureSequenceCapacityKeeps ==
    ASSUME Inv, NEW s \in SeqIds, NEW n \in 1..GrowBy, EnsureSequenceCapacity(s, n)
    PROVE  Inv'
<1>. DEFINE missing == (Len(tables[s])+1)..BlocksFor(seqLens[s] + n)
<1>1. /\ pc' = "growing" /\ batch' = {s} /\ pending' = {s} \X missing /\ s \in Live
      /\ UNCHANGED <<pools, seqLens, tableCache, saved>>
  BY DEF EnsureSequenceCapacity, Goto
<1>. HIDE DEF missing
<1>2. /\ DOMAIN tableCache' \subseteq Live /\ batch' \subseteq Live
      /\ \A x \in pending' : x[1] \in batch'
  BY <1>1 DEF Inv, Calls
<1>. QED BY <1>1, <1>2, QuietStep DEF Inv

LEMMA EnsureBlocksOnGpuKeeps ==
    ASSUME Inv, NEW B \in SUBSET SeqIds, EnsureBlocksOnGpu(B)
    PROVE  Inv'
<1>. DEFINE missing == UNION {{s} \X Holes(s) : s \in B}
<1>1. /\ pc' = (IF missing = {} THEN "ready" ELSE "fetching")
      /\ batch' = B /\ pending' = missing /\ B \subseteq Live
      /\ UNCHANGED <<pools, seqLens, tableCache, saved>>
  BY DEF EnsureBlocksOnGpu, Goto
<1>2. /\ DOMAIN tableCache' \subseteq Live /\ batch' \subseteq Live
      /\ \A x \in pending' : x[1] \in batch'
  BY <1>1 DEF Inv, Calls
<1>3. missing = UNION {{s} \X Holes(s) : s \in batch'}
  BY <1>1
<1>. HIDE DEF missing
<1>. QED BY <1>1, <1>2, <1>3, QuietStep DEF Inv

\* The sets EvictForFetch and EvictColdBlocks take from hold resident blocks.
LEMMA EvictKeeps ==
    ASSUME Inv, NEW E \in SUBSET Placed, \A x \in E : IsResident(x[1], x[2]), Evict(E),
           UNCHANGED <<seqLens, saved>>
    PROVE  /\ Pools' /\ Data' /\ Live \subseteq Live'
           /\ \A s \in SeqIds : Holes(s) \subseteq Holes(s)'
<1>1. /\ Pools'
      /\ \A s \in SeqIds : /\ Len(tables'[s]) = Len(tables[s])
                           /\ \A i \in DOMAIN tables[s] :
                                 tables'[s][i] = IF <<s, i>> \in E THEN Hole ELSE tables[s][i]
  BY EvictPools DEF Inv
<1>2. \A s \in SeqIds : Len(tables[s]) \in Nat /\ DOMAIN tables[s] = 1..Len(tables[s])
  BY TableFacts DEF Inv
<1>3. \A s \in SeqIds : Len(tables[s]) <= Len(tables'[s])
  BY <1>1, <1>2
<1>4. kv' \in [Slots -> Author]
  <2>. DEFINE freed == {tables[x[1]][x[2]] : x \in E}
  <2>1. PICK claim \in Injection(E, cpuFree) :
           kv' = MovedEntries({<<tables[x[1]][x[2]], claim[x]>> : x \in E}, freed)
    BY DEF Evict
  <2>. DEFINE moves == {<<tables[x[1]][x[2]], claim[x]>> : x \in E}
  <2>2. \A x \in E : tables[x[1]][x[2]] \in Pool
    BY PlacedIs, HomeFacts DEF Inv, Pool, IsResident
  <2>3. \A mv \in moves : mv[1] \in Pool
    BY <2>2
  <2>4. kv \in [Slots -> Author]
    BY DEF Inv, Data
  <2>5. kv' = MovedEntries(moves, freed)
    BY <2>1
  <2>. HIDE DEF moves, freed
  <2>. QED BY <2>3, <2>4, <2>5, MovedType
<1>5. Data'
  BY <1>1, <1>3, <1>4, DataStep
<1>6. Live \subseteq Live'
  BY <1>1, <1>3, KeepLive DEF Inv
<1>7. ASSUME NEW s \in SeqIds PROVE Holes(s) \subseteq Holes(s)'
  <2>1. DOMAIN tables'[s] = DOMAIN tables[s]
    BY <1>1, <1>2, LiveNext
  <2>2. \A i \in DOMAIN tables[s] : tables'[s][i] \in {Hole, tables[s][i]}
    BY <1>1
  <2>. QED BY <2>1, <2>2 DEF Holes, Residents, IsResident
<1>. QED BY <1>1, <1>5, <1>6, <1>7

LEMMA EvictForFetchKeeps == ASSUME Inv, EvictForFetch PROVE Inv'
<1>1. PICK v \in Victims(batch) : Evict({v})
  BY DEF EvictForFetch
<1>2. batch \in SUBSET Live /\ UNCHANGED <<seqLens, tableCache, saved, call>>
  BY DEF Inv, Calls, EvictForFetch
<1>3. v \in Placed /\ IsResident(v[1], v[2])
  BY <1>2, VictimsAre
<1>4. {v} \in SUBSET Placed /\ \A x \in {v} : IsResident(x[1], x[2])
  BY <1>3
<1>5. /\ Pools' /\ Data' /\ Live \subseteq Live'
      /\ \A s \in SeqIds : Holes(s) \subseteq Holes(s)'
  BY <1>1, <1>2, <1>4, EvictKeeps
<1>6. HolesOf(batch) \subseteq HolesOf(batch)'
  <2>1. batch' = batch /\ batch \subseteq SeqIds
    BY <1>2 DEF Live, call
  <2>. QED BY <1>5, <2>1 DEF HolesOf
<1>7. Calls'
  BY <1>2, <1>5, <1>6 DEF Inv, Calls, call
<1>. QED BY <1>5, <1>7 DEF Inv

LEMMA EvictColdBlocksKeeps == ASSUME Inv, EvictColdBlocks PROVE Inv'
<1>. DEFINE cold == UNION {{s} \X (BehindWindow(s) \cap Residents(s)) : s \in batch}
<1>1. PICK E \in SUBSET cold : Evict(E)
  BY DEF EvictColdBlocks, kSubset
<1>2. batch \subseteq SeqIds
  BY DEF Inv, Calls, Live
<1>3. E \in SUBSET Placed /\ \A x \in E : IsResident(x[1], x[2])
  BY <1>2 DEF Residents, Placed, BlocksOf
<1>4. /\ UNCHANGED <<seqLens, saved>> /\ tableCache' \in {tableCache, <<>>}
      /\ pc' = "idle" /\ batch' = {} /\ pending' = {}
  BY DEF EvictColdBlocks, Return, Goto
<1>5. Pools' /\ Data' /\ Live \subseteq Live'
  BY <1>1, <1>3, <1>4, EvictKeeps
<1>6. DOMAIN tableCache' \subseteq Live'
  <2>1. DOMAIN <<>> = {}
    OBVIOUS
  <2>. QED BY <1>4, <1>5, <2>1 DEF Inv, Calls
<1>7. Calls'
  BY <1>4, <1>6 DEF Calls
<1>. QED BY <1>5, <1>7 DEF Inv

LEMMA FetchFacts ==
    ASSUME Inv, FetchBlocks
    PROVE  \E claim \in Injection(pending, gpuFree) :
              /\ FetchesFrom(pending, claim) /\ pending \in SUBSET Placed
              /\ \A x \in pending : x[2] \in Holes(x[1])
<1>1. PICK claim \in Injection(pending, gpuFree) : FetchesFrom(pending, claim)
  BY DEF FetchBlocks, FetchesFrom
<1>2. pending \subseteq HolesOf(batch) /\ batch \subseteq SeqIds
  BY DEF FetchBlocks, Inv, Calls, Live
<1>3. \A x \in pending : x[2] \in Holes(x[1]) /\ x \in Placed
  BY <1>2 DEF HolesOf, Placed, BlocksOf, Holes
<1>. QED BY <1>1, <1>3

LEMMA FetchBlocksKeeps ==
    ASSUME Inv, FetchBlocks
    PROVE  Inv'
<1>. DEFINE left == {cpuMap[x[1]][x[2]] : x \in pending}
<1>1. PICK claim \in Injection(pending, gpuFree) :
         /\ FetchesFrom(pending, claim) /\ pending \in SUBSET Placed
         /\ \A x \in pending : x[2] \in Holes(x[1])
  BY FetchFacts
<1>2. /\ Pools' /\ left \subseteq CpuBlocks
      /\ \A s \in SeqIds : Len(tables'[s]) = Len(tables[s])
  BY <1>1, FetchPools DEF Inv
<1>3. \A s \in SeqIds : Len(tables[s]) <= Len(tables'[s])
  <2>1. \A s \in SeqIds : Len(tables[s]) \in Nat
    BY TableFacts DEF Inv
  <2>. QED BY <1>2, <2>1
<1>4. kv' \in [Slots -> Author]
  <2>. DEFINE moves == {<<cpuMap[x[1]][x[2]], claim[x]>> : x \in pending}
  <2>1. \A x \in pending : cpuMap[x[1]][x[2]] \in Pool
    BY <1>2 DEF Pool
  <2>2. \A mv \in moves : mv[1] \in Pool
    BY <2>1
  <2>3. kv \in [Slots -> Author]
    BY DEF Inv, Data
  <2>4. kv' = MovedEntries(moves, left)
    BY <1>1, Zenon DEF FetchesFrom
  <2>. HIDE DEF moves, left
  <2>. QED BY <2>2, <2>3, <2>4, MovedType
<1>5. /\ UNCHANGED <<seqLens, saved>> /\ tableCache' = <<>>
      /\ pc' = "ready" /\ batch' = batch /\ pending' = {}
  BY DEF FetchBlocks, Goto
<1>6. Data'
  BY <1>2, <1>3, <1>4, <1>5, DataStep
<1>7. Live \subseteq Live'
  BY <1>2, <1>3, KeepLive DEF Inv
<1>8. Calls'
  <2>1. DOMAIN <<>> = {}
    OBVIOUS
  <2>. QED BY <1>5, <1>7, <2>1 DEF Inv, Calls
<1>. QED BY <1>2, <1>6, <1>8 DEF Inv

\* What AllocateSequence and DeserializeSequence do to the pools.
LEMMA AllocatedFacts ==
    ASSUME Inv, NEW s \in SeqIds, s \notin Live,
           NEW total \in Nat \ {0}, NEW onGpu \in 0..total,
           NEW g \in Injection(1..onGpu, gpuFree),
           NEW c \in Injection((onGpu+1)..total, cpuFree),
           tables' = [tables EXCEPT ![s] =
                         [i \in 1..total |-> IF i <= onGpu THEN g[i] ELSE Hole]],
           cpuMap' = [cpuMap EXCEPT ![s] = c],
           gpuFree' = gpuFree \ Range(g), cpuFree' = cpuFree \ Range(c)
    PROVE  /\ Pools' /\ Live \subseteq Live'
           /\ Len(tables[s]) = 0 /\ Len(tables'[s]) = total
           /\ \A t \in SeqIds \ {s} : tables'[t] = tables[t]
           /\ \A t \in SeqIds : Len(tables[t]) <= Len(tables'[t])
<1>1. /\ Pools' /\ tables[s] = <<>> /\ Len(tables'[s]) = total
      /\ \A t \in SeqIds \ {s} : tables'[t] = tables[t]
  BY AllocPools DEF Inv
<1>. DEFINE keeps == \A t \in SeqIds : Len(tables[t]) <= Len(tables'[t])
<1>2. keeps
  <2>1. \A t \in SeqIds : Len(tables[t]) \in Nat
    BY TableFacts DEF Inv
  <2>2. Len(tables[s]) = 0
    BY <1>1
  <2>. QED BY <1>1, <2>1, <2>2
<1>3. Live \subseteq Live'
  BY <1>1, <1>2, KeepLive DEF Inv
<1>4. Len(tables[s]) = 0
  BY <1>1
<1>. HIDE DEF keeps
<1>. QED BY <1>1, <1>2, <1>3, <1>4 DEF keeps

\* How many of the blocks of a new sequence go to the GPU.
LEMMA OnGpuType ==
    ASSUME Inv, NEW total \in Nat
    PROVE  (IF total <= Cardinality(gpuFree) THEN total ELSE Cardinality(gpuFree)) \in 0..total
<1>1. IsFiniteSet(gpuFree)
  BY TieredAssumption, FS_Subset DEF Inv, Pools
<1>2. Cardinality(gpuFree) \in Nat
  BY <1>1, FS_CardinalityType
<1>. QED BY <1>2

LEMMA AllocateSequenceKeeps ==
    ASSUME Inv, NEW s \in SeqIds, NEW n \in 0..MaxLen, AllocateSequence(s, n)
    PROVE  Inv'
<1>1. PICK total \in Nat \ {0} : total = BlocksFor(n)
  BY BlocksForFacts, TieredAssumption
<1>2. PICK onGpu \in 0..total :
         onGpu = IF total <= Cardinality(gpuFree) THEN total ELSE Cardinality(gpuFree)
  BY OnGpuType
<1>3. PICK g \in Injection(1..onGpu, gpuFree), c \in Injection((onGpu+1)..total, cpuFree) :
         /\ tables' = [tables EXCEPT ![s] =
                         [i \in 1..total |-> IF i <= onGpu THEN g[i] ELSE Hole]]
         /\ cpuMap' = [cpuMap EXCEPT ![s] = c]
         /\ gpuFree' = gpuFree \ Range(g) /\ cpuFree' = cpuFree \ Range(c)
  BY <1>1, <1>2 DEF AllocateSequence
<1>4. s \notin Live /\ pc = "idle" /\ UNCHANGED <<seqLens, kv, tableCache, saved, call>>
  BY DEF AllocateSequence
<1>5. /\ Pools' /\ Live \subseteq Live'
      /\ \A t \in SeqIds : Len(tables[t]) <= Len(tables'[t])
  BY <1>3, <1>4, AllocatedFacts
<1>6. kv' \in [Slots -> Author]
  BY <1>4 DEF Inv, Data
<1>7. Data'
  BY <1>4, <1>5, <1>6, DataStep
<1>8. Calls'
  BY <1>4, <1>5 DEF Inv, Calls, call
<1>. QED BY <1>5, <1>7, <1>8 DEF Inv

\* Truncation to n tokens, or to nothing at all.
LEMMA ReleaseKeeps ==
    ASSUME Inv, pc = "idle", NEW s \in SeqIds, NEW first \in Nat \ {0},
           first - 1 <= Len(tables[s]), Release(s, first),
           NEW n \in 0..MaxLen, n <= (first - 1) * BlockSize,
           seqLens' = [seqLens EXCEPT ![s] = n],
           tableCache' = <<>>, UNCHANGED <<saved, call>>
    PROVE  Inv'
<1>1. /\ Pools' /\ Len(tables'[s]) = first - 1
      /\ \A t \in SeqIds \ {s} : tables'[t] = tables[t]
  BY ReleasePools DEF Inv
<1>2. kv' \in [Slots -> Author]
  <2>. DEFINE blocks == {Home(s, i) : i \in {j \in DOMAIN tables[s] : j >= first}}
  <2>1. kv' = MovedEntries({}, blocks)
    BY DEF Release
  <2>2. kv \in [Slots -> Author]
    BY DEF Inv, Data
  <2>. HIDE DEF blocks
  <2>. QED BY <2>1, <2>2, MovedType
<1>3. \A t \in SeqIds : seqLens'[t] = IF t = s THEN n ELSE seqLens[t]
  BY DEF Inv, Data
<1>4. seqLens' \in [SeqIds -> 0..MaxLen]
  BY DEF Inv, Data
<1>5. \A t \in SeqIds : seqLens'[t] <= Len(tables'[t]) * BlockSize
  BY <1>1, <1>3 DEF Inv, Data
<1>6. Slots' = Slots /\ Author' = Author
  BY DEF Slots, Author
<1>7. Data'
  BY <1>2, <1>4, <1>5, <1>6 DEF Data, Inv
<1>8. Calls'
  <2>1. DOMAIN <<>> = {} /\ batch = {} /\ pending = {}
    BY DEF Inv, Calls
  <2>. QED BY <2>1 DEF Calls, call
<1>. QED BY <1>1, <1>7, <1>8 DEF Inv

LEMMA FreeSequenceKeeps ==
    ASSUME Inv, NEW s \in SeqIds, FreeSequence(s)
    PROVE  Inv'
<1>1. Len(tables[s]) \in Nat
  BY TableFacts DEF Inv
<1>2. BlockSize \in Nat /\ MaxLen \in Nat
  BY TieredAssumption
<1>. DEFINE first == 1
            n == 0
<1>3. /\ first \in Nat \ {0} /\ first - 1 <= Len(tables[s])
      /\ n \in 0..MaxLen /\ n <= (first - 1) * BlockSize
  BY <1>1, <1>2
<1>4. /\ pc = "idle" /\ Release(s, first) /\ seqLens' = [seqLens EXCEPT ![s] = n]
      /\ tableCache' = <<>> /\ UNCHANGED <<saved, call>>
  BY DEF FreeSequence
<1>. HIDE DEF first, n
<1>. QED BY <1>3, <1>4, ReleaseKeeps

LEMMA TruncateSequenceKeeps ==
    ASSUME Inv, NEW s \in SeqIds, NEW n \in 0..MaxLen, TruncateSequence(s, n)
    PROVE  Inv'
<1>1. Len(tables[s]) \in Nat \ {0}
  BY TableFacts DEF Inv, TruncateSequence
<1>2. BlockSize \in Nat /\ MaxLen \in Nat
  BY TieredAssumption
<1>3. n \in Nat /\ n <= Len(tables[s]) * BlockSize
  <2>1. seqLens[s] \in Nat /\ seqLens[s] <= Len(tables[s]) * BlockSize /\ n < seqLens[s]
    BY DEF Inv, Data, TruncateSequence
  <2>2. Len(tables[s]) * BlockSize \in Nat
    BY <1>1, <1>2
  <2>. QED BY <2>1, <2>2
<1>4. /\ BlocksFor(n) \in Nat \ {0} /\ n <= BlocksFor(n) * BlockSize
      /\ BlocksFor(n) <= Len(tables[s])
  <2>1. /\ CeilDiv(n) \in Nat /\ CeilDiv(n) <= Len(tables[s])
        /\ BlocksFor(n) \in Nat \ {0} /\ n <= BlocksFor(n) * BlockSize
    BY <1>1, <1>3, BlocksForFacts
  <2>. QED BY <1>1, <2>1 DEF BlocksFor
<1>5. PICK first \in Nat \ {0} : first = BlocksFor(n) + 1
  BY <1>4
<1>6. first - 1 = BlocksFor(n)
  BY <1>4, <1>5
<1>7. first - 1 <= Len(tables[s]) /\ n <= (first - 1) * BlockSize
  BY <1>4, <1>6
<1>8. /\ pc = "idle" /\ Release(s, first) /\ seqLens' = [seqLens EXCEPT ![s] = n]
      /\ tableCache' = <<>> /\ UNCHANGED <<saved, call>>
  BY <1>5 DEF TruncateSequence
<1>. QED BY <1>7, <1>8, ReleaseKeeps

\* The logical block of a written position is in the table.
LEMMA PositionFacts ==
    ASSUME NEW m \in Nat, NEW n \in Nat, n <= m * BlockSize, NEW p \in 1..n
    PROVE  /\ ((p - 1) \div BlockSize) + 1 \in 1..m
           /\ (p - 1) % BlockSize \in 0..(BlockSize-1)
<1>1. BlockSize \in Nat \ {0}
  BY TieredAssumption
<1>2. PICK q \in Nat : q = p - 1
  OBVIOUS
<1>3. /\ q \div BlockSize \in Nat /\ q % BlockSize \in 0..(BlockSize-1)
      /\ q = BlockSize * (q \div BlockSize) + (q % BlockSize)
  BY <1>1, <1>2
<1>4. PICK d \in Nat : d = q \div BlockSize
  BY <1>3
<1>5. d * BlockSize < m * BlockSize
  <2>1. d * BlockSize <= q
    BY <1>1, <1>3, <1>4
  <2>2. q < n /\ m * BlockSize \in Nat /\ d * BlockSize \in Nat
    BY <1>1, <1>2
  <2>. QED BY <2>1, <2>2
<1>6. d < m
  BY <1>1, <1>5
<1>. QED BY <1>2, <1>3, <1>4, <1>6

LEMMA SerializeKeeps ==
    ASSUME Inv, NEW s \in SeqIds, SerializeSequence(s)
    PROVE  Inv'
<1>. DEFINE block(i) == IF IsResident(s, i) THEN tables[s][i] ELSE LastBlock
            entry(p) == kv[<<block(((p - 1) \div BlockSize) + 1), (p - 1) % BlockSize>>]
<1>1. saved' = [p \in 1..seqLens[s] |-> entry(p)]
  BY DEF SerializeSequence
<1>2. UNCHANGED <<pools, seqLens, tableCache, call>>
  BY DEF SerializeSequence
<1>3. /\ Len(tables[s]) \in Nat /\ DOMAIN tables[s] = 1..Len(tables[s])
      /\ seqLens[s] \in Nat /\ seqLens[s] <= MaxLen
      /\ seqLens[s] <= Len(tables[s]) * BlockSize
  BY TableFacts, TieredAssumption DEF Inv, Data
<1>4. ASSUME NEW p \in 1..seqLens[s] PROVE entry(p) \in Author
  <2>1. /\ ((p - 1) \div BlockSize) + 1 \in DOMAIN tables[s]
        /\ (p - 1) % BlockSize \in 0..(BlockSize-1)
    BY <1>3, PositionFacts
  <2>2. \A i \in DOMAIN tables[s] : block(i) \in Pool
    <3>1. LastBlock \in Pool
      BY TieredAssumption DEF Pool
    <3>2. \A i \in DOMAIN tables[s] : IsResident(s, i) => tables[s][i] \in Pool
      BY HomeFacts DEF Inv, IsResident, Pool
    <3>. QED BY <3>1, <3>2
  <2>. HIDE DEF block
  <2>3. <<block(((p - 1) \div BlockSize) + 1), (p - 1) % BlockSize>> \in Slots
    BY <2>1, <2>2 DEF Slots, Pool
  <2>. QED BY <2>3 DEF Inv, Data
<1>. HIDE DEF entry
<1>5. saved' \in Seq(Author) /\ Len(saved') <= MaxLen
  <2>1. saved' \in [1..seqLens[s] -> Author]
    BY <1>1, <1>4
  <2>2. saved' \in Seq(Author) /\ Len(saved') = seqLens[s]
    BY <1>3, <2>1
  <2>. QED BY <1>3, <2>2
<1>6. Pools' /\ Live' = Live /\ \A t \in SeqIds : Holes(t)' = Holes(t)
  BY <1>2, PoolsSame DEF Inv, pools
<1>7. Data'
  <2>1. Slots' = Slots /\ Author' = Author
    BY DEF Slots, Author
  <2>. QED BY <1>2, <1>5, <2>1 DEF Inv, Data, pools
<1>8. Calls'
  <2>1. HolesOf(batch)' = HolesOf(batch)
    <3>1. batch' = batch /\ batch \subseteq SeqIds
      BY <1>2 DEF Inv, Calls, Live, call
    <3>. QED BY <1>6, <3>1 DEF HolesOf
  <2>. QED BY <1>2, <1>6, <2>1 DEF Inv, Calls, call
<1>. QED BY <1>6, <1>7, <1>8 DEF Inv

\* The cached table a forward pass leaves has rows of its batch or of nobody new.
LEMMA CacheDomain ==
    ASSUME Inv, tableCache' \in {tableCache, FetchTable}
    PROVE  DOMAIN tableCache' \subseteq Live
<1>1. DOMAIN tableCache \subseteq Live /\ batch \subseteq Live
  BY DEF Inv, Calls
<1>2. DOMAIN FetchTable \in {DOMAIN tableCache, batch}
  BY DEF FetchTable
<1>. QED BY <1>1, <1>2

\* A forward pass: entries are written, lengths grow within the tables.
LEMMA ForwardKeeps ==
    ASSUME Inv, UNCHANGED <<gpuFree, cpuFree, tables, cpuMap, saved, call>>, pc = "ready",
           tableCache' \in {tableCache, FetchTable}, kv' \in [Slots -> Author],
           seqLens' \in [SeqIds -> 0..MaxLen],
           \A s \in SeqIds : seqLens'[s] <= Len(tables[s]) * BlockSize
    PROVE  Inv'
<1>1. Pools' /\ Live' = Live
  BY PoolsSame DEF Inv
<1>2. Slots' = Slots /\ Author' = Author
  BY DEF Slots, Author
<1>3. Data'
  BY <1>2 DEF Inv, Data
<1>4. DOMAIN tableCache' \subseteq Live
  BY CacheDomain
<1>5. Calls'
  BY <1>1, <1>4 DEF Inv, Calls, call
<1>. QED BY <1>1, <1>3, <1>5 DEF Inv

LEMMA PrefillKeeps ==
    ASSUME Inv, NEW s \in SeqIds, NEW n \in 1..MaxLen, Prefill(s, n)
    PROVE  Inv'
<1>1. /\ pc = "ready" /\ UNCHANGED <<gpuFree, cpuFree, tables, cpuMap, saved, call>>
      /\ tableCache' \in {tableCache, FetchTable}
      /\ seqLens[s] + n <= MaxLen /\ CeilDiv(seqLens[s] + n) <= Len(tables[s])
      /\ seqLens' = [seqLens EXCEPT ![s] = @ + n]
  BY DEF Prefill
<1>2. kv' \in [Slots -> Author]
  <2>1. PICK at : kv' = [x \in Slots |-> IF x \in Range(at) THEN s ELSE kv[x]]
    BY DEF Prefill
  <2>. QED BY <2>1 DEF Inv, Data, Author
<1>3. /\ seqLens \in [SeqIds -> 0..MaxLen] /\ seqLens[s] \in Nat
      /\ \A t \in SeqIds : seqLens[t] <= Len(tables[t]) * BlockSize
  BY TieredAssumption DEF Inv, Data
<1>4. seqLens' \in [SeqIds -> 0..MaxLen]
  BY <1>1, <1>3, TieredAssumption
<1>5. seqLens[s] + n <= Len(tables[s]) * BlockSize
  <2>0. /\ Len(tables[s]) \in Nat /\ BlockSize \in Nat /\ seqLens[s] + n \in Nat
    BY <1>3, TableFacts, TieredAssumption DEF Inv
  <2>1. /\ Len(tables[s]) \in Nat /\ BlockSize \in Nat /\ seqLens[s] + n \in Nat
        /\ CeilDiv(seqLens[s] + n) \in Nat
        /\ seqLens[s] + n <= CeilDiv(seqLens[s] + n) * BlockSize
    BY <2>0, BlocksForFacts
  <2>2. CeilDiv(seqLens[s] + n) * BlockSize <= Len(tables[s]) * BlockSize
    BY <1>1, <2>1
  <2>3. CeilDiv(seqLens[s] + n) * BlockSize \in Nat /\ Len(tables[s]) * BlockSize \in Nat
    BY <2>1
  <2>. QED BY <2>1, <2>2, <2>3
<1>6. \A t \in SeqIds : seqLens'[t] <= Len(tables[t]) * BlockSize
  BY <1>1, <1>3, <1>5
<1>. QED BY <1>1, <1>2, <1>4, <1>6, ForwardKeeps

LEMMA DecodeStepKeeps == ASSUME Inv, DecodeStep PROVE Inv'
<1>1. /\ pc = "ready" /\ UNCHANGED <<gpuFree, cpuFree, tables, cpuMap, saved, call>>
      /\ tableCache' \in {tableCache, FetchTable}
      /\ \A s \in batch : seqLens[s] < MaxLen /\ CeilDiv(seqLens[s] + 1) <= Len(tables[s])
      /\ seqLens' = [s \in SeqIds |-> IF s \in batch THEN seqLens[s] + 1 ELSE seqLens[s]]
  BY DEF DecodeStep
<1>2. batch \subseteq SeqIds
  BY DEF Inv, Calls, Live
<1>3. kv' \in [Slots -> Author]
  <2>1. PICK at : \E last \in [Range(at) -> batch] :
           kv' = [x \in Slots |-> IF x \in Range(at) THEN last[x] ELSE kv[x]]
    BY DEF DecodeStep
  <2>2. PICK last \in [Range(at) -> batch] :
           kv' = [x \in Slots |-> IF x \in Range(at) THEN last[x] ELSE kv[x]]
    BY <2>1
  <2>. QED BY <1>2, <2>2 DEF Inv, Data, Author
<1>4. /\ seqLens \in [SeqIds -> 0..MaxLen] /\ MaxLen \in Nat
      /\ \A t \in SeqIds : seqLens[t] <= Len(tables[t]) * BlockSize
  BY TieredAssumption DEF Inv, Data
<1>5. seqLens' \in [SeqIds -> 0..MaxLen]
  BY <1>1, <1>4
<1>6. ASSUME NEW s \in batch PROVE seqLens[s] + 1 <= Len(tables[s]) * BlockSize
  <2>. SUFFICES ASSUME s \in SeqIds PROVE seqLens[s] + 1 <= Len(tables[s]) * BlockSize
    BY <1>2
  <2>1. /\ Len(tables[s]) \in Nat /\ BlockSize \in Nat /\ seqLens[s] + 1 \in Nat
    BY <1>4, TableFacts, TieredAssumption DEF Inv
  <2>2. /\ CeilDiv(seqLens[s] + 1) \in Nat
        /\ seqLens[s] + 1 <= CeilDiv(seqLens[s] + 1) * BlockSize
    BY <2>1, BlocksForFacts
  <2>3. CeilDiv(seqLens[s] + 1) * BlockSize <= Len(tables[s]) * BlockSize
    BY <1>1, <2>1, <2>2
  <2>4. CeilDiv(seqLens[s] + 1) * BlockSize \in Nat /\ Len(tables[s]) * BlockSize \in Nat
    BY <2>1, <2>2
  <2>. QED BY <2>1, <2>2, <2>3, <2>4
<1>7. \A s \in SeqIds : seqLens'[s] <= Len(tables[s]) * BlockSize
  BY <1>1, <1>4, <1>6
<1>. QED BY <1>1, <1>3, <1>5, <1>7, ForwardKeeps

\* What DeserializeSequence does with `total` blocks, `data` of them for saved
\* entries and the first `onGpu` on the GPU.
RestoredInto(s, total, data, onGpu) ==
    \E g \in Injection(1..onGpu, gpuFree), c \in Injection((onGpu+1)..total, cpuFree) :
      LET t == [i \in 1..total |-> IF i <= onGpu THEN g[i] ELSE Hole]
          at(i) == IF t[i] = Hole THEN LastBlock ELSE t[i]
          entry(i, o) == LET p == (i - 1) * BlockSize + o + 1
                         IN  IF p <= Len(saved) THEN saved[p] ELSE Nobody
      IN  /\ \E last \in [{at(i) : i \in 1..data} -> 1..data] :
                /\ \A b \in DOMAIN last : at(last[b]) = b
                /\ kv' = [x \in Slots |->
                            IF x[1] \in DOMAIN last THEN entry(last[x[1]], x[2])
                            ELSE kv[x]]
          /\ tables' = [tables EXCEPT ![s] = t]
          /\ cpuMap' = [cpuMap EXCEPT ![s] = c]
          /\ gpuFree' = gpuFree \ Range(g)
          /\ cpuFree' = cpuFree \ Range(c)

LEMMA DeserializeKeeps ==
    ASSUME Inv, NEW s \in SeqIds, NEW extra \in 0..(MaxLen - Len(saved)),
           DeserializeSequence(s, extra)
    PROVE  Inv'
<1>1. /\ Len(saved) \in Nat /\ MaxLen \in Nat /\ Len(saved) <= MaxLen
      /\ saved \in Seq(Author) /\ kv \in [Slots -> Author]
  <2>1. saved \in Seq(Author)
    BY DEF Inv, Data
  <2>2. Len(saved) \in Nat
    BY <2>1
  <2>. QED BY <2>1, <2>2, TieredAssumption DEF Inv, Data
<1>2. Len(saved) + extra \in Nat /\ Len(saved) <= Len(saved) + extra
  BY <1>1
<1>3. PICK total \in Nat \ {0} : /\ total = BlocksFor(Len(saved) + extra)
                                 /\ Len(saved) + extra <= total * BlockSize
  BY <1>2, BlocksForFacts
<1>4. PICK onGpu \in 0..total :
         onGpu = IF total <= Cardinality(gpuFree) THEN total ELSE Cardinality(gpuFree)
  BY OnGpuType
<1>5. PICK data \in Nat : data = CeilDiv(Len(saved))
  BY <1>1, BlocksForFacts
<1>. DEFINE t(g) == [i \in 1..total |-> IF i <= onGpu THEN g[i] ELSE Hole]
            at(g, i) == IF t(g)[i] = Hole THEN LastBlock ELSE t(g)[i]
            entry(i, o) == LET p == (i - 1) * BlockSize + o + 1
                           IN  IF p <= Len(saved) THEN saved[p] ELSE Nobody
<1>6. PICK g \in Injection(1..onGpu, gpuFree), c \in Injection((onGpu+1)..total, cpuFree) :
         /\ \E last \in [{at(g, i) : i \in 1..data} -> 1..data] :
               kv' = [x \in Slots |->
                         IF x[1] \in DOMAIN last THEN entry(last[x[1]], x[2]) ELSE kv[x]]
         /\ tables' = [tables EXCEPT ![s] = t(g)]
         /\ cpuMap' = [cpuMap EXCEPT ![s] = c]
         /\ gpuFree' = gpuFree \ Range(g) /\ cpuFree' = cpuFree \ Range(c)
  <2>1. RestoredInto(s, BlocksFor(Len(saved) + extra), CeilDiv(Len(saved)),
                     IF BlocksFor(Len(saved) + extra) <= Cardinality(gpuFree)
                       THEN BlocksFor(Len(saved) + extra) ELSE Cardinality(gpuFree))
    BY Zenon DEF DeserializeSequence, RestoredInto
  <2>2. RestoredInto(s, total, data, onGpu)
    <3>. HIDE DEF t, at, entry
    <3>. QED BY <1>3, <1>4, <1>5, <2>1
  <2>. QED BY <2>2, Zenon DEF RestoredInto
<1>7. /\ s \notin Live /\ pc = "idle" /\ UNCHANGED <<saved, call>> /\ tableCache' = <<>>
      /\ seqLens' = [seqLens EXCEPT ![s] = Len(saved)]
  BY DEF DeserializeSequence
<1>8. /\ Pools' /\ Live \subseteq Live'
      /\ Len(tables[s]) = 0 /\ Len(tables'[s]) = total
      /\ \A u \in SeqIds \ {s} : tables'[u] = tables[u]
  BY <1>6, <1>7, AllocatedFacts
<1>9. kv' \in [Slots -> Author]
  <2>1. ASSUME NEW i \in 1..data, NEW o \in 0..(BlockSize-1)
        PROVE  entry(i, o) \in Author
    <3>1. BlockSize \in Nat \ {0}
      BY TieredAssumption
    <3>2. i - 1 \in Nat /\ (i - 1) * BlockSize \in Nat
      BY <3>1
    <3>3. PICK p \in Nat \ {0} : p = (i - 1) * BlockSize + o + 1
      BY <3>1, <3>2
    <3>4. p <= Len(saved) => saved[p] \in Author
      BY <1>1
    <3>. QED BY <3>3, <3>4 DEF Author
  <2>2. PICK last \in [{at(g, i) : i \in 1..data} -> 1..data] :
           kv' = [x \in Slots |->
                     IF x[1] \in DOMAIN last THEN entry(last[x[1]], x[2]) ELSE kv[x]]
    BY <1>6
  <2>. HIDE DEF entry, at
  <2>3. \A x \in Slots : x[2] \in 0..(BlockSize-1)
    BY DEF Slots
  <2>4. \A x \in Slots : x[1] \in DOMAIN last => entry(last[x[1]], x[2]) \in Author
    BY <2>1, <2>3
  <2>. QED BY <1>1, <2>2, <2>4
<1>10. /\ seqLens \in [SeqIds -> 0..MaxLen]
       /\ \A u \in SeqIds : seqLens[u] <= Len(tables[u]) * BlockSize
  BY DEF Inv, Data
<1>11. seqLens' \in [SeqIds -> 0..MaxLen]
  BY <1>1, <1>7, <1>10
<1>12. Len(saved) <= total * BlockSize
  <2>1. total * BlockSize \in Nat
    BY TieredAssumption
  <2>. QED BY <1>1, <1>2, <1>3, <2>1
<1>13. \A u \in SeqIds : seqLens'[u] <= Len(tables'[u]) * BlockSize
  BY <1>7, <1>8, <1>10, <1>12
<1>14. Slots' = Slots /\ Author' = Author
  BY DEF Slots, Author
<1>15. Data'
  BY <1>1, <1>7, <1>9, <1>11, <1>13, <1>14 DEF Data
<1>16. Calls'
  <2>1. DOMAIN <<>> = {} /\ batch = {} /\ pending = {}
    BY <1>7 DEF Inv, Calls
  <2>. QED BY <1>7, <2>1 DEF Calls, call
<1>. QED BY <1>8, <1>15, <1>16 DEF Inv

LEMMA ReturnsKeep ==
    ASSUME Inv, AllocateBlockRaises \/ CapacityEnsured \/ FetchRaises \/ Leave
    PROVE  Inv'
BY ReturnKeeps DEF AllocateBlockRaises, CapacityEnsured, FetchRaises, Leave

LEMMA Initially == Init => Inv
<1>. SUFFICES ASSUME Init PROVE Inv
  OBVIOUS
<1>1. /\ tables = [s \in SeqIds |-> <<>>] /\ cpuMap = [s \in SeqIds |-> <<>>]
      /\ gpuFree = GpuBlocks /\ cpuFree = CpuBlocks
  BY DEF Init
<1>2. DOMAIN <<>> = {} /\ <<>> \in Seq(Entry) /\ Len(<<>>) = 0
  OBVIOUS
<1>3. <<>> \in CpuMaps
  <2>1. <<>> \in [{} -> CpuBlocks]
    OBVIOUS
  <2>2. {} \in SUBSET Nat
    OBVIOUS
  <2>. QED BY <2>1, <2>2 DEF CpuMaps
<1>4. Placed = {}
  BY <1>1, <1>2 DEF Placed, BlocksOf
<1>5. \A s \in SeqIds : DOMAIN cpuMap[s] = Holes(s)
  BY <1>1, <1>2 DEF Holes, Residents
<1>6. Pools
  BY <1>1, <1>2, <1>3, <1>4, <1>5 DEF Pools, Free, Pool
<1>7. Data
  <2>1. <<>> \in Seq(Author) /\ Len(<<>>) = 0
    OBVIOUS
  <2>2. BlockSize \in Nat /\ MaxLen \in Nat
    BY TieredAssumption
  <2>3. \A s \in SeqIds : seqLens[s] = 0 /\ Len(tables[s]) * BlockSize = 0
    BY <1>1, <1>2, <2>2 DEF Init
  <2>. QED BY <2>1, <2>2, <2>3 DEF Data, Init, Author
<1>8. Calls
  BY <1>2 DEF Calls, Init
<1>. QED BY <1>6, <1>7, <1>8 DEF Inv

LEMMA NextKeeps == Inv /\ [Next]_vars => Inv'
<1>. SUFFICES ASSUME Inv, [Next]_vars PROVE Inv'
  OBVIOUS
<1>1. CASE InCall
  BY <1>1, AllocateBlockKeeps, AllocateBlockEvictingKeeps, ReturnsKeep, EvictForFetchKeeps,
     FetchBlocksKeeps DEF InCall
<1>2. ASSUME NEW s \in SeqIds, NEW n \in 0..MaxLen,
             AllocateSequence(s, n) \/ TruncateSequence(s, n)
      PROVE  Inv'
  BY <1>2, AllocateSequenceKeeps, TruncateSequenceKeeps
<1>3. ASSUME NEW s \in SeqIds, NEW n \in 1..GrowBy, EnsureSequenceCapacity(s, n) PROVE Inv'
  BY <1>3, EnsureSequenceCapacityKeeps
<1>4. ASSUME NEW s \in SeqIds, FreeSequence(s) \/ SerializeSequence(s) PROVE Inv'
  BY <1>4, FreeSequenceKeeps, SerializeKeeps
<1>5. ASSUME NEW s \in SeqIds, NEW n \in 1..MaxLen, Prefill(s, n) PROVE Inv'
  BY <1>5, PrefillKeeps
<1>6. ASSUME NEW s \in SeqIds, NEW extra \in 0..(MaxLen - Len(saved)),
             DeserializeSequence(s, extra)
      PROVE  Inv'
  BY <1>6, DeserializeKeeps
<1>7. ASSUME NEW B \in SUBSET SeqIds, EnsureBlocksOnGpu(B) PROVE Inv'
  BY <1>7, EnsureBlocksOnGpuKeeps
<1>8. CASE DecodeStep
  BY <1>8, DecodeStepKeeps
<1>9. CASE EvictColdBlocks
  BY <1>9, EvictColdBlocksKeeps
<1>10. CASE Leave
  BY <1>10, ReturnsKeep
<1>11. CASE UNCHANGED vars
  <2>1. UNCHANGED <<gpuFree, cpuFree, tables, cpuMap, kv, seqLens, tableCache, saved,
                    pc, batch, pending>>
    BY <1>11 DEF vars, pools, call
  <2>2. UNCHANGED <<pools, seqLens, saved>>
    BY <2>1 DEF pools
  <2>3. Live' = Live /\ Pools' /\ Data' /\ \A s \in SeqIds : Holes(s)' = Holes(s)
    BY <2>2, QuietStep
  <2>4. HolesOf(batch)' = HolesOf(batch)
    <3>1. batch \subseteq SeqIds
      BY DEF Inv, Calls, Live
    <3>. QED BY <2>1, <2>3, <3>1 DEF HolesOf
  <2>5. Calls'
    BY <2>1, <2>3, <2>4 DEF Inv, Calls
  <2>. QED BY <2>3, <2>5 DEF Inv
<1>. QED
  BY <1>1, <1>2, <1>3, <1>4, <1>5, <1>6, <1>7, <1>8, <1>9, <1>10, <1>11 DEF Next

LEMMA Always == Spec => []Inv
<1>. QED BY Initially, NextKeeps, PTL DEF Spec

\* Every table, map, free list and cached row has its type; an offloaded index is
\* one of the table's; and what a call works on is alive: TieredBlockManager's
\* state stays well formed through paging, overflow, growth and release.
THEOREM TypeCorrect == Spec => []TypeOK
<1>1. Inv => TypeOK
  <2>. SUFFICES ASSUME Inv PROVE TypeOK
    OBVIOUS
  <2>1. \A s \in SeqIds : /\ DOMAIN cpuMap[s] \subseteq DOMAIN tables[s]
                          /\ cpuMap[s] \in [DOMAIN cpuMap[s] -> CpuBlocks]
    <3>1. \A s \in SeqIds : cpuMap[s] \in [Holes(s) -> CpuBlocks]
      BY TableFacts DEF Inv
    <3>. QED BY <3>1 DEF Holes
  <2>. QED BY <2>1 DEF TypeOK, Inv, Pools, Data, Calls, Entry
<1>. QED BY <1>1, Always, PTL

\* Paging, overflow to the CPU, truncation, growth and failures half way leak no
\* block and free none twice: every logical block is in exactly one place, and the
\* two free lists hold exactly the other places.
THEOREM BlocksPlacedOnce == Spec => []PlacedOnce
<1>1. Inv => PlacedOnce
  BY DEF Inv, Pools, PlacedOnce, Free, Pool
<1>. QED BY <1>1, Always, PTL

-------------------------------------------------------------------------------
(* Batches whose tables fit the GPU: a forward pass finds all its blocks there, *)
(* and a batch is refused only when the CPU pool is full.                       *)

\* What a fetch has to bring in, and when it is through.
Fit ==
    /\ pc = "fetching" => /\ pending = HolesOf(batch)
                          /\ Cardinality(BlocksOf(batch)) <= Cardinality(GpuBlocks)
    /\ pc = "ready" => \A s \in batch : Holes(s) = {}

ResidentsOf(B) == UNION {{s} \X Residents(s) : s \in B}

\* The resident blocks of B, when nobody else has any, are the GPU blocks in use.
LEMMA ResidentsFillGpu ==
    ASSUME Inv, NEW B \in SUBSET Live, ResidentsOf(Live \ B) = {}
    PROVE  /\ IsFiniteSet(ResidentsOf(B)) /\ IsFiniteSet(gpuFree)
           /\ Cardinality(ResidentsOf(B)) + Cardinality(gpuFree) = Cardinality(GpuBlocks)
<1>. DEFINE R == ResidentsOf(B)
            used == GpuBlocks \ gpuFree
            f == [x \in R |-> HomeOf(x)]
<1>1. Pools
  BY DEF Inv
<1>2. \A x \in R : x \in Placed /\ IsResident(x[1], x[2])
  BY DEF ResidentsOf, Residents, Placed, BlocksOf, Live
<1>3. \A x \in R : HomeOf(x) \in used
  <2>. SUFFICES ASSUME NEW x \in R PROVE HomeOf(x) \in used
    OBVIOUS
  <2>1. x[1] \in SeqIds /\ x[2] \in DOMAIN tables[x[1]] /\ HomeOf(x) = Home(x[1], x[2])
    BY <1>2, PlacedIs
  <2>2. Home(x[1], x[2]) \in GpuBlocks /\ Home(x[1], x[2]) \notin Free
    BY <1>1, <1>2, <2>1, HomeFacts DEF IsResident
  <2>. QED BY <2>1, <2>2 DEF Free
<1>4. \A b \in used : \E x \in R : HomeOf(x) = b
  <2>. SUFFICES ASSUME NEW b \in used PROVE \E x \in R : HomeOf(x) = b
    OBVIOUS
  <2>1. b \in Pool /\ b \notin Free /\ b \notin CpuBlocks
    BY <1>1, TieredAssumption DEF Free, Pool, Pools
  <2>2. PICK x \in Placed : HomeOf(x) = b
    BY <1>1, <2>1 DEF Pools
  <2>3. /\ x[1] \in SeqIds /\ x[2] \in DOMAIN tables[x[1]] /\ HomeOf(x) = Home(x[1], x[2])
        /\ x = <<x[1], x[2]>>
    BY PlacedIs
  <2>4. tables[x[1]][x[2]] # Hole
    BY <1>1, <2>1, <2>2, <2>3, HomeFacts
  <2>5. x[2] \in Residents(x[1])
    BY <2>3, <2>4 DEF Residents, IsResident
  <2>6. x[1] \in Live
    BY <2>3 DEF Live
  <2>7. x[1] \in B
    BY <2>3, <2>5, <2>6 DEF ResidentsOf
  <2>8. x \in R
    BY <2>3, <2>5, <2>7 DEF ResidentsOf
  <2>. QED BY <2>2, <2>8
<1>5. \A x, y \in R : HomeOf(x) = HomeOf(y) => x = y
  BY <1>1, <1>2 DEF Pools
<1>. HIDE DEF R, used
<1>6. f \in Injection(R, used) /\ f \in Surjection(R, used)
  <2>1. f \in [R -> used]
    BY <1>3
  <2>. QED BY <1>4, <1>5, <2>1 DEF Injection, IsInjective, Surjection
<1>7. /\ IsFiniteSet(gpuFree) /\ IsFiniteSet(GpuBlocks) /\ IsFiniteSet(used)
      /\ gpuFree \subseteq GpuBlocks
  BY <1>1, TieredAssumption, FS_Subset DEF Pools, used
<1>8. /\ Cardinality(used) = Cardinality(GpuBlocks) - Cardinality(GpuBlocks \cap gpuFree)
      /\ GpuBlocks \cap gpuFree = gpuFree
  BY <1>7, FS_Difference DEF used
<1>9. IsFiniteSet(R) /\ Cardinality(R) = Cardinality(used)
  BY <1>6, <1>7, FS_Injection
<1>10. Cardinality(gpuFree) \in Nat /\ Cardinality(GpuBlocks) \in Nat
  BY <1>7, FS_CardinalityType
<1>11. Cardinality(GpuBlocks \cap gpuFree) = Cardinality(gpuFree)
  BY <1>8
<1>12. Cardinality(R) + Cardinality(gpuFree) = Cardinality(GpuBlocks)
  BY <1>8, <1>9, <1>10, <1>11
<1>. QED BY <1>7, <1>9, <1>12 DEF R

\* A batch that fits finds room, or another sequence has a block on the GPU.
LEMMA NoRoomMeansOthers ==
    ASSUME Inv, Fit, pc = "fetching", ~RoomToFetch
    PROVE  ResidentsOf(Live \ batch) # {}
<1>. SUFFICES ASSUME ResidentsOf(Live \ batch) = {} PROVE FALSE
  OBVIOUS
<1>1. batch \in SUBSET Live
  BY DEF Inv, Calls
<1>2. /\ IsFiniteSet(ResidentsOf(batch)) /\ IsFiniteSet(gpuFree)
      /\ Cardinality(ResidentsOf(batch)) + Cardinality(gpuFree) = Cardinality(GpuBlocks)
  BY <1>1, ResidentsFillGpu
<1>3. /\ pending = HolesOf(batch)
      /\ Cardinality(BlocksOf(batch)) <= Cardinality(GpuBlocks)
  BY DEF Fit
<1>4. /\ BlocksOf(batch) = ResidentsOf(batch) \cup pending
      /\ ResidentsOf(batch) \cap pending = {}
  BY <1>3 DEF BlocksOf, ResidentsOf, HolesOf, Holes, Residents
<1>5. IsFiniteSet(pending)
  <2>1. ASSUME NEW s \in SeqIds PROVE IsFiniteSet({s} \X Holes(s))
    <3>1. DOMAIN tables[s] = 1..Len(tables[s]) /\ Len(tables[s]) \in Nat
      BY TableFacts DEF Inv
    <3>2. IsFiniteSet(DOMAIN tables[s])
      BY <3>1, FS_Interval
    <3>3. IsFiniteSet(Holes(s))
      BY <3>2, FS_Subset DEF Holes
    <3>. QED BY <3>3, FS_Singleton, FS_Product
  <2>. DEFINE sets == {{s} \X Holes(s) : s \in batch}
  <2>2. IsFiniteSet(batch)
    BY <1>1, TieredAssumption, FS_Subset DEF Live
  <2>3. IsFiniteSet(sets)
    <3>. DEFINE f == [s \in batch |-> {s} \X Holes(s)]
    <3>1. f \in Surjection(batch, sets)
      BY DEF Surjection
    <3>. HIDE DEF f, sets
    <3>. QED BY <2>2, <3>1, FS_Surjection
  <2>4. \A S \in sets : IsFiniteSet(S)
    BY <1>1, <2>1 DEF Live
  <2>. HIDE DEF sets
  <2>5. IsFiniteSet(UNION sets)
    BY <2>3, <2>4, FS_UNION
  <2>. QED BY <1>3, <2>5 DEF HolesOf, sets
<1>6. Cardinality(BlocksOf(batch)) = Cardinality(ResidentsOf(batch)) + Cardinality(pending)
  <2>1. Cardinality({}) = 0
    BY FS_EmptySet
  <2>2. Cardinality(ResidentsOf(batch)) \in Nat /\ Cardinality(pending) \in Nat
    BY <1>2, <1>5, FS_CardinalityType
  <2>3. Cardinality(ResidentsOf(batch) \cap pending) = 0
    BY <1>4, <2>1
  <2>4. Cardinality(ResidentsOf(batch) \cup pending)
          = Cardinality(ResidentsOf(batch)) + Cardinality(pending)
              - Cardinality(ResidentsOf(batch) \cap pending)
    BY <1>2, <1>5, FS_Union
  <2>5. Cardinality(ResidentsOf(batch) \cup pending)
          = Cardinality(ResidentsOf(batch)) + Cardinality(pending)
    BY <2>2, <2>3, <2>4
  <2>. QED BY <1>4, <2>5
<1>7. /\ Cardinality(ResidentsOf(batch)) \in Nat /\ Cardinality(pending) \in Nat
      /\ Cardinality(gpuFree) \in Nat
  BY <1>2, <1>5, FS_CardinalityType
<1>8. Cardinality(pending) <= Cardinality(gpuFree)
  BY <1>2, <1>3, <1>6, <1>7
<1>. QED BY <1>8 DEF RoomToFetch

\* A nonempty set of natural numbers has a least one.
LEMMA LeastExists ==
    ASSUME NEW D \in SUBSET Nat, D # {}
    PROVE  \E d \in D : \A e \in D : d <= e
<1>1. PICK d \in D : \A e \in D : ~(<<e, d>> \in OpToRel(<, Nat))
  BY NatLessThanWellFounded, WFMin
<1>2. \A e \in D : d <= e
  <2>. TAKE e \in D
  <2>1. ~(e < d)
    BY <1>1 DEF OpToRel
  <2>. QED BY <2>1
<1>. QED BY <1>2

\* The first block of a sequence that has any, in a set of logical blocks.
LEMMA OldestExists ==
    ASSUME NEW C, C # {}, \A x \in C : x[2] \in Nat
    PROVE  Oldest(C) # {}
<1>1. PICK y \in C : TRUE
  OBVIOUS
<1>. DEFINE D == {x[2] : x \in {z \in C : z[1] = y[1]}}
<1>2. D \subseteq Nat /\ D # {}
  OBVIOUS
<1>3. PICK d \in D : \A e \in D : d <= e
  <2>. HIDE DEF D
  <2>. QED BY <1>2, LeastExists
<1>4. PICK x \in C : x[1] = y[1] /\ x[2] = d
  OBVIOUS
<1>5. \A z \in C : z[1] = x[1] => z[2] \in D
  BY <1>4
<1>6. x \in Oldest(C)
  BY <1>3, <1>4, <1>5 DEF Oldest
<1>. QED BY <1>6

\* While others have blocks on the GPU, theirs are the victims.
LEMMA OthersAreVictims ==
    ASSUME Inv, NEW active, ResidentsOf(Live \ active) # {}
    PROVE  /\ Victims(active) \subseteq ResidentsOf(Live \ active)
           /\ Victims(active) = {} => cpuFree = {}
<1>1. Victims(active) = IF cpuFree = {} THEN {} ELSE Oldest(ResidentsOf(Live \ active))
  BY DEF Victims, ResidentsOf
<1>2. \A x \in ResidentsOf(Live \ active) : x[2] \in Nat
  <2>1. \A s \in SeqIds : DOMAIN tables[s] = 1..Len(tables[s]) /\ Len(tables[s]) \in Nat
    BY TableFacts DEF Inv
  <2>. QED BY <2>1 DEF ResidentsOf, Residents, Live
<1>. QED BY <1>1, <1>2, OldestExists DEF Oldest

\* What the steps leave of the domains of the tables, a call's batch included.
LEMMA EvictForFetchFacts ==
    ASSUME Inv, Fit, EvictForFetch
    PROVE  \E v \in Placed :
              /\ v[1] \notin batch /\ IsResident(v[1], v[2]) /\ Evict({v})
              /\ \A s \in SeqIds :
                    /\ DOMAIN tables'[s] = DOMAIN tables[s]
                    /\ \A i \in DOMAIN tables[s] :
                          tables'[s][i] = IF <<s, i>> = v THEN Hole ELSE tables[s][i]
<1>1. PICK v \in Victims(batch) : Evict({v})
  BY DEF EvictForFetch
<1>2. batch \in SUBSET Live /\ ResidentsOf(Live \ batch) # {}
  BY NoRoomMeansOthers DEF EvictForFetch, Inv, Calls
<1>3. v \in ResidentsOf(Live \ batch)
  BY <1>2, OthersAreVictims
<1>4. v \in Placed /\ IsResident(v[1], v[2]) /\ v[1] \notin batch
  BY <1>2, <1>3, VictimsAre DEF ResidentsOf
<1>5. {v} \in SUBSET Placed /\ \A x \in {v} : IsResident(x[1], x[2])
  BY <1>4
<1>6. /\ Pools'
      /\ \A s \in SeqIds : /\ Len(tables'[s]) = Len(tables[s])
                           /\ \A i \in DOMAIN tables[s] :
                                tables'[s][i] = IF <<s, i>> \in {v} THEN Hole ELSE tables[s][i]
  BY <1>1, <1>5, EvictPools DEF Inv
<1>7. \A s \in SeqIds : DOMAIN tables'[s] = DOMAIN tables[s]
  BY <1>6, TableFacts, LiveNext DEF Inv
<1>. QED BY <1>1, <1>4, <1>6, <1>7

LEMMA FitEvictForFetch == ASSUME Inv, Fit, EvictForFetch PROVE Fit'
<1>1. PICK v \in Placed :
         /\ v[1] \notin batch
         /\ \A s \in SeqIds :
               /\ DOMAIN tables'[s] = DOMAIN tables[s]
               /\ \A i \in DOMAIN tables[s] :
                     tables'[s][i] = IF <<s, i>> = v THEN Hole ELSE tables[s][i]
  BY EvictForFetchFacts
<1>2. /\ pc = "fetching" /\ pc' = pc /\ batch' = batch /\ pending' = pending
      /\ batch \subseteq SeqIds
  BY DEF EvictForFetch, call, Inv, Calls, Live
<1>4. ASSUME NEW s \in batch
      PROVE  DOMAIN tables'[s] = DOMAIN tables[s] /\ Holes(s)' = Holes(s)
  <2>1. s \in SeqIds /\ DOMAIN tables'[s] = DOMAIN tables[s]
    BY <1>1, <1>2
  <2>2. \A i \in DOMAIN tables[s] : tables'[s][i] = tables[s][i]
    BY <1>1, <2>1
  <2>. QED BY <2>1, <2>2 DEF Holes, Residents, IsResident
<1>5. HolesOf(batch)' = HolesOf(batch) /\ BlocksOf(batch)' = BlocksOf(batch)
  BY <1>2, <1>4 DEF HolesOf, BlocksOf
<1>. QED BY <1>2, <1>5 DEF Fit

LEMMA FitFetchBlocks == ASSUME Inv, Fit, FetchBlocks PROVE Fit'
<1>1. PICK claim \in Injection(pending, gpuFree) :
         /\ FetchesFrom(pending, claim) /\ pending \in SUBSET Placed
         /\ \A x \in pending : x[2] \in Holes(x[1])
  BY FetchFacts
<1>2. \A s \in SeqIds : /\ DOMAIN tables'[s] = DOMAIN tables[s]
                        /\ \A i \in DOMAIN tables[s] : <<s, i>> \in pending =>
                              tables'[s][i] # Hole
                        /\ \A i \in DOMAIN tables[s] : <<s, i>> \notin pending =>
                              tables'[s][i] = tables[s][i]
  BY <1>1, FetchPools DEF Inv
<1>3. /\ pending = HolesOf(batch) /\ batch \subseteq SeqIds
      /\ pc' = "ready" /\ batch' = batch
  BY DEF FetchBlocks, Goto, Fit, Inv, Calls, Live
<1>4. ASSUME NEW s \in batch PROVE Holes(s)' = {}
  <2>1. \A i \in DOMAIN tables[s] : tables[s][i] = Hole => <<s, i>> \in pending
    BY <1>3 DEF HolesOf, Holes, Residents, IsResident
  <2>2. \A i \in DOMAIN tables'[s] : tables'[s][i] # Hole
    BY <1>2, <1>3, <2>1
  <2>. QED BY <2>2 DEF Holes, Residents, IsResident
<1>. QED BY <1>3, <1>4 DEF Fit

\* While a forward pass runs nothing moves.
LEMMA FitForward ==
    ASSUME Inv, Fit, pc = "ready", UNCHANGED <<tables, call>>
    PROVE  Fit'
<1>1. \A s : Holes(s)' = Holes(s)
  BY DEF Holes, Residents, IsResident
<1>. QED BY <1>1 DEF Fit, call

LEMMA FitKeeps ==
    ASSUME LongContexts = FALSE, Inv, Fit, [Next]_vars
    PROVE  Fit'
<1>1. CASE AllocateBlock \/ AllocateBlockEvicting
  BY <1>1 DEF Fit, AllocateBlock, AllocateBlockEvicting, OneLess
<1>2. CASE AllocateBlockRaises \/ CapacityEnsured \/ FetchRaises \/ Leave \/ EvictColdBlocks
  BY <1>2 DEF Fit, AllocateBlockRaises, CapacityEnsured, FetchRaises, Leave, EvictColdBlocks,
              Return, Goto
<1>3. CASE EvictForFetch \/ FetchBlocks
  BY <1>3, FitEvictForFetch, FitFetchBlocks
<1>4. ASSUME NEW s \in SeqIds, NEW n \in 0..MaxLen,
             AllocateSequence(s, n) \/ TruncateSequence(s, n)
      PROVE  Fit'
  BY <1>4 DEF Fit, AllocateSequence, TruncateSequence, call
<1>5. ASSUME NEW s \in SeqIds, NEW n \in 1..GrowBy, EnsureSequenceCapacity(s, n) PROVE Fit'
  BY <1>5 DEF Fit, EnsureSequenceCapacity, Goto
<1>6. ASSUME NEW B \in SUBSET SeqIds, EnsureBlocksOnGpu(B) PROVE Fit'
  <2>. DEFINE missing == UNION {{s} \X Holes(s) : s \in B}
  <2>1. /\ pc' = (IF missing = {} THEN "ready" ELSE "fetching")
        /\ batch' = B /\ pending' = missing /\ UNCHANGED pools
        /\ Cardinality(BlocksOf(B)) <= Cardinality(GpuBlocks)
    BY <1>6 DEF EnsureBlocksOnGpu, Goto
  <2>2. missing = {} => \A s \in B : Holes(s) = {}
    <3>. SUFFICES ASSUME missing = {}, NEW s \in B PROVE Holes(s) = {}
      OBVIOUS
    <3>1. \A i \in Holes(s) : <<s, i>> \in missing
      OBVIOUS
    <3>. HIDE DEF missing
    <3>. QED BY <3>1
  <2>3. /\ \A s : Holes(s)' = Holes(s)
        /\ BlocksOf(batch)' = BlocksOf(B)
    BY <2>1 DEF pools, Holes, Residents, IsResident, BlocksOf
  <2>4. HolesOf(batch)' = missing
    BY <2>1, <2>3 DEF HolesOf
  <2>. HIDE DEF missing
  <2>. QED BY <2>1, <2>2, <2>3, <2>4 DEF Fit
<1>7. CASE DecodeStep \/ \E s \in SeqIds, n \in 1..MaxLen : Prefill(s, n)
  BY <1>7, FitForward DEF DecodeStep, Prefill
<1>8. CASE UNCHANGED vars
  <2>1. \A s : Holes(s)' = Holes(s)
    BY <1>8 DEF vars, pools, Holes, Residents, IsResident
  <2>2. /\ HolesOf(batch)' = HolesOf(batch) /\ BlocksOf(batch)' = BlocksOf(batch)
        /\ UNCHANGED <<pc, batch, pending>>
    BY <1>8, <2>1 DEF vars, pools, call, HolesOf, BlocksOf
  <2>. QED BY <2>1, <2>2 DEF Fit
<1>9. ASSUME NEW s \in SeqIds, NEW extra \in 0..(MaxLen - Len(saved)),
             DeserializeSequence(s, extra)
      PROVE  Fit'
  BY <1>9 DEF Fit, DeserializeSequence, call
<1>10. ASSUME NEW s \in SeqIds, FreeSequence(s) \/ SerializeSequence(s) PROVE Fit'
  BY <1>10 DEF Fit, FreeSequence, SerializeSequence, call
<1>. QED BY <1>1, <1>2, <1>3, <1>4, <1>5, <1>6, <1>7, <1>8, <1>9, <1>10 DEF Next, InCall

LEMMA AlwaysFit == ASSUME LongContexts = FALSE PROVE Spec => [](Inv /\ Fit)
<1>1. Init => Fit
  BY DEF Init, Fit
<1>2. Inv /\ Fit /\ [Next]_vars => Fit'
  BY FitKeeps
<1>. QED BY <1>1, <1>2, Always, PTL DEF Spec

\* ensure_blocks_on_gpu, for batches whose tables fit the GPU: when the forward
\* pass runs no block of its batch is behind a placeholder, whatever was paged,
\* evicted or refused before.
THEOREM ReadyBatchesAreResident ==
    ASSUME LongContexts = FALSE PROVE Spec => []ReadyMeansResident
<1>1. Fit => ReadyMeansResident
  BY DEF Fit, ReadyMeansResident
<1>. QED BY <1>1, AlwaysFit, PTL

\* The eviction loop of ensure_blocks_on_gpu gives up on such a batch only when no
\* CPU slot is left: otherwise another sequence has a block to move out.
THEOREM RefusesOnlyWhenFull ==
    ASSUME LongContexts = FALSE PROVE Spec => RefusedOnlyWhenFull
<1>1. Inv /\ Fit /\ [Next]_vars => [pc = "fetching" /\ pc' = "idle" => cpuFree = {}]_vars
  <2>. SUFFICES ASSUME Inv, Fit, Next, pc = "fetching", pc' = "idle" PROVE cpuFree = {}
    OBVIOUS
  <2>1. FetchRaises
    BY DEF Next, InCall, AllocateBlock, AllocateBlockEvicting, AllocateBlockRaises, CapacityEnsured,
           EvictForFetch, FetchBlocks, Goto, call, AllocateSequence, TruncateSequence,
           EnsureSequenceCapacity, FreeSequence, SerializeSequence, Prefill, DeserializeSequence,
           EnsureBlocksOnGpu, DecodeStep, EvictColdBlocks, Leave
  <2>2. ResidentsOf(Live \ batch) # {}
    BY <2>1, NoRoomMeansOthers DEF FetchRaises
  <2>. QED BY <2>1, <2>2, OthersAreVictims DEF FetchRaises
<1>. QED BY <1>1, AlwaysFit, PTL DEF Spec, RefusedOnlyWhenFull

-------------------------------------------------------------------------------
(* Calls that ask for at most one block: the cached block table of a batch is    *)
(* the tables of its sequences whenever a forward pass could read it.            *)

\* A cached row names the blocks of its sequence, but for those paged out since.
RowCurrent(s) ==
    /\ tableCache[s] \in Seq(Entry) /\ Len(tableCache[s]) = Len(tables[s])
    /\ \A i \in DOMAIN tables[s] : tables[s][i] \in {Hole, tableCache[s][i]}

Rows ==
    /\ pc = "growing" => \A x, y \in pending : x = y /\ x[2] \in Nat
    /\ \/ pc = "growing" /\ pending = {}
       \/ \A s \in DOMAIN tableCache : RowCurrent(s)

\* A call that grows by one token asks for at most one block.
LEMMA OneMissing ==
    ASSUME Inv, NEW s \in Live, NEW n \in 1..GrowBy, GrowBy <= 1
    PROVE  BlocksFor(seqLens[s] + n) <= Len(tables[s]) + 1
<1>1. s \in SeqIds
  BY DEF Live
<1>2. /\ Len(tables[s]) \in Nat \ {0} /\ BlockSize \in Nat \ {0} /\ n = 1
      /\ seqLens[s] \in Nat /\ seqLens[s] <= Len(tables[s]) * BlockSize
  BY <1>1, TableFacts, TieredAssumption DEF Inv, Data
<1>3. seqLens[s] + n <= (Len(tables[s]) + 1) * BlockSize
  <2>1. Len(tables[s]) * BlockSize \in Nat
    BY <1>2
  <2>2. (Len(tables[s]) + 1) * BlockSize = Len(tables[s]) * BlockSize + BlockSize
    BY <1>2
  <2>. QED BY <1>2, <2>1, <2>2
<1>4. seqLens[s] + n \in Nat /\ Len(tables[s]) + 1 \in Nat
  BY <1>2
<1>5. CeilDiv(seqLens[s] + n) \in Nat /\ CeilDiv(seqLens[s] + n) <= Len(tables[s]) + 1
  BY <1>3, <1>4, BlocksForFacts
<1>. QED BY <1>2, <1>5 DEF BlocksFor

\* Rows survives a step in which tables only lose blocks to the CPU pool or belong
\* to sequences without a cached row.
LEMMA RowsPaged ==
    ASSUME Inv, Rows, pc # "growing", pc' # "growing", Pools',
           tableCache' \in {tableCache, <<>>},
           \A s \in DOMAIN tableCache :
              /\ DOMAIN tables'[s] = DOMAIN tables[s] /\ Len(tables'[s]) = Len(tables[s])
              /\ \A i \in DOMAIN tables[s] : tables'[s][i] \in {Hole, tables[s][i]}
    PROVE  Rows'
<1>1. \A s \in DOMAIN tableCache : RowCurrent(s)
  BY DEF Rows
<1>2. ASSUME NEW s \in DOMAIN tableCache, tableCache' = tableCache PROVE RowCurrent(s)'
  <2>1. Entry' = Entry
    BY DEF Entry
  <2>. QED BY <1>1, <1>2, <2>1 DEF RowCurrent
<1>3. DOMAIN <<>> = {}
  OBVIOUS
<1>. QED BY <1>2, <1>3 DEF Rows

LEMMA RowsCleared ==
    ASSUME tableCache' = <<>>, pc' # "growing"
    PROVE  Rows'
<1>1. DOMAIN <<>> = {}
  OBVIOUS
<1>. QED BY <1>1 DEF Rows

\* The tables stay: what a forward pass caches is the tables of its batch.
LEMMA RowsSame ==
    ASSUME Inv, Rows, UNCHANGED tables, pc # "growing",
           tableCache' \in {tableCache, FetchTable},
           pc' = "growing" => \A x, y \in pending' : x = y /\ x[2] \in Nat
    PROVE  Rows'
<1>1. \A s \in DOMAIN tableCache : RowCurrent(s)
  BY DEF Rows
<1>2. Entry' = Entry
  BY DEF Entry
<1>3. \A s \in DOMAIN tableCache' : RowCurrent(s)'
  <2>1. CASE tableCache' = tableCache
    BY <1>1, <1>2, <2>1 DEF RowCurrent
  <2>2. CASE tableCache' # tableCache
    <3>1. tableCache' = [s \in batch |-> tables[s]]
      BY <2>2 DEF FetchTable
    <3>2. \A s \in batch : tables[s] \in Seq(Entry)
      BY TableFacts DEF Inv, Calls, Live
    <3>. QED BY <1>2, <3>1, <3>2 DEF RowCurrent
  <2>. QED BY <2>1, <2>2
<1>. QED BY <1>3 DEF Rows

LEMMA RowsGrow ==
    ASSUME Inv, Rows, AllocateBlock \/ AllocateBlockEvicting
    PROVE  Rows'
<1>1. pc = "growing" /\ pc' = pc /\ pending' = pending \ Oldest(pending)
  BY DEF AllocateBlock, AllocateBlockEvicting, OneLess
<1>2. \A x, y \in pending : x = y /\ x[2] \in Nat
  BY <1>1 DEF Rows
<1>3. Oldest(pending) = pending
  <2>1. \A x, y \in pending : x[2] <= y[2]
    BY <1>2
  <2>. QED BY <2>1 DEF Oldest
<1>4. pending' = {}
  BY <1>1, <1>3
<1>. QED BY <1>1, <1>4 DEF Rows

LEMMA RowsEvict ==
    ASSUME Inv, Rows, pc # "growing", pc' # "growing",
           NEW E \in SUBSET Placed, \A x \in E : IsResident(x[1], x[2]), Evict(E),
           tableCache' \in {tableCache, <<>>}
    PROVE  Rows'
<1>1. /\ Pools'
      /\ \A s \in SeqIds : /\ Len(tables'[s]) = Len(tables[s])
                           /\ \A i \in DOMAIN tables[s] :
                                 tables'[s][i] = IF <<s, i>> \in E THEN Hole ELSE tables[s][i]
  BY EvictPools DEF Inv
<1>2. \A s \in SeqIds : DOMAIN tables'[s] = DOMAIN tables[s]
  BY <1>1, TableFacts, LiveNext DEF Inv
<1>3. DOMAIN tableCache \subseteq SeqIds
  BY DEF Inv, Calls, Live
<1>4. \A s \in DOMAIN tableCache :
         /\ DOMAIN tables'[s] = DOMAIN tables[s] /\ Len(tables'[s]) = Len(tables[s])
         /\ \A i \in DOMAIN tables[s] : tables'[s][i] \in {Hole, tables[s][i]}
  BY <1>1, <1>2, <1>3
<1>. QED BY <1>1, <1>4, RowsPaged

LEMMA RowsAllocate ==
    ASSUME Inv, Rows, NEW s \in SeqIds, NEW n \in 0..MaxLen, AllocateSequence(s, n)
    PROVE  Rows'
<1>1. /\ pc = "idle" /\ pc' = "idle" /\ s \notin Live /\ tableCache' = tableCache
      /\ \E t : tables' = [tables EXCEPT ![s] = t]
  BY DEF AllocateSequence, call
<1>2. Pools'
  BY AllocateSequenceKeeps DEF Inv
<1>3. DOMAIN tableCache \subseteq SeqIds \ {s} /\ tables \in [SeqIds -> Seq(Entry)]
  BY <1>1 DEF Inv, Calls, Live, Pools
<1>4. \A x \in SeqIds \ {s} : tables'[x] = tables[x]
  BY <1>1, <1>3
<1>5. \A x \in DOMAIN tableCache :
         /\ DOMAIN tables'[x] = DOMAIN tables[x] /\ Len(tables'[x]) = Len(tables[x])
         /\ \A i \in DOMAIN tables[x] : tables'[x][i] \in {Hole, tables[x][i]}
  BY <1>3, <1>4
<1>. QED BY <1>1, <1>2, <1>5, RowsPaged

LEMMA RowsKeeps ==
    ASSUME LongContexts = FALSE, GrowBy <= 1, Inv, Fit, Rows, [Next]_vars
    PROVE  Rows'
<1>1. CASE AllocateBlock \/ AllocateBlockEvicting
  BY <1>1, RowsGrow
<1>2. CASE AllocateBlockRaises
  <2>1. /\ \A s \in DOMAIN tableCache : RowCurrent(s)
        /\ UNCHANGED <<tables, tableCache>> /\ pc' = "idle"
    BY <1>2 DEF AllocateBlockRaises, Rows, Return, Goto, pools
  <2>2. Entry' = Entry
    BY DEF Entry
  <2>. QED BY <2>1, <2>2 DEF Rows, RowCurrent
<1>3. CASE CapacityEnsured \/ FetchBlocks
  BY <1>3, RowsCleared DEF CapacityEnsured, FetchBlocks, Return, Goto
<1>4. CASE FetchRaises \/ Leave
  BY <1>4, RowsSame DEF FetchRaises, Leave, Return, Goto, pools
<1>5. CASE EvictForFetch
  <2>1. PICK v \in Placed : IsResident(v[1], v[2]) /\ Evict({v})
    BY <1>5, EvictForFetchFacts
  <2>2. {v} \in SUBSET Placed /\ \A x \in {v} : IsResident(x[1], x[2])
    BY <2>1
  <2>. QED BY <1>5, <2>1, <2>2, RowsEvict DEF EvictForFetch, call
<1>6. CASE EvictColdBlocks
  <2>. DEFINE cold == UNION {{s} \X (BehindWindow(s) \cap Residents(s)) : s \in batch}
  <2>1. PICK E \in SUBSET cold : Evict(E)
    BY <1>6 DEF EvictColdBlocks, kSubset
  <2>2. batch \subseteq SeqIds
    BY DEF Inv, Calls, Live
  <2>3. E \in SUBSET Placed /\ \A x \in E : IsResident(x[1], x[2])
    BY <2>2 DEF Residents, Placed, BlocksOf
  <2>4. tableCache' \in {tableCache, <<>>} /\ pc = "ready" /\ pc' = "idle"
    BY <1>6 DEF EvictColdBlocks, Return, Goto
  <2>. QED BY <2>1, <2>3, <2>4, RowsEvict
<1>7. ASSUME NEW s \in SeqIds, NEW n \in 0..MaxLen,
             AllocateSequence(s, n) \/ TruncateSequence(s, n)
      PROVE  Rows'
  BY <1>7, RowsAllocate, RowsCleared DEF TruncateSequence, call
<1>8. ASSUME NEW s \in SeqIds, FreeSequence(s) PROVE Rows'
  BY <1>8, RowsCleared DEF FreeSequence, call
<1>9. ASSUME NEW s \in SeqIds, NEW extra \in 0..(MaxLen - Len(saved)),
             DeserializeSequence(s, extra)
      PROVE  Rows'
  BY <1>9, RowsCleared DEF DeserializeSequence, call
<1>10. ASSUME NEW s \in SeqIds, SerializeSequence(s) PROVE Rows'
  BY <1>10, RowsSame DEF SerializeSequence, pools, call
<1>11. ASSUME NEW s \in SeqIds, NEW n \in 1..GrowBy, EnsureSequenceCapacity(s, n) PROVE Rows'
  <2>. DEFINE missing == (Len(tables[s])+1)..BlocksFor(seqLens[s] + n)
  <2>1. /\ s \in Live /\ pc = "idle" /\ pending' = {s} \X missing
        /\ UNCHANGED <<tables, tableCache>>
    BY <1>11 DEF EnsureSequenceCapacity, Goto, pools
  <2>2. /\ Len(tables[s]) \in Nat /\ seqLens[s] + n \in Nat
    BY TableFacts, TieredAssumption DEF Inv, Data
  <2>3. BlocksFor(seqLens[s] + n) \in Nat
    BY <2>2, BlocksForFacts
  <2>4. missing \subseteq {Len(tables[s]) + 1}
    BY <2>1, <2>2, <2>3, OneMissing
  <2>. HIDE DEF missing
  <2>5. \A x, y \in pending' : x = y /\ x[2] \in Nat
    <3>1. \A x \in pending' : x = <<s, x[2]>> /\ x[2] \in missing
      BY <2>1
    <3>2. \A i \in missing : i = Len(tables[s]) + 1 /\ i \in Nat
      BY <2>2, <2>4
    <3>. QED BY <3>1, <3>2
  <2>. QED BY <2>1, <2>5, RowsSame
<1>12. ASSUME NEW B \in SUBSET SeqIds, EnsureBlocksOnGpu(B) PROVE Rows'
  <2>1. /\ pc = "idle" /\ UNCHANGED <<tables, tableCache>> /\ pc' \in {"ready", "fetching"}
    BY <1>12 DEF EnsureBlocksOnGpu, Goto, pools
  <2>. QED BY <2>1, RowsSame
<1>13. CASE DecodeStep \/ \E s \in SeqIds, n \in 1..MaxLen : Prefill(s, n)
  <2>1. /\ pc = "ready" /\ UNCHANGED <<tables, pc, batch, pending>>
        /\ tableCache' \in {tableCache, FetchTable}
    BY <1>13 DEF DecodeStep, Prefill, call
  <2>. QED BY <2>1, RowsSame
<1>14. CASE UNCHANGED vars
  <2>1. UNCHANGED <<tables, tableCache, pc, batch, pending>> /\ Entry' = Entry
    BY <1>14 DEF vars, pools, call, Entry
  <2>. QED BY <2>1 DEF Rows, RowCurrent
<1>. QED
  BY <1>1, <1>2, <1>3, <1>4, <1>5, <1>6, <1>7, <1>8, <1>9, <1>10, <1>11, <1>12, <1>13, <1>14
  DEF Next, InCall

\* "Rebuild cached block tables on the next decode after changing capacity":
\* for batches that fit and calls that grow a table by one block, the row a forward
\* pass reads from the cache is the table of its sequence, although the tiered
\* allocate_block and the evictions change tables without dropping the cache.
THEOREM CachedRowsFresh ==
    ASSUME LongContexts = FALSE, GrowBy <= 1 PROVE Spec => []RowsFresh
<1>1. Init => Fit /\ Rows
  <2>1. DOMAIN <<>> = {}
    OBVIOUS
  <2>. QED BY <2>1 DEF Init, Fit, Rows
<1>2. Inv /\ Fit /\ Rows /\ [Next]_vars => (Fit /\ Rows)'
  BY FitKeeps, RowsKeeps
<1>3. Inv /\ Fit /\ Rows => RowsFresh
  <2>. SUFFICES ASSUME Inv, Fit, Rows, pc = "ready", DOMAIN tableCache = batch, NEW s \in batch
                PROVE  tableCache[s] = tables[s]
    BY DEF RowsFresh
  <2>1. /\ tableCache[s] \in Seq(Entry) /\ Len(tableCache[s]) = Len(tables[s])
        /\ \A i \in DOMAIN tables[s] : tables[s][i] \in {Hole, tableCache[s][i]}
    BY DEF Rows, RowCurrent
  <2>2. tables[s] \in Seq(Entry) /\ DOMAIN tables[s] = 1..Len(tables[s])
    BY TableFacts DEF Inv, Calls, Live
  <2>3. \A i \in DOMAIN tables[s] : tables[s][i] # Hole
    BY DEF Fit, Holes, Residents, IsResident
  <2>4. \A i \in 1..Len(tables[s]) : tableCache[s][i] = tables[s][i]
    BY <2>1, <2>2, <2>3
  <2>. QED BY <2>1, <2>2, <2>4
<1>. QED BY <1>1, <1>2, <1>3, Always, PTL DEF Spec

-------------------------------------------------------------------------------
(* What a sequence reads. *)

Store == [s \in SeqIds |-> Reading(s)]
Offsets == 0..(BlockSize-1)

\* The slot, of either pool, of position p of s.
SlotOf(s, p) == <<Home(s, (p \div BlockSize) + 1), p % BlockSize>>

\* The step keeps the entries of the logical blocks of K, wherever they go.
EntriesKept(K) ==
    \A x \in K : \A o \in Offsets : kv'[<<HomeOf(x)', o>>] = kv[<<HomeOf(x), o>>]

\* A position inside a table is in one of its blocks.
LEMMA PositionPlace ==
    ASSUME Pools, NEW s \in SeqIds, NEW p \in Nat, p < Len(tables[s]) * BlockSize
    PROVE  /\ (p \div BlockSize) + 1 \in DOMAIN tables[s] /\ p % BlockSize \in Offsets
           /\ <<s, (p \div BlockSize) + 1>> \in Placed
           /\ SlotOf(s, p) = <<HomeOf(<<s, (p \div BlockSize) + 1>>), p % BlockSize>>
           /\ SlotOf(s, p)[1] = HomeOf(<<s, (p \div BlockSize) + 1>>)
           /\ SlotOf(s, p)[2] = p % BlockSize
           /\ SlotOf(s, p) \in Slots
           /\ SlotOf(s, p)[1] \in Pool \ Free
<1>1. /\ Len(tables[s]) \in Nat /\ DOMAIN tables[s] = 1..Len(tables[s])
      /\ BlockSize \in Nat \ {0}
  BY TableFacts, TieredAssumption
<1>2. PICK n \in Nat : n = Len(tables[s]) * BlockSize
  BY <1>1
<1>3. p + 1 \in 1..n /\ n <= Len(tables[s]) * BlockSize /\ (p + 1) - 1 = p
  BY <1>2
<1>4. /\ (((p + 1) - 1) \div BlockSize) + 1 \in 1..Len(tables[s])
      /\ ((p + 1) - 1) % BlockSize \in 0..(BlockSize-1)
  BY <1>1, <1>3, PositionFacts
<1>5. (p \div BlockSize) + 1 \in DOMAIN tables[s] /\ p % BlockSize \in Offsets
  BY <1>1, <1>3, <1>4 DEF Offsets
<1>6. PICK i \in DOMAIN tables[s] : i = (p \div BlockSize) + 1
  BY <1>5
<1>7. /\ <<s, i>> \in Placed /\ HomeOf(<<s, i>>) = Home(s, i)
      /\ Home(s, i) \in Pool \ Free
  BY PlacedIs, HomeFacts
<1>. QED BY <1>5, <1>6, <1>7 DEF SlotOf, Slots, Pool, Offsets

\* Different positions, of one sequence or of two, are in different slots.
LEMMA SlotsApart ==
    ASSUME Pools, NEW s \in SeqIds, NEW u \in SeqIds, NEW p \in Nat, NEW q \in Nat,
           p < Len(tables[s]) * BlockSize, q < Len(tables[u]) * BlockSize,
           SlotOf(s, p) = SlotOf(u, q)
    PROVE  s = u /\ p = q
<1>1. PICK i, j : /\ i = (p \div BlockSize) + 1 /\ j = (q \div BlockSize) + 1
                  /\ <<s, i>> \in Placed /\ <<u, j>> \in Placed
                  /\ SlotOf(s, p)[1] = HomeOf(<<s, i>>) /\ SlotOf(s, p)[2] = p % BlockSize
                  /\ SlotOf(u, q)[1] = HomeOf(<<u, j>>) /\ SlotOf(u, q)[2] = q % BlockSize
  BY PositionPlace
<1>2. HomeOf(<<s, i>>) = HomeOf(<<u, j>>) /\ p % BlockSize = q % BlockSize
  BY <1>1
<1>3. <<s, i>> = <<u, j>>
  BY <1>1, <1>2 DEF Pools
<1>4. s = u /\ (p \div BlockSize) + 1 = (q \div BlockSize) + 1
  BY <1>1, <1>3
<1>5. /\ p \div BlockSize \in Nat /\ q \div BlockSize \in Nat
      /\ p = BlockSize * (p \div BlockSize) + (p % BlockSize)
      /\ q = BlockSize * (q \div BlockSize) + (q % BlockSize)
  BY TieredAssumption
<1>6. p \div BlockSize = q \div BlockSize
  BY <1>4, <1>5
<1>. QED BY <1>2, <1>4, <1>5, <1>6

LEMMA ReadFacts ==
    ASSUME Inv, NEW s \in SeqIds
    PROVE  /\ seqLens[s] \in Nat
           /\ \A p \in 0..(seqLens[s]-1) : p \in Nat /\ p < Len(tables[s]) * BlockSize
           /\ Reading(s) \in Seq(Author) /\ Len(Reading(s)) = seqLens[s]
           /\ \A p \in 0..(seqLens[s]-1) : Reading(s)[p + 1] = kv[SlotOf(s, p)]
<1>1. /\ seqLens[s] \in Nat /\ seqLens[s] <= Len(tables[s]) * BlockSize
      /\ Len(tables[s]) * BlockSize \in Nat
  BY TableFacts, TieredAssumption DEF Inv, Data
<1>2. ASSUME NEW p \in 0..(seqLens[s]-1) PROVE p \in Nat /\ p < Len(tables[s]) * BlockSize
  <2>1. PICK n \in Nat : n = Len(tables[s]) * BlockSize
    BY <1>1
  <2>. QED BY <1>1, <2>1
<1>3. Reading(s) = [i \in 1..seqLens[s] |-> kv[SlotOf(s, i - 1)]]
  BY DEF Reading, SlotOf
<1>4. ASSUME NEW i \in 1..seqLens[s] PROVE kv[SlotOf(s, i - 1)] \in Author
  <2>1. i - 1 \in Nat /\ i - 1 < Len(tables[s]) * BlockSize
    <3>1. i - 1 \in 0..(seqLens[s]-1)
      BY <1>1
    <3>. QED BY <1>2, <3>1
  <2>2. SlotOf(s, i - 1) \in Slots
    BY <2>1, PositionPlace DEF Inv
  <2>. QED BY <2>2 DEF Inv, Data
<1>. HIDE DEF Author
<1>5. Reading(s) \in Seq(Author) /\ Len(Reading(s)) = seqLens[s]
  BY <1>1, <1>3, <1>4
<1>6. \A p \in 0..(seqLens[s]-1) : Reading(s)[p + 1] = kv[SlotOf(s, p)]
  <2>. SUFFICES ASSUME NEW p \in 0..(seqLens[s]-1) PROVE Reading(s)[p + 1] = kv[SlotOf(s, p)]
    OBVIOUS
  <2>1. p + 1 \in 1..seqLens[s] /\ (p + 1) - 1 = p
    BY <1>1
  <2>. QED BY <1>3, <2>1
<1>. QED BY <1>1, <1>2, <1>5, <1>6

\* A sequence that is not live reads nothing.
LEMMA DeadReads ==
    ASSUME Inv, NEW s \in SeqIds, s \notin Live
    PROVE  seqLens[s] = 0 /\ Reading(s) = <<>>
<1>1. /\ seqLens[s] \in Nat /\ seqLens[s] <= Len(tables[s]) * BlockSize
      /\ Len(tables[s]) = 0 /\ BlockSize \in Nat
  BY TableFacts, TieredAssumption DEF Inv, Data
<1>2. seqLens[s] = 0
  BY <1>1
<1>. QED BY <1>2 DEF Reading

\* What was read at a position is read there again when its block is kept.
LEMMA PositionKept ==
    ASSUME Inv, NEW s \in SeqIds, NEW p \in 0..(seqLens[s]-1), NEW K, EntriesKept(K),
           <<s, (p \div BlockSize) + 1>> \in K
    PROVE  kv'[SlotOf(s, p)'] = kv[SlotOf(s, p)]
<1>1. p \in Nat /\ p < Len(tables[s]) * BlockSize
  BY ReadFacts
<1>2. /\ SlotOf(s, p) = <<HomeOf(<<s, (p \div BlockSize) + 1>>), p % BlockSize>>
      /\ p % BlockSize \in Offsets
  BY <1>1, PositionPlace DEF Inv
<1>3. SlotOf(s, p)' = <<HomeOf(<<s, (p \div BlockSize) + 1>>)', p % BlockSize>>
  BY DEF SlotOf, HomeOf
<1>. QED BY <1>2, <1>3 DEF EntriesKept

\* The reading after a step, position by position.
LEMMA ReadingNext ==
    ASSUME NEW s \in SeqIds, NEW n \in Nat, seqLens'[s] = n
    PROVE  Reading(s)' = [i \in 1..n |-> kv'[SlotOf(s, i - 1)']]
BY DEF Reading, SlotOf

\* A sequence cut back to n tokens, or to as many as it has, reads the prefix.
LEMMA PrefixRead ==
    ASSUME Inv, NEW s \in SeqIds, NEW n \in 0..seqLens[s], seqLens'[s] = n,
           NEW K, EntriesKept(K), \A p \in 0..(n-1) : <<s, (p \div BlockSize) + 1>> \in K
    PROVE  Reading(s)' = SubSeq(Reading(s), 1, n)
<1>1. /\ seqLens[s] \in Nat /\ Reading(s) \in Seq(Author) /\ Len(Reading(s)) = seqLens[s]
      /\ \A p \in 0..(seqLens[s]-1) : Reading(s)[p + 1] = kv[SlotOf(s, p)]
  BY ReadFacts
<1>2. n \in Nat /\ n <= seqLens[s]
  BY <1>1
<1>3. ASSUME NEW i \in 1..n PROVE kv'[SlotOf(s, i - 1)'] = Reading(s)[i]
  <2>1. PICK p \in 0..(seqLens[s]-1) : p = i - 1 /\ p \in 0..(n-1) /\ p + 1 = i
    BY <1>1, <1>2
  <2>2. kv'[SlotOf(s, p)'] = kv[SlotOf(s, p)]
    BY <2>1, PositionKept
  <2>3. SlotOf(s, i - 1)' = SlotOf(s, p)'
    BY <2>1 DEF SlotOf
  <2>. QED BY <1>1, <2>1, <2>2, <2>3
<1>4. Reading(s)' = [i \in 1..n |-> kv'[SlotOf(s, i - 1)']]
  BY <1>2, ReadingNext
<1>5. SubSeq(Reading(s), 1, n) = [i \in 1..n |-> Reading(s)[i]]
  BY <1>1, <1>2
<1>. QED BY <1>3, <1>4, <1>5

LEMMA SameRead ==
    ASSUME Inv, NEW s \in SeqIds, seqLens'[s] = seqLens[s],
           NEW K, EntriesKept(K), \A i \in DOMAIN tables[s] : <<s, i>> \in K
    PROVE  Reading(s)' = Reading(s)
<1>1. PICK n \in Nat : n = seqLens[s]
  BY ReadFacts
<1>2. \A p \in 0..(n-1) : <<s, (p \div BlockSize) + 1>> \in K
  BY <1>1, ReadFacts, PositionPlace DEF Inv
<1>3. Reading(s)' = SubSeq(Reading(s), 1, n)
  <2>1. n \in 0..seqLens[s] /\ seqLens'[s] = n
    BY <1>1
  <2>. QED BY <1>2, <2>1, PrefixRead
<1>4. Reading(s) \in Seq(Author) /\ Len(Reading(s)) = n
  BY <1>1, ReadFacts
<1>. QED BY <1>3, <1>4

-------------------------------------------------------------------------------
(* Paging is invisible: the entries go where the blocks go. *)

LEMMA MovedContent ==
    ASSUME Pools, NEW M \in SUBSET Placed, NEW to, Moves(M, to)
    PROVE  EntriesKept(Placed)
<1>. DEFINE moves == {<<HomeOf(x), to[x]>> : x \in M}
            freed == {HomeOf(x) : x \in M}
<1>1. /\ to \in [M -> Free] /\ \A x, y \in M : to[x] = to[y] => x = y
      /\ \A x \in Placed : HomeOf(x)' = IF x \in M THEN to[x] ELSE HomeOf(x)
      /\ kv' = MovedEntries(moves, freed)
  BY DEF Moves
<1>2. /\ \A x, y \in Placed : HomeOf(x) = HomeOf(y) => x = y
      /\ Free \subseteq Pool
      /\ \A x \in Placed : HomeOf(x) \in Pool \ Free
  BY PlacedIs, HomeFacts DEF Pools
<1>. SUFFICES ASSUME NEW x \in Placed, NEW o \in Offsets
              PROVE  kv'[<<HomeOf(x)', o>>] = kv[<<HomeOf(x), o>>]
  BY DEF EntriesKept
<1>3. CASE x \in M
  <2>1. <<HomeOf(x), to[x]>> \in moves
    BY <1>3
  <2>2. \A mv \in moves : mv[2] = to[x] => mv = <<HomeOf(x), to[x]>>
    BY <1>1, <1>3
  <2>3. <<to[x], o>> \in Slots
    BY <1>1, <1>2, <1>3 DEF Slots, Pool, Offsets
  <2>. HIDE DEF moves, freed
  <2>4. \E m \in moves : m[2] = to[x]
    BY <2>1
  <2>. DEFINE mv == CHOOSE m \in moves : m[2] = to[x]
  <2>5. mv \in moves /\ mv[2] = to[x]
    BY <2>4
  <2>6. mv[1] = HomeOf(x)
    <3>. HIDE DEF mv
    <3>. QED BY <2>2, <2>5
  <2>7. kv'[<<to[x], o>>] = kv[<<mv[1], o>>]
    BY <1>1, <2>3, <2>4 DEF MovedEntries
  <2>. QED BY <1>1, <1>3, <2>6, <2>7
<1>4. CASE x \notin M
  <2>1. \A m \in moves : m[2] # HomeOf(x)
    BY <1>1, <1>2
  <2>2. HomeOf(x) \notin freed
    BY <1>2, <1>4
  <2>3. <<HomeOf(x), o>> \in Slots
    BY <1>2 DEF Slots, Pool, Offsets
  <2>. HIDE DEF moves, freed
  <2>4. kv'[<<HomeOf(x), o>>] = kv[<<HomeOf(x), o>>]
    BY <1>1, <2>1, <2>2, <2>3 DEF MovedEntries
  <2>. QED BY <1>1, <1>4, <2>4
<1>. QED BY <1>3, <1>4

LEMMA HomesKept ==
    ASSUME NEW K, \A x \in K : HomeOf(x)' = HomeOf(x), kv' = kv
    PROVE  EntriesKept(K)
BY DEF EntriesKept

\* A step that only moves blocks, or adds some at the end of a table.
LEMMA PagingStutters ==
    ASSUME Inv, Live' = Live, EntriesKept(Placed), UNCHANGED <<seqLens, saved>>
    PROVE  UNCHANGED Private!vars
<1>1. ASSUME NEW s \in SeqIds PROVE Reading(s)' = Reading(s)
  <2>1. \A i \in DOMAIN tables[s] : <<s, i>> \in Placed
    BY PlacedIs
  <2>. QED BY <2>1, SameRead
<1>2. Store' = Store
  BY <1>1 DEF Store
<1>. QED BY <1>2 DEF Private!vars, Store

\* The steps that change neither the pools nor the data.
LEMMA EntriesStutter ==
    ASSUME UNCHANGED <<tables, cpuMap, kv, seqLens, saved>>
    PROVE  UNCHANGED Private!vars
BY DEF Private!vars, Live, Reading, Home, IsResident

LEMMA QuietStutters ==
    ASSUME UNCHANGED <<pools, seqLens, saved>>
    PROVE  UNCHANGED Private!vars
BY EntriesStutter DEF pools

\* Tables that do not shrink, and no new one: the same sequences live.
LEMMA SameLive ==
    ASSUME Inv, Pools', \A s \in SeqIds : Len(tables[s]) # 0 <=> Len(tables'[s]) # 0
    PROVE  Live' = Live
<1>1. \A s \in SeqIds : s \in Live' <=> s \in Live
  BY TableFacts, LiveNext DEF Inv
<1>. QED BY <1>1 DEF Live

LEMMA GrowStutters == ASSUME Inv, Inv', AllocateBlock PROVE UNCHANGED Private!vars
<1>1. PICK b \in gpuFree : tables' = Appended(tables, b) /\ gpuFree' = gpuFree \ {b}
  BY DEF AllocateBlock
<1>2. PICK s \in SeqIds : batch = {s}
  BY DEF AllocateBlock, Inv, Calls
<1>3. UNCHANGED <<cpuFree, cpuMap, kv, seqLens, saved>>
  BY DEF AllocateBlock
<1>4. /\ Len(tables'[s]) = Len(tables[s]) + 1 /\ \A t \in SeqIds \ {s} : tables'[t] = tables[t]
      /\ \A x \in Placed : HomeOf(x)' = HomeOf(x)
  BY <1>1, <1>2, <1>3, GrowPools DEF Inv
<1>5. s \in Live /\ Len(tables[s]) \in Nat \ {0}
  BY <1>2, TableFacts DEF Inv, Calls
<1>6. Live' = Live
  BY <1>4, <1>5, SameLive DEF Inv
<1>. QED BY <1>3, <1>4, <1>6, HomesKept, PagingStutters

LEMMA GrowEvictingStutters ==
    ASSUME Inv, Inv', AllocateBlockEvicting PROVE UNCHANGED Private!vars
<1>1. PICK s \in SeqIds, v \in Victims(batch), c \in cpuFree :
         /\ batch = {s} /\ v \in Placed /\ IsResident(v[1], v[2]) /\ TakesFrom(v, c)
  BY EvictingFacts
<1>2. /\ Len(tables'[s]) = Len(tables[s]) + 1
      /\ \A t \in SeqIds \ {s} : Len(tables'[t]) = Len(tables[t])
      /\ \E to : Moves({v}, to)
  BY <1>1, GrowEvictingPools DEF Inv
<1>3. s \in Live /\ Len(tables[s]) \in Nat \ {0}
  BY <1>1, TableFacts DEF Inv, Calls
<1>4. Live' = Live
  BY <1>2, <1>3, SameLive DEF Inv
<1>5. EntriesKept(Placed)
  <2>1. {v} \in SUBSET Placed
    BY <1>1
  <2>. QED BY <1>2, <2>1, MovedContent DEF Inv
<1>6. UNCHANGED <<seqLens, saved>>
  BY DEF AllocateBlockEvicting
<1>. QED BY <1>4, <1>5, <1>6, PagingStutters

LEMMA EvictStutters ==
    ASSUME Inv, Inv', NEW E \in SUBSET Placed, \A x \in E : IsResident(x[1], x[2]), Evict(E),
           UNCHANGED <<seqLens, saved>>
    PROVE  UNCHANGED Private!vars
<1>1. (\A s \in SeqIds : Len(tables'[s]) = Len(tables[s])) /\ \E to : Moves(E, to)
  BY EvictPools DEF Inv
<1>2. Live' = Live
  BY <1>1, SameLive DEF Inv
<1>3. EntriesKept(Placed)
  BY <1>1, MovedContent DEF Inv
<1>. QED BY <1>2, <1>3, PagingStutters

LEMMA EvictForFetchStutters == ASSUME Inv, Inv', EvictForFetch PROVE UNCHANGED Private!vars
<1>1. PICK v \in Victims(batch) : Evict({v})
  BY DEF EvictForFetch
<1>2. batch \in SUBSET Live /\ UNCHANGED <<seqLens, saved>>
  BY DEF Inv, Calls, EvictForFetch
<1>3. {v} \in SUBSET Placed /\ \A x \in {v} : IsResident(x[1], x[2])
  BY <1>2, VictimsAre
<1>. QED BY <1>1, <1>2, <1>3, EvictStutters

LEMMA EvictColdStutters == ASSUME Inv, Inv', EvictColdBlocks PROVE UNCHANGED Private!vars
<1>. DEFINE cold == UNION {{s} \X (BehindWindow(s) \cap Residents(s)) : s \in batch}
<1>1. PICK E \in SUBSET cold : Evict(E)
  BY DEF EvictColdBlocks, kSubset
<1>2. batch \subseteq SeqIds /\ UNCHANGED <<seqLens, saved>>
  BY DEF Inv, Calls, Live, EvictColdBlocks
<1>3. E \in SUBSET Placed /\ \A x \in E : IsResident(x[1], x[2])
  BY <1>2 DEF Residents, Placed, BlocksOf
<1>. QED BY <1>1, <1>2, <1>3, EvictStutters

LEMMA FetchStutters == ASSUME Inv, Inv', FetchBlocks PROVE UNCHANGED Private!vars
<1>1. PICK claim \in Injection(pending, gpuFree) :
         /\ FetchesFrom(pending, claim) /\ pending \in SUBSET Placed
         /\ \A x \in pending : x[2] \in Holes(x[1])
  BY FetchFacts
<1>2. (\A s \in SeqIds : Len(tables'[s]) = Len(tables[s])) /\ \E to : Moves(pending, to)
  BY <1>1, FetchPools DEF Inv
<1>3. Live' = Live
  BY <1>2, SameLive DEF Inv
<1>4. EntriesKept(Placed)
  BY <1>1, <1>2, MovedContent DEF Inv
<1>5. UNCHANGED <<seqLens, saved>>
  BY DEF FetchBlocks
<1>. QED BY <1>3, <1>4, <1>5, PagingStutters

-------------------------------------------------------------------------------
(* The life of a sequence. *)

LEMMA AllocateCreates ==
    ASSUME Inv, Inv', NEW s \in SeqIds, NEW n \in 0..MaxLen, AllocateSequence(s, n)
    PROVE  Private!Create(s)
<1>1. PICK total \in Nat \ {0} : total = BlocksFor(n)
  BY BlocksForFacts, TieredAssumption
<1>2. PICK onGpu \in 0..total :
         onGpu = IF total <= Cardinality(gpuFree) THEN total ELSE Cardinality(gpuFree)
  BY OnGpuType
<1>3. PICK g \in Injection(1..onGpu, gpuFree), c \in Injection((onGpu+1)..total, cpuFree) :
         /\ tables' = [tables EXCEPT ![s] =
                         [i \in 1..total |-> IF i <= onGpu THEN g[i] ELSE Hole]]
         /\ cpuMap' = [cpuMap EXCEPT ![s] = c]
         /\ gpuFree' = gpuFree \ Range(g) /\ cpuFree' = cpuFree \ Range(c)
  BY <1>1, <1>2 DEF AllocateSequence
<1>4. s \notin Live /\ UNCHANGED <<seqLens, kv, saved>>
  BY DEF AllocateSequence
<1>5. /\ tables[s] = <<>> /\ Len(tables'[s]) = total
      /\ \A t \in SeqIds \ {s} : tables'[t] = tables[t]
      /\ \A x \in Placed : HomeOf(x)' = HomeOf(x)
  BY <1>3, <1>4, AllocPools DEF Inv
<1>6. Live' = Live \cup {s}
  <2>1. s \in Live'
    BY <1>5, LiveNext DEF Inv
  <2>. QED BY <1>5, <2>1 DEF Live
<1>7. ASSUME NEW t \in SeqIds PROVE Reading(t)' = Reading(t)
  <2>1. \A i \in DOMAIN tables[t] : <<t, i>> \in Placed
    BY PlacedIs
  <2>. QED BY <1>4, <1>5, <2>1, HomesKept, SameRead
<1>8. Store' = Store
  BY <1>7 DEF Store
<1>. QED BY <1>4, <1>6, <1>8 DEF Private!Create, Store

\* Blocks that s gives back hold nothing of what is left.
LEMMA ReleaseKept ==
    ASSUME Inv, NEW s \in SeqIds, NEW first \in Nat \ {0},
           first - 1 <= Len(tables[s]), Release(s, first)
    PROVE  EntriesKept(Placed')
<1>. DEFINE gone == {i \in DOMAIN tables[s] : i >= first}
            blocks == {Home(s, i) : i \in gone}
<1>1. \A x \in Placed' : /\ x \in Placed /\ HomeOf(x)' = HomeOf(x)
                         /\ x[1] = s => x[2] < first
  BY ReleasePools DEF Inv
<1>2. kv' = MovedEntries({}, blocks)
  BY DEF Release
<1>. SUFFICES ASSUME NEW x \in Placed', NEW o \in Offsets
              PROVE  kv'[<<HomeOf(x)', o>>] = kv[<<HomeOf(x), o>>]
  BY DEF EntriesKept
<1>3. x \in Placed /\ HomeOf(x)' = HomeOf(x) /\ (x[1] = s => x[2] < first)
  BY <1>1
<1>4. HomeOf(x) \in Pool
  BY <1>3, PlacedIs, HomeFacts DEF Inv
<1>5. HomeOf(x) \notin blocks
  <2>. SUFFICES ASSUME NEW i \in gone, HomeOf(x) = Home(s, i) PROVE FALSE
    OBVIOUS
  <2>1. <<s, i>> \in Placed /\ HomeOf(<<s, i>>) = HomeOf(x)
    BY PlacedIs
  <2>2. x = <<s, i>>
    BY <1>3, <2>1 DEF Inv, Pools
  <2>3. i < first /\ i \in Nat
    BY <1>3, <2>2, TableFacts DEF Inv
  <2>. QED BY <2>3
<1>6. <<HomeOf(x), o>> \in Slots
  BY <1>4 DEF Slots, Pool, Offsets
<1>. HIDE DEF blocks
<1>7. kv'[<<HomeOf(x), o>>] = kv[<<HomeOf(x), o>>]
  BY <1>2, <1>5, <1>6 DEF MovedEntries
<1>. QED BY <1>3, <1>7

\* What the other sequences read when s gives blocks back.
LEMMA ReleaseOthers ==
    ASSUME Inv, NEW s \in SeqIds, NEW first \in Nat \ {0},
           first - 1 <= Len(tables[s]), Release(s, first),
           NEW t \in SeqIds \ {s}, seqLens'[t] = seqLens[t]
    PROVE  tables'[t] = tables[t] /\ Reading(t)' = Reading(t)
<1>1. \A u \in SeqIds \ {s} : tables'[u] = tables[u]
  BY ReleasePools DEF Inv
<1>2. EntriesKept(Placed')
  BY ReleaseKept
<1>3. \A i \in DOMAIN tables[t] : <<t, i>> \in Placed'
  BY <1>1 DEF Placed, BlocksOf
<1>. QED BY <1>1, <1>2, <1>3, SameRead

LEMMA FreeDrops ==
    ASSUME Inv, Inv', NEW s \in SeqIds, FreeSequence(s)
    PROVE  Private!Drop(s)
<1>1. PICK first \in Nat \ {0} : first = 1
  OBVIOUS
<1>2. /\ s \in Live /\ Release(s, first) /\ seqLens' = [seqLens EXCEPT ![s] = 0]
      /\ UNCHANGED saved
  BY <1>1 DEF FreeSequence
<1>3. first - 1 = 0 /\ Len(tables[s]) \in Nat
  BY <1>1, TableFacts DEF Inv
<1>4. seqLens'[s] = 0 /\ \A t \in SeqIds \ {s} : seqLens'[t] = seqLens[t]
  BY <1>2 DEF Inv, Data
<1>5. Len(tables'[s]) = 0
  <2>1. Len(tables'[s]) = first - 1
    BY <1>2, <1>3, ReleasePools DEF Inv
  <2>. QED BY <1>3, <2>1
<1>6. \A t \in SeqIds \ {s} : tables'[t] = tables[t] /\ Reading(t)' = Reading(t)
  BY <1>2, <1>3, <1>4, ReleaseOthers
<1>7. Live' = Live \ {s}
  <2>1. s \notin Live'
    BY <1>5, LiveNext DEF Inv
  <2>. QED BY <1>6, <2>1 DEF Live
<1>8. Reading(s)' = <<>>
  BY <1>4 DEF Reading
<1>9. Store' = [Store EXCEPT ![s] = <<>>]
  BY <1>6, <1>8 DEF Store
<1>. QED BY <1>2, <1>7, <1>9 DEF Private!Drop, Store

LEMMA TruncateCuts ==
    ASSUME Inv, Inv', NEW s \in SeqIds, NEW n \in 0..MaxLen, TruncateSequence(s, n)
    PROVE  Private!Cut(s, n)
<1>1. /\ s \in Live /\ n < seqLens[s] /\ Release(s, BlocksFor(n) + 1)
      /\ seqLens' = [seqLens EXCEPT ![s] = n] /\ UNCHANGED saved
  BY DEF TruncateSequence
<1>2. /\ Len(tables[s]) \in Nat \ {0} /\ BlockSize \in Nat /\ MaxLen \in Nat
      /\ n \in Nat /\ seqLens[s] \in Nat /\ seqLens[s] <= Len(tables[s]) * BlockSize
  BY <1>1, TableFacts, TieredAssumption DEF Inv, Data
<1>3. n <= Len(tables[s]) * BlockSize
  <2>1. PICK m \in Nat : m = Len(tables[s]) * BlockSize
    BY <1>2
  <2>. QED BY <1>1, <1>2, <2>1
<1>4. PICK keep \in Nat \ {0} :
         keep = BlocksFor(n) /\ n <= keep * BlockSize /\ keep <= Len(tables[s])
  <2>1. /\ CeilDiv(n) \in Nat /\ CeilDiv(n) <= Len(tables[s])
        /\ BlocksFor(n) \in Nat \ {0} /\ n <= BlocksFor(n) * BlockSize
    BY <1>2, <1>3, BlocksForFacts
  <2>. QED BY <1>2, <2>1 DEF BlocksFor
<1>5. PICK first \in Nat \ {0} :
         first = keep + 1 /\ first - 1 = keep /\ first - 1 <= Len(tables[s]) /\ Release(s, first)
  BY <1>1, <1>4
<1>6. seqLens'[s] = n /\ \A t \in SeqIds \ {s} : seqLens'[t] = seqLens[t]
  BY <1>1 DEF Inv, Data
<1>7. Len(tables'[s]) = keep
  BY <1>5, ReleasePools DEF Inv
<1>8. \A t \in SeqIds \ {s} : tables'[t] = tables[t] /\ Reading(t)' = Reading(t)
  BY <1>5, <1>6, ReleaseOthers
<1>9. Live' = Live
  <2>1. \A t \in SeqIds : Len(tables[t]) # 0 <=> Len(tables'[t]) # 0
    BY <1>2, <1>7, <1>8
  <2>. QED BY <2>1, SameLive DEF Inv
<1>10. Reading(s)' = SubSeq(Reading(s), 1, n)
  <2>1. EntriesKept(Placed')
    BY <1>5, ReleaseKept
  <2>2. ASSUME NEW p \in 0..(n-1) PROVE <<s, (p \div BlockSize) + 1>> \in Placed'
    <3>1. p + 1 \in 1..n /\ (p + 1) - 1 = p
      BY <1>2
    <3>2. (((p + 1) - 1) \div BlockSize) + 1 \in 1..keep
      BY <1>2, <1>4, <3>1, PositionFacts
    <3>3. DOMAIN tables'[s] = 1..keep
      BY <1>7, LiveNext DEF Inv
    <3>4. \A i \in DOMAIN tables'[s] : <<s, i>> \in Placed'
      BY DEF Placed, BlocksOf
    <3>. QED BY <3>1, <3>2, <3>3, <3>4
  <2>3. n \in 0..seqLens[s]
    BY <1>1, <1>2
  <2>. QED BY <1>6, <2>1, <2>2, <2>3, PrefixRead
<1>11. Store' = [Store EXCEPT ![s] = SubSeq(Store[s], 1, n)]
  BY <1>8, <1>10 DEF Store
<1>12. n < Len(Store[s])
  BY <1>1, ReadFacts DEF Store
<1>. QED BY <1>1, <1>9, <1>11, <1>12 DEF Private!Cut, Store

-------------------------------------------------------------------------------
(* A forward pass appends to the sequences of its batch. *)

\* A string of length m extended by n entries v.
LEMMA AppendedRun ==
    ASSUME NEW S, NEW R \in Seq(S), NEW v \in S, NEW m \in Nat, Len(R) = m, NEW n \in Nat
    PROVE  R \o [i \in 1..n |-> v] = [i \in 1..(m+n) |-> IF i <= m THEN R[i] ELSE v]
<1>. DEFINE e == [i \in 1..n |-> v]
<1>1. e \in Seq(S) /\ Len(e) = n /\ \A i \in 1..n : e[i] = v
  OBVIOUS
<1>. HIDE DEF e
<1>2. PICK c : c = R \o e
  OBVIOUS
<1>3. c \in Seq(S) /\ Len(c) = m + n
  <2>1. R \o e \in Seq(S)
    BY <1>1
  <2>2. Len(R \o e) = Len(R) + Len(e)
    BY <1>1
  <2>. QED BY <1>1, <1>2, <2>1, <2>2
<1>4. c = [i \in 1..(m+n) |-> c[i]]
  BY <1>3
<1>5. ASSUME NEW i \in 1..(m+n) PROVE c[i] = IF i <= m THEN R[i] ELSE v
  <2>1. c[i] = IF i <= m THEN R[i] ELSE e[i - m]
    BY <1>1, <1>2
  <2>2. ~(i <= m) => i - m \in 1..n
    OBVIOUS
  <2>. QED BY <1>1, <2>1, <2>2
<1>6. c = [i \in 1..(m+n) |-> IF i <= m THEN R[i] ELSE v]
  BY <1>4, <1>5
<1>. QED BY <1>2, <1>6 DEF e

\* The positions a pass over B writes, n of each sequence.
NewPositions(s, n) == seqLens[s]..(seqLens[s] + n - 1)

\* The pass wrote at the end of each sequence of B, and nowhere else.
Appends(B, n) ==
    /\ \A s \in B : \A p \in NewPositions(s, n) : kv'[SlotOf(s, p)] = s
    /\ \A x \in Slots : (\A s \in B : \A p \in NewPositions(s, n) : x # SlotOf(s, p)) => kv'[x] = kv[x]

LEMMA AppendExtends ==
    ASSUME Inv, NEW B \in SUBSET Live, NEW n \in 1..MaxLen,
           \A s \in B : seqLens[s] + n <= Len(tables[s]) * BlockSize,
           Appends(B, n),
           seqLens' = [s \in SeqIds |-> IF s \in B THEN seqLens[s] + n ELSE seqLens[s]],
           UNCHANGED <<tables, cpuMap, saved>>
    PROVE  Private!Extend(B, n)
<1>1. Live' = Live /\ B \subseteq SeqIds /\ n \in Nat \ {0}
  BY TieredAssumption DEF Live
<1>2. \A s \in SeqIds : \A p : SlotOf(s, p)' = SlotOf(s, p)
  BY DEF SlotOf, Home, IsResident
<1>3. ASSUME NEW s \in B, NEW p \in NewPositions(s, n)
      PROVE  s \in SeqIds /\ p \in Nat /\ p < Len(tables[s]) * BlockSize /\ seqLens[s] <= p
  <2>1. /\ s \in SeqIds /\ seqLens[s] \in Nat
        /\ seqLens[s] + n <= Len(tables[s]) * BlockSize
        /\ Len(tables[s]) * BlockSize \in Nat
    BY <1>1, ReadFacts, TableFacts, TieredAssumption DEF Inv
  <2>2. PICK m \in Nat : m = Len(tables[s]) * BlockSize
    BY <2>1
  <2>. QED BY <1>1, <2>1, <2>2 DEF NewPositions
<1>4. ASSUME NEW s \in SeqIds, NEW p \in 0..(seqLens[s]-1)
      PROVE  kv'[SlotOf(s, p)] = Reading(s)[p + 1]
  <2>1. /\ p \in Nat /\ p < Len(tables[s]) * BlockSize /\ p < seqLens[s]
        /\ Reading(s)[p + 1] = kv[SlotOf(s, p)]
    BY ReadFacts
  <2>2. SlotOf(s, p) \in Slots
    BY <2>1, PositionPlace DEF Inv
  <2>3. ASSUME NEW u \in B, NEW q \in NewPositions(u, n), SlotOf(s, p) = SlotOf(u, q) PROVE FALSE
    <3>1. u \in SeqIds /\ q \in Nat /\ q < Len(tables[u]) * BlockSize /\ seqLens[u] <= q
      BY <1>3
    <3>2. s = u /\ p = q
      BY <2>1, <2>3, <3>1, SlotsApart DEF Inv
    <3>. QED BY <2>1, <3>1, <3>2, ReadFacts
  <2>. QED BY <2>1, <2>2, <2>3 DEF Appends
<1>5. ASSUME NEW s \in SeqIds, s \notin B PROVE Reading(s)' = Reading(s)
  <2>1. PICK m \in Nat : m = seqLens[s] /\ seqLens'[s] = m
    BY <1>5, ReadFacts
  <2>2. Reading(s)' = [i \in 1..m |-> kv'[SlotOf(s, i - 1)']]
    BY <2>1, ReadingNext
  <2>3. Reading(s) \in Seq(Author) /\ Len(Reading(s)) = m
    BY <2>1, ReadFacts
  <2>4. ASSUME NEW i \in 1..m PROVE kv'[SlotOf(s, i - 1)'] = Reading(s)[i]
    <3>1. PICK p \in 0..(seqLens[s]-1) : p = i - 1 /\ p + 1 = i
      BY <2>1
    <3>. QED BY <1>2, <1>4, <3>1
  <2>5. Reading(s) = [i \in 1..m |-> Reading(s)[i]]
    BY <2>3
  <2>. QED BY <2>2, <2>4, <2>5
<1>6. ASSUME NEW s \in B PROVE Reading(s)' = Reading(s) \o [i \in 1..n |-> s]
  <2>1. PICK m \in Nat : m = seqLens[s] /\ seqLens'[s] = m + n
    BY <1>1, ReadFacts
  <2>2. Reading(s)' = [i \in 1..(m+n) |-> kv'[SlotOf(s, i - 1)']]
    BY <1>1, <2>1, ReadingNext
  <2>3. Reading(s) \in Seq(Author) /\ Len(Reading(s)) = m /\ s \in Author
    BY <1>1, <2>1, ReadFacts DEF Author
  <2>4. ASSUME NEW i \in 1..(m+n)
        PROVE  kv'[SlotOf(s, i - 1)'] = IF i <= m THEN Reading(s)[i] ELSE s
    <3>1. CASE i <= m
      <4>1. PICK p \in 0..(seqLens[s]-1) : p = i - 1 /\ p + 1 = i
        BY <2>1, <3>1
      <4>. QED BY <1>1, <1>2, <1>4, <3>1, <4>1
    <3>2. CASE ~(i <= m)
      <4>1. i - 1 \in NewPositions(s, n)
        BY <1>1, <2>1, <3>2 DEF NewPositions
      <4>. QED BY <1>1, <1>2, <3>2, <4>1 DEF Appends
    <3>. QED BY <3>1, <3>2
  <2>5. Reading(s) \o [i \in 1..n |-> s] = [i \in 1..(m+n) |-> IF i <= m THEN Reading(s)[i] ELSE s]
    BY <1>1, <2>3, AppendedRun
  <2>. QED BY <2>2, <2>4, <2>5
<1>7. Store' = [s \in SeqIds |-> IF s \in B THEN Store[s] \o [i \in 1..n |-> s] ELSE Store[s]]
  BY <1>1, <1>5, <1>6 DEF Store
<1>. QED BY <1>1, <1>7 DEF Private!Extend, Store

\* A table without placeholders has one slot for a position, the one read later.
LEMMA WriteSlotIs ==
    ASSUME Inv, NEW s \in SeqIds, Holes(s) = {}, NEW p \in Nat,
           p < Len(tables[s]) * BlockSize
    PROVE  WriteSlots(tables[s], p) = {SlotOf(s, p)}
<1>1. PICK i : i = (p \div BlockSize) + 1 /\ i \in DOMAIN tables[s]
  BY PositionPlace DEF Inv
<1>2. tables[s][i] # Hole /\ Home(s, i) = tables[s][i]
  BY <1>1 DEF Holes, Residents, IsResident, Home
<1>3. WriteSlots(tables[s], p) = {tables[s][i]} \X {p % BlockSize}
  BY <1>1, <1>2 DEF WriteSlots
<1>. QED BY <1>1, <1>2, <1>3 DEF SlotOf

\* Blocks for n positions hold each of them.
LEMMA CapacityIs ==
    ASSUME Inv, NEW s \in SeqIds, NEW n \in Nat, CeilDiv(n) <= Len(tables[s])
    PROVE  n <= Len(tables[s]) * BlockSize
<1>1. /\ Len(tables[s]) \in Nat /\ BlockSize \in Nat
      /\ CeilDiv(n) \in Nat /\ n <= CeilDiv(n) * BlockSize
  BY TableFacts, BlocksForFacts, TieredAssumption DEF Inv
<1>2. CeilDiv(n) * BlockSize <= Len(tables[s]) * BlockSize
  BY <1>1
<1>3. CeilDiv(n) * BlockSize \in Nat /\ Len(tables[s]) * BlockSize \in Nat
  BY <1>1
<1>. QED BY <1>1, <1>2, <1>3

LEMMA PrefillExtends ==
    ASSUME Inv, Fit, NEW s \in SeqIds, NEW n \in 1..MaxLen, Prefill(s, n)
    PROVE  Private!Extend({s}, n)
<1>1. /\ pc = "ready" /\ s \in batch /\ CeilDiv(seqLens[s] + n) <= Len(tables[s])
      /\ seqLens' = [seqLens EXCEPT ![s] = @ + n]
      /\ UNCHANGED <<tables, cpuMap, saved>>
  BY DEF Prefill
<1>2. s \in Live /\ Holes(s) = {} /\ seqLens[s] \in Nat /\ n \in Nat \ {0}
  BY <1>1, ReadFacts, TieredAssumption DEF Fit, Inv, Calls
<1>3. seqLens[s] + n <= Len(tables[s]) * BlockSize
  BY <1>1, <1>2, CapacityIs
<1>4. ASSUME NEW p \in NewPositions(s, n) PROVE p \in Nat /\ p < Len(tables[s]) * BlockSize
  <2>1. PICK m \in Nat : m = Len(tables[s]) * BlockSize
    BY <1>2, TableFacts, TieredAssumption DEF Inv
  <2>. QED BY <1>2, <1>3, <2>1 DEF NewPositions
<1>5. PICK at \in Written(tables[s], seqLens[s], n) :
         kv' = [x \in Slots |-> IF x \in Range(at) THEN s ELSE kv[x]]
  BY DEF Prefill
<1>6. \A p \in NewPositions(s, n) : at[p] = SlotOf(s, p)
  <2>. SUFFICES ASSUME NEW p \in NewPositions(s, n) PROVE at[p] = SlotOf(s, p)
    OBVIOUS
  <2>1. at[p] \in WriteSlots(tables[s], p)
    BY <1>5 DEF Written, NewPositions
  <2>2. WriteSlots(tables[s], p) = {SlotOf(s, p)}
    BY <1>2, <1>4, WriteSlotIs
  <2>. QED BY <2>1, <2>2
<1>7. \A x : x \in Range(at) <=> \E p \in NewPositions(s, n) : x = SlotOf(s, p)
  <2>1. DOMAIN at = NewPositions(s, n)
    BY <1>5 DEF Written, NewPositions
  <2>. QED BY <1>6, <2>1 DEF Range
<1>8. Appends({s}, n)
  <2>1. ASSUME NEW p \in NewPositions(s, n) PROVE kv'[SlotOf(s, p)] = s
    <3>1. SlotOf(s, p) \in Slots
      BY <1>4, PositionPlace DEF Inv
    <3>. QED BY <1>5, <1>7, <3>1
  <2>2. ASSUME NEW x \in Slots, \A p \in NewPositions(s, n) : x # SlotOf(s, p) PROVE kv'[x] = kv[x]
    BY <1>5, <1>7, <2>2
  <2>. QED BY <2>1, <2>2 DEF Appends
<1>9. seqLens' = [u \in SeqIds |-> IF u \in {s} THEN seqLens[u] + n ELSE seqLens[u]]
  BY <1>1 DEF Inv, Data
<1>10. {s} \in SUBSET Live /\ \A u \in {s} : seqLens[u] + n <= Len(tables[u]) * BlockSize
  BY <1>2, <1>3
<1>. QED BY <1>1, <1>8, <1>9, <1>10, AppendExtends

\* decode_step writes behind the last token of each sequence: the cached rows are
\* the tables, and no two sequences share a block.
LEMMA DecodeExtends ==
    ASSUME Inv, Fit, RowsFresh, DecodeStep
    PROVE  Private!Next \/ UNCHANGED Private!vars
<1>1. /\ pc = "ready"
      /\ \A s \in batch : seqLens[s] < MaxLen /\ CeilDiv(seqLens[s] + 1) <= Len(tables[s])
      /\ seqLens' = [s \in SeqIds |-> IF s \in batch THEN seqLens[s] + 1 ELSE seqLens[s]]
      /\ UNCHANGED <<tables, cpuMap, saved>>
  BY DEF DecodeStep
<1>2. batch \in SUBSET Live /\ batch \subseteq SeqIds
  BY DEF Inv, Calls, Live
<1>3. \A s \in batch : FetchTable[s] = tables[s]
  BY <1>1 DEF FetchTable, RowsFresh
<1>4. ASSUME NEW s \in batch
      PROVE  /\ s \in SeqIds /\ seqLens[s] \in Nat
             /\ seqLens[s] + 1 <= Len(tables[s]) * BlockSize
             /\ seqLens[s] < Len(tables[s]) * BlockSize
  <2>1. s \in SeqIds /\ seqLens[s] \in Nat /\ seqLens[s] + 1 \in Nat
    BY <1>2, ReadFacts
  <2>2. seqLens[s] + 1 <= Len(tables[s]) * BlockSize
    BY <1>1, <2>1, CapacityIs
  <2>3. PICK m \in Nat : m = Len(tables[s]) * BlockSize
    BY <2>1, TableFacts, TieredAssumption DEF Inv
  <2>. QED BY <2>1, <2>2, <2>3
<1>5. PICK at \in [batch -> (GpuBlocks \cup {Hole}) \X (0..BlockSize-1)] :
         /\ \A s \in batch : at[s] \in WriteSlots(FetchTable[s], seqLens[s])
         /\ \E last \in [Range(at) -> batch] :
               /\ \A x \in Range(at) : at[last[x]] = x
               /\ kv' = [x \in Slots |-> IF x \in Range(at) THEN last[x] ELSE kv[x]]
  BY DEF DecodeStep
<1>6. PICK last \in [Range(at) -> batch] :
         /\ \A x \in Range(at) : at[last[x]] = x
         /\ kv' = [x \in Slots |-> IF x \in Range(at) THEN last[x] ELSE kv[x]]
  BY <1>5
<1>7. \A s \in batch : at[s] = SlotOf(s, seqLens[s])
  <2>. SUFFICES ASSUME NEW s \in batch PROVE at[s] = SlotOf(s, seqLens[s])
    OBVIOUS
  <2>1. at[s] \in WriteSlots(tables[s], seqLens[s])
    BY <1>3, <1>5
  <2>2. Holes(s) = {}
    BY <1>1 DEF Fit
  <2>3. WriteSlots(tables[s], seqLens[s]) = {SlotOf(s, seqLens[s])}
    BY <1>4, <2>2, WriteSlotIs
  <2>. QED BY <2>1, <2>3
<1>8. \A x : x \in Range(at) <=> \E s \in batch : x = at[s]
  BY <1>5 DEF Range
<1>9. \A s \in batch : \A p : p \in NewPositions(s, 1) <=> p = seqLens[s]
  BY <1>4 DEF NewPositions
<1>10. ASSUME NEW s \in batch PROVE kv'[at[s]] = s
  <2>1. at[s] \in Range(at)
    BY <1>8
  <2>2. at[s] \in Slots
    <3>1. SlotOf(s, seqLens[s]) \in Slots
      BY <1>4, PositionPlace DEF Inv
    <3>. QED BY <1>7, <3>1
  <2>3. PICK u \in batch : u = last[at[s]] /\ at[u] = at[s]
    BY <1>6, <2>1
  <2>4. u = s
    <3>1. SlotOf(u, seqLens[u]) = SlotOf(s, seqLens[s])
      BY <1>7, <2>3
    <3>2. /\ u \in SeqIds /\ seqLens[u] \in Nat
          /\ seqLens[u] < Len(tables[u]) * BlockSize
      BY <1>4
    <3>. QED BY <1>4, <3>1, <3>2, SlotsApart DEF Inv
  <2>. QED BY <1>6, <2>1, <2>2, <2>3, <2>4
<1>11. Appends(batch, 1)
  <2>1. \A s \in batch : \A p \in NewPositions(s, 1) : kv'[SlotOf(s, p)] = s
    BY <1>7, <1>9, <1>10
  <2>2. ASSUME NEW x \in Slots, \A s \in batch : \A p \in NewPositions(s, 1) : x # SlotOf(s, p)
        PROVE  kv'[x] = kv[x]
    <3>1. x \notin Range(at)
      <4>. SUFFICES ASSUME NEW s \in batch, x = at[s] PROVE FALSE
        BY <1>8
      <4>1. seqLens[s] \in NewPositions(s, 1)
        BY <1>9
      <4>2. x = SlotOf(s, seqLens[s])
        BY <1>7
      <4>. QED BY <2>2, <4>1, <4>2
    <3>. QED BY <1>6, <3>1
  <2>. QED BY <2>1, <2>2 DEF Appends
<1>12. CASE batch = {}
  <2>1. kv' = kv
    <3>1. Range(at) = {}
      BY <1>8, <1>12
    <3>. QED BY <1>6, <3>1 DEF Inv, Data
  <2>2. seqLens' = seqLens
    BY <1>1, <1>12 DEF Inv, Data
  <2>3. UNCHANGED <<tables, cpuMap, kv, seqLens, saved>>
    BY <1>1, <2>1, <2>2
  <2>. QED BY <2>3, EntriesStutter
<1>13. CASE batch # {}
  <2>1. PICK s \in batch : TRUE
    BY <1>13
  <2>2. 1 \in 1..MaxLen
    BY <1>1, <1>4, <2>1, TieredAssumption
  <2>3. Private!Extend(batch, 1)
    BY <1>1, <1>2, <1>4, <1>11, <2>2, AppendExtends
  <2>. QED BY <1>2, <2>2, <2>3 DEF Private!Next
<1>. QED BY <1>12, <1>13

-------------------------------------------------------------------------------
(* Every step is one of the store's, or none. *)

LEMMA NextRefines ==
    ASSUME Snapshots = FALSE, Inv, Inv', Fit, RowsFresh, [Next]_vars
    PROVE  [Private!Next]_Private!vars
<1>1. ASSUME NEW s \in SeqIds, NEW n \in 0..MaxLen,
             AllocateSequence(s, n) \/ TruncateSequence(s, n)
      PROVE  Private!Next
  BY <1>1, AllocateCreates, TruncateCuts DEF Private!Next
<1>2. ASSUME NEW s \in SeqIds, FreeSequence(s) PROVE Private!Next
  BY <1>2, FreeDrops DEF Private!Next
<1>3. ASSUME NEW s \in SeqIds, NEW n \in 1..MaxLen, Prefill(s, n) PROVE Private!Next
  <2>1. Private!Extend({s}, n)
    BY <1>3, PrefillExtends
  <2>2. {s} \in SUBSET SeqIds
    OBVIOUS
  <2>. QED BY <2>1, <2>2 DEF Private!Next
<1>4. CASE DecodeStep
  BY <1>4, DecodeExtends
<1>5. CASE AllocateBlock \/ AllocateBlockEvicting
  BY <1>5, GrowStutters, GrowEvictingStutters
<1>6. CASE EvictForFetch \/ FetchBlocks \/ EvictColdBlocks
  BY <1>6, EvictForFetchStutters, FetchStutters, EvictColdStutters
<1>7. CASE AllocateBlockRaises \/ CapacityEnsured \/ FetchRaises \/ Leave
  BY <1>7, QuietStutters DEF AllocateBlockRaises, CapacityEnsured, FetchRaises, Leave
<1>8. ASSUME NEW s \in SeqIds, NEW n \in 1..GrowBy, EnsureSequenceCapacity(s, n)
      PROVE  UNCHANGED Private!vars
  BY <1>8, QuietStutters DEF EnsureSequenceCapacity
<1>9. ASSUME NEW B \in SUBSET SeqIds, EnsureBlocksOnGpu(B)
      PROVE  UNCHANGED Private!vars
  BY <1>9, QuietStutters DEF EnsureBlocksOnGpu
<1>10. ASSUME NEW s \in SeqIds PROVE ~SerializeSequence(s)
  BY DEF SerializeSequence
<1>11. ASSUME NEW s \in SeqIds, NEW extra PROVE ~DeserializeSequence(s, extra)
  BY DEF DeserializeSequence
<1>12. CASE UNCHANGED vars
  BY <1>12, QuietStutters DEF vars
<1>. QED
  BY <1>1, <1>2, <1>3, <1>4, <1>5, <1>6, <1>7, <1>8, <1>9, <1>10, <1>11, <1>12 DEF Next, InCall

LEMMA InitRefines == Init => Private!Init
<1>. SUFFICES ASSUME Init PROVE Private!Init
  OBVIOUS
<1>1. Live = {}
  BY DEF Init, Live
<1>2. \A s \in SeqIds : Reading(s) = <<>>
  BY DEF Init, Reading
<1>. QED BY <1>1, <1>2 DEF Init, Private!Init

\* TieredBlockManager under callers whose batches fit the GPU, who ask for one new
\* block at a time and save no offloaded context: overflow, eviction, fetch, growth
\* and truncation never show in what a sequence reads, and a forward pass appends to
\* the sequences of its batch and to no other.
THEOREM PrivateSequences ==
    ASSUME LongContexts = FALSE, GrowBy <= 1, Snapshots = FALSE
    PROVE  Spec => ImplementsPrivateSequences
<1>1. Init => Private!Init
  BY InitRefines
<1>2. Inv /\ Inv' /\ Fit /\ RowsFresh /\ [Next]_vars => [Private!Next]_Private!vars
  BY NextRefines
<1>3. Spec => [](Inv /\ Fit)
  BY AlwaysFit
<1>4. Spec => []RowsFresh
  BY CachedRowsFresh
<1>. QED BY <1>1, <1>2, <1>3, <1>4, PTL DEF Spec, ImplementsPrivateSequences, Private!Spec
===============================================================================
