-------------------------- MODULE BlockManager_proofs --------------------------
(***************************************************************************)
(* Proofs about BlockManager for any number of blocks and sequences, any   *)
(* block size and any maximal length: types and accounting; that the       *)
(* cached tensors are fresh and only prefixes are shared; and, on top of   *)
(* these, that every operation acts on the entries a sequence reads as on  *)
(* a private string, so that BlockManager implements SequenceStore.        *)
(***************************************************************************)
EXTENDS BlockManager, FiniteSetTheorems, TLAPS

(* Division: blocks and slots of a sequence of n tokens. *)

\* CeilDiv(n) blocks hold n tokens, and no fewer are counted.
LEMMA CeilDivCovers ==
    ASSUME NEW n \in Nat
    PROVE  /\ CeilDiv(n) \in Nat
           /\ n <= CeilDiv(n) * BlockSize
BY ConstantsAssumption DEF CeilDiv

\* A table of at least one block, with room for its n tokens.
LEMMA BlocksForCovers ==
    ASSUME NEW n \in Nat
    PROVE  /\ BlocksFor(n) \in Nat \ {0}
           /\ n <= BlocksFor(n) * BlockSize
BY CeilDivCovers, ConstantsAssumption DEF BlocksFor

\* A table that has room for n tokens is at least that long.
LEMMA BlocksForLeast ==
    ASSUME NEW n \in Nat, NEW k \in Nat \ {0}, n <= k * BlockSize
    PROVE  CeilDiv(n) <= k /\ BlocksFor(n) <= k
<1>1. /\ (n + BlockSize - 1) \div BlockSize \in Nat
      /\ BlockSize * ((n + BlockSize - 1) \div BlockSize) <= n + BlockSize - 1
  BY ConstantsAssumption
<1>2. CeilDiv(n) < k + 1
  BY <1>1, ConstantsAssumption DEF CeilDiv
<1>. QED BY <1>2, CeilDivCovers DEF BlocksFor

\* Conversely, a position whose block is in the table has room for its token.
LEMMA SlotFits ==
    ASSUME NEW p \in Nat, NEW k \in Nat, p \div BlockSize < k
    PROVE  p + 1 <= k * BlockSize
<1>1. /\ p \div BlockSize \in Nat
      /\ p < BlockSize * (p \div BlockSize + 1)
  BY ConstantsAssumption
<1>2. BlockSize * (p \div BlockSize + 1) <= k * BlockSize
  BY <1>1, ConstantsAssumption
<1>. QED BY <1>1, <1>2, ConstantsAssumption

\* The slot of a position below the capacity of a table is a slot of the cache.
LEMMA SlotInTable ==
    ASSUME NEW t \in Seq(Blocks), NEW p \in Nat, p < Len(t) * BlockSize
    PROVE  /\ (p \div BlockSize) + 1 \in 1..Len(t)
           /\ SlotAt(t, p) \in Slots
<1>1. /\ p \div BlockSize \in Nat
      /\ p % BlockSize \in 0..(BlockSize-1)
      /\ p = BlockSize * (p \div BlockSize) + (p % BlockSize)
  BY ConstantsAssumption
<1>2. p \div BlockSize < Len(t)
  BY <1>1, ConstantsAssumption
<1>. QED BY <1>1, <1>2 DEF SlotAt, Slots

-------------------------------------------------------------------------------
(* Type correctness.  The capacity invariant is part of the induction: without *)
(* it a snapshot could read a slot beyond the end of a block table.            *)

\* A claim assigns distinct free blocks.
LEMMA ClaimFacts ==
    ASSUME TypeOK, NEW I, NEW claim \in Claims(I)
    PROVE  /\ claim \in [I -> freeBlocks]
           /\ DOMAIN claim = I
           /\ \A i \in I : claim[i] \in freeBlocks /\ claim[i] \in Blocks
           /\ \A i, j \in I : claim[i] = claim[j] => i = j
           /\ Range(claim) = {claim[i] : i \in I}
           /\ Range(claim) \subseteq freeBlocks
           /\ Range(claim) \subseteq Blocks
BY DEF Claims, Injection, IsInjective, Range, TypeOK

LEMMA RetainedType ==
    ASSUME TypeOK, NEW claimed, NEW kept
    PROVE  Retained(claimed, kept) \in [Blocks -> Nat]
BY DEF Retained, TypeOK

LEMMA ReleaseType ==
    ASSUME TypeOK, NEW B \in SUBSET Blocks, Release(B)
    PROVE  /\ refcounts' \in [Blocks -> Nat]
           /\ freeBlocks' \in SUBSET Blocks
           /\ kv' \in [Slots -> Author]
BY DEF Release, TypeOK, Author

\* The parts of the inductive invariant for typing.
TypeInv == TypeOK /\ CapacityCoversLength

LEMMA InitTypeInv == Init => TypeInv
<1>. SUFFICES ASSUME Init PROVE TypeInv
  OBVIOUS
<1>1. TypeOK
  BY ConstantsAssumption DEF Init, TypeOK, Author
<1>2. CapacityCoversLength
  BY ConstantsAssumption DEF Init, CapacityCoversLength
<1>. QED BY <1>1, <1>2 DEF TypeInv

LEMMA AllocateTypeInv ==
    ASSUME TypeInv, NEW s \in SeqIds, NEW n \in 0..MaxLen, AllocateSequence(s, n)
    PROVE  TypeInv'
<1>. USE DEF TypeInv
<1>1. PICK claim \in Claims(1..BlocksFor(n)) : FreshTable(s, BlocksFor(n), claim)
  BY DEF AllocateSequence
<1>2. [i \in 1..BlocksFor(n) |-> claim[i]] \in Seq(Blocks)
  <2>1. n \in Nat /\ BlocksFor(n) \in Nat
    BY BlocksForCovers, ConstantsAssumption
  <2>2. \A i \in 1..BlocksFor(n) : claim[i] \in Blocks
    BY <1>1, ClaimFacts
  <2>. QED BY <2>1, <2>2
<1>3. tables' \in [SeqIds -> Seq(Blocks)]
  BY <1>1, <1>2 DEF FreshTable, TypeOK
<1>4. TypeOK'
  BY <1>1, <1>3, RetainedType
     DEF AllocateSequence, FreshTable, InvalidateCaches, TypeOK
<1>5. CapacityCoversLength'
  <2>. SUFFICES ASSUME NEW t \in SeqIds PROVE seqLens'[t] <= Len(tables'[t]) * BlockSize
    BY DEF CapacityCoversLength
  <2>1. CASE t = s
    <3>1. seqLens'[t] = 0
      BY <2>1, ConstantsAssumption
         DEF AllocateSequence, CapacityCoversLength, TypeOK, Live
    <3>. QED BY <3>1, <1>3, ConstantsAssumption
  <2>2. CASE t # s
    BY <2>2, <1>1 DEF AllocateSequence, FreshTable, CapacityCoversLength, TypeOK
  <2>. QED BY <2>1, <2>2
<1>. QED BY <1>4, <1>5

LEMMA FreeTypeInv ==
    ASSUME TypeInv, NEW s \in SeqIds, FreeSequence(s)
    PROVE  TypeInv'
<1>. USE DEF TypeInv
<1>1. Range(tables[s]) \in SUBSET Blocks
  BY DEF TypeOK, Range
<1>2. TypeOK'
  BY <1>1, ReleaseType, ConstantsAssumption DEF FreeSequence, InvalidateCaches, TypeOK
<1>3. CapacityCoversLength'
  BY ConstantsAssumption DEF FreeSequence, CapacityCoversLength, TypeOK
<1>. QED BY <1>2, <1>3

LEMMA ForkTypeInv ==
    ASSUME TypeInv, NEW s \in SeqIds, NEW child \in SeqIds,
           NEW extra \in 0..(MaxLen - seqLens[s]), ForkSequencePrefix(s, child, extra)
    PROVE  TypeInv'
<1>. USE DEF TypeInv
<1>. DEFINE data  == BlocksFor(seqLens[s])
            total == BlocksFor(seqLens[s] + extra)
<1>0. /\ seqLens[s] \in Nat /\ extra \in Nat
      /\ data \in Nat \ {0} /\ total \in Nat \ {0}
      /\ seqLens[s] + extra <= total * BlockSize
  <2>1. seqLens[s] \in Nat /\ extra \in Nat /\ seqLens[s] + extra \in Nat
    BY ConstantsAssumption DEF TypeOK
  <2>. QED BY <2>1, BlocksForCovers
<1>1. PICK claim \in Claims((data+1)..total) :
          /\ tables' = [tables EXCEPT ![child] =
                          [i \in 1..total |->
                              IF i <= data THEN tables[s][i] ELSE claim[i]]]
          /\ refcounts' = Retained(Range(claim), {tables[s][i] : i \in 1..data})
          /\ freeBlocks' = freeBlocks \ Range(claim)
  BY DEF ForkSequencePrefix
<1>. DEFINE row == [i \in 1..total |-> IF i <= data THEN tables[s][i] ELSE claim[i]]
<1>2. row \in Seq(Blocks) /\ Len(row) = total
  <2>1. \A i \in (data+1)..total : claim[i] \in Blocks
    <3>1. TypeOK /\ claim \in Claims((data+1)..total)
      BY <1>1
    <3>. HIDE DEF data, total
    <3>. DEFINE I == (data+1)..total
    <3>2. claim \in Claims(I)
      BY <3>1
    <3>. HIDE DEF I
    <3>3. \A i \in I : claim[i] \in Blocks
      BY <3>1, <3>2, ClaimFacts
    <3>. QED BY <3>3 DEF I
  <2>2. \A i \in 1..data : tables[s][i] \in Blocks
    <3>1. data <= Len(tables[s]) /\ tables[s] \in Seq(Blocks)
      BY DEF ForkSequencePrefix, TypeOK
    <3>. QED BY <3>1, <1>0
  <2>3. \A i \in 1..total : row[i] \in Blocks
    BY <1>0, <2>1, <2>2
  <2>. QED BY <2>3, <1>0
<1>3. tables' \in [SeqIds -> Seq(Blocks)]
  BY <1>1, <1>2 DEF TypeOK
<1>4. TypeOK'
  BY <1>1, <1>3, RetainedType DEF ForkSequencePrefix, InvalidateCaches, TypeOK
<1>5. CapacityCoversLength'
  <2>. SUFFICES ASSUME NEW t \in SeqIds PROVE seqLens'[t] <= Len(tables'[t]) * BlockSize
    BY DEF CapacityCoversLength
  <2>1. CASE t = child
    <3>1. seqLens'[t] = seqLens[s] /\ tables'[t] = row
      BY <2>1, <1>1 DEF ForkSequencePrefix, TypeOK
    <3>. QED BY <3>1, <1>0, <1>2, ConstantsAssumption
  <2>2. CASE t # child
    BY <2>2, <1>1 DEF ForkSequencePrefix, CapacityCoversLength, TypeOK
  <2>. QED BY <2>1, <2>2
<1>. QED BY <1>4, <1>5

LEMMA TruncateTypeInv ==
    ASSUME TypeInv, NEW s \in SeqIds, NEW n \in 0..MaxLen, TruncateSequence(s, n)
    PROVE  TypeInv'
<1>. USE DEF TypeInv
<1>. DEFINE keep == BlocksFor(n)
<1>0. keep \in Nat \ {0} /\ n <= keep * BlockSize
  BY BlocksForCovers, ConstantsAssumption
<1>1. /\ tables[s] \in Seq(Blocks) /\ Len(tables[s]) \in Nat
      /\ n < seqLens[s] /\ seqLens[s] \in Nat
      /\ seqLens[s] <= Len(tables[s]) * BlockSize
      /\ n \in Nat
  BY ConstantsAssumption DEF TruncateSequence, TypeOK, CapacityCoversLength
<1>2. Len(tables[s]) # 0 /\ n <= Len(tables[s]) * BlockSize
  BY <1>1, ConstantsAssumption
<1>3. keep <= Len(tables[s])
  BY <1>1, <1>2, BlocksForLeast
<1>4. /\ SubSeq(tables[s], 1, keep) \in Seq(Blocks)
      /\ Len(SubSeq(tables[s], 1, keep)) = keep
  BY <1>0, <1>1, <1>3
<1>5. {tables[s][i] : i \in (keep+1)..Len(tables[s])} \in SUBSET Blocks
  BY <1>0, <1>1
<1>6. TypeOK'
  BY <1>1, <1>4, <1>5, ReleaseType
     DEF TruncateSequence, InvalidateCaches, TypeOK
<1>7. CapacityCoversLength'
  <2>. SUFFICES ASSUME NEW t \in SeqIds PROVE seqLens'[t] <= Len(tables'[t]) * BlockSize
    BY DEF CapacityCoversLength
  <2>1. CASE t = s
    BY <2>1, <1>0, <1>4 DEF TruncateSequence, TypeOK
  <2>2. CASE t # s
    BY <2>2 DEF TruncateSequence, CapacityCoversLength, TypeOK
  <2>. QED BY <2>1, <2>2
<1>. QED BY <1>6, <1>7

\* A table extended by `got` claimed blocks.
LEMMA GrownTable ==
    ASSUME TypeInv, NEW s \in SeqIds, NEW got \in Nat,
           NEW claim \in Claims((Len(tables[s])+1)..(Len(tables[s])+got)),
           tables' = [tables EXCEPT ![s] =
                        [i \in 1..(Len(tables[s])+got) |->
                            IF i \in (Len(tables[s])+1)..(Len(tables[s])+got)
                              THEN claim[i] ELSE tables[s][i]]]
    PROVE  /\ tables' \in [SeqIds -> Seq(Blocks)]
           /\ \A t \in SeqIds : Len(tables[t]) * BlockSize <= Len(tables'[t]) * BlockSize
<1>. DEFINE tail == (Len(tables[s])+1)..(Len(tables[s])+got)
            row  == [i \in 1..(Len(tables[s])+got) |->
                        IF i \in tail THEN claim[i] ELSE tables[s][i]]
<1>1. tables \in [SeqIds -> Seq(Blocks)]
  BY DEF TypeInv, TypeOK
<1>2. \A i \in tail : claim[i] \in Blocks
  BY ClaimFacts DEF TypeInv
<1>3. \A i \in 1..(Len(tables[s])+got) : row[i] \in Blocks
  BY <1>1, <1>2
<1>4. row \in Seq(Blocks) /\ Len(row) = Len(tables[s]) + got
  BY <1>1, <1>3
<1>5. tables' = [tables EXCEPT ![s] = row]
  OBVIOUS
<1>. HIDE DEF row
<1>6. tables' \in [SeqIds -> Seq(Blocks)]
  BY <1>1, <1>4, <1>5
<1>7. ASSUME NEW t \in SeqIds
      PROVE  Len(tables[t]) * BlockSize <= Len(tables'[t]) * BlockSize
  <2>1. /\ Len(tables[t]) \in Nat /\ Len(tables'[t]) \in Nat
        /\ Len(tables[t]) <= Len(tables'[t])
    BY <1>1, <1>4, <1>5
  <2>. QED BY <2>1, ConstantsAssumption
<1>. QED BY <1>6, <1>7

\* Growing a table, whatever happens to the caches, keeps the typing.
LEMMA GrowTypeInv ==
    ASSUME TypeInv, NEW s \in SeqIds, NEW got \in Nat,
           NEW claim \in Claims((Len(tables[s])+1)..(Len(tables[s])+got)),
           tables' = [tables EXCEPT ![s] =
                        [i \in 1..(Len(tables[s])+got) |->
                            IF i \in (Len(tables[s])+1)..(Len(tables[s])+got)
                              THEN claim[i] ELSE tables[s][i]]],
           refcounts' = Retained(Range(claim), {}),
           freeBlocks' = freeBlocks \ Range(claim),
           DOMAIN tableCache' \subseteq SeqIds,
           tableCache' \in [DOMAIN tableCache' -> Seq(Blocks)],
           DOMAIN lensCache' \subseteq SeqIds,
           lensCache' \in [DOMAIN lensCache' -> Nat],
           UNCHANGED <<seqLens, kv, saved>>
    PROVE  TypeInv'
<1>1. /\ tables' \in [SeqIds -> Seq(Blocks)]
      /\ \A t \in SeqIds : Len(tables[t]) * BlockSize <= Len(tables'[t]) * BlockSize
  BY GrownTable
<1>2. TypeOK'
  BY <1>1, RetainedType DEF TypeInv, TypeOK
<1>3. CapacityCoversLength'
  <2>. SUFFICES ASSUME NEW t \in SeqIds PROVE seqLens'[t] <= Len(tables'[t]) * BlockSize
    BY DEF CapacityCoversLength
  <2>1. /\ seqLens[t] \in Nat /\ Len(tables[t]) \in Nat /\ Len(tables'[t]) \in Nat
        /\ seqLens[t] <= Len(tables[t]) * BlockSize
    BY <1>1, ConstantsAssumption DEF TypeInv, TypeOK, CapacityCoversLength
  <2>. QED BY <1>1, <2>1, ConstantsAssumption
<1>. QED BY <1>2, <1>3 DEF TypeInv

LEMMA EnsureTypeInv ==
    ASSUME TypeInv, NEW s \in SeqIds, NEW n \in 1..MaxLen, EnsureSequenceCapacity(s, n)
    PROVE  TypeInv'
<1>. DEFINE missing == BlocksFor(seqLens[s] + n) - Len(tables[s])
            got     == IF missing <= Cardinality(freeBlocks)
                         THEN missing ELSE Cardinality(freeBlocks)
            tail    == (Len(tables[s])+1)..(Len(tables[s])+got)
<1>1. PICK claim \in Claims(tail) :
          /\ tables' = [tables EXCEPT ![s] =
                          [i \in 1..(Len(tables[s])+got) |->
                              IF i \in tail THEN claim[i] ELSE tables[s][i]]]
          /\ refcounts' = Retained(Range(claim), {})
          /\ freeBlocks' = freeBlocks \ Range(claim)
  BY DEF EnsureSequenceCapacity
<1>2. got \in Nat
  <2>1. seqLens[s] + n \in Nat /\ Len(tables[s]) \in Nat
    BY ConstantsAssumption DEF TypeInv, TypeOK
  <2>2. Cardinality(freeBlocks) \in Nat
    BY FS_Subset, FS_CardinalityType, ConstantsAssumption DEF TypeInv, TypeOK
  <2>3. missing \in Int
    <3>1. BlocksFor(seqLens[s] + n) \in Nat
      BY <2>1, BlocksForCovers
    <3>. QED BY <2>1, <3>1
  <2>4. got > 0
    BY DEF EnsureSequenceCapacity
  <2>. QED BY <2>2, <2>3, <2>4
<1>3. /\ tableCache' = <<>>
      /\ UNCHANGED <<seqLens, kv, lensCache, saved>>
  BY DEF EnsureSequenceCapacity
<1>4. /\ DOMAIN tableCache' \subseteq SeqIds
      /\ tableCache' \in [DOMAIN tableCache' -> Seq(Blocks)]
      /\ DOMAIN lensCache' \subseteq SeqIds
      /\ lensCache' \in [DOMAIN lensCache' -> Nat]
  BY <1>3 DEF TypeInv, TypeOK
<1>. HIDE DEF got
<1>. QED BY <1>1, <1>2, <1>3, <1>4, GrowTypeInv

\* Fetching a tensor yields one row, or one length, per sequence of the batch.
LEMMA FetchType ==
    ASSUME TypeOK, NEW batch \in SUBSET SeqIds
    PROVE  /\ DOMAIN FetchTable(batch) = batch
           /\ FetchTable(batch) \in [batch -> Seq(Blocks)]
           /\ DOMAIN FetchLens(batch) = batch
           /\ FetchLens(batch) \in [batch -> Nat]
<1>1. /\ tables \in [SeqIds -> Seq(Blocks)]
      /\ seqLens \in [SeqIds -> 0..MaxLen]
      /\ tableCache \in [DOMAIN tableCache -> Seq(Blocks)]
      /\ lensCache \in [DOMAIN lensCache -> Nat]
  BY DEF TypeOK
<1>2. \A s \in SeqIds : seqLens[s] \in Nat
  BY <1>1, ConstantsAssumption
<1>. QED BY <1>1, <1>2 DEF FetchTable, FetchLens

\* The values a write may leave in the block-table cache.
LEMMA TableCacheType ==
    ASSUME TypeInv, NEW s \in SeqIds, NEW c \in {<<>>, FetchTable({s}), tableCache}
    PROVE  DOMAIN c \subseteq SeqIds /\ c \in [DOMAIN c -> Seq(Blocks)]
<1>1. CASE c = <<>>
  BY <1>1
<1>2. CASE c = FetchTable({s})
  <2>1. DOMAIN FetchTable({s}) = {s} /\ FetchTable({s}) \in [{s} -> Seq(Blocks)]
    BY FetchType DEF TypeInv
  <2>. QED BY <1>2, <2>1
<1>3. CASE c = tableCache
  BY <1>3 DEF TypeInv, TypeOK
<1>. QED BY <1>1, <1>2, <1>3

LEMMA PrefillRaisesTypeInv ==
    ASSUME TypeInv, NEW s \in SeqIds, NEW n \in 1..MaxLen, PrefillRaises(s, n)
    PROVE  TypeInv'
<1>. DEFINE grow == ToGrow(s, n)
            got  == IF Cardinality(grow) <= Cardinality(freeBlocks)
                      THEN Cardinality(grow) ELSE Cardinality(freeBlocks)
            tail == (Len(tables[s])+1)..(Len(tables[s])+got)
<1>1. PICK claim \in Claims(tail) :
          /\ tables' = [tables EXCEPT ![s] =
                          [i \in 1..(Len(tables[s])+got) |->
                              IF i \in tail THEN claim[i] ELSE tables[s][i]]]
          /\ refcounts' = Retained(Range(claim), {})
          /\ freeBlocks' = freeBlocks \ Range(claim)
  BY DEF PrefillRaises
<1>2. got \in Nat
  <2>1. Cardinality(freeBlocks) \in Nat
    BY FS_Subset, FS_CardinalityType, ConstantsAssumption DEF TypeInv, TypeOK
  <2>2. Cardinality(grow) \in Nat
    <3>1. Len(tables[s]) + 1 \in Int /\ seqLens[s] + n \in Nat
      BY ConstantsAssumption DEF TypeInv, TypeOK
    <3>2. CeilDiv(seqLens[s] + n) \in Int
      BY <3>1, CeilDivCovers
    <3>3. IsFiniteSet(grow)
      BY <3>1, <3>2, FS_Interval DEF ToGrow
    <3>. QED BY <3>3, FS_CardinalityType
  <2>. QED BY <2>1, <2>2
<1>3. /\ UNCHANGED <<seqLens, kv, saved>>
      /\ tableCache' \in {<<>>, FetchTable({s}), tableCache}
      /\ lensCache' \in {FetchLens({s}), lensCache}
  BY DEF PrefillRaises
<1>4. /\ DOMAIN tableCache' \subseteq SeqIds
      /\ tableCache' \in [DOMAIN tableCache' -> Seq(Blocks)]
      /\ DOMAIN lensCache' \subseteq SeqIds
      /\ lensCache' \in [DOMAIN lensCache' -> Nat]
  <2>1. DOMAIN FetchLens({s}) = {s} /\ FetchLens({s}) \in [{s} -> Nat]
    BY FetchType DEF TypeInv
  <2>2. /\ DOMAIN tableCache' \subseteq SeqIds
        /\ tableCache' \in [DOMAIN tableCache' -> Seq(Blocks)]
    BY <1>3, TableCacheType
  <2>3. /\ DOMAIN lensCache' \subseteq SeqIds
        /\ lensCache' \in [DOMAIN lensCache' -> Nat]
    BY <1>3, <2>1 DEF TypeInv, TypeOK
  <2>. QED BY <2>2, <2>3
<1>. HIDE DEF got
<1>. QED BY <1>1, <1>2, <1>3, <1>4, GrowTypeInv

LEMMA DecodeTypeInv ==
    ASSUME TypeInv, NEW batch \in SUBSET SeqIds, DecodeStep(batch)
    PROVE  TypeInv'
<1>. DEFINE rows == FetchTable(batch)
            lens == FetchLens(batch)
            slot(s) == SlotAt(rows[s], lens[s])
            hit == {slot(s) : s \in batch}
<1>1. PICK last \in [hit -> batch] :
          kv' = [x \in Slots |-> IF x \in hit THEN last[x] ELSE kv[x]]
  BY DEF DecodeStep
<1>2. kv' \in [Slots -> Author]
  <2>. HIDE DEF hit
  <2>. QED BY <1>1 DEF Author, TypeInv, TypeOK
<1>3. /\ tableCache' = rows
      /\ lensCache' = [s \in batch |-> lens[s] + 1]
      /\ seqLens' = [s \in SeqIds |-> IF s \in batch THEN seqLens[s] + 1 ELSE seqLens[s]]
      /\ UNCHANGED <<freeBlocks, refcounts, tables, saved>>
      /\ \A s \in batch : seqLens[s] < MaxLen /\ seqLens[s] \div BlockSize < Len(tables[s])
  BY DEF DecodeStep
<1>4. seqLens' \in [SeqIds -> 0..MaxLen]
  BY <1>3, ConstantsAssumption DEF TypeInv, TypeOK
<1>5. /\ DOMAIN tableCache' \subseteq SeqIds
      /\ tableCache' \in [DOMAIN tableCache' -> Seq(Blocks)]
      /\ DOMAIN lensCache' \subseteq SeqIds
      /\ lensCache' \in [DOMAIN lensCache' -> Nat]
  <2>. HIDE DEF rows, lens
  <2>1. /\ DOMAIN rows = batch /\ rows \in [batch -> Seq(Blocks)]
        /\ DOMAIN lens = batch /\ lens \in [batch -> Nat]
    BY FetchType DEF rows, lens, TypeInv
  <2>. QED BY <1>3, <2>1
<1>6. TypeOK'
  BY <1>2, <1>3, <1>4, <1>5 DEF TypeInv, TypeOK
<1>7. CapacityCoversLength'
  <2>. SUFFICES ASSUME NEW t \in SeqIds PROVE seqLens'[t] <= Len(tables'[t]) * BlockSize
    BY DEF CapacityCoversLength
  <2>1. /\ seqLens[t] \in Nat /\ Len(tables[t]) \in Nat
        /\ seqLens[t] <= Len(tables[t]) * BlockSize
    BY ConstantsAssumption DEF TypeInv, TypeOK, CapacityCoversLength
  <2>2. seqLens[t] \div BlockSize < Len(tables[t]) => seqLens[t] + 1 <= Len(tables[t]) * BlockSize
    BY <2>1, SlotFits
  <2>. QED BY <1>3, <2>1, <2>2
<1>. QED BY <1>6, <1>7 DEF TypeInv

\* The table after a write is long enough for the written tokens.
LEMMA WrittenTableType ==
    ASSUME TypeInv, NEW s \in SeqIds, NEW n \in 1..MaxLen,
           NEW claim \in Claims(ToCopy(s, n) \cup ToGrow(s, n))
    PROVE  /\ WrittenTable(s, n, claim) \in Seq(Blocks)
           /\ seqLens[s] + n <= Len(WrittenTable(s, n, claim)) * BlockSize
<1>. DEFINE new  == WrittenTable(s, n, claim)
            need == CeilDiv(seqLens[s] + n)
            size == IF need > Len(tables[s]) THEN need ELSE Len(tables[s])
<1>1. /\ tables[s] \in Seq(Blocks) /\ Len(tables[s]) \in Nat
      /\ seqLens[s] + n \in Nat
  BY ConstantsAssumption DEF TypeInv, TypeOK
<1>2. need \in Nat /\ seqLens[s] + n <= need * BlockSize
  BY <1>1, CeilDivCovers
<1>3. /\ DOMAIN claim = ToCopy(s, n) \cup ToGrow(s, n)
      /\ \A i \in DOMAIN claim : claim[i] \in Blocks
  BY ClaimFacts DEF TypeInv
<1>4. size \in Nat /\ seqLens[s] + n <= size * BlockSize
  <2>1. CASE need > Len(tables[s])
    BY <2>1, <1>2
  <2>2. CASE ~(need > Len(tables[s]))
    <3>1. need * BlockSize <= Len(tables[s]) * BlockSize
      BY <2>2, <1>1, <1>2, ConstantsAssumption
    <3>. QED BY <2>2, <3>1, <1>1, <1>2, ConstantsAssumption
  <2>. QED BY <2>1, <2>2
<1>5. \A i \in 1..size : i \in DOMAIN claim \/ i \in 1..Len(tables[s])
  BY <1>1, <1>2, <1>3 DEF ToGrow
<1>6. new = [i \in 1..size |-> IF i \in DOMAIN claim THEN claim[i] ELSE tables[s][i]]
  BY DEF WrittenTable
<1>. HIDE DEF size
<1>7. \A i \in 1..size : (IF i \in DOMAIN claim THEN claim[i] ELSE tables[s][i]) \in Blocks
  BY <1>1, <1>3, <1>5
<1>8. new \in Seq(Blocks) /\ Len(new) = size
  BY <1>4, <1>6, <1>7
<1>. QED BY <1>4, <1>8

\* What a write puts in a slot is an entry: the writer, a copy, or the old one.
LEMMA CopiedEntryType ==
    ASSUME TypeInv, NEW s \in SeqIds, NEW n \in 1..MaxLen, NEW claim, NEW x \in Slots
    PROVE  CopiedEntry(s, ToCopy(s, n), claim, x) \in Author
<1>. DEFINE copy == ToCopy(s, n)
            i0 == CHOOSE i \in copy : claim[i] = x[1]
<1>1. CASE \E i \in copy : claim[i] = x[1]
  <2>1. i0 \in copy
    BY <1>1
  <2>2. i0 \in 1..Len(tables[s])
    BY <2>1 DEF ToCopy
  <2>. HIDE DEF i0
  <2>3. tables[s][i0] \in Blocks
    BY <2>2 DEF TypeInv, TypeOK
  <2>4. <<tables[s][i0], x[2]>> \in Slots
    BY <2>3 DEF Slots
  <2>5. CopiedEntry(s, copy, claim, x) = kv[<<tables[s][i0], x[2]>>]
    BY <1>1 DEF CopiedEntry, i0
  <2>. QED BY <2>4, <2>5 DEF TypeInv, TypeOK
<1>2. CASE ~ \E i \in copy : claim[i] = x[1]
  BY <1>2 DEF CopiedEntry, TypeInv, TypeOK
<1>. QED BY <1>1, <1>2

LEMMA PrefillTypeInv ==
    ASSUME TypeInv, NEW s \in SeqIds, NEW n \in 1..MaxLen, Prefill(s, n)
    PROVE  TypeInv'
<1>. DEFINE copy == ToCopy(s, n)
            written(new) == {SlotAt(new, p) : p \in seqLens[s]..(seqLens[s]+n-1)}
<1>1. PICK claim \in Claims(copy \cup ToGrow(s, n)) :
        LET new == WrittenTable(s, n, claim)
        IN  /\ tables' = [tables EXCEPT ![s] = new]
            /\ refcounts' = CountsAfterCopy({tables[s][i] : i \in copy}, Range(claim))
            /\ freeBlocks' = freeBlocks \ Range(claim)
            /\ kv' = [x \in Slots |-> IF x \in written(new) THEN s
                                      ELSE CopiedEntry(s, copy, claim, x)]
            /\ tableCache' \in {<<>>, FetchTable({s}), tableCache}
  BY DEF Prefill
<1>. DEFINE new == WrittenTable(s, n, claim)
<1>2. /\ seqLens[s] + n <= MaxLen
      /\ lensCache' = <<>>
      /\ seqLens' = [seqLens EXCEPT ![s] = seqLens[s] + n]
      /\ UNCHANGED saved
  BY DEF Prefill
<1>3. new \in Seq(Blocks) /\ seqLens[s] + n <= Len(new) * BlockSize
  BY WrittenTableType
<1>4. refcounts' \in [Blocks -> Nat]
  <2>1. ASSUME NEW i \in copy PROVE refcounts[tables[s][i]] > 1
    BY DEF ToCopy
  <2>. QED BY <1>1, <2>1 DEF CountsAfterCopy, TypeInv, TypeOK
<1>5. kv' \in [Slots -> Author]
  BY <1>1, CopiedEntryType DEF Author
<1>6. /\ DOMAIN tableCache' \subseteq SeqIds
      /\ tableCache' \in [DOMAIN tableCache' -> Seq(Blocks)]
  <2>1. tableCache' \in {<<>>, FetchTable({s}), tableCache}
    BY <1>1
  <2>. QED BY <2>1, TableCacheType
<1>7. seqLens' \in [SeqIds -> 0..MaxLen]
  BY <1>2, ConstantsAssumption DEF TypeInv, TypeOK
<1>8. tables' = [tables EXCEPT ![s] = new] /\ freeBlocks' = freeBlocks \ Range(claim)
  BY <1>1
<1>. HIDE DEF new
<1>9. TypeOK'
  BY <1>2, <1>3, <1>4, <1>5, <1>6, <1>7, <1>8 DEF TypeInv, TypeOK
<1>10. CapacityCoversLength'
  BY <1>2, <1>3, <1>8 DEF TypeInv, TypeOK, CapacityCoversLength
<1>. QED BY <1>9, <1>10 DEF TypeInv

LEMMA SerializeTypeInv ==
    ASSUME TypeInv, NEW s \in SeqIds, SerializeSequence(s)
    PROVE  TypeInv'
<1>1. /\ tables[s] \in Seq(Blocks)
      /\ seqLens[s] \in Nat
      /\ seqLens[s] <= Len(tables[s]) * BlockSize
      /\ Len(tables[s]) * BlockSize \in Nat
  BY ConstantsAssumption DEF TypeInv, TypeOK, CapacityCoversLength
<1>2. \A i \in 1..seqLens[s] : SlotAt(tables[s], i - 1) \in Slots
  <2>. TAKE i \in 1..seqLens[s]
  <2>1. i - 1 \in Nat /\ i - 1 < Len(tables[s]) * BlockSize
    BY <1>1
  <2>. QED BY <1>1, <2>1, SlotInTable
<1>3. Reading(s) \in Seq(Author)
  <2>1. \A i \in 1..seqLens[s] : kv[SlotAt(tables[s], i - 1)] \in Author
    BY <1>2 DEF TypeInv, TypeOK
  <2>. QED BY <1>1, <2>1 DEF Reading
<1>4. TypeOK' /\ CapacityCoversLength'
  BY <1>3 DEF SerializeSequence, TypeInv, TypeOK, CapacityCoversLength
<1>. QED BY <1>4 DEF TypeInv

LEMMA DeserializeTypeInv ==
    ASSUME TypeInv, NEW s \in SeqIds, NEW extra \in 0..(MaxLen - Len(saved)),
           DeserializeSequence(s, extra)
    PROVE  TypeInv'
<1>. DEFINE n == BlocksFor(Len(saved) + extra)
            from(claim, x) == CHOOSE i \in DOMAIN saved : SlotAt(claim, i - 1) = x
<1>1. /\ Len(saved) \in Nat /\ extra \in Nat /\ Len(saved) + extra <= MaxLen
      /\ saved \in Seq(Author)
  BY ConstantsAssumption DEF TypeInv, TypeOK
<1>2. n \in Nat \ {0} /\ Len(saved) + extra <= n * BlockSize
  BY <1>1, BlocksForCovers
<1>3. PICK claim \in Claims(1..n) :
          /\ FreshTable(s, n, claim)
          /\ kv' = [x \in Slots |->
                      IF \E i \in DOMAIN saved : SlotAt(claim, i - 1) = x
                        THEN saved[from(claim, x)] ELSE kv[x]]
  BY DEF DeserializeSequence
<1>. HIDE DEF n
<1>4. \A i \in 1..n : claim[i] \in Blocks
  BY ClaimFacts DEF TypeInv
<1>5. [i \in 1..n |-> claim[i]] \in Seq(Blocks) /\ Len([i \in 1..n |-> claim[i]]) = n
  BY <1>2, <1>4
<1>6. tables' = [tables EXCEPT ![s] = [i \in 1..n |-> claim[i]]]
  BY <1>3 DEF FreshTable
<1>7. tables' \in [SeqIds -> Seq(Blocks)]
  BY <1>5, <1>6 DEF TypeInv, TypeOK
<1>8. kv' \in [Slots -> Author]
  <2>1. \A x \in Slots : (\E i \in DOMAIN saved : SlotAt(claim, i - 1) = x)
                            => saved[from(claim, x)] \in Author
    BY <1>1
  <2>. QED BY <1>3, <2>1 DEF TypeInv, TypeOK
<1>9. /\ seqLens' = [seqLens EXCEPT ![s] = Len(saved)]
      /\ tableCache' = <<>> /\ lensCache' = <<>>
      /\ UNCHANGED saved
  BY DEF DeserializeSequence, InvalidateCaches
<1>10. refcounts' \in [Blocks -> Nat] /\ freeBlocks' \in SUBSET Blocks
  BY <1>3, RetainedType DEF FreshTable, TypeInv, TypeOK
<1>11. seqLens' \in [SeqIds -> 0..MaxLen]
  BY <1>1, <1>9, ConstantsAssumption DEF TypeInv, TypeOK
<1>12. TypeOK'
  BY <1>7, <1>8, <1>9, <1>10, <1>11 DEF TypeInv, TypeOK
<1>13. CapacityCoversLength'
  BY <1>1, <1>2, <1>5, <1>6, <1>9, ConstantsAssumption
     DEF TypeInv, TypeOK, CapacityCoversLength
<1>. QED BY <1>12, <1>13 DEF TypeInv

LEMMA NextTypeInv ==
    ASSUME TypeInv, [Next]_vars
    PROVE  TypeInv'
<1>1. CASE UNCHANGED vars
  BY <1>1 DEF vars, TypeInv, TypeOK, CapacityCoversLength
<1>2. ASSUME NEW s \in SeqIds, NEW n \in 0..MaxLen,
             AllocateSequence(s, n) \/ TruncateSequence(s, n)
      PROVE  TypeInv'
  BY <1>2, AllocateTypeInv, TruncateTypeInv
<1>3. ASSUME NEW s \in SeqIds, NEW n \in 1..MaxLen,
             EnsureSequenceCapacity(s, n) \/ Prefill(s, n) \/ PrefillRaises(s, n)
      PROVE  TypeInv'
  BY <1>3, EnsureTypeInv, PrefillTypeInv, PrefillRaisesTypeInv
<1>4. ASSUME NEW s \in SeqIds, FreeSequence(s) \/ SerializeSequence(s)
      PROVE  TypeInv'
  BY <1>4, FreeTypeInv, SerializeTypeInv
<1>5. ASSUME NEW s \in SeqIds, NEW child \in SeqIds, NEW extra \in 0..(MaxLen - seqLens[s]),
             ForkSequencePrefix(s, child, extra)
      PROVE  TypeInv'
  BY <1>5, ForkTypeInv
<1>6. ASSUME NEW s \in SeqIds, NEW extra \in 0..(MaxLen - Len(saved)),
             DeserializeSequence(s, extra)
      PROVE  TypeInv'
  BY <1>6, DeserializeTypeInv
<1>7. ASSUME NEW batch \in SUBSET SeqIds, DecodeStep(batch)
      PROVE  TypeInv'
  BY <1>7, DecodeTypeInv
<1>. QED BY <1>1, <1>2, <1>3, <1>4, <1>5, <1>6, <1>7 DEF Next

\* Every variable keeps its type in every reachable state; in particular every
\* slot attention reads for a live sequence exists.
THEOREM TypeCorrect == Spec => []TypeOK
<1>1. Init => TypeInv
  BY InitTypeInv
<1>2. TypeInv /\ [Next]_vars => TypeInv'
  BY NextTypeInv
<1>3. TypeInv => TypeOK
  BY DEF TypeInv
<1>. QED BY <1>1, <1>2, <1>3, PTL DEF Spec

\* In every reachable state the table of a sequence has room for its tokens,
\* also after an allocation that ran out of blocks half way.
THEOREM CapacityAlways == Spec => []CapacityCoversLength
<1>1. Init => TypeInv
  BY InitTypeInv
<1>2. TypeInv /\ [Next]_vars => TypeInv'
  BY NextTypeInv
<1>3. TypeInv => CapacityCoversLength
  BY DEF TypeInv
<1>. QED BY <1>1, <1>2, <1>3, PTL DEF Spec

-------------------------------------------------------------------------------
(* Block accounting.  A step changes one table; the count of a block must move *)
(* with the number of tables that list it.                                     *)

Inv == TypeInv /\ BlockAccounting

\* 1 when block b is in table t, else 0.
Listed(b, t) == IF b \in Range(t) THEN 1 ELSE 0

LEMMA HoldersFinite ==
    ASSUME NEW b
    PROVE  IsFiniteSet(Holders(b)) /\ Cardinality(Holders(b)) \in Nat
<1>1. Holders(b) \in SUBSET SeqIds
  BY DEF Holders
<1>. QED BY <1>1, FS_Subset, FS_CardinalityType, ConstantsAssumption

\* A held block has a positive count; a free block is in no table.
LEMMA HeldIsCounted ==
    ASSUME Inv, NEW s \in SeqIds, NEW b \in Blocks
    PROVE  /\ b \in Range(tables[s]) => refcounts[b] > 0
           /\ b \in freeBlocks => refcounts[b] = 0 /\ b \notin Range(tables[s])
<1>1. /\ refcounts[b] = Cardinality(Holders(b))
      /\ b \in freeBlocks <=> refcounts[b] = 0
  BY DEF Inv, BlockAccounting
<1>2. b \in Range(tables[s]) => Holders(b) # {}
  BY DEF Holders
<1>3. Holders(b) # {} => Cardinality(Holders(b)) # 0
  BY HoldersFinite, FS_EmptySet
<1>. QED BY <1>1, <1>2, <1>3, HoldersFinite

\* How the number of holders of a block follows the replacement of a table.
LEMMA HoldersChange ==
    ASSUME TypeOK, NEW s \in SeqIds, NEW row, NEW b,
           tables' = [tables EXCEPT ![s] = row]
    PROVE  Cardinality(Holders(b)') =
             Cardinality(Holders(b)) - Listed(b, tables[s]) + Listed(b, row)
<1>1. tables \in [SeqIds -> Seq(Blocks)]
  BY DEF TypeOK
<1>. DEFINE H == Holders(b)
            others == H \ {s}
<1>2. IsFiniteSet(H) /\ Cardinality(H) \in Nat
  BY HoldersFinite
<1>3. s \in H <=> b \in Range(tables[s])
  BY DEF Holders
<1>4. Holders(b)' = IF b \in Range(row) THEN others \cup {s} ELSE others
  BY <1>1 DEF Holders
<1>. HIDE DEF H
<1>5. /\ IsFiniteSet(others)
      /\ Cardinality(others) = IF s \in H THEN Cardinality(H) - 1 ELSE Cardinality(H)
  BY <1>2, FS_RemoveElement
<1>6. Cardinality(others \cup {s}) = Cardinality(others) + 1
  BY <1>5, FS_AddElement
<1>7. Cardinality(others) \in Int
  BY <1>2, <1>5
<1>. QED BY <1>2, <1>3, <1>4, <1>5, <1>6, <1>7 DEF Listed, H

\* A step that replaces one table by a row without repetitions and moves every
\* count accordingly preserves the accounting.
LEMMA AccountingStep ==
    ASSUME Inv, NEW s \in SeqIds, NEW row, IsInjective(row),
           tables' = [tables EXCEPT ![s] = row],
           refcounts' \in [Blocks -> Nat],
           \A b \in Blocks :
              refcounts'[b] = refcounts[b] - Listed(b, tables[s]) + Listed(b, row),
           freeBlocks' = {b \in Blocks : refcounts'[b] = 0}
    PROVE  BlockAccounting'
<1>1. \A t \in SeqIds : IsInjective(tables'[t])
  BY DEF Inv, TypeInv, TypeOK, BlockAccounting
<1>2. ASSUME NEW b \in Blocks PROVE refcounts'[b] = Cardinality(Holders(b)')
  <2>1. refcounts[b] = Cardinality(Holders(b))
    BY DEF Inv, BlockAccounting
  <2>2. Cardinality(Holders(b)') =
           Cardinality(Holders(b)) - Listed(b, tables[s]) + Listed(b, row)
    BY HoldersChange DEF Inv, TypeInv
  <2>. QED BY <2>1, <2>2
<1>. QED BY <1>1, <1>2 DEF BlockAccounting

\* A fresh table for a sequence that had none.
LEMMA FreshAccounting ==
    ASSUME Inv, NEW s \in SeqIds, s \notin Live, NEW n \in Nat,
           NEW claim \in Claims(1..n), FreshTable(s, n, claim)
    PROVE  BlockAccounting'
<1>. DEFINE row == [i \in 1..n |-> claim[i]]
<1>1. /\ DOMAIN claim = 1..n
      /\ \A i, j \in 1..n : claim[i] = claim[j] => i = j
      /\ Range(claim) = {claim[i] : i \in 1..n}
      /\ Range(claim) \subseteq freeBlocks
      /\ freeBlocks \subseteq Blocks
  <2>1. TypeOK
    BY DEF Inv, TypeInv
  <2>2. freeBlocks \subseteq Blocks
    BY <2>1 DEF TypeOK
  <2>. QED BY <2>1, <2>2, ClaimFacts
<1>2. IsInjective(row) /\ Range(row) = Range(claim)
  BY <1>1 DEF IsInjective, Range
<1>3. Range(tables[s]) = {}
  BY DEF Live, Range
<1>4. /\ tables' = [tables EXCEPT ![s] = row]
      /\ refcounts' = Retained(Range(claim), {})
      /\ freeBlocks' = freeBlocks \ Range(claim)
  BY DEF FreshTable
<1>5. refcounts' \in [Blocks -> Nat]
  BY <1>4, RetainedType DEF Inv, TypeInv
<1>6. /\ refcounts \in [Blocks -> Nat]
      /\ \A b \in freeBlocks : refcounts[b] = 0
      /\ freeBlocks = {b \in Blocks : refcounts[b] = 0}
  BY DEF Inv, TypeInv, TypeOK, BlockAccounting
<1>7. \A b \in Blocks : refcounts'[b] = IF b \in Range(claim) THEN 1 ELSE refcounts[b]
  BY <1>4 DEF Retained
<1>. HIDE DEF row
<1>8. \A b \in Blocks :
        refcounts'[b] = refcounts[b] - Listed(b, tables[s]) + Listed(b, row)
  BY <1>1, <1>2, <1>3, <1>6, <1>7 DEF Listed
<1>9. freeBlocks' = {b \in Blocks : refcounts'[b] = 0}
  BY <1>4, <1>6, <1>7
<1>. QED BY <1>2, <1>4, <1>5, <1>8, <1>9, AccountingStep

\* A table that loses the blocks of B, which it lists once each.
LEMMA ReleaseAccounting ==
    ASSUME Inv, NEW s \in SeqIds, NEW row, IsInjective(row),
           NEW B \in SUBSET Range(tables[s]), Release(B),
           Range(row) = Range(tables[s]) \ B,
           tables' = [tables EXCEPT ![s] = row]
    PROVE  BlockAccounting'
<1>1. /\ refcounts \in [Blocks -> Nat]
      /\ Range(tables[s]) \subseteq Blocks
  BY DEF Inv, TypeInv, TypeOK, Range
<1>2. refcounts' \in [Blocks -> Nat]
  BY <1>1, ReleaseType DEF Inv, TypeInv
<1>3. \A b \in Blocks :
        refcounts'[b] = IF b \in B THEN refcounts[b] - 1 ELSE refcounts[b]
  BY HeldIsCounted DEF Release
<1>4. \A b \in Blocks :
        refcounts'[b] = refcounts[b] - Listed(b, tables[s]) + Listed(b, row)
  BY <1>1, <1>3 DEF Listed
<1>5. freeBlocks' = freeBlocks \cup {b \in B : refcounts[b] = 1}
  BY DEF Release
<1>6. freeBlocks = {b \in Blocks : refcounts[b] = 0}
  BY DEF Inv, BlockAccounting
<1>7. freeBlocks' = {b \in Blocks : refcounts'[b] = 0}
  BY <1>1, <1>3, <1>5, <1>6, HeldIsCounted
<1>. QED BY <1>2, <1>4, <1>7, AccountingStep

LEMMA AllocateAccounting ==
    ASSUME Inv, NEW s \in SeqIds, NEW n \in 0..MaxLen, AllocateSequence(s, n)
    PROVE  BlockAccounting'
<1>1. BlocksFor(n) \in Nat
  BY BlocksForCovers, ConstantsAssumption
<1>. QED BY <1>1, FreshAccounting DEF AllocateSequence

LEMMA DeserializeAccounting ==
    ASSUME Inv, NEW s \in SeqIds, NEW extra \in 0..(MaxLen - Len(saved)),
           DeserializeSequence(s, extra)
    PROVE  BlockAccounting'
<1>1. Len(saved) + extra \in Nat
  BY ConstantsAssumption DEF Inv, TypeInv, TypeOK
<1>2. BlocksFor(Len(saved) + extra) \in Nat
  BY <1>1, BlocksForCovers
<1>. QED BY <1>2, FreshAccounting DEF DeserializeSequence

LEMMA FreeAccounting ==
    ASSUME Inv, NEW s \in SeqIds, FreeSequence(s)
    PROVE  BlockAccounting'
<1>1. IsInjective(<<>>) /\ Range(<<>>) = {}
  BY DEF IsInjective, Range
<1>. QED BY <1>1, ReleaseAccounting DEF FreeSequence

LEMMA TruncateAccounting ==
    ASSUME Inv, NEW s \in SeqIds, NEW n \in 0..MaxLen, TruncateSequence(s, n)
    PROVE  BlockAccounting'
<1>. DEFINE t == tables[s]
            keep == BlocksFor(n)
            row == SubSeq(t, 1, keep)
            gone == {t[i] : i \in (keep+1)..Len(t)}
<1>1. /\ t \in Seq(Blocks) /\ Len(t) \in Nat
      /\ seqLens[s] <= Len(t) * BlockSize
      /\ n < seqLens[s] /\ seqLens[s] \in Nat /\ n \in Nat
      /\ IsInjective(t)
  BY ConstantsAssumption
     DEF TruncateSequence, Inv, TypeInv, TypeOK, CapacityCoversLength, BlockAccounting
<1>2. keep \in Nat \ {0}
  BY <1>1, BlocksForCovers
<1>3. keep <= Len(t)
  <2>1. Len(t) # 0 /\ n <= Len(t) * BlockSize
    BY <1>1, ConstantsAssumption
  <2>. QED BY <1>1, <2>1, BlocksForLeast
<1>4. Release(gone) /\ tables' = [tables EXCEPT ![s] = row]
  BY DEF TruncateSequence
<1>. HIDE DEF t, keep
<1>5. /\ DOMAIN row = 1..keep
      /\ \A i \in 1..keep : row[i] = t[i]
      /\ DOMAIN t = 1..Len(t)
  BY <1>1, <1>2, <1>3
<1>6. gone \in SUBSET Range(t)
  BY <1>1, <1>2 DEF Range
<1>. HIDE DEF row
<1>7. IsInjective(row)
  BY <1>1, <1>2, <1>3, <1>5 DEF IsInjective
<1>8. Range(row) = Range(t) \ gone
  <2>1. Range(row) = {t[i] : i \in 1..keep}
    BY <1>5 DEF Range
  <2>2. Range(t) = {t[i] : i \in 1..Len(t)}
    BY <1>5 DEF Range
  <2>3. ASSUME NEW i \in 1..keep, NEW j \in (keep+1)..Len(t) PROVE t[i] # t[j]
    BY <1>1, <1>2, <1>3, <1>5 DEF IsInjective
  <2>. QED BY <1>1, <1>2, <1>3, <2>1, <2>2, <2>3
<1>. HIDE DEF gone
<1>. QED BY <1>4, <1>6, <1>7, <1>8, ReleaseAccounting DEF t

\* A table whose new row adds claimed blocks to blocks it already listed.
LEMMA ClaimAccounting ==
    ASSUME Inv, NEW s \in SeqIds, NEW row, IsInjective(row), NEW I, NEW claim \in Claims(I),
           NEW dropped \in SUBSET Range(tables[s]),
           Range(row) = (Range(tables[s]) \ dropped) \cup Range(claim),
           \A b \in dropped : refcounts[b] > 1,
           tables' = [tables EXCEPT ![s] = row],
           \A b \in Blocks : refcounts'[b] =
              IF b \in Range(claim) THEN 1
              ELSE IF b \in dropped THEN refcounts[b] - 1 ELSE refcounts[b],
           refcounts' \in [Blocks -> Nat],
           freeBlocks' = freeBlocks \ Range(claim)
    PROVE  BlockAccounting'
<1>1. Range(claim) \subseteq freeBlocks /\ Range(claim) \subseteq Blocks
  BY ClaimFacts DEF Inv, TypeInv
<1>2. /\ refcounts \in [Blocks -> Nat]
      /\ freeBlocks = {b \in Blocks : refcounts[b] = 0}
      /\ Range(tables[s]) \subseteq Blocks
  BY DEF Inv, TypeInv, TypeOK, BlockAccounting, Range
<1>3. \A b \in Range(claim) : refcounts[b] = 0 /\ b \notin Range(tables[s])
  BY <1>1, HeldIsCounted
<1>4. \A b \in Blocks :
        refcounts'[b] = refcounts[b] - Listed(b, tables[s]) + Listed(b, row)
  BY <1>2, <1>3 DEF Listed
<1>5. freeBlocks' = {b \in Blocks : refcounts'[b] = 0}
  BY <1>1, <1>2, <1>3
<1>. QED BY <1>4, <1>5, AccountingStep

\* Growing a table claims blocks and drops none.
LEMMA GrowAccounting ==
    ASSUME Inv, NEW s \in SeqIds, NEW got \in Nat,
           NEW claim \in Claims((Len(tables[s])+1)..(Len(tables[s])+got)),
           tables' = [tables EXCEPT ![s] =
                        [i \in 1..(Len(tables[s])+got) |->
                            IF i \in (Len(tables[s])+1)..(Len(tables[s])+got)
                              THEN claim[i] ELSE tables[s][i]]],
           refcounts' = Retained(Range(claim), {}),
           freeBlocks' = freeBlocks \ Range(claim)
    PROVE  BlockAccounting'
<1>. DEFINE t == tables[s]
            tail == (Len(t)+1)..(Len(t)+got)
            row == [i \in 1..(Len(t)+got) |-> IF i \in tail THEN claim[i] ELSE t[i]]
<1>1. TypeOK
  BY DEF Inv, TypeInv
<1>2. /\ t \in Seq(Blocks) /\ Len(t) \in Nat /\ DOMAIN t = 1..Len(t) /\ IsInjective(t)
      /\ refcounts \in [Blocks -> Nat]
  BY DEF Inv, TypeInv, TypeOK, BlockAccounting
<1>3. claim \in Claims(tail)
  OBVIOUS
<1>4. tables' = [tables EXCEPT ![s] = row]
  OBVIOUS
<1>. HIDE DEF t, tail
<1>5. /\ DOMAIN claim = tail
      /\ \A i, j \in tail : claim[i] = claim[j] => i = j
      /\ Range(claim) = {claim[i] : i \in tail}
      /\ Range(claim) \subseteq freeBlocks /\ Range(claim) \subseteq Blocks
  BY <1>1, <1>3, ClaimFacts
<1>6. \A b \in Range(claim) : b \notin Range(t)
  BY <1>5, HeldIsCounted DEF t
<1>7. \A i \in tail, j \in 1..Len(t) : claim[i] # t[j]
  <2>1. \A j \in 1..Len(t) : t[j] \in Range(t)
    BY <1>2 DEF Range
  <2>2. \A i \in tail : claim[i] \in Range(claim)
    BY <1>5
  <2>. QED BY <1>6, <2>1, <2>2
<1>8. 1..(Len(t)+got) = (1..Len(t)) \cup tail /\ (1..Len(t)) \cap tail = {}
  BY <1>2 DEF tail
<1>9. IsInjective(row)
  <2>. SUFFICES ASSUME NEW i \in 1..(Len(t)+got), NEW j \in 1..(Len(t)+got), row[i] = row[j]
                PROVE  i = j
    BY DEF IsInjective
  <2>. QED BY <1>2, <1>5, <1>7, <1>8 DEF IsInjective
<1>10. Range(row) = Range(t) \cup Range(claim)
  <2>1. Range(row) = {row[i] : i \in 1..(Len(t)+got)}
    BY DEF Range
  <2>2. Range(t) = {t[i] : i \in 1..Len(t)}
    BY <1>2 DEF Range
  <2>3. \A i \in 1..Len(t) : i \in 1..(Len(t)+got) /\ row[i] = t[i]
    BY <1>8
  <2>4. \A i \in tail : i \in 1..(Len(t)+got) /\ row[i] = claim[i]
    BY <1>8
  <2>5. \A i \in 1..(Len(t)+got) : i \in 1..Len(t) \/ i \in tail
    BY <1>8
  <2>6. Range(claim) = {claim[i] : i \in tail}
    BY <1>5
  <2>. HIDE DEF row
  <2>7. Range(row) \subseteq Range(t) \cup Range(claim)
    BY <2>1, <2>2, <2>3, <2>4, <2>5, <2>6
  <2>8. Range(t) \subseteq Range(row)
    BY <2>1, <2>2, <2>3
  <2>9. Range(claim) \subseteq Range(row)
    BY <2>1, <2>4, <2>6
  <2>. QED BY <2>7, <2>8, <2>9
<1>11. refcounts' \in [Blocks -> Nat]
  BY <1>1, RetainedType
<1>. DEFINE none == {}
<1>12. \A b \in Blocks : refcounts'[b] =
          IF b \in Range(claim) THEN 1 ELSE IF b \in none THEN refcounts[b] - 1 ELSE refcounts[b]
  BY DEF Retained
<1>13. Range(row) = (Range(tables[s]) \ none) \cup Range(claim)
  BY <1>10 DEF t
<1>14. none \in SUBSET Range(tables[s]) /\ \A b \in none : refcounts[b] > 1
  OBVIOUS
<1>15. freeBlocks' = freeBlocks \ Range(claim)
  OBVIOUS
<1>. HIDE DEF row, none
<1>. QED BY <1>3, <1>4, <1>9, <1>11, <1>12, <1>13, <1>14, <1>15, ClaimAccounting

LEMMA EnsureAccounting ==
    ASSUME Inv, NEW s \in SeqIds, NEW n \in 1..MaxLen, EnsureSequenceCapacity(s, n)
    PROVE  BlockAccounting'
<1>. DEFINE missing == BlocksFor(seqLens[s] + n) - Len(tables[s])
            got     == IF missing <= Cardinality(freeBlocks)
                         THEN missing ELSE Cardinality(freeBlocks)
            tail    == (Len(tables[s])+1)..(Len(tables[s])+got)
<1>1. PICK claim \in Claims(tail) :
          /\ tables' = [tables EXCEPT ![s] =
                          [i \in 1..(Len(tables[s])+got) |->
                              IF i \in tail THEN claim[i] ELSE tables[s][i]]]
          /\ refcounts' = Retained(Range(claim), {})
          /\ freeBlocks' = freeBlocks \ Range(claim)
  BY DEF EnsureSequenceCapacity
<1>2. got \in Nat
  <2>1. seqLens[s] + n \in Nat /\ Len(tables[s]) \in Nat
    BY ConstantsAssumption DEF Inv, TypeInv, TypeOK
  <2>2. Cardinality(freeBlocks) \in Nat
    BY FS_Subset, FS_CardinalityType, ConstantsAssumption DEF Inv, TypeInv, TypeOK
  <2>3. BlocksFor(seqLens[s] + n) \in Nat
    BY <2>1, BlocksForCovers
  <2>4. got > 0
    BY DEF EnsureSequenceCapacity
  <2>. QED BY <2>1, <2>2, <2>3, <2>4
<1>. HIDE DEF got
<1>. QED BY <1>1, <1>2, GrowAccounting

LEMMA PrefillRaisesAccounting ==
    ASSUME Inv, NEW s \in SeqIds, NEW n \in 1..MaxLen, PrefillRaises(s, n)
    PROVE  BlockAccounting'
<1>. DEFINE grow == ToGrow(s, n)
            got  == IF Cardinality(grow) <= Cardinality(freeBlocks)
                      THEN Cardinality(grow) ELSE Cardinality(freeBlocks)
            tail == (Len(tables[s])+1)..(Len(tables[s])+got)
<1>1. PICK claim \in Claims(tail) :
          /\ tables' = [tables EXCEPT ![s] =
                          [i \in 1..(Len(tables[s])+got) |->
                              IF i \in tail THEN claim[i] ELSE tables[s][i]]]
          /\ refcounts' = Retained(Range(claim), {})
          /\ freeBlocks' = freeBlocks \ Range(claim)
  BY DEF PrefillRaises
<1>2. got \in Nat
  <2>1. Cardinality(freeBlocks) \in Nat
    BY FS_Subset, FS_CardinalityType, ConstantsAssumption DEF Inv, TypeInv, TypeOK
  <2>2. Len(tables[s]) + 1 \in Int /\ seqLens[s] + n \in Nat
    BY ConstantsAssumption DEF Inv, TypeInv, TypeOK
  <2>3. CeilDiv(seqLens[s] + n) \in Int
    BY <2>2, CeilDivCovers
  <2>4. IsFiniteSet(grow)
    BY <2>2, <2>3, FS_Interval DEF ToGrow
  <2>5. Cardinality(grow) \in Nat
    BY <2>4, FS_CardinalityType
  <2>. QED BY <2>1, <2>5
<1>. HIDE DEF got
<1>. QED BY <1>1, <1>2, GrowAccounting

\* The child shares the blocks of the prefix, each of which gains a reference.
LEMMA ForkAccounting ==
    ASSUME Inv, NEW s \in SeqIds, NEW child \in SeqIds,
           NEW extra \in 0..(MaxLen - seqLens[s]), ForkSequencePrefix(s, child, extra)
    PROVE  BlockAccounting'
<1>. DEFINE t     == tables[s]
            data  == BlocksFor(seqLens[s])
            total == BlocksFor(seqLens[s] + extra)
            fresh == (data+1)..total
            kept  == {t[i] : i \in 1..data}
<1>1. PICK claim \in Claims(fresh) :
          /\ tables' = [tables EXCEPT ![child] =
                          [i \in 1..total |-> IF i <= data THEN t[i] ELSE claim[i]]]
          /\ refcounts' = Retained(Range(claim), kept)
          /\ freeBlocks' = freeBlocks \ Range(claim)
  BY DEF ForkSequencePrefix
<1>. DEFINE row == [i \in 1..total |-> IF i <= data THEN t[i] ELSE claim[i]]
<1>2. TypeOK
  BY DEF Inv, TypeInv
<1>3. seqLens[s] \in Nat /\ extra \in Nat /\ seqLens[s] + extra \in Nat
  BY <1>2, ConstantsAssumption DEF TypeOK
<1>4. data \in Nat \ {0} /\ total \in Nat \ {0} /\ data <= total
  <2>1. data \in Nat \ {0} /\ total \in Nat \ {0}
    BY <1>3, BlocksForCovers
  <2>2. seqLens[s] <= total * BlockSize
    <3>1. seqLens[s] + extra <= total * BlockSize
      BY <1>3, BlocksForCovers
    <3>. QED BY <1>3, <2>1, <3>1, ConstantsAssumption
  <2>. QED BY <1>3, <2>1, <2>2, BlocksForLeast
<1>5. /\ t \in Seq(Blocks) /\ Len(t) \in Nat /\ DOMAIN t = 1..Len(t) /\ data <= Len(t)
      /\ IsInjective(t)
      /\ child \notin Live
  BY <1>2 DEF ForkSequencePrefix, TypeOK, Inv, BlockAccounting
<1>6. tables' = [tables EXCEPT ![child] = row]
  BY <1>1
<1>. HIDE DEF t, data, total, fresh
<1>7. /\ DOMAIN claim = fresh
      /\ \A i, j \in fresh : claim[i] = claim[j] => i = j
      /\ Range(claim) = {claim[i] : i \in fresh}
      /\ Range(claim) \subseteq freeBlocks /\ Range(claim) \subseteq Blocks
  BY <1>1, <1>2, ClaimFacts
<1>8. kept \subseteq Range(t)
  BY <1>4, <1>5 DEF Range
<1>9. \A b \in Range(claim) : refcounts[b] = 0 /\ b \notin Range(t)
  BY <1>7, HeldIsCounted DEF t
<1>10. \A i \in 1..total : \/ i \in 1..data /\ row[i] = t[i] /\ t[i] \in kept
                           \/ i \in fresh /\ row[i] = claim[i] /\ claim[i] \in Range(claim)
  <2>1. \A i \in 1..total : (i \in 1..data /\ i <= data) \/ (i \in fresh /\ ~(i <= data))
    BY <1>4 DEF fresh
  <2>. QED BY <1>7, <2>1
<1>11. /\ \A i \in 1..data : i \in 1..total /\ row[i] = t[i]
       /\ \A i \in fresh : i \in 1..total /\ row[i] = claim[i]
  BY <1>4 DEF fresh
<1>12. DOMAIN row = 1..total /\ Range(row) = {row[i] : i \in 1..total}
  BY DEF Range
<1>. HIDE DEF row
<1>13. IsInjective(row)
  <2>. SUFFICES ASSUME NEW i \in 1..total, NEW j \in 1..total, row[i] = row[j]
                PROVE  i = j
    BY <1>12 DEF IsInjective
  <2>1. CASE i \in 1..data /\ j \in 1..data
    <3>1. i \in DOMAIN t /\ j \in DOMAIN t /\ t[i] = t[j]
      BY <2>1, <1>4, <1>5, <1>11
    <3>. QED BY <3>1, <1>5 DEF IsInjective
  <2>2. CASE i \in fresh /\ j \in fresh
    BY <2>2, <1>7, <1>11
  <2>3. CASE ~(i \in 1..data /\ j \in 1..data) /\ ~(i \in fresh /\ j \in fresh)
    BY <2>3, <1>8, <1>9, <1>10
  <2>. QED BY <2>1, <2>2, <2>3
<1>14. Range(row) = kept \cup Range(claim)
  <2>1. Range(row) \subseteq kept \cup Range(claim)
    BY <1>10, <1>12
  <2>2. kept \subseteq Range(row)
    BY <1>11, <1>12
  <2>3. Range(claim) \subseteq Range(row)
    BY <1>7, <1>11, <1>12
  <2>. QED BY <2>1, <2>2, <2>3
<1>. HIDE DEF kept
<1>15. Range(tables[child]) = {}
  BY <1>5 DEF Live, Range
<1>16. refcounts' \in [Blocks -> Nat]
  BY <1>1, <1>2, RetainedType
<1>17. \A b \in Blocks : refcounts'[b] = IF b \in Range(claim) THEN 1
                                         ELSE IF b \in kept THEN refcounts[b] + 1
                                         ELSE refcounts[b]
  BY <1>1 DEF Retained
<1>18. refcounts \in [Blocks -> Nat] /\ freeBlocks = {b \in Blocks : refcounts[b] = 0}
  BY <1>2 DEF TypeOK, Inv, BlockAccounting
<1>19. \A b \in Blocks :
         refcounts'[b] = refcounts[b] - Listed(b, tables[child]) + Listed(b, row)
  BY <1>9, <1>14, <1>15, <1>17, <1>18 DEF Listed
<1>20. \A b \in kept : refcounts[b] > 0
  <2>1. Range(t) \subseteq Blocks
    BY <1>5 DEF Range
  <2>. QED BY <1>8, <2>1, HeldIsCounted DEF t
<1>21. freeBlocks' = {b \in Blocks : refcounts'[b] = 0}
  BY <1>1, <1>17, <1>18, <1>20
<1>. QED BY <1>6, <1>13, <1>16, <1>19, <1>21, AccountingStep

\* A write swaps each shared block it touches for a fresh copy.
LEMMA PrefillAccounting ==
    ASSUME Inv, NEW s \in SeqIds, NEW n \in 1..MaxLen, Prefill(s, n)
    PROVE  BlockAccounting'
<1>. DEFINE t    == tables[s]
            copy == ToCopy(s, n)
            grow == ToGrow(s, n)
            I    == copy \cup grow
            need == CeilDiv(seqLens[s] + n)
            size == IF need > Len(t) THEN need ELSE Len(t)
            gone == {t[i] : i \in copy}
<1>1. PICK claim \in Claims(I) :
          /\ tables' = [tables EXCEPT ![s] = WrittenTable(s, n, claim)]
          /\ refcounts' = CountsAfterCopy(gone, Range(claim))
          /\ freeBlocks' = freeBlocks \ Range(claim)
  BY DEF Prefill
<1>. DEFINE row == [i \in 1..size |-> IF i \in DOMAIN claim THEN claim[i] ELSE t[i]]
<1>2. tables' = [tables EXCEPT ![s] = row]
  BY <1>1 DEF WrittenTable
<1>3. TypeOK
  BY DEF Inv, TypeInv
<1>4. /\ t \in Seq(Blocks) /\ Len(t) \in Nat /\ DOMAIN t = 1..Len(t) /\ IsInjective(t)
      /\ refcounts \in [Blocks -> Nat]
  BY <1>3 DEF TypeOK, Inv, BlockAccounting
<1>5. need \in Nat
  <2>1. seqLens[s] + n \in Nat
    BY <1>3, ConstantsAssumption DEF TypeOK
  <2>. QED BY <2>1, CeilDivCovers
<1>6. copy \subseteq 1..Len(t) /\ grow = (Len(t)+1)..need
  BY DEF ToCopy, ToGrow
<1>7. \A b \in gone : refcounts[b] > 1
  BY DEF ToCopy
<1>. HIDE DEF t, copy, grow, need
<1>8. /\ 1..size = (1..Len(t)) \cup grow
      /\ (1..Len(t)) \cap grow = {}
  BY <1>4, <1>5, <1>6
<1>. HIDE DEF size, I
<1>9. /\ DOMAIN claim = I
      /\ \A i, j \in I : claim[i] = claim[j] => i = j
      /\ Range(claim) = {claim[i] : i \in I}
      /\ Range(claim) \subseteq freeBlocks /\ Range(claim) \subseteq Blocks
  BY <1>1, <1>3, ClaimFacts
<1>10. \A b \in Range(claim) : b \notin Range(t)
  BY <1>9, HeldIsCounted DEF t
<1>11. /\ \A i \in I : i \in 1..size /\ row[i] = claim[i] /\ claim[i] \in Range(claim)
       /\ \A i \in (1..Len(t)) \ copy : i \in 1..size /\ i \notin I /\ row[i] = t[i]
       /\ \A i \in 1..size : i \in I \/ i \in (1..Len(t)) \ copy
  BY <1>6, <1>8, <1>9 DEF I
<1>12. /\ Range(row) = {row[i] : i \in 1..size} /\ DOMAIN row = 1..size
       /\ Range(t) = {t[i] : i \in 1..Len(t)}
  BY <1>4 DEF Range
<1>. HIDE DEF row
<1>13. \A i, j \in 1..Len(t) : t[i] = t[j] => i = j
  BY <1>4 DEF IsInjective
<1>14. IsInjective(row)
  <2>. SUFFICES ASSUME NEW i \in 1..size, NEW j \in 1..size, row[i] = row[j]
                PROVE  i = j
    BY <1>12 DEF IsInjective
  <2>1. CASE i \in I /\ j \in I
    BY <2>1, <1>9, <1>11
  <2>2. CASE i \notin I /\ j \notin I
    BY <2>2, <1>11, <1>13
  <2>3. CASE i \in I /\ j \notin I
    BY <2>3, <1>10, <1>11, <1>12
  <2>4. CASE i \notin I /\ j \in I
    BY <2>4, <1>10, <1>11, <1>12
  <2>. QED BY <2>1, <2>2, <2>3, <2>4
<1>15. gone \in SUBSET Range(t)
  BY <1>6, <1>12
<1>16. Range(row) = (Range(t) \ gone) \cup Range(claim)
  <2>1. \A i \in (1..Len(t)) \ copy : t[i] \in Range(t) /\ t[i] \notin gone
    BY <1>6, <1>12, <1>13
  <2>2. Range(row) \subseteq (Range(t) \ gone) \cup Range(claim)
    BY <1>11, <1>12, <2>1
  <2>3. Range(t) \ gone \subseteq Range(row)
    <3>1. ASSUME NEW b \in Range(t) \ gone PROVE b \in Range(row)
      <4>1. PICK i \in 1..Len(t) : b = t[i]
        BY <1>12
      <4>2. i \in (1..Len(t)) \ copy
        BY <4>1
      <4>. QED BY <1>11, <1>12, <4>1, <4>2
    <3>. QED BY <3>1
  <2>4. Range(claim) \subseteq Range(row)
    BY <1>9, <1>11, <1>12
  <2>. QED BY <2>2, <2>3, <2>4
<1>. HIDE DEF gone
<1>17. \A b \in Blocks : refcounts'[b] =
          IF b \in Range(claim) THEN 1
          ELSE IF b \in gone THEN refcounts[b] - 1 ELSE refcounts[b]
  BY <1>1 DEF CountsAfterCopy
<1>18. refcounts' \in [Blocks -> Nat]
  BY <1>1, <1>4, <1>7 DEF CountsAfterCopy
<1>. QED BY <1>1, <1>2, <1>7, <1>14, <1>15, <1>16, <1>17, <1>18, ClaimAccounting DEF t

\* Decoding and taking a snapshot neither claim nor release a block.
LEMMA UnchangedAccounting ==
    ASSUME Inv, UNCHANGED <<freeBlocks, refcounts, tables>>
    PROVE  BlockAccounting'
<1>1. \A b : Holders(b)' = Holders(b)
  BY DEF Holders
<1>. QED BY <1>1 DEF Inv, BlockAccounting

LEMMA NextInv ==
    ASSUME Inv, [Next]_vars
    PROVE  Inv'
<1>1. TypeInv'
  BY NextTypeInv DEF Inv
<1>2. ASSUME UNCHANGED vars PROVE BlockAccounting'
  <2>1. UNCHANGED <<freeBlocks, refcounts, tables>>
    BY <1>2 DEF vars
  <2>. QED BY <2>1, UnchangedAccounting
<1>3. ASSUME NEW s \in SeqIds, NEW n \in 0..MaxLen,
             AllocateSequence(s, n) \/ TruncateSequence(s, n)
      PROVE  BlockAccounting'
  BY <1>3, AllocateAccounting, TruncateAccounting
<1>4. ASSUME NEW s \in SeqIds, NEW n \in 1..MaxLen,
             EnsureSequenceCapacity(s, n) \/ Prefill(s, n) \/ PrefillRaises(s, n)
      PROVE  BlockAccounting'
  BY <1>4, EnsureAccounting, PrefillAccounting, PrefillRaisesAccounting
<1>5. ASSUME NEW s \in SeqIds, FreeSequence(s) \/ SerializeSequence(s)
      PROVE  BlockAccounting'
  <2>1. SerializeSequence(s) => UNCHANGED <<freeBlocks, refcounts, tables>>
    BY DEF SerializeSequence
  <2>. QED BY <1>5, <2>1, FreeAccounting, UnchangedAccounting
<1>6. ASSUME NEW s \in SeqIds, NEW child \in SeqIds, NEW extra \in 0..(MaxLen - seqLens[s]),
             ForkSequencePrefix(s, child, extra)
      PROVE  BlockAccounting'
  BY <1>6, ForkAccounting
<1>7. ASSUME NEW s \in SeqIds, NEW extra \in 0..(MaxLen - Len(saved)),
             DeserializeSequence(s, extra)
      PROVE  BlockAccounting'
  BY <1>7, DeserializeAccounting
<1>8. ASSUME NEW batch \in SUBSET SeqIds, DecodeStep(batch)
      PROVE  BlockAccounting'
  <2>1. UNCHANGED <<freeBlocks, refcounts, tables>>
    BY <1>8 DEF DecodeStep
  <2>. QED BY <2>1, UnchangedAccounting
<1>9. BlockAccounting'
  BY <1>2, <1>3, <1>4, <1>5, <1>6, <1>7, <1>8 DEF Next
<1>. QED BY <1>1, <1>9 DEF Inv

\* Before the first operation every block is free and in no table.
LEMMA InitInv == Init => Inv
<1>. SUFFICES ASSUME Init PROVE Inv
  OBVIOUS
<1>1. TypeInv
  BY InitTypeInv
<1>2. \A s \in SeqIds : IsInjective(tables[s]) /\ Range(tables[s]) = {}
  BY DEF Init, IsInjective, Range
<1>3. \A b \in Blocks : Holders(b) = {}
  BY <1>2 DEF Holders
<1>4. \A b \in Blocks : refcounts[b] = Cardinality(Holders(b))
  BY <1>3, FS_EmptySet DEF Init
<1>5. freeBlocks = {b \in Blocks : refcounts[b] = 0}
  BY DEF Init
<1>. QED BY <1>1, <1>2, <1>4, <1>5 DEF Inv, BlockAccounting

\* In every reachable state the reference count of a block is the number of
\* tables that list it and the free list is the blocks with none: no block is
\* freed under a sequence that still reads it, and none is lost.
THEOREM AccountingExact == Spec => []BlockAccounting
<1>1. Init => Inv
  BY InitInv
<1>2. Inv /\ [Next]_vars => Inv'
  BY NextInv
<1>3. Inv => BlockAccounting
  BY DEF Inv
<1>. QED BY <1>1, <1>2, <1>3, PTL DEF Spec

(* The cached tensors. *)

\* A batch fetches its tables and lengths, from the cache or not.
LEMMA FetchFresh ==
    ASSUME TypeOK, CachesFresh, NEW batch \in SUBSET SeqIds
    PROVE  /\ FetchTable(batch) = [s \in batch |-> tables[s]]
           /\ FetchLens(batch) = [s \in batch |-> seqLens[s]]
BY DEF FetchTable, FetchLens, CachesFresh, TypeOK

\* An operation that drops both tensors leaves nothing stale.
LEMMA InvalidatedFresh ==
    ASSUME InvalidateCaches
    PROVE  CachesFresh'
BY DEF InvalidateCaches, CachesFresh

\* Growing a table keeps its sequence alive.
LEMMA GrownLive ==
    ASSUME TypeOK, NEW s \in Live, NEW got \in Nat, NEW row,
           row = [i \in 1..(Len(tables[s])+got) |-> row[i]],
           tables' = [tables EXCEPT ![s] = row]
    PROVE  Live' = Live
<1>1. s \in SeqIds /\ tables \in [SeqIds -> Seq(Blocks)] /\ tables[s] # <<>>
  BY DEF TypeOK, Live
<1>2. Len(tables[s]) \in Nat \ {0}
  BY <1>1
<1>3. 1 \in DOMAIN row
  BY <1>2
<1>4. row # <<>>
  BY <1>3
<1>5. \A t \in SeqIds : tables'[t] # <<>> <=> tables[t] # <<>>
  BY <1>1, <1>4
<1>. QED BY <1>5 DEF Live

\* An operation that grows a table claims a number of blocks, all of them free.
LEMMA EnsureClaims ==
    ASSUME Inv, NEW s \in SeqIds, NEW n \in 1..MaxLen, EnsureSequenceCapacity(s, n)
    PROVE  LET missing == BlocksFor(seqLens[s] + n) - Len(tables[s])
           IN  (IF missing <= Cardinality(freeBlocks)
                  THEN missing ELSE Cardinality(freeBlocks)) \in Nat
<1>1. seqLens[s] + n \in Nat /\ Len(tables[s]) \in Nat
  BY ConstantsAssumption DEF Inv, TypeInv, TypeOK
<1>2. Cardinality(freeBlocks) \in Nat
  BY FS_Subset, FS_CardinalityType, ConstantsAssumption DEF Inv, TypeInv, TypeOK
<1>3. BlocksFor(seqLens[s] + n) \in Nat
  BY <1>1, BlocksForCovers
<1>. QED BY <1>1, <1>2, <1>3 DEF EnsureSequenceCapacity

LEMMA PrefillRaisesClaims ==
    ASSUME Inv, NEW s \in SeqIds, NEW n \in 1..MaxLen
    PROVE  (IF Cardinality(ToGrow(s, n)) <= Cardinality(freeBlocks)
              THEN Cardinality(ToGrow(s, n)) ELSE Cardinality(freeBlocks)) \in Nat
<1>1. Cardinality(freeBlocks) \in Nat
  BY FS_Subset, FS_CardinalityType, ConstantsAssumption DEF Inv, TypeInv, TypeOK
<1>2. Len(tables[s]) + 1 \in Int /\ seqLens[s] + n \in Nat
  BY ConstantsAssumption DEF Inv, TypeInv, TypeOK
<1>3. CeilDiv(seqLens[s] + n) \in Int
  BY <1>2, CeilDivCovers
<1>4. IsFiniteSet(ToGrow(s, n))
  BY <1>2, <1>3, FS_Interval DEF ToGrow
<1>. QED BY <1>1, <1>4, FS_CardinalityType

LEMMA EnsureFresh ==
    ASSUME Inv, CachesFresh, NEW s \in SeqIds, NEW n \in 1..MaxLen, EnsureSequenceCapacity(s, n)
    PROVE  CachesFresh' /\ Live' = Live
<1>. DEFINE missing == BlocksFor(seqLens[s] + n) - Len(tables[s])
            got     == IF missing <= Cardinality(freeBlocks)
                         THEN missing ELSE Cardinality(freeBlocks)
            tail    == (Len(tables[s])+1)..(Len(tables[s])+got)
            row(claim) == [i \in 1..(Len(tables[s])+got) |->
                              IF i \in tail THEN claim[i] ELSE tables[s][i]]
<1>1. PICK claim \in Claims(tail) : tables' = [tables EXCEPT ![s] = row(claim)]
  BY DEF EnsureSequenceCapacity
<1>2. got \in Nat
  BY EnsureClaims
<1>3. /\ s \in Live /\ tableCache' = <<>> /\ UNCHANGED <<seqLens, lensCache>>
  BY DEF EnsureSequenceCapacity
<1>. DEFINE r == row(claim)
<1>4. r = [i \in 1..(Len(tables[s])+got) |-> r[i]] /\ tables' = [tables EXCEPT ![s] = r]
  BY <1>1
<1>. HIDE DEF got, r
<1>5. Live' = Live
  BY <1>2, <1>3, <1>4, GrownLive DEF Inv, TypeInv
<1>. QED BY <1>3, <1>5 DEF CachesFresh

\* Replacing a table by itself changes nothing.
LEMMA SameTable ==
    ASSUME TypeOK, NEW s \in SeqIds, NEW row,
           row = [i \in 1..Len(tables[s]) |-> tables[s][i]],
           tables' = [tables EXCEPT ![s] = row]
    PROVE  tables' = tables
<1>1. tables \in [SeqIds -> Seq(Blocks)]
  BY DEF TypeOK
<1>2. row = tables[s]
  BY <1>1
<1>. QED BY <1>1, <1>2

LEMMA PrefillFresh ==
    ASSUME Inv, CachesFresh, NEW s \in SeqIds, NEW n \in 1..MaxLen, Prefill(s, n)
    PROVE  CachesFresh'
<1>. DEFINE I == ToCopy(s, n) \cup ToGrow(s, n)
            need == CeilDiv(seqLens[s] + n)
<1>1. PICK claim \in Claims(I) :
          /\ tables' = [tables EXCEPT ![s] = WrittenTable(s, n, claim)]
          /\ tableCache' = IF DOMAIN claim # {} THEN <<>>
                           ELSE IF seqLens[s] > 0 THEN FetchTable({s})
                           ELSE tableCache
  BY DEF Prefill
<1>2. s \in Live /\ lensCache' = <<>>
  BY DEF Prefill
<1>3. TypeOK
  BY DEF Inv, TypeInv
<1>4. CASE DOMAIN claim # {}
  BY <1>1, <1>2, <1>4 DEF CachesFresh
<1>5. CASE DOMAIN claim = {}
  <2>1. DOMAIN claim = I
    BY <1>1, <1>3, ClaimFacts
  <2>2. Len(tables[s]) \in Nat /\ need \in Nat
    <3>1. seqLens[s] + n \in Nat
      BY <1>3, ConstantsAssumption DEF TypeOK
    <3>. QED BY <1>3, <3>1, CeilDivCovers DEF TypeOK
  <2>3. ~(need > Len(tables[s]))
    <3>1. ToGrow(s, n) = {}
      BY <1>5, <2>1
    <3>. HIDE DEF need
    <3>. QED BY <2>2, <3>1 DEF ToGrow, need
  <2>4. WrittenTable(s, n, claim) = [i \in 1..Len(tables[s]) |-> tables[s][i]]
    BY <1>5, <2>3 DEF WrittenTable
  <2>5. tables' = tables
    BY <1>1, <1>3, <2>4, SameTable
  <2>6. Live' = Live
    BY <2>5 DEF Live
  <2>7. tableCache' \in {tableCache, [t \in {s} |-> tables[t]]}
    BY <1>1, <1>3, <1>5, FetchFresh
  <2>. QED BY <1>2, <2>5, <2>6, <2>7 DEF CachesFresh
<1>. QED BY <1>4, <1>5

LEMMA PrefillRaisesFresh ==
    ASSUME Inv, CachesFresh, NEW s \in SeqIds, NEW n \in 1..MaxLen, PrefillRaises(s, n)
    PROVE  CachesFresh' /\ Live' = Live
<1>. DEFINE grow == ToGrow(s, n)
            got  == IF Cardinality(grow) <= Cardinality(freeBlocks)
                      THEN Cardinality(grow) ELSE Cardinality(freeBlocks)
            tail == (Len(tables[s])+1)..(Len(tables[s])+got)
            row(claim) == [i \in 1..(Len(tables[s])+got) |->
                              IF i \in tail THEN claim[i] ELSE tables[s][i]]
<1>1. PICK claim \in Claims(tail) : tables' = [tables EXCEPT ![s] = row(claim)]
  BY DEF PrefillRaises
<1>2. got \in Nat
  BY PrefillRaisesClaims
<1>3. /\ s \in Live /\ UNCHANGED seqLens
      /\ tableCache' = IF got > 0 THEN <<>>
                       ELSE IF seqLens[s] > 0 THEN FetchTable({s}) ELSE tableCache
      /\ lensCache' = IF seqLens[s] > 0 THEN FetchLens({s}) ELSE lensCache
  BY DEF PrefillRaises
<1>4. TypeOK
  BY DEF Inv, TypeInv
<1>. DEFINE r == row(claim)
<1>5. /\ r = [i \in 1..(Len(tables[s])+got) |-> IF i \in tail THEN claim[i] ELSE tables[s][i]]
      /\ r = [i \in 1..(Len(tables[s])+got) |-> r[i]]
      /\ tables' = [tables EXCEPT ![s] = r]
  BY <1>1
<1>. HIDE DEF got, r
<1>6. Live' = Live
  BY <1>2, <1>3, <1>4, <1>5, GrownLive
<1>7. lensCache' \in {lensCache, [t \in {s} |-> seqLens[t]]}
  BY <1>3, <1>4, FetchFresh
<1>8. CASE got > 0
  BY <1>3, <1>6, <1>7, <1>8 DEF CachesFresh
<1>9. CASE ~(got > 0)
  <2>1. got = 0
    BY <1>2, <1>9
  <2>2. r = [i \in 1..Len(tables[s]) |-> tables[s][i]]
    <3>1. Len(tables[s]) \in Nat
      BY <1>4 DEF TypeOK
    <3>. QED BY <1>5, <2>1, <3>1
  <2>3. tables' = tables
    BY <1>4, <1>5, <2>2, SameTable
  <2>4. tableCache' \in {tableCache, [t \in {s} |-> tables[t]]}
    BY <1>3, <1>4, <1>9, FetchFresh
  <2>. QED BY <1>3, <1>6, <1>7, <2>3, <2>4 DEF CachesFresh
<1>. QED BY <1>6, <1>8, <1>9

LEMMA DecodeFresh ==
    ASSUME Inv, CachesFresh, NEW batch \in SUBSET SeqIds, DecodeStep(batch)
    PROVE  CachesFresh'
<1>1. TypeOK
  BY DEF Inv, TypeInv
<1>2. /\ FetchTable(batch) = [s \in batch |-> tables[s]]
      /\ FetchLens(batch) = [s \in batch |-> seqLens[s]]
  BY <1>1, FetchFresh
<1>3. /\ \A s \in batch : s \in Live
      /\ seqLens' = [s \in SeqIds |-> IF s \in batch THEN seqLens[s] + 1 ELSE seqLens[s]]
      /\ tableCache' = FetchTable(batch)
      /\ lensCache' = [s \in batch |-> FetchLens(batch)[s] + 1]
      /\ tables' = tables
  BY DEF DecodeStep
<1>4. Live' = Live
  BY <1>3 DEF Live
<1>. QED BY <1>2, <1>3, <1>4 DEF CachesFresh

LEMMA NextFresh ==
    ASSUME Inv, CachesFresh, [Next]_vars
    PROVE  CachesFresh'
<1>1. ASSUME NEW s \in SeqIds, NEW n \in 0..MaxLen,
             AllocateSequence(s, n) \/ TruncateSequence(s, n)
      PROVE  CachesFresh'
  BY <1>1, InvalidatedFresh DEF AllocateSequence, TruncateSequence
<1>2. ASSUME NEW s \in SeqIds, NEW n \in 1..MaxLen,
             EnsureSequenceCapacity(s, n) \/ Prefill(s, n) \/ PrefillRaises(s, n)
      PROVE  CachesFresh'
  BY <1>2, EnsureFresh, PrefillFresh, PrefillRaisesFresh
<1>3. ASSUME NEW s \in SeqIds, FreeSequence(s) PROVE CachesFresh'
  BY <1>3, InvalidatedFresh DEF FreeSequence
<1>4. ASSUME NEW s \in SeqIds, SerializeSequence(s) PROVE CachesFresh'
  BY <1>4 DEF SerializeSequence, CachesFresh, Live
<1>5. ASSUME NEW s \in SeqIds, NEW child \in SeqIds, NEW extra, ForkSequencePrefix(s, child, extra)
      PROVE  CachesFresh'
  BY <1>5, InvalidatedFresh DEF ForkSequencePrefix
<1>6. ASSUME NEW s \in SeqIds, NEW extra, DeserializeSequence(s, extra)
      PROVE  CachesFresh'
  BY <1>6, InvalidatedFresh DEF DeserializeSequence
<1>7. ASSUME NEW batch \in SUBSET SeqIds, DecodeStep(batch) PROVE CachesFresh'
  BY <1>7, DecodeFresh
<1>8. CASE UNCHANGED vars
  BY <1>8 DEF vars, CachesFresh, Live
<1>. QED BY <1>1, <1>2, <1>3, <1>4, <1>5, <1>6, <1>7, <1>8 DEF Next

\* In every reachable state the tensors a decode step would read from the cache
\* are the tables and lengths of the sequences they were made for.
THEOREM CachesAlwaysFresh == Spec => []CachesFresh
<1>1. Init => Inv /\ CachesFresh
  BY InitInv DEF Init, CachesFresh
<1>2. Inv /\ CachesFresh /\ [Next]_vars => Inv' /\ CachesFresh'
  BY NextInv, NextFresh
<1>. QED BY <1>1, <1>2, PTL DEF Spec

-------------------------------------------------------------------------------
(* Only prefixes are shared.                                                   *)

\* A longer sequence needs at least as many blocks.
LEMMA BlocksForMonotone ==
    ASSUME NEW m \in Nat, NEW n \in Nat, m <= n
    PROVE  BlocksFor(m) <= BlocksFor(n)
<1>1. BlocksFor(n) \in Nat \ {0} /\ n <= BlocksFor(n) * BlockSize
  BY BlocksForCovers
<1>2. m <= BlocksFor(n) * BlockSize
  BY <1>1, ConstantsAssumption
<1>. QED BY <1>1, <1>2, BlocksForLeast

\* A block that two sequences hold is counted as shared.
LEMMA HeldTwiceIsShared ==
    ASSUME Inv, NEW s \in SeqIds, NEW t \in SeqIds, s # t, NEW b \in Blocks,
           b \in Range(tables[s]), b \in Range(tables[t])
    PROVE  refcounts[b] > 1
<1>1. refcounts[b] = Cardinality(Holders(b)) /\ refcounts[b] \in Nat
  BY DEF Inv, BlockAccounting, TypeInv, TypeOK
<1>2. s \in Holders(b) /\ t \in Holders(b)
  BY DEF Holders
<1>3. IsFiniteSet(Holders(b))
  BY HoldersFinite
<1>4. Cardinality(Holders(b)) # 0 /\ Cardinality(Holders(b)) # 1
  BY <1>2, <1>3, FS_EmptySet, FS_Singleton
<1>. QED BY <1>1, <1>4

\* The inductive form: a shared block is one of those that hold the tokens.
SharedPrefix ==
    \A t \in SeqIds : \A i \in DOMAIN tables[t] :
        refcounts[tables[t][i]] > 1 => i <= BlocksFor(seqLens[t])

\* A step keeps it when every entry of every table is private afterwards, is one
\* of those that hold tokens, or was shared before in a sequence not longer.
LEMMA SharedPrefixStep ==
    ASSUME Inv, SharedPrefix, TypeOK',
           \A t \in SeqIds : \A i \in DOMAIN tables'[t] :
               \/ refcounts'[tables'[t][i]] <= 1
               \/ i <= BlocksFor(seqLens'[t])
               \/ /\ i \in DOMAIN tables[t]
                  /\ tables[t][i] = tables'[t][i]
                  /\ refcounts[tables[t][i]] > 1
                  /\ seqLens[t] <= seqLens'[t]
    PROVE  SharedPrefix'
<1>. SUFFICES ASSUME NEW t \in SeqIds, NEW i \in DOMAIN tables'[t],
                     refcounts'[tables'[t][i]] > 1
              PROVE  i <= BlocksFor(seqLens'[t])
  BY DEF SharedPrefix
<1>1. /\ tables \in [SeqIds -> Seq(Blocks)] /\ tables' \in [SeqIds -> Seq(Blocks)]
      /\ seqLens[t] \in Nat /\ seqLens'[t] \in Nat
      /\ refcounts' \in [Blocks -> Nat]
  BY ConstantsAssumption DEF Inv, TypeInv, TypeOK
<1>2. tables'[t][i] \in Blocks /\ i \in Nat
  BY <1>1
<1>3. BlocksFor(seqLens[t]) \in Nat /\ BlocksFor(seqLens'[t]) \in Nat
  BY <1>1, BlocksForCovers
<1>4. ~(refcounts'[tables'[t][i]] <= 1)
  BY <1>1, <1>2
<1>5. CASE seqLens[t] <= seqLens'[t] /\ i <= BlocksFor(seqLens[t])
  BY <1>1, <1>2, <1>3, <1>5, BlocksForMonotone
<1>. QED BY <1>4, <1>5 DEF SharedPrefix

\* Tables that are kept, with counts that do not grow.
LEMMA CountsOnlyDrop ==
    ASSUME Inv, SharedPrefix, TypeOK', NEW s \in SeqIds,
           \A t \in SeqIds \ {s} : tables'[t] = tables[t] /\ seqLens[t] <= seqLens'[t],
           \A b \in Blocks : refcounts'[b] <= 1 \/ refcounts'[b] <= refcounts[b],
           \A i \in DOMAIN tables'[s] :
               \/ refcounts'[tables'[s][i]] <= 1
               \/ i <= BlocksFor(seqLens'[s])
               \/ /\ i \in DOMAIN tables[s]
                  /\ tables[s][i] = tables'[s][i]
                  /\ seqLens[s] <= seqLens'[s]
    PROVE  SharedPrefix'
<1>1. /\ tables \in [SeqIds -> Seq(Blocks)] /\ tables' \in [SeqIds -> Seq(Blocks)]
      /\ refcounts \in [Blocks -> Nat] /\ refcounts' \in [Blocks -> Nat]
  BY DEF Inv, TypeInv, TypeOK
<1>2. ASSUME NEW t \in SeqIds, NEW i \in DOMAIN tables'[t]
      PROVE  \/ refcounts'[tables'[t][i]] <= 1
             \/ i <= BlocksFor(seqLens'[t])
             \/ /\ i \in DOMAIN tables[t]
                /\ tables[t][i] = tables'[t][i]
                /\ refcounts[tables[t][i]] > 1
                /\ seqLens[t] <= seqLens'[t]
  <2>1. tables'[t][i] \in Blocks
    BY <1>1
  <2>2. \/ refcounts'[tables'[t][i]] <= 1
        \/ i <= BlocksFor(seqLens'[t])
        \/ /\ i \in DOMAIN tables[t]
           /\ tables[t][i] = tables'[t][i]
           /\ seqLens[t] <= seqLens'[t]
    OBVIOUS
  <2>3. \/ refcounts'[tables'[t][i]] <= 1
        \/ refcounts[tables'[t][i]] > 1
    <3>1. refcounts'[tables'[t][i]] \in Nat /\ refcounts[tables'[t][i]] \in Nat
      BY <1>1, <2>1
    <3>. QED BY <2>1, <3>1
  <2>. QED BY <2>2, <2>3
<1>. QED BY <1>2, SharedPrefixStep

\* A fresh table is private.
LEMMA FreshPrefix ==
    ASSUME Inv, SharedPrefix, TypeOK', NEW s \in SeqIds, NEW n \in Nat,
           NEW claim \in Claims(1..n), FreshTable(s, n, claim),
           \A t \in SeqIds \ {s} : seqLens'[t] = seqLens[t]
    PROVE  SharedPrefix'
<1>1. TypeOK
  BY DEF Inv, TypeInv
<1>2. \A i \in 1..n : claim[i] \in Range(claim) /\ claim[i] \in Blocks
  BY <1>1, ClaimFacts
<1>3. \A b \in Blocks : refcounts'[b] = IF b \in Range(claim) THEN 1 ELSE refcounts[b]
  BY DEF FreshTable, Retained
<1>4. tables'[s] = [i \in 1..n |-> claim[i]]
  BY <1>1 DEF FreshTable, TypeOK
<1>5. \A i \in DOMAIN tables'[s] : refcounts'[tables'[s][i]] <= 1
  BY <1>2, <1>3, <1>4
<1>6. \A b \in Blocks : refcounts'[b] <= 1 \/ refcounts'[b] <= refcounts[b]
  <2>1. \A b \in Blocks : refcounts[b] \in Nat
    BY <1>1 DEF TypeOK
  <2>. QED BY <2>1, <1>3
<1>7. \A t \in SeqIds \ {s} : tables'[t] = tables[t] /\ seqLens[t] <= seqLens'[t]
  BY <1>1, ConstantsAssumption DEF FreshTable, TypeOK
<1>. QED BY <1>5, <1>6, <1>7, CountsOnlyDrop

\* Released blocks are shared less.
LEMMA ReleasePrefix ==
    ASSUME Inv, SharedPrefix, TypeOK', NEW s \in SeqIds, NEW B, Release(B),
           \A t \in SeqIds \ {s} : tables'[t] = tables[t] /\ seqLens'[t] = seqLens[t],
           \A i \in DOMAIN tables'[s] : i <= BlocksFor(seqLens'[s])
    PROVE  SharedPrefix'
<1>1. \A b \in Blocks : refcounts'[b] <= refcounts[b]
  BY DEF Release, Inv, TypeInv, TypeOK
<1>2. \A t \in SeqIds : seqLens[t] \in Nat
  BY ConstantsAssumption DEF Inv, TypeInv, TypeOK
<1>. QED BY <1>1, <1>2, CountsOnlyDrop

\* Claimed blocks are private, and the others count what they did.
LEMMA GrowPrefix ==
    ASSUME Inv, SharedPrefix, TypeOK', NEW s \in SeqIds, NEW got,
           NEW claim \in Claims((Len(tables[s])+1)..(Len(tables[s])+got)), got \in Nat,
           tables' = [tables EXCEPT ![s] =
                        [i \in 1..(Len(tables[s])+got) |->
                            IF i \in (Len(tables[s])+1)..(Len(tables[s])+got)
                              THEN claim[i] ELSE tables[s][i]]],
           refcounts' = Retained(Range(claim), {}),
           UNCHANGED seqLens
    PROVE  SharedPrefix'
<1>. DEFINE tail == (Len(tables[s])+1)..(Len(tables[s])+got)
            row  == [i \in 1..(Len(tables[s])+got) |->
                        IF i \in tail THEN claim[i] ELSE tables[s][i]]
<1>1. TypeOK
  BY DEF Inv, TypeInv
<1>2. \A i \in tail : claim[i] \in Range(claim) /\ claim[i] \in Blocks
  BY <1>1, ClaimFacts
<1>3. \A b \in Blocks : refcounts'[b] = IF b \in Range(claim) THEN 1 ELSE refcounts[b]
  BY DEF Retained
<1>4. Len(tables[s]) \in Nat /\ DOMAIN tables[s] = 1..Len(tables[s])
  BY <1>1 DEF TypeOK
<1>5. tables'[s] = row
  BY <1>1 DEF TypeOK
<1>6. \A i \in DOMAIN row : \/ i \in tail /\ row[i] = claim[i]
                            \/ i \in DOMAIN tables[s] /\ row[i] = tables[s][i]
  BY <1>4
<1>7. \A t \in SeqIds : seqLens[t] <= seqLens'[t]
  BY <1>1, ConstantsAssumption DEF TypeOK
<1>8. \A t \in SeqIds \ {s} : tables'[t] = tables[t]
  BY <1>1 DEF TypeOK
<1>9. \A b \in Blocks : refcounts'[b] <= 1 \/ refcounts'[b] <= refcounts[b]
  <2>1. \A b \in Blocks : refcounts[b] \in Nat
    BY <1>1 DEF TypeOK
  <2>. QED BY <2>1, <1>3
<1>. HIDE DEF row, tail
<1>10. \A i \in DOMAIN tables'[s] :
          \/ refcounts'[tables'[s][i]] <= 1
          \/ i \in DOMAIN tables[s] /\ tables[s][i] = tables'[s][i] /\ seqLens[s] <= seqLens'[s]
  BY <1>2, <1>3, <1>5, <1>6, <1>7
<1>. QED BY <1>7, <1>8, <1>9, <1>10, CountsOnlyDrop

LEMMA PrefillPrefix ==
    ASSUME Inv, SharedPrefix, TypeOK', NEW s \in SeqIds, NEW n \in 1..MaxLen, Prefill(s, n)
    PROVE  SharedPrefix'
<1>. DEFINE I == ToCopy(s, n) \cup ToGrow(s, n)
            gone == {tables[s][i] : i \in ToCopy(s, n)}
<1>1. PICK claim \in Claims(I) :
          /\ tables' = [tables EXCEPT ![s] = WrittenTable(s, n, claim)]
          /\ refcounts' = CountsAfterCopy(gone, Range(claim))
  BY DEF Prefill
<1>2. TypeOK
  BY DEF Inv, TypeInv
<1>3. /\ DOMAIN claim = I
      /\ \A i \in I : claim[i] \in Range(claim) /\ claim[i] \in Blocks
  <2>. HIDE DEF I
  <2>. QED BY <1>1, <1>2, ClaimFacts
<1>4. \A b \in Blocks : refcounts'[b] = IF b \in Range(claim) THEN 1
                                        ELSE IF b \in gone THEN refcounts[b] - 1
                                        ELSE refcounts[b]
  BY <1>1 DEF CountsAfterCopy
<1>5. seqLens' = [seqLens EXCEPT ![s] = @ + n]
  BY DEF Prefill
<1>6. /\ \A t \in SeqIds : seqLens[t] <= seqLens'[t]
      /\ \A t \in SeqIds \ {s} : tables'[t] = tables[t]
  BY <1>1, <1>2, <1>5, ConstantsAssumption DEF TypeOK
<1>7. tables'[s] = WrittenTable(s, n, claim)
  BY <1>1, <1>2 DEF TypeOK
<1>8. /\ Len(tables[s]) \in Nat /\ DOMAIN tables[s] = 1..Len(tables[s])
      /\ CeilDiv(seqLens[s] + n) \in Nat
  <2>1. seqLens[s] + n \in Nat
    BY <1>2, ConstantsAssumption DEF TypeOK
  <2>. QED BY <1>2, <2>1, CeilDivCovers DEF TypeOK
<1>9. \A i \in DOMAIN tables'[s] :
         \/ i \in I /\ tables'[s][i] = claim[i]
         \/ i \in DOMAIN tables[s] /\ tables'[s][i] = tables[s][i]
  <2>. DEFINE need == CeilDiv(seqLens[s] + n)
  <2>. SUFFICES ASSUME NEW i \in DOMAIN tables'[s], i \notin I
                PROVE  i \in DOMAIN tables[s] /\ tables'[s][i] = tables[s][i]
    BY <1>3, <1>7 DEF WrittenTable
  <2>1. tables'[s][i] = tables[s][i]
    BY <1>3, <1>7 DEF WrittenTable
  <2>2. i \in 1..(IF need > Len(tables[s]) THEN need ELSE Len(tables[s]))
    BY <1>7 DEF WrittenTable
  <2>3. i \notin (Len(tables[s])+1)..need
    BY DEF ToGrow
  <2>4. need \in Nat
    BY <1>8
  <2>. HIDE DEF need
  <2>5. i \in 1..Len(tables[s])
    BY <1>8, <2>2, <2>3, <2>4
  <2>. QED BY <1>8, <2>1, <2>5
<1>10. \A b \in Blocks : refcounts'[b] <= 1 \/ refcounts'[b] <= refcounts[b]
  <2>1. \A b \in Blocks : refcounts[b] \in Nat
    BY <1>2 DEF TypeOK
  <2>. QED BY <2>1, <1>4
<1>. HIDE DEF I, gone
<1>11. \A i \in DOMAIN tables'[s] :
          \/ refcounts'[tables'[s][i]] <= 1
          \/ i \in DOMAIN tables[s] /\ tables[s][i] = tables'[s][i] /\ seqLens[s] <= seqLens'[s]
  BY <1>3, <1>4, <1>6, <1>9
<1>. QED BY <1>6, <1>10, <1>11, CountsOnlyDrop

\* The blocks a fork shares hold the tokens of both sequences, and one that a
\* third sequence holds too was shared before.
LEMMA ForkPrefix ==
    ASSUME Inv, SharedPrefix, TypeOK', NEW s \in SeqIds, NEW child \in SeqIds,
           NEW extra \in 0..(MaxLen - seqLens[s]), ForkSequencePrefix(s, child, extra)
    PROVE  SharedPrefix'
<1>. DEFINE data  == BlocksFor(seqLens[s])
            total == BlocksFor(seqLens[s] + extra)
            fresh == (data+1)..total
            kept  == {tables[s][i] : i \in 1..data}
<1>1. PICK claim \in Claims(fresh) :
          /\ tables' = [tables EXCEPT ![child] =
                          [i \in 1..total |-> IF i <= data THEN tables[s][i] ELSE claim[i]]]
          /\ refcounts' = Retained(Range(claim), kept)
  BY DEF ForkSequencePrefix
<1>2. TypeOK
  BY DEF Inv, TypeInv
<1>3. /\ child # s /\ data <= Len(tables[s])
      /\ seqLens' = [seqLens EXCEPT ![child] = seqLens[s]]
  BY DEF ForkSequencePrefix
<1>4. data \in Nat /\ total \in Nat
  <2>1. seqLens[s] \in Nat /\ seqLens[s] + extra \in Nat
    BY <1>2, ConstantsAssumption DEF TypeOK
  <2>. QED BY <2>1, BlocksForCovers
<1>5. \A i \in fresh : claim[i] \in Range(claim) /\ claim[i] \in Blocks
  <2>. HIDE DEF fresh
  <2>. QED BY <1>1, <1>2, ClaimFacts
<1>6. \A b \in Blocks : refcounts'[b] = IF b \in Range(claim) THEN 1
                                        ELSE IF b \in kept THEN refcounts[b] + 1
                                        ELSE refcounts[b]
  BY <1>1 DEF Retained
<1>7. /\ tables \in [SeqIds -> Seq(Blocks)]
      /\ refcounts \in [Blocks -> Nat]
      /\ \A t \in SeqIds : seqLens[t] \in Nat
  BY <1>2, ConstantsAssumption DEF TypeOK
<1>8. kept \subseteq Range(tables[s])
  BY <1>3, <1>4, <1>7 DEF Range
<1>. SUFFICES ASSUME NEW t \in SeqIds, NEW i \in DOMAIN tables'[t]
              PROVE  \/ refcounts'[tables'[t][i]] <= 1
                     \/ i <= BlocksFor(seqLens'[t])
                     \/ /\ i \in DOMAIN tables[t]
                        /\ tables[t][i] = tables'[t][i]
                        /\ refcounts[tables[t][i]] > 1
                        /\ seqLens[t] <= seqLens'[t]
  BY SharedPrefixStep
<1>9. CASE t = child
  <2>1. tables'[t] = [j \in 1..total |-> IF j <= data THEN tables[s][j] ELSE claim[j]]
    BY <1>1, <1>7, <1>9
  <2>2. BlocksFor(seqLens'[t]) = data
    BY <1>2, <1>3, <1>9 DEF TypeOK
  <2>3. CASE i <= data
    BY <2>2, <2>3
  <2>4. CASE ~(i <= data)
    <3>1. i \in 1..total
      BY <2>1
    <3>2. i \in fresh /\ tables'[t][i] = claim[i]
      BY <1>4, <2>1, <2>4, <3>1
    <3>. QED BY <1>5, <1>6, <3>2
  <2>. QED BY <2>3, <2>4
<1>10. CASE t # child
  <2>1. tables'[t] = tables[t] /\ seqLens'[t] = seqLens[t]
    BY <1>1, <1>2, <1>3, <1>10 DEF TypeOK
  <2>. DEFINE b == tables[t][i]
  <2>2. b \in Blocks /\ b \in Range(tables[t])
    BY <1>7, <2>1 DEF Range
  <2>3. CASE t = s
    <3>1. CASE i <= data
      BY <2>1, <2>3, <3>1
    <3>2. CASE ~(i <= data)
      <4>1. b \notin kept
        <5>1. IsInjective(tables[s])
          BY DEF Inv, BlockAccounting
        <5>2. \A j \in 1..data : j \in DOMAIN tables[s] /\ i # j
          BY <1>3, <1>4, <1>7, <3>2
        <5>. QED BY <2>1, <2>3, <5>1, <5>2 DEF IsInjective
      <4>2. refcounts'[b] = 1 \/ refcounts'[b] = refcounts[b]
        BY <1>6, <2>2, <4>1
      <4>. QED BY <1>7, <2>1, <2>2, <4>2
    <3>. QED BY <3>1, <3>2
  <2>4. CASE t # s
    <3>1. CASE b \in kept
      <4>1. refcounts[b] > 1
        BY <1>8, <2>2, <2>4, <3>1, HeldTwiceIsShared
      <4>. QED BY <1>7, <2>1, <4>1
    <3>2. CASE b \notin kept
      <4>1. refcounts'[b] = 1 \/ refcounts'[b] = refcounts[b]
        BY <1>6, <2>2, <3>2
      <4>. QED BY <1>7, <2>1, <2>2, <4>1
    <3>. QED BY <3>1, <3>2
  <2>. QED BY <2>3, <2>4
<1>. QED BY <1>9, <1>10

LEMMA NextPrefix ==
    ASSUME Inv, SharedPrefix, [Next]_vars
    PROVE  SharedPrefix'
<1>1. TypeOK /\ TypeOK'
  BY NextInv DEF Inv, TypeInv
<1>2. \A s \in SeqIds : seqLens[s] \in Nat /\ seqLens'[s] \in Nat
  BY <1>1, ConstantsAssumption DEF TypeOK
<1>3. ASSUME NEW s \in SeqIds, NEW n \in 0..MaxLen, AllocateSequence(s, n)
      PROVE  SharedPrefix'
  <2>1. PICK claim \in Claims(1..BlocksFor(n)) : FreshTable(s, BlocksFor(n), claim)
    BY <1>3 DEF AllocateSequence
  <2>2. BlocksFor(n) \in Nat
    BY BlocksForCovers, ConstantsAssumption
  <2>3. \A t \in SeqIds \ {s} : seqLens'[t] = seqLens[t]
    BY <1>3 DEF AllocateSequence
  <2>. QED BY <1>1, <2>1, <2>2, <2>3, FreshPrefix
<1>4. ASSUME NEW s \in SeqIds, NEW extra \in 0..(MaxLen - Len(saved)), DeserializeSequence(s, extra)
      PROVE  SharedPrefix'
  <2>. DEFINE size == BlocksFor(Len(saved) + extra)
  <2>1. PICK claim \in Claims(1..size) : FreshTable(s, size, claim)
    BY <1>4 DEF DeserializeSequence
  <2>2. size \in Nat
    <3>1. Len(saved) + extra \in Nat
      BY <1>1, ConstantsAssumption DEF TypeOK
    <3>. QED BY <3>1, BlocksForCovers
  <2>3. \A t \in SeqIds \ {s} : seqLens'[t] = seqLens[t]
    BY <1>1, <1>4 DEF DeserializeSequence, TypeOK
  <2>. HIDE DEF size
  <2>. QED BY <1>1, <2>1, <2>2, <2>3, FreshPrefix
<1>5. ASSUME NEW s \in SeqIds, FreeSequence(s) PROVE SharedPrefix'
  <2>1. Release(Range(tables[s])) /\ tables'[s] = <<>>
    BY <1>1, <1>5 DEF FreeSequence, TypeOK
  <2>2. \A t \in SeqIds \ {s} : tables'[t] = tables[t] /\ seqLens'[t] = seqLens[t]
    BY <1>1, <1>5 DEF FreeSequence, TypeOK
  <2>3. DOMAIN tables'[s] = {}
    BY <2>1
  <2>. QED BY <1>1, <2>1, <2>2, <2>3, ReleasePrefix
<1>6. ASSUME NEW s \in SeqIds, NEW n \in 0..MaxLen, TruncateSequence(s, n)
      PROVE  SharedPrefix'
  <2>. DEFINE dropped == {tables[s][i] : i \in (BlocksFor(n)+1)..Len(tables[s])}
  <2>1. /\ Release(dropped)
        /\ tables'[s] = SubSeq(tables[s], 1, BlocksFor(n))
        /\ seqLens'[s] = n
    BY <1>1, <1>6 DEF TruncateSequence, TypeOK
  <2>2. \A t \in SeqIds \ {s} : tables'[t] = tables[t] /\ seqLens'[t] = seqLens[t]
    BY <1>1, <1>6 DEF TruncateSequence, TypeOK
  <2>3. \A i \in DOMAIN tables'[s] : i <= BlocksFor(seqLens'[s])
    <3>1. BlocksFor(n) \in Nat
      BY BlocksForCovers, ConstantsAssumption
    <3>2. DOMAIN SubSeq(tables[s], 1, BlocksFor(n)) = 1..BlocksFor(n)
      BY <3>1
    <3>. QED BY <2>1, <3>1, <3>2
  <2>. HIDE DEF dropped
  <2>. QED BY <1>1, <2>1, <2>2, <2>3, ReleasePrefix
<1>7. ASSUME NEW s \in SeqIds, NEW n \in 1..MaxLen, EnsureSequenceCapacity(s, n)
      PROVE  SharedPrefix'
  <2>. DEFINE missing == BlocksFor(seqLens[s] + n) - Len(tables[s])
              got     == IF missing <= Cardinality(freeBlocks)
                           THEN missing ELSE Cardinality(freeBlocks)
              tail    == (Len(tables[s])+1)..(Len(tables[s])+got)
  <2>1. PICK claim \in Claims(tail) :
            /\ tables' = [tables EXCEPT ![s] =
                            [i \in 1..(Len(tables[s])+got) |->
                                IF i \in tail THEN claim[i] ELSE tables[s][i]]]
            /\ refcounts' = Retained(Range(claim), {})
    BY <1>7 DEF EnsureSequenceCapacity
  <2>2. got \in Nat
    BY <1>7, EnsureClaims DEF got, missing
  <2>3. UNCHANGED seqLens
    BY <1>7 DEF EnsureSequenceCapacity
  <2>. HIDE DEF got
  <2>. QED BY <1>1, <2>1, <2>2, <2>3, GrowPrefix
<1>8. ASSUME NEW s \in SeqIds, NEW n \in 1..MaxLen, PrefillRaises(s, n)
      PROVE  SharedPrefix'
  <2>. DEFINE grow == ToGrow(s, n)
              got  == IF Cardinality(grow) <= Cardinality(freeBlocks)
                        THEN Cardinality(grow) ELSE Cardinality(freeBlocks)
              tail == (Len(tables[s])+1)..(Len(tables[s])+got)
  <2>1. PICK claim \in Claims(tail) :
            /\ tables' = [tables EXCEPT ![s] =
                            [i \in 1..(Len(tables[s])+got) |->
                                IF i \in tail THEN claim[i] ELSE tables[s][i]]]
            /\ refcounts' = Retained(Range(claim), {})
    BY <1>8 DEF PrefillRaises
  <2>2. got \in Nat
    BY PrefillRaisesClaims DEF got, grow
  <2>3. UNCHANGED seqLens
    BY <1>8 DEF PrefillRaises
  <2>. HIDE DEF got
  <2>. QED BY <1>1, <2>1, <2>2, <2>3, GrowPrefix
<1>9. ASSUME NEW s \in SeqIds, NEW n \in 1..MaxLen, Prefill(s, n) PROVE SharedPrefix'
  BY <1>1, <1>9, PrefillPrefix
<1>10. ASSUME NEW s \in SeqIds, NEW child \in SeqIds, NEW extra \in 0..(MaxLen - seqLens[s]),
              ForkSequencePrefix(s, child, extra)
       PROVE  SharedPrefix'
  BY <1>1, <1>10, ForkPrefix
<1>11. ASSUME NEW batch \in SUBSET SeqIds, DecodeStep(batch) PROVE SharedPrefix'
  <2>1. /\ tables' = tables /\ refcounts' = refcounts
        /\ seqLens' = [t \in SeqIds |-> IF t \in batch THEN seqLens[t] + 1 ELSE seqLens[t]]
    BY <1>11 DEF DecodeStep
  <2>2. \A t \in SeqIds : seqLens[t] <= seqLens'[t]
    BY <1>2, <2>1
  <2>3. \A t \in SeqIds : \A i \in DOMAIN tables[t] : refcounts[tables[t][i]] \in Nat
    BY <1>1 DEF TypeOK
  <2>4. \A t \in SeqIds : \A i \in DOMAIN tables[t] :
           refcounts[tables[t][i]] <= 1 \/ refcounts[tables[t][i]] > 1
    BY <2>3
  <2>. QED BY <1>1, <2>1, <2>2, <2>4, SharedPrefixStep
<1>12. ASSUME UNCHANGED <<tables, refcounts, seqLens>> PROVE SharedPrefix'
  BY <1>12 DEF SharedPrefix
<1>13. (\E s \in SeqIds : SerializeSequence(s)) \/ UNCHANGED vars => SharedPrefix'
  BY <1>12 DEF SerializeSequence, vars
<1>. QED BY <1>3, <1>4, <1>5, <1>6, <1>7, <1>8, <1>9, <1>10, <1>11, <1>13 DEF Next

\* In every reachable state a write copies at most the block that holds the last
\* token of its sequence: the reserved tail of a table is shared with nobody.
THEOREM TailAlwaysPrivate == Spec => []TailIsPrivate
<1>1. Init => Inv /\ SharedPrefix
  BY InitInv DEF Init, SharedPrefix
<1>2. Inv /\ SharedPrefix /\ [Next]_vars => Inv' /\ SharedPrefix'
  BY NextInv, NextPrefix
<1>3. Inv /\ SharedPrefix => TailIsPrivate
  <2>. SUFFICES ASSUME Inv, SharedPrefix, NEW s \in Live, NEW i \in DOMAIN tables[s],
                       refcounts[tables[s][i]] > 1
                PROVE  i = 1 \/ i <= CeilDiv(seqLens[s])
    BY DEF TailIsPrivate
  <2>1. s \in SeqIds
    BY DEF Live
  <2>2. i \in Nat \ {0}
    BY <2>1 DEF Inv, TypeInv, TypeOK
  <2>3. i <= BlocksFor(seqLens[s])
    BY <2>1 DEF SharedPrefix
  <2>. QED BY <2>2, <2>3 DEF BlocksFor
<1>. QED BY <1>1, <1>2, <1>3, PTL DEF Spec

-------------------------------------------------------------------------------
(* BlockManager implements SequenceStore.  The entries a sequence reads through *)
(* its table are its private string: the slots a step writes or releases are    *)
(* slots no other sequence reads.                                               *)

Store == [s \in SeqIds |-> Reading(s)]

\* Two positions of a table without repeated blocks have different slots.
LEMMA SlotInjective ==
    ASSUME NEW t \in Seq(Blocks), IsInjective(t), NEW p \in Nat, NEW q \in Nat,
           (p \div BlockSize) + 1 \in DOMAIN t, (q \div BlockSize) + 1 \in DOMAIN t,
           SlotAt(t, p) = SlotAt(t, q)
    PROVE  p = q
<1>1. /\ p \div BlockSize \in Nat /\ q \div BlockSize \in Nat
      /\ p = BlockSize * (p \div BlockSize) + (p % BlockSize)
      /\ q = BlockSize * (q \div BlockSize) + (q % BlockSize)
  BY ConstantsAssumption
<1>2. /\ t[(p \div BlockSize) + 1] = t[(q \div BlockSize) + 1]
      /\ p % BlockSize = q % BlockSize
  BY DEF SlotAt
<1>3. (p \div BlockSize) + 1 = (q \div BlockSize) + 1
  BY <1>2 DEF IsInjective
<1>4. p \div BlockSize = q \div BlockSize
  BY <1>1, <1>3
<1>. QED BY <1>1, <1>2, <1>4

\* A position that is read is in a block of the table.
LEMMA ReadSlot ==
    ASSUME TypeInv, NEW s \in SeqIds, NEW p \in 0..(seqLens[s]-1)
    PROVE  /\ p \in Nat
           /\ (p \div BlockSize) + 1 \in DOMAIN tables[s]
           /\ SlotAt(tables[s], p) \in Slots
           /\ SlotAt(tables[s], p)[1] = tables[s][(p \div BlockSize) + 1]
           /\ SlotAt(tables[s], p)[1] \in Range(tables[s])
           /\ SlotAt(tables[s], p)[1] \in Blocks
<1>1. /\ tables[s] \in Seq(Blocks) /\ Len(tables[s]) \in Nat
      /\ seqLens[s] \in Nat /\ seqLens[s] <= Len(tables[s]) * BlockSize
  BY ConstantsAssumption DEF TypeInv, TypeOK, CapacityCoversLength
<1>2. p \in Nat /\ p < Len(tables[s]) * BlockSize
  BY <1>1, ConstantsAssumption
<1>3. (p \div BlockSize) + 1 \in 1..Len(tables[s]) /\ SlotAt(tables[s], p) \in Slots
  BY <1>1, <1>2, SlotInTable
<1>4. DOMAIN tables[s] = 1..Len(tables[s])
  BY <1>1
<1>5. SlotAt(tables[s], p)[1] = tables[s][(p \div BlockSize) + 1]
  BY DEF SlotAt
<1>6. tables[s][(p \div BlockSize) + 1] \in Range(tables[s])
  BY <1>3, <1>4 DEF Range
<1>7. tables[s][(p \div BlockSize) + 1] \in Blocks
  BY <1>1, <1>3
<1>. QED BY <1>2, <1>3, <1>4, <1>5, <1>6, <1>7

LEMMA ReadingIs ==
    ASSUME TypeInv, NEW s \in SeqIds
    PROVE  /\ Reading(s) \in Seq(Author)
           /\ Len(Reading(s)) = seqLens[s]
           /\ DOMAIN Reading(s) = 1..seqLens[s]
           /\ \A i \in 1..seqLens[s] : Reading(s)[i] = kv[SlotAt(tables[s], i - 1)]
<1>1. seqLens[s] \in Nat
  BY ConstantsAssumption DEF TypeInv, TypeOK
<1>2. ASSUME NEW i \in 1..seqLens[s] PROVE kv[SlotAt(tables[s], i - 1)] \in Author
  <2>1. i - 1 \in 0..(seqLens[s]-1)
    BY <1>1
  <2>2. SlotAt(tables[s], i - 1) \in Slots
    BY <2>1, ReadSlot
  <2>. QED BY <2>2 DEF TypeInv, TypeOK
<1>. QED BY <1>1, <1>2 DEF Reading

\* What a sequence reads stays, when every slot it reads does.
LEMMA SameReading ==
    ASSUME TypeInv, NEW t \in SeqIds, seqLens'[t] = seqLens[t],
           \A p \in 0..(seqLens[t]-1) : kv'[SlotAt(tables'[t], p)] = kv[SlotAt(tables[t], p)]
    PROVE  Reading(t)' = Reading(t)
<1>1. seqLens[t] \in Nat
  BY ConstantsAssumption DEF TypeInv, TypeOK
<1>2. \A i \in 1..seqLens[t] :
         kv'[SlotAt(tables'[t], i - 1)] = kv[SlotAt(tables[t], i - 1)]
  BY <1>1
<1>3. Reading(t)' = [i \in 1..seqLens[t] |-> kv'[SlotAt(tables'[t], i - 1)]]
  BY DEF Reading
<1>4. Reading(t) = [i \in 1..seqLens[t] |-> kv[SlotAt(tables[t], i - 1)]]
  BY DEF Reading
<1>. QED BY <1>2, <1>3, <1>4

\* A sequence that keeps its table reads the same entries when the step leaves
\* the blocks of that table alone.
LEMMA KeptReading ==
    ASSUME TypeInv, NEW t \in SeqIds, seqLens'[t] = seqLens[t], tables'[t] = tables[t],
           \A x \in Slots : x[1] \in Range(tables[t]) => kv'[x] = kv[x]
    PROVE  Reading(t)' = Reading(t)
<1>1. \A p \in 0..(seqLens[t]-1) : kv'[SlotAt(tables'[t], p)] = kv[SlotAt(tables[t], p)]
  BY ReadSlot
<1>. QED BY <1>1, SameReading

\* The reading of a sequence that is not live is empty.
LEMMA DeadReading ==
    ASSUME TypeInv, NEW s \in SeqIds, s \notin Live
    PROVE  seqLens[s] = 0 /\ Reading(s) = <<>>
<1>1. /\ seqLens[s] \in Nat /\ seqLens[s] <= Len(tables[s]) * BlockSize
      /\ tables[s] = <<>>
  BY ConstantsAssumption DEF TypeInv, TypeOK, CapacityCoversLength, Live
<1>2. seqLens[s] = 0
  BY <1>1, ConstantsAssumption
<1>. QED BY <1>2 DEF Reading

\* Blocks that a step releases for s, and blocks on the free list, are read by no
\* other sequence.
LEMMA ReleaseKeeps ==
    ASSUME Inv, NEW s \in SeqIds, NEW t \in SeqIds, s # t,
           NEW B \in SUBSET Range(tables[s]), Release(B)
    PROVE  \A x \in Slots : x[1] \in Range(tables[t]) => kv'[x] = kv[x]
<1>. SUFFICES ASSUME NEW x \in Slots, x[1] \in Range(tables[t]), x[1] \in B,
                     refcounts[x[1]] = 1
              PROVE  FALSE
  BY DEF Release
<1>1. x[1] \in Blocks
  BY DEF Slots
<1>2. refcounts[x[1]] > 1
  BY <1>1, HeldTwiceIsShared
<1>. QED BY <1>2

LEMMA FreeDrops ==
    ASSUME Inv, Inv', NEW s \in SeqIds, FreeSequence(s)
    PROVE  Private!Drop(s)
<1>1. /\ Release(Range(tables[s])) /\ tables' = [tables EXCEPT ![s] = <<>>]
      /\ seqLens' = [seqLens EXCEPT ![s] = 0] /\ UNCHANGED saved /\ s \in Live
  BY DEF FreeSequence
<1>2. /\ tables'[s] = <<>> /\ seqLens'[s] = 0
      /\ \A t \in SeqIds \ {s} : tables'[t] = tables[t] /\ seqLens'[t] = seqLens[t]
  BY <1>1 DEF Inv, TypeInv, TypeOK
<1>3. Live' = Live \ {s}
  BY <1>2 DEF Live
<1>4. \A t \in SeqIds \ {s} : Reading(t)' = Reading(t)
  <2>. SUFFICES ASSUME NEW t \in SeqIds \ {s} PROVE Reading(t)' = Reading(t)
    OBVIOUS
  <2>1. \A x \in Slots : x[1] \in Range(tables[t]) => kv'[x] = kv[x]
    BY <1>1, ReleaseKeeps
  <2>. QED BY <1>2, <2>1, KeptReading DEF Inv
<1>5. Reading(s)' = <<>>
  BY <1>2 DEF Reading
<1>6. Store' = [Store EXCEPT ![s] = <<>>]
  BY <1>4, <1>5 DEF Store
<1>. QED BY <1>1, <1>3, <1>6 DEF Private!Drop, Store

LEMMA AllocateCreates ==
    ASSUME Inv, NEW s \in SeqIds, NEW n \in 0..MaxLen, AllocateSequence(s, n)
    PROVE  Private!Create(s)
<1>1. PICK claim \in Claims(1..BlocksFor(n)) : FreshTable(s, BlocksFor(n), claim)
  BY DEF AllocateSequence
<1>2. /\ s \notin Live /\ UNCHANGED <<seqLens, kv, saved>>
      /\ tables' = [tables EXCEPT ![s] = [i \in 1..BlocksFor(n) |-> claim[i]]]
  BY <1>1 DEF AllocateSequence, FreshTable
<1>3. BlocksFor(n) \in Nat \ {0}
  BY BlocksForCovers, ConstantsAssumption
<1>4. tables'[s] # <<>> /\ \A t \in SeqIds \ {s} : tables'[t] = tables[t]
  <2>1. tables'[s] = [i \in 1..BlocksFor(n) |-> claim[i]]
    BY <1>2 DEF Inv, TypeInv, TypeOK
  <2>2. 1 \in DOMAIN tables'[s]
    BY <1>3, <2>1
  <2>3. tables'[s] # <<>>
    BY <2>2
  <2>4. \A t \in SeqIds \ {s} : tables'[t] = tables[t]
    BY <1>2 DEF Inv, TypeInv, TypeOK
  <2>. QED BY <2>3, <2>4
<1>5. Live' = Live \cup {s}
  BY <1>4 DEF Live
<1>6. \A t \in SeqIds \ {s} : Reading(t)' = Reading(t)
  BY <1>2, <1>4 DEF Reading
<1>7. Reading(s)' = Reading(s)
  <2>1. seqLens[s] = 0 /\ Reading(s) = <<>>
    BY <1>2, DeadReading DEF Inv
  <2>2. Reading(s)' = <<>>
    BY <1>2, <2>1 DEF Reading
  <2>. QED BY <2>1, <2>2
<1>8. Store' = Store
  BY <1>6, <1>7 DEF Store
<1>. QED BY <1>2, <1>5, <1>8 DEF Private!Create, Store

LEMMA SerializeSaves ==
    ASSUME Inv, NEW s \in SeqIds, SerializeSequence(s)
    PROVE  Private!Save(s)
<1>1. /\ s \in Live /\ saved' = Reading(s)
      /\ UNCHANGED <<tables, seqLens, kv>>
  BY DEF SerializeSequence
<1>2. Live' = Live
  BY <1>1 DEF Live
<1>3. Store' = Store
  BY <1>1 DEF Store, Reading
<1>. QED BY <1>1, <1>2, <1>3 DEF Private!Save, Store

\* Growing a table is invisible.
LEMMA GrownStutters ==
    ASSUME Inv, NEW s \in Live, NEW got \in Nat, NEW row,
           row = [i \in 1..(Len(tables[s])+got) |-> row[i]],
           \A i \in 1..Len(tables[s]) : row[i] = tables[s][i],
           tables' = [tables EXCEPT ![s] = row],
           UNCHANGED <<seqLens, kv, saved>>
    PROVE  UNCHANGED Private!vars
<1>1. Live' = Live
  BY GrownLive DEF Inv, TypeInv
<1>2. s \in SeqIds /\ \A t \in SeqIds : tables[t] \in Seq(Blocks)
  BY DEF Live, Inv, TypeInv, TypeOK
<1>3. /\ tables'[s] = row
      /\ \A t \in SeqIds \ {s} : tables'[t] = tables[t]
  BY <1>2 DEF Inv, TypeInv, TypeOK
<1>4. ASSUME NEW t \in SeqIds PROVE Reading(t)' = Reading(t)
  <2>1. ASSUME NEW p \in 0..(seqLens[t]-1)
        PROVE  SlotAt(tables'[t], p) = SlotAt(tables[t], p)
    <3>1. (p \div BlockSize) + 1 \in 1..Len(tables[t])
      BY <1>2, ReadSlot DEF Inv
    <3>. QED BY <1>3, <3>1 DEF SlotAt
  <2>2. \A p \in 0..(seqLens[t]-1) : kv'[SlotAt(tables'[t], p)] = kv[SlotAt(tables[t], p)]
    BY <2>1
  <2>. QED BY <2>2, SameReading DEF Inv
<1>5. Store' = Store
  BY <1>4 DEF Store
<1>. QED BY <1>1, <1>5 DEF Private!vars, Store

LEMMA EnsureStutters ==
    ASSUME Inv, NEW s \in SeqIds, NEW n \in 1..MaxLen, EnsureSequenceCapacity(s, n)
    PROVE  UNCHANGED Private!vars
<1>. DEFINE missing == BlocksFor(seqLens[s] + n) - Len(tables[s])
            got     == IF missing <= Cardinality(freeBlocks)
                         THEN missing ELSE Cardinality(freeBlocks)
            tail    == (Len(tables[s])+1)..(Len(tables[s])+got)
            row(claim) == [i \in 1..(Len(tables[s])+got) |->
                              IF i \in tail THEN claim[i] ELSE tables[s][i]]
<1>1. PICK claim \in Claims(tail) : tables' = [tables EXCEPT ![s] = row(claim)]
  BY DEF EnsureSequenceCapacity
<1>2. got \in Nat
  BY EnsureClaims
<1>3. s \in Live /\ UNCHANGED <<seqLens, kv, saved>>
  BY DEF EnsureSequenceCapacity
<1>. DEFINE r == row(claim)
<1>4. Len(tables[s]) \in Nat
  BY DEF Inv, TypeInv, TypeOK
<1>. HIDE DEF got
<1>5. /\ r = [i \in 1..(Len(tables[s])+got) |-> r[i]] /\ tables' = [tables EXCEPT ![s] = r]
      /\ \A i \in 1..Len(tables[s]) : r[i] = tables[s][i]
  BY <1>1, <1>2, <1>4
<1>. HIDE DEF r
<1>. QED BY <1>2, <1>3, <1>5, GrownStutters

LEMMA PrefillRaisesStutters ==
    ASSUME Inv, NEW s \in SeqIds, NEW n \in 1..MaxLen, PrefillRaises(s, n)
    PROVE  UNCHANGED Private!vars
<1>. DEFINE grow == ToGrow(s, n)
            got  == IF Cardinality(grow) <= Cardinality(freeBlocks)
                      THEN Cardinality(grow) ELSE Cardinality(freeBlocks)
            tail == (Len(tables[s])+1)..(Len(tables[s])+got)
            row(claim) == [i \in 1..(Len(tables[s])+got) |->
                              IF i \in tail THEN claim[i] ELSE tables[s][i]]
<1>1. PICK claim \in Claims(tail) : tables' = [tables EXCEPT ![s] = row(claim)]
  BY DEF PrefillRaises
<1>2. got \in Nat
  BY PrefillRaisesClaims
<1>3. s \in Live /\ UNCHANGED <<seqLens, kv, saved>>
  BY DEF PrefillRaises
<1>. DEFINE r == row(claim)
<1>4. Len(tables[s]) \in Nat
  BY DEF Inv, TypeInv, TypeOK
<1>. HIDE DEF got
<1>5. /\ r = [i \in 1..(Len(tables[s])+got) |-> r[i]] /\ tables' = [tables EXCEPT ![s] = r]
      /\ \A i \in 1..Len(tables[s]) : r[i] = tables[s][i]
  BY <1>1, <1>2, <1>4
<1>. HIDE DEF r
<1>. QED BY <1>2, <1>3, <1>5, GrownStutters

\* The data blocks of a table hold every position that is read.
LEMMA ReadInData ==
    ASSUME TypeInv, NEW s \in SeqIds, NEW n \in 0..seqLens[s], NEW p \in 0..(n-1)
    PROVE  (p \div BlockSize) + 1 \in 1..BlocksFor(n)
<1>1. n \in Nat /\ p \in Nat /\ p < n
  BY ConstantsAssumption DEF TypeInv, TypeOK
<1>2. BlocksFor(n) \in Nat /\ n <= BlocksFor(n) * BlockSize
  BY <1>1, BlocksForCovers
<1>3. p < BlocksFor(n) * BlockSize
  BY <1>1, <1>2, ConstantsAssumption
<1>4. /\ p \div BlockSize \in Nat
      /\ BlockSize * (p \div BlockSize) <= p
  BY <1>1, ConstantsAssumption
<1>5. p \div BlockSize < BlocksFor(n)
  BY <1>1, <1>2, <1>3, <1>4, ConstantsAssumption
<1>. QED BY <1>2, <1>4, <1>5

LEMMA ForkCopies ==
    ASSUME Inv, NEW s \in SeqIds, NEW child \in SeqIds,
           NEW extra \in 0..(MaxLen - seqLens[s]), ForkSequencePrefix(s, child, extra)
    PROVE  Private!Copy(s, child)
<1>. DEFINE data  == BlocksFor(seqLens[s])
            total == BlocksFor(seqLens[s] + extra)
<1>1. PICK claim \in Claims((data+1)..total) :
          tables' = [tables EXCEPT ![child] =
                       [i \in 1..total |-> IF i <= data THEN tables[s][i] ELSE claim[i]]]
  BY DEF ForkSequencePrefix
<1>2. /\ s \in Live /\ child \notin Live /\ data <= Len(tables[s])
      /\ seqLens' = [seqLens EXCEPT ![child] = seqLens[s]]
      /\ UNCHANGED <<kv, saved>>
  BY DEF ForkSequencePrefix
<1>3. /\ seqLens[s] \in Nat /\ data \in Nat \ {0} /\ total \in Nat \ {0} /\ data <= total
  <2>1. seqLens[s] \in Nat /\ seqLens[s] + extra \in Nat /\ seqLens[s] <= seqLens[s] + extra
    BY ConstantsAssumption DEF Inv, TypeInv, TypeOK
  <2>. QED BY <2>1, BlocksForCovers, BlocksForMonotone
<1>. DEFINE row == [i \in 1..total |-> IF i <= data THEN tables[s][i] ELSE claim[i]]
<1>4. /\ tables'[child] = row /\ seqLens'[child] = seqLens[s]
      /\ \A t \in SeqIds \ {child} : tables'[t] = tables[t] /\ seqLens'[t] = seqLens[t]
  BY <1>1, <1>2 DEF Inv, TypeInv, TypeOK
<1>5. \A i \in 1..data : row[i] = tables[s][i]
  BY <1>3
<1>6. row # <<>>
  <2>1. 1 \in DOMAIN row
    BY <1>3
  <2>. QED BY <2>1
<1>7. Live' = Live \cup {child}
  BY <1>4, <1>6 DEF Live
<1>8. \A t \in SeqIds \ {child} : Reading(t)' = Reading(t)
  BY <1>2, <1>4 DEF Reading
<1>. HIDE DEF row, data
<1>9. Reading(child)' = Reading(s)
  <2>1. \A p \in 0..(seqLens[s]-1) : SlotAt(row, p) = SlotAt(tables[s], p)
    <3>1. ASSUME NEW p \in 0..(seqLens[s]-1) PROVE SlotAt(row, p) = SlotAt(tables[s], p)
      <4>1. (p \div BlockSize) + 1 \in 1..data
        BY <1>3, ReadInData DEF data, Inv
      <4>. QED BY <1>5, <4>1 DEF SlotAt
    <3>. QED BY <3>1
  <2>2. \A i \in 1..seqLens[s] : SlotAt(row, i - 1) = SlotAt(tables[s], i - 1)
    BY <1>3, <2>1
  <2>3. Reading(child)' = [i \in 1..seqLens[s] |-> kv[SlotAt(row, i - 1)]]
    BY <1>2, <1>4 DEF Reading
  <2>4. Reading(s) = [i \in 1..seqLens[s] |-> kv[SlotAt(tables[s], i - 1)]]
    BY DEF Reading
  <2>. QED BY <2>2, <2>3, <2>4
<1>10. Store' = [Store EXCEPT ![child] = Store[s]]
  BY <1>8, <1>9 DEF Store
<1>. QED BY <1>2, <1>7, <1>10 DEF Private!Copy, Store

\* Truncating releases none of the blocks that hold what is left.
LEMMA TruncateCuts ==
    ASSUME Inv, NEW s \in SeqIds, NEW n \in 0..MaxLen, TruncateSequence(s, n)
    PROVE  Private!Cut(s, n)
<1>. DEFINE t    == tables[s]
            keep == BlocksFor(n)
            B    == {t[i] : i \in (keep+1)..Len(t)}
<1>1. /\ s \in Live /\ n < seqLens[s] /\ Release(B)
      /\ tables' = [tables EXCEPT ![s] = SubSeq(t, 1, keep)]
      /\ seqLens' = [seqLens EXCEPT ![s] = n]
      /\ UNCHANGED saved
  BY DEF TruncateSequence
<1>2. /\ t \in Seq(Blocks) /\ Len(t) \in Nat /\ DOMAIN t = 1..Len(t) /\ IsInjective(t)
      /\ seqLens[s] \in Nat /\ seqLens[s] <= Len(t) * BlockSize
  BY ConstantsAssumption
     DEF Inv, TypeInv, TypeOK, CapacityCoversLength, BlockAccounting
<1>3. n \in 0..seqLens[s] /\ n \in Nat
  BY <1>1, <1>2
<1>4. keep \in Nat \ {0} /\ keep <= Len(t)
  <2>1. keep \in Nat \ {0}
    BY <1>3, BlocksForCovers
  <2>2. Len(t) # 0 /\ n <= Len(t) * BlockSize
    BY <1>1, <1>2, <1>3, ConstantsAssumption
  <2>. QED BY <1>2, <1>3, <2>1, <2>2, BlocksForLeast
<1>5. /\ tables'[s] = SubSeq(t, 1, keep) /\ seqLens'[s] = n
      /\ \A u \in SeqIds \ {s} : tables'[u] = tables[u] /\ seqLens'[u] = seqLens[u]
  BY <1>1 DEF Inv, TypeInv, TypeOK
<1>. HIDE DEF t, keep
<1>6. /\ Len(SubSeq(t, 1, keep)) = keep
      /\ \A i \in 1..keep : SubSeq(t, 1, keep)[i] = t[i]
  BY <1>2, <1>4
<1>7. SubSeq(t, 1, keep) # <<>>
  BY <1>4, <1>6
<1>8. Live' = Live
  BY <1>1, <1>5, <1>7 DEF Live, t
<1>9. B \subseteq Range(t)
  BY <1>2, <1>4 DEF Range
<1>. HIDE DEF B
<1>10. \A u \in SeqIds \ {s} : Reading(u)' = Reading(u)
  <2>. SUFFICES ASSUME NEW u \in SeqIds \ {s} PROVE Reading(u)' = Reading(u)
    OBVIOUS
  <2>1. \A x \in Slots : x[1] \in Range(tables[u]) => kv'[x] = kv[x]
    BY <1>1, <1>9, ReleaseKeeps DEF t
  <2>. QED BY <1>5, <2>1, KeptReading DEF Inv
<1>11. ASSUME NEW i \in 1..n
       PROVE  kv'[SlotAt(tables'[s], i - 1)] = Reading(s)[i]
  <2>1. i \in 1..seqLens[s] /\ i - 1 \in 0..(n-1) /\ i - 1 \in 0..(seqLens[s]-1)
    BY <1>2, <1>3
  <2>2. ((i - 1) \div BlockSize) + 1 \in 1..keep
    BY <1>3, <2>1, ReadInData DEF Inv, keep
  <2>3. SlotAt(tables'[s], i - 1) = SlotAt(t, i - 1)
    BY <1>5, <1>6, <2>2 DEF SlotAt
  <2>4. /\ SlotAt(t, i - 1) \in Slots
        /\ SlotAt(t, i - 1)[1] = t[((i - 1) \div BlockSize) + 1]
    BY <2>1, ReadSlot DEF Inv, t
  <2>5. t[((i - 1) \div BlockSize) + 1] \notin B
    <3>1. ASSUME NEW j \in (keep+1)..Len(t)
          PROVE  t[j] # t[((i - 1) \div BlockSize) + 1]
      <4>1. j \in DOMAIN t /\ ((i - 1) \div BlockSize) + 1 \in DOMAIN t
        BY <1>2, <1>4, <2>2
      <4>2. j # ((i - 1) \div BlockSize) + 1
        BY <1>4, <2>2
      <4>. QED BY <1>2, <4>1, <4>2 DEF IsInjective
    <3>. QED BY <3>1 DEF B
  <2>6. kv'[SlotAt(t, i - 1)] = kv[SlotAt(t, i - 1)]
    BY <1>1, <2>4, <2>5 DEF Release
  <2>. QED BY <2>1, <2>3, <2>6, ReadingIs DEF Inv, t
<1>12. Reading(s)' = SubSeq(Reading(s), 1, n)
  <2>1. Reading(s)' = [i \in 1..n |-> kv'[SlotAt(tables'[s], i - 1)]]
    BY <1>5 DEF Reading
  <2>2. Reading(s) \in Seq(Author) /\ Len(Reading(s)) = seqLens[s]
    BY ReadingIs DEF Inv
  <2>3. SubSeq(Reading(s), 1, n) = [i \in 1..n |-> Reading(s)[i]]
    BY <1>3, <2>2
  <2>. QED BY <1>11, <2>1, <2>3
<1>13. Store' = [Store EXCEPT ![s] = SubSeq(Store[s], 1, n)]
  BY <1>10, <1>12 DEF Store
<1>14. n < Len(Store[s])
  BY <1>1, ReadingIs DEF Store, Inv
<1>. QED BY <1>1, <1>8, <1>13, <1>14 DEF Private!Cut, Store

\* Decoding writes the slot behind the last token of each sequence of the batch,
\* in a block that no other sequence lists.
LEMMA DecodeExtends ==
    ASSUME SharedDecode = FALSE, Inv, CachesFresh, NEW batch \in SUBSET SeqIds, DecodeStep(batch)
    PROVE  Private!Extend(batch, 1)
<1>. DEFINE slot(s) == SlotAt(tables[s], seqLens[s])
            hit     == {slot(s) : s \in batch}
<1>1. /\ FetchTable(batch) = [s \in batch |-> tables[s]]
      /\ FetchLens(batch) = [s \in batch |-> seqLens[s]]
  BY FetchFresh DEF Inv, TypeInv
<1>2. PICK last \in [hit -> batch] :
          /\ \A x \in hit : slot(last[x]) = x
          /\ kv' = [x \in Slots |-> IF x \in hit THEN last[x] ELSE kv[x]]
  <2>. DEFINE fetched(s) == SlotAt(FetchTable(batch)[s], FetchLens(batch)[s])
              hits       == {fetched(s) : s \in batch}
  <2>1. \E last \in [hits -> batch] :
           /\ \A x \in hits : fetched(last[x]) = x
           /\ kv' = [x \in Slots |-> IF x \in hits THEN last[x] ELSE kv[x]]
    BY DEF DecodeStep
  <2>2. \A s \in batch : fetched(s) = slot(s)
    BY <1>1
  <2>. HIDE DEF fetched, slot
  <2>3. hits = hit
    BY <2>2
  <2>. HIDE DEF hits, hit
  <2>. QED BY <2>1, <2>2, <2>3
<1>3. /\ \A s \in batch : /\ s \in Live
                          /\ seqLens[s] \div BlockSize < Len(tables[s])
                          /\ refcounts[slot(s)[1]] = 1
      /\ seqLens' = [s \in SeqIds |-> IF s \in batch THEN seqLens[s] + 1 ELSE seqLens[s]]
      /\ UNCHANGED <<tables, saved>>
  BY DEF DecodeStep
<1>4. \A s \in SeqIds : /\ tables[s] \in Seq(Blocks) /\ IsInjective(tables[s])
                        /\ DOMAIN tables[s] = 1..Len(tables[s]) /\ Len(tables[s]) \in Nat
                        /\ seqLens[s] \in Nat
  BY ConstantsAssumption DEF Inv, TypeInv, TypeOK, BlockAccounting
<1>5. ASSUME NEW s \in batch
      PROVE  /\ (seqLens[s] \div BlockSize) + 1 \in DOMAIN tables[s]
             /\ slot(s)[1] \in Range(tables[s])
             /\ slot(s) \in Slots
  <2>1. seqLens[s] \div BlockSize \in Nat /\ seqLens[s] % BlockSize \in 0..(BlockSize-1)
    <3>1. seqLens[s] \in Nat
      BY <1>4
    <3>. QED BY <3>1, ConstantsAssumption
  <2>2. (seqLens[s] \div BlockSize) + 1 \in DOMAIN tables[s]
    BY <1>3, <1>4, <2>1
  <2>3. tables[s][(seqLens[s] \div BlockSize) + 1] \in Blocks
    BY <1>4, <2>2
  <2>. QED BY <2>1, <2>2, <2>3 DEF SlotAt, Range, Slots
\* A sequence whose table lists the block of a slot that is hit owns that slot.
<1>6. ASSUME NEW s \in SeqIds, NEW u \in batch, slot(u)[1] \in Range(tables[s])
      PROVE  s = u
  <2>1. slot(u)[1] \in Blocks
    BY <1>5 DEF Slots
  <2>2. ~(refcounts[slot(u)[1]] > 1)
    BY <1>3
  <2>. DEFINE b == slot(u)[1]
  <2>3. /\ b \in Blocks /\ b \in Range(tables[s]) /\ b \in Range(tables[u])
        /\ ~(refcounts[b] > 1) /\ u \in SeqIds
    BY <1>5, <1>6, <2>1, <2>2
  <2>. HIDE DEF b
  <2>. QED BY <2>3, HeldTwiceIsShared
<1>7. ASSUME NEW s \in SeqIds, NEW p \in 0..(seqLens[s]-1)
      PROVE  kv'[SlotAt(tables[s], p)] = kv[SlotAt(tables[s], p)]
  <2>1. /\ SlotAt(tables[s], p)[1] \in Range(tables[s]) /\ SlotAt(tables[s], p) \in Slots
        /\ p \in Nat /\ (p \div BlockSize) + 1 \in DOMAIN tables[s]
    BY ReadSlot DEF Inv
  <2>2. ASSUME NEW u \in batch, SlotAt(tables[s], p) = slot(u) PROVE FALSE
    <3>1. s = u
      BY <1>6, <2>1, <2>2
    <3>2. p = seqLens[s]
      BY <1>4, <1>5, <2>1, <2>2, <3>1, SlotInjective
    <3>. QED BY <1>4, <3>2
  <2>3. SlotAt(tables[s], p) \notin hit
    BY <2>2
  <2>. HIDE DEF hit
  <2>. QED BY <1>2, <2>1, <2>3
<1>8. ASSUME NEW s \in batch PROVE kv'[slot(s)] = s
  <2>1. slot(s) \in hit /\ last[slot(s)] \in batch /\ slot(last[slot(s)]) = slot(s)
    BY <1>2
  <2>2. last[slot(s)] = s
    <3>. DEFINE u == last[slot(s)]
    <3>1. slot(u)[1] \in Range(tables[s])
      BY <1>5, <2>1
    <3>. HIDE DEF u, slot
    <3>2. s = u
      BY <1>6, <2>1, <3>1 DEF u
    <3>. QED BY <3>2 DEF u
  <2>. HIDE DEF slot, hit
  <2>. QED BY <1>2, <1>5, <2>1, <2>2
<1>. HIDE DEF hit
<1>9. ASSUME NEW s \in SeqIds \ batch PROVE Reading(s)' = Reading(s)
  <2>1. seqLens'[s] = seqLens[s]
    BY <1>3
  <2>. QED BY <1>3, <1>7, <2>1, SameReading DEF Inv
<1>10. ASSUME NEW s \in batch PROVE Reading(s)' = Reading(s) \o [i \in 1..1 |-> s]
  <2>. DEFINE n == seqLens[s]
  <2>1. seqLens'[s] = n + 1 /\ n \in Nat
    BY <1>3, <1>4
  <2>2. /\ Reading(s) \in Seq(Author) /\ Len(Reading(s)) = n
        /\ \A i \in 1..n : Reading(s)[i] = kv[SlotAt(tables[s], i - 1)]
    BY ReadingIs DEF Inv
  <2>3. Reading(s)' = [i \in 1..(n+1) |-> kv'[SlotAt(tables[s], i - 1)]]
    BY <1>3, <2>1 DEF Reading
  <2>4. \A i \in 1..n : kv'[SlotAt(tables[s], i - 1)] = Reading(s)[i]
    <3>1. \A i \in 1..n : i - 1 \in 0..(n-1)
      BY <2>1
    <3>. QED BY <1>7, <2>2, <3>1
  <2>5. kv'[SlotAt(tables[s], (n + 1) - 1)] = s
    <3>1. (n + 1) - 1 = n
      BY <2>1
    <3>. QED BY <1>8, <3>1
  <2>. HIDE DEF n
  <2>6. Reading(s) \o [i \in 1..1 |-> s] =
           [i \in 1..(n+1) |-> IF i <= n THEN Reading(s)[i] ELSE s]
    BY <2>1, <2>2
  <2>7. \A i \in 1..(n+1) : \/ i \in 1..n /\ i <= n
                            \/ i = n + 1 /\ ~(i <= n)
    BY <2>1
  <2>8. \A i \in 1..(n+1) :
           kv'[SlotAt(tables[s], i - 1)] = IF i <= n THEN Reading(s)[i] ELSE s
    BY <2>4, <2>5, <2>7
  <2>. QED BY <2>3, <2>6, <2>8
<1>11. Live' = Live
  BY <1>3 DEF Live
<1>12. Store' = [s \in SeqIds |-> IF s \in batch THEN Store[s] \o [i \in 1..1 |-> s]
                                                 ELSE Store[s]]
  BY <1>9, <1>10 DEF Store
<1>13. batch \subseteq Live
  BY <1>3
<1>. QED BY <1>3, <1>11, <1>12, <1>13 DEF Private!Extend, Store

\* A restored sequence reads the snapshot, in blocks that were free.
LEMMA DeserializeLoads ==
    ASSUME Inv, Inv', NEW s \in SeqIds, NEW extra \in 0..(MaxLen - Len(saved)),
           DeserializeSequence(s, extra)
    PROVE  Private!Load(s)
<1>. DEFINE n == BlocksFor(Len(saved) + extra)
<1>1. PICK claim \in Claims(1..n) :
          /\ FreshTable(s, n, claim)
          /\ kv' = [x \in Slots |->
                      IF \E i \in DOMAIN saved : SlotAt(claim, i - 1) = x
                        THEN saved[CHOOSE i \in DOMAIN saved : SlotAt(claim, i - 1) = x]
                        ELSE kv[x]]
  BY DEF DeserializeSequence
<1>2. /\ s \notin Live /\ seqLens' = [seqLens EXCEPT ![s] = Len(saved)] /\ UNCHANGED saved
  BY DEF DeserializeSequence
<1>3. TypeOK /\ saved \in Seq(Author) /\ Len(saved) \in Nat /\ DOMAIN saved = 1..Len(saved)
  BY DEF Inv, TypeInv, TypeOK
<1>4. n \in Nat \ {0}
  <2>1. Len(saved) + extra \in Nat
    BY <1>3, ConstantsAssumption
  <2>. QED BY <2>1, BlocksForCovers
<1>. HIDE DEF n
<1>5. /\ DOMAIN claim = 1..n /\ Range(claim) \subseteq freeBlocks
      /\ \A i \in 1..n : claim[i] \in Range(claim)
      /\ claim = [i \in 1..n |-> claim[i]]
  <2>1. /\ DOMAIN claim = 1..n /\ Range(claim) \subseteq freeBlocks
        /\ Range(claim) = {claim[i] : i \in 1..n} /\ claim \in [1..n -> freeBlocks]
    <3>. DEFINE I == 1..n
    <3>1. claim \in Claims(I)
      BY <1>1
    <3>. HIDE DEF I
    <3>2. /\ DOMAIN claim = I /\ Range(claim) \subseteq freeBlocks
          /\ Range(claim) = {claim[i] : i \in I} /\ claim \in [I -> freeBlocks]
      BY <1>3, <3>1, ClaimFacts
    <3>. QED BY <3>2 DEF I
  <2>. QED BY <2>1
<1>6. /\ tables'[s] = claim /\ seqLens'[s] = Len(saved)
      /\ \A t \in SeqIds \ {s} : tables'[t] = tables[t] /\ seqLens'[t] = seqLens[t]
  <2>1. tables' = [tables EXCEPT ![s] = claim]
    BY <1>1, <1>5 DEF FreshTable
  <2>. QED BY <1>2, <1>3, <2>1 DEF TypeOK
<1>7. claim \in Seq(Blocks) /\ IsInjective(claim)
  BY <1>6 DEF Inv, TypeInv, TypeOK, BlockAccounting
\* The positions of the snapshot are in the new table.
<1>8. ASSUME NEW i \in 1..Len(saved)
      PROVE  /\ i - 1 \in Nat
             /\ ((i - 1) \div BlockSize) + 1 \in DOMAIN claim
             /\ SlotAt(claim, i - 1) \in Slots
             /\ SlotAt(claim, i - 1)[1] \in Range(claim)
  <2>1. Len(claim) \in Nat /\ DOMAIN claim = 1..Len(claim)
    BY <1>7
  <2>2. Len(saved) <= Len(claim) * BlockSize
    BY <1>6 DEF Inv, TypeInv, CapacityCoversLength
  <2>3. i - 1 \in Nat /\ i - 1 < Len(claim) * BlockSize
    BY <1>3, <2>1, <2>2, ConstantsAssumption
  <2>4. ((i - 1) \div BlockSize) + 1 \in 1..Len(claim) /\ SlotAt(claim, i - 1) \in Slots
    BY <1>7, <2>3, SlotInTable
  <2>5. SlotAt(claim, i - 1)[1] = claim[((i - 1) \div BlockSize) + 1]
    BY DEF SlotAt
  <2>. QED BY <1>5, <2>1, <2>3, <2>4, <2>5
<1>9. \A t \in SeqIds \ {s} : Reading(t)' = Reading(t)
  <2>. SUFFICES ASSUME NEW t \in SeqIds \ {s} PROVE Reading(t)' = Reading(t)
    OBVIOUS
  <2>1. ASSUME NEW x \in Slots, x[1] \in Range(tables[t]) PROVE kv'[x] = kv[x]
    <3>1. x[1] \in Blocks
      BY DEF Slots
    <3>2. x[1] \notin Range(claim)
      BY <1>5, <2>1, <3>1, HeldIsCounted
    <3>3. ~ \E i \in DOMAIN saved : SlotAt(claim, i - 1) = x
      BY <1>3, <1>8, <3>2
    <3>. QED BY <1>1, <3>3
  <2>. QED BY <1>6, <2>1, KeptReading DEF Inv
<1>10. ASSUME NEW i \in 1..Len(saved) PROVE kv'[SlotAt(claim, i - 1)] = saved[i]
  <2>. DEFINE j == CHOOSE j \in DOMAIN saved : SlotAt(claim, j - 1) = SlotAt(claim, i - 1)
  <2>1. j \in 1..Len(saved) /\ SlotAt(claim, j - 1) = SlotAt(claim, i - 1)
    BY <1>3
  <2>2. kv'[SlotAt(claim, i - 1)] = saved[j]
    BY <1>1, <1>3, <1>8
  <2>. HIDE DEF j
  <2>3. j - 1 = i - 1
    BY <1>7, <1>8, <2>1, SlotInjective
  <2>4. j = i
    BY <1>3, <2>1, <2>3
  <2>. QED BY <2>2, <2>4
<1>11. Reading(s)' = saved
  <2>1. Reading(s)' = [i \in 1..Len(saved) |-> kv'[SlotAt(claim, i - 1)]]
    BY <1>6 DEF Reading
  <2>2. saved = [i \in 1..Len(saved) |-> saved[i]]
    BY <1>3
  <2>. QED BY <1>10, <2>1, <2>2
<1>12. Live' = Live \cup {s}
  <2>1. claim # <<>>
    BY <1>4, <1>5
  <2>. QED BY <1>6, <2>1 DEF Live
<1>13. Store' = [Store EXCEPT ![s] = saved]
  BY <1>9, <1>11 DEF Store
<1>. QED BY <1>2, <1>12, <1>13 DEF Private!Load, Store

\* A string extended by a run of equal entries.
LEMMA AppendedRun ==
    ASSUME NEW S, NEW R \in Seq(S), NEW e \in Seq(S), NEW v,
           \A i \in 1..Len(e) : e[i] = v
    PROVE  R \o e = [i \in 1..(Len(R)+Len(e)) |-> IF i <= Len(R) THEN R[i] ELSE v]
<1>1. /\ R \o e \in Seq(S) /\ Len(R \o e) = Len(R) + Len(e)
      /\ Len(R) \in Nat /\ Len(e) \in Nat
  OBVIOUS
<1>2. R \o e = [i \in 1..(Len(R)+Len(e)) |-> (R \o e)[i]]
  <2>. DEFINE c == R \o e
  <2>1. c \in Seq(S) /\ Len(c) = Len(R) + Len(e)
    BY <1>1
  <2>. HIDE DEF c
  <2>2. c = [i \in 1..(Len(R)+Len(e)) |-> c[i]]
    BY <2>1
  <2>. QED BY <2>2 DEF c
<1>3. ASSUME NEW i \in 1..(Len(R)+Len(e))
      PROVE  (R \o e)[i] = IF i <= Len(R) THEN R[i] ELSE v
  <2>1. (R \o e)[i] = IF i <= Len(R) THEN R[i] ELSE e[i - Len(R)]
    BY <1>1
  <2>2. ~(i <= Len(R)) => i - Len(R) \in 1..Len(e)
    BY <1>1
  <2>. QED BY <2>1, <2>2
<1>. QED BY <1>2, <1>3

\* A write of n tokens at the end of s: the copied blocks keep what s read, and
\* neither they nor the slots written are in a block that another sequence lists.
LEMMA PrefillExtends ==
    ASSUME Inv, Inv', NEW s \in SeqIds, NEW n \in 1..MaxLen, Prefill(s, n)
    PROVE  Private!Extend({s}, n)
<1>. DEFINE t       == tables[s]
            len     == seqLens[s]
            need    == CeilDiv(len + n)
            copy    == ToCopy(s, n)
            I       == copy \cup ToGrow(s, n)
<1>1. PICK claim \in Claims(I) :
          LET new     == WrittenTable(s, n, claim)
              written == {SlotAt(new, p) : p \in len..(len+n-1)}
          IN  /\ tables' = [tables EXCEPT ![s] = new]
              /\ kv' = [x \in Slots |-> IF x \in written THEN s
                                        ELSE CopiedEntry(s, copy, claim, x)]
  BY DEF Prefill
<1>. DEFINE new     == WrittenTable(s, n, claim)
            written == {SlotAt(new, p) : p \in len..(len+n-1)}
<1>2. /\ s \in Live /\ UNCHANGED saved
      /\ seqLens' = [seqLens EXCEPT ![s] = @ + n]
      /\ tables' = [tables EXCEPT ![s] = new]
      /\ kv' = [x \in Slots |-> IF x \in written THEN s
                                ELSE CopiedEntry(s, copy, claim, x)]
  BY <1>1 DEF Prefill
<1>3. TypeOK /\ TypeOK' /\ CapacityCoversLength'
  BY DEF Inv, TypeInv
<1>4. /\ t \in Seq(Blocks) /\ Len(t) \in Nat /\ DOMAIN t = 1..Len(t) /\ IsInjective(t)
      /\ len \in Nat /\ n \in Nat \ {0} /\ len + n \in Nat
      /\ refcounts \in [Blocks -> Nat]
  BY <1>3, ConstantsAssumption DEF TypeOK, Inv, BlockAccounting
<1>5. need \in Nat /\ len + n <= need * BlockSize
  BY <1>4, CeilDivCovers
<1>6. /\ copy \subseteq 1..Len(t)
      /\ \A i \in 1..Len(t) : /\ i > len \div BlockSize
                              /\ i <= need
                              /\ refcounts[t[i]] > 1
                              => i \in copy
      /\ I = copy \cup ((Len(t)+1)..need)
  BY DEF ToCopy, ToGrow
<1>7. new = [i \in 1..(IF need > Len(t) THEN need ELSE Len(t)) |->
                IF i \in DOMAIN claim THEN claim[i] ELSE t[i]]
  BY DEF WrittenTable
<1>8. \A x : CopiedEntry(s, copy, claim, x) =
                IF \E i \in copy : claim[i] = x[1]
                  THEN kv[<<t[CHOOSE i \in copy : claim[i] = x[1]], x[2]>>]
                  ELSE kv[x]
  BY DEF CopiedEntry
<1>9. /\ DOMAIN claim = I
      /\ \A i, j \in I : claim[i] = claim[j] => i = j
      /\ \A i \in I : claim[i] \in freeBlocks /\ claim[i] \in Blocks
  <2>. HIDE DEF I
  <2>. QED BY <1>1, <1>3, ClaimFacts
<1>10. /\ tables'[s] = new /\ seqLens'[s] = len + n
       /\ \A u \in SeqIds \ {s} : tables'[u] = tables[u] /\ seqLens'[u] = seqLens[u]
  BY <1>2, <1>3 DEF TypeOK
<1>. HIDE DEF t, len, need, copy, I, new
<1>11. /\ new \in Seq(Blocks) /\ IsInjective(new)
       /\ len + n <= Len(new) * BlockSize
       /\ Len(new) \in Nat /\ DOMAIN new = 1..Len(new)
       /\ Len(new) = IF need > Len(t) THEN need ELSE Len(t)
  <2>1. new \in Seq(Blocks) /\ IsInjective(new) /\ len + n <= Len(new) * BlockSize
    BY <1>3, <1>10 DEF TypeOK, CapacityCoversLength, Inv, BlockAccounting
  <2>2. Len(new) = IF need > Len(t) THEN need ELSE Len(t)
    BY <1>4, <1>5, <1>7
  <2>. QED BY <2>1, <2>2
<1>12. \A i \in 1..Len(new) : \/ i \in I /\ new[i] = claim[i]
                              \/ i \notin I /\ i \in 1..Len(t) /\ new[i] = t[i]
  <2>1. \A i \in 1..Len(new) : i \in 1..Len(t) \/ i \in (Len(t)+1)..need
    BY <1>4, <1>5, <1>11
  <2>2. \A i \in 1..Len(new) : new[i] = IF i \in I THEN claim[i] ELSE t[i]
    BY <1>7, <1>9, <1>11
  <2>. QED BY <1>6, <2>1, <2>2
<1>13. I \subseteq 1..Len(new)
  <2>1. copy \subseteq 1..Len(new)
    BY <1>4, <1>5, <1>6, <1>11
  <2>2. (Len(t)+1)..need \subseteq 1..Len(new)
    BY <1>4, <1>5, <1>11
  <2>. QED BY <1>6, <2>1, <2>2
\* Every position of the longer sequence is in the new table.
<1>14. ASSUME NEW p \in 0..(len+n-1)
       PROVE  /\ p \in Nat
              /\ (p \div BlockSize) + 1 \in 1..Len(new)
              /\ SlotAt(new, p) \in Slots
              /\ SlotAt(new, p)[1] = new[(p \div BlockSize) + 1]
              /\ SlotAt(new, p)[2] = p % BlockSize
  <2>1. p \in Nat /\ p < Len(new) * BlockSize
    BY <1>4, <1>11, ConstantsAssumption
  <2>. QED BY <1>11, <2>1, SlotInTable DEF SlotAt
\* A claimed block is in no table.
<1>15. ASSUME NEW u \in SeqIds, NEW i \in I PROVE claim[i] \notin Range(tables[u])
  BY <1>9, HeldIsCounted
\* A block that is written is not in the table of another sequence.
<1>16. ASSUME NEW u \in SeqIds \ {s}, NEW p \in len..(len+n-1)
       PROVE  SlotAt(new, p)[1] \notin Range(tables[u])
  <2>. DEFINE i == (p \div BlockSize) + 1
  <2>1. p \in 0..(len+n-1) /\ p \in Nat /\ len <= p /\ p < len + n
    BY <1>4
  <2>2. i \in 1..Len(new) /\ SlotAt(new, p)[1] = new[i]
    BY <1>14, <2>1
  <2>3. i > len \div BlockSize /\ i <= need
    <3>1. /\ p \div BlockSize \in Nat /\ len \div BlockSize \in Nat
          /\ BlockSize * (p \div BlockSize) <= p
          /\ p < BlockSize * (p \div BlockSize + 1)
          /\ BlockSize * (len \div BlockSize) <= len
      BY <1>4, <2>1, ConstantsAssumption
    <3>2. len \div BlockSize < p \div BlockSize + 1
      <4>1. BlockSize * (len \div BlockSize) < BlockSize * (p \div BlockSize + 1)
        BY <1>4, <2>1, <3>1, ConstantsAssumption
      <4>. QED BY <3>1, <4>1, ConstantsAssumption
    <3>3. p \div BlockSize < need
      <4>1. BlockSize * (p \div BlockSize) < BlockSize * need
        BY <1>4, <1>5, <2>1, <3>1, ConstantsAssumption
      <4>. QED BY <1>5, <3>1, <4>1, ConstantsAssumption
    <3>. QED BY <1>5, <3>1, <3>2, <3>3
  <2>. HIDE DEF i
  <2>4. CASE i \in I
    BY <1>12, <1>15, <2>2, <2>4
  <2>5. CASE i \notin I
    <3>1. i \in 1..Len(t) /\ new[i] = t[i]
      BY <1>12, <2>2, <2>5
    <3>2. ~(refcounts[t[i]] > 1)
      BY <1>6, <2>3, <2>5, <3>1
    <3>3. t[i] \in Blocks /\ t[i] \in Range(t)
      BY <1>4, <3>1 DEF Range
    <3>4. t[i] \notin Range(tables[u])
      BY <3>2, <3>3, HeldTwiceIsShared DEF t
    <3>. QED BY <2>2, <3>1, <3>4
  <2>. QED BY <2>4, <2>5
<1>17. \A u \in SeqIds \ {s} : Reading(u)' = Reading(u)
  <2>. SUFFICES ASSUME NEW u \in SeqIds \ {s} PROVE Reading(u)' = Reading(u)
    OBVIOUS
  <2>1. ASSUME NEW x \in Slots, x[1] \in Range(tables[u]) PROVE kv'[x] = kv[x]
    <3>1. x \notin written
      BY <1>16, <2>1
    <3>2. ~ \E i \in copy : claim[i] = x[1]
      BY <1>15, <2>1 DEF I
    <3>. HIDE DEF written
    <3>. QED BY <1>2, <1>8, <3>1, <3>2
  <2>. QED BY <1>10, <2>1, KeptReading DEF Inv
\* What s read before, it reads at the same positions.
<1>18. ASSUME NEW p \in 0..(len-1)
       PROVE  kv'[SlotAt(new, p)] = kv[SlotAt(t, p)]
  <2>. DEFINE i == (p \div BlockSize) + 1
              x == SlotAt(new, p)
  <2>1. p \in 0..(len+n-1) /\ p \in Nat /\ p < len
    BY <1>4
  <2>2. /\ i \in 1..Len(new) /\ x \in Slots
        /\ x[1] = new[i] /\ x[2] = p % BlockSize
    BY <1>14, <2>1
  <2>3. i \in 1..Len(t)
    BY <1>4, ReadSlot DEF Inv, t, len
  <2>4. x \notin written
    <3>. SUFFICES ASSUME NEW q \in len..(len+n-1), SlotAt(new, p) = SlotAt(new, q)
                  PROVE  FALSE
      OBVIOUS
    <3>1. q \in 0..(len+n-1) /\ len <= q
      BY <1>4
    <3>2. q \in Nat /\ (q \div BlockSize) + 1 \in 1..Len(new)
      BY <1>14, <3>1
    <3>3. p = q
      BY <1>11, <2>1, <2>2, <3>2, SlotInjective
    <3>. QED BY <1>4, <2>1, <3>1, <3>3
  <2>5. SlotAt(t, p) = <<t[i], p % BlockSize>> /\ x = <<new[i], p % BlockSize>>
    BY DEF SlotAt
  <2>6. kv'[x] = CopiedEntry(s, copy, claim, x)
    <3>. HIDE DEF written, x
    <3>. QED BY <1>2, <2>2, <2>4
  <2>. HIDE DEF i, x
  <2>7. CASE i \in copy
    <3>. DEFINE j == CHOOSE j \in copy : claim[j] = x[1]
    <3>1. i \in I /\ new[i] = claim[i]
      BY <1>12, <2>2, <2>7 DEF I
    <3>2. claim[i] = x[1]
      BY <2>2, <3>1
    <3>3. j \in copy /\ claim[j] = x[1]
      BY <2>7, <3>2
    <3>4. kv'[x] = kv[<<t[j], x[2]>>]
      BY <1>8, <2>6, <2>7, <3>2
    <3>. HIDE DEF j
    <3>5. j = i
      BY <1>9, <3>1, <3>2, <3>3 DEF I
    <3>. QED BY <2>2, <2>5, <3>4, <3>5 DEF x
  <2>8. CASE i \notin copy
    <3>1. i \notin I
      BY <1>4, <1>5, <1>6, <2>3, <2>8
    <3>2. new[i] = t[i]
      BY <1>12, <2>2, <3>1
    <3>3. t[i] \in Range(tables[s])
      BY <1>4, <2>3 DEF Range, t
    <3>4. ~ \E j \in copy : claim[j] = x[1]
      BY <1>15, <2>2, <3>2, <3>3 DEF I
    <3>5. kv'[x] = kv[x]
      BY <1>8, <2>6, <3>4
    <3>. QED BY <2>5, <3>2, <3>5 DEF x
  <2>. QED BY <2>7, <2>8
<1>19. ASSUME NEW p \in len..(len+n-1) PROVE kv'[SlotAt(new, p)] = s
  <2>1. p \in 0..(len+n-1)
    BY <1>4
  <2>2. SlotAt(new, p) \in Slots /\ SlotAt(new, p) \in written
    BY <1>14, <2>1
  <2>. HIDE DEF written
  <2>. QED BY <1>2, <2>2
<1>. HIDE DEF written
<1>20. Reading(s)' = Reading(s) \o [i \in 1..n |-> s]
  <2>1. /\ Reading(s) \in Seq(Author) /\ Len(Reading(s)) = len
        /\ \A i \in 1..len : Reading(s)[i] = kv[SlotAt(t, i - 1)]
    BY ReadingIs DEF Inv, t, len
  <2>2. Reading(s)' = [i \in 1..(len+n) |-> kv'[SlotAt(new, i - 1)]]
    BY <1>10 DEF Reading
  <2>3. Reading(s) \o [i \in 1..n |-> s] =
           [i \in 1..(len+n) |-> IF i <= len THEN Reading(s)[i] ELSE s]
    <3>. DEFINE R == Reading(s)
                e == [i \in 1..n |-> s]
    <3>1. /\ e \in Seq(Author) /\ Len(e) = n /\ \A i \in 1..n : e[i] = s
          /\ R \in Seq(Author) /\ Len(R) = len
      BY <1>4, <2>1 DEF Author
    <3>. HIDE DEF R, e
    <3>2. R \o e = [i \in 1..(len+n) |-> IF i <= len THEN R[i] ELSE s]
      BY <3>1, AppendedRun
    <3>. QED BY <3>2 DEF R, e
  <2>4. ASSUME NEW i \in 1..(len+n)
        PROVE  kv'[SlotAt(new, i - 1)] = IF i <= len THEN Reading(s)[i] ELSE s
    <3>1. CASE i <= len
      <4>1. i - 1 \in 0..(len-1) /\ i \in 1..len
        BY <1>4, <3>1
      <4>. QED BY <1>18, <2>1, <3>1, <4>1
    <3>2. CASE ~(i <= len)
      <4>1. i - 1 \in len..(len+n-1)
        BY <1>4, <3>2
      <4>. QED BY <1>19, <3>2, <4>1
    <3>. QED BY <3>1, <3>2
  <2>. QED BY <2>2, <2>3, <2>4
<1>21. Live' = Live
  <2>1. new # <<>>
    <3>1. Len(new) # 0
      BY <1>4, <1>11, ConstantsAssumption
    <3>. QED BY <3>1
  <2>. QED BY <1>2, <1>10, <2>1 DEF Live
<1>22. Store' = [u \in SeqIds |-> IF u \in {s} THEN Store[u] \o [i \in 1..n |-> u]
                                               ELSE Store[u]]
  BY <1>17, <1>20 DEF Store
<1>. QED BY <1>2, <1>21, <1>22 DEF Private!Extend, Store

LEMMA NextRefines ==
    ASSUME SharedDecode = FALSE, Inv, Inv', CachesFresh, [Next]_vars
    PROVE  [Private!Next]_Private!vars
<1>1. ASSUME NEW s \in SeqIds, NEW n \in 0..MaxLen,
             AllocateSequence(s, n) \/ TruncateSequence(s, n)
      PROVE  Private!Next
  BY <1>1, AllocateCreates, TruncateCuts DEF Private!Next
<1>2. ASSUME NEW s \in SeqIds, NEW n \in 1..MaxLen,
             EnsureSequenceCapacity(s, n) \/ PrefillRaises(s, n)
      PROVE  UNCHANGED Private!vars
  BY <1>2, EnsureStutters, PrefillRaisesStutters
<1>3. ASSUME NEW s \in SeqIds, NEW n \in 1..MaxLen, Prefill(s, n)
      PROVE  Private!Next
  <2>1. Private!Extend({s}, n)
    BY <1>3, PrefillExtends
  <2>2. {s} \in SUBSET SeqIds
    OBVIOUS
  <2>. QED BY <2>1, <2>2 DEF Private!Next
<1>4. ASSUME NEW s \in SeqIds, FreeSequence(s) \/ SerializeSequence(s)
      PROVE  Private!Next
  BY <1>4, FreeDrops, SerializeSaves DEF Private!Next
<1>5. ASSUME NEW s \in SeqIds, NEW child \in SeqIds, NEW extra \in 0..(MaxLen - seqLens[s]),
             ForkSequencePrefix(s, child, extra)
      PROVE  Private!Next
  BY <1>5, ForkCopies DEF Private!Next
<1>6. ASSUME NEW s \in SeqIds, NEW extra \in 0..(MaxLen - Len(saved)),
             DeserializeSequence(s, extra)
      PROVE  Private!Next
  BY <1>6, DeserializeLoads DEF Private!Next
<1>7. ASSUME NEW batch \in SUBSET SeqIds, DecodeStep(batch)
      PROVE  Private!Next
  <2>1. Private!Extend(batch, 1)
    BY <1>7, DecodeExtends
  <2>2. 1 \in 1..MaxLen
    <3>1. PICK s \in batch : seqLens[s] < MaxLen
      BY <1>7 DEF DecodeStep
    <3>2. seqLens[s] \in 0..MaxLen
      BY DEF Inv, TypeInv, TypeOK
    <3>. QED BY <3>1, <3>2, ConstantsAssumption
  <2>. QED BY <2>1, <2>2 DEF Private!Next
<1>8. CASE UNCHANGED vars
  BY <1>8 DEF vars, Private!vars, Live, Reading
<1>. QED BY <1>1, <1>2, <1>3, <1>4, <1>5, <1>6, <1>7, <1>8 DEF Next

LEMMA InitRefines == Init => Private!Init
<1>. SUFFICES ASSUME Init PROVE Private!Init
  OBVIOUS
<1>1. Live = {}
  BY DEF Init, Live
<1>2. \A s \in SeqIds : Reading(s) = <<>>
  BY DEF Init, Reading
<1>. QED BY <1>1, <1>2 DEF Init, Private!Init

\* When callers decode only into blocks of their own, every operation of the
\* paged cache acts on what the sequences read as the operation of a store of
\* private strings: no fork, write, copy-on-write, truncation, release or restore
\* of one sequence ever changes what another one reads.
THEOREM PrivateSequences ==
    ASSUME SharedDecode = FALSE
    PROVE  Spec => ImplementsPrivateSequences
<1>1. Init => Inv /\ CachesFresh
  BY InitInv DEF Init, CachesFresh
<1>2. Inv /\ CachesFresh /\ [Next]_vars => Inv' /\ CachesFresh'
  BY NextInv, NextFresh
<1>3. Inv /\ Inv' /\ CachesFresh /\ [Next]_vars => [Private!Next]_Private!vars
  BY NextRefines
<1>4. Init => Private!Init
  BY InitRefines
<1>. QED BY <1>1, <1>2, <1>3, <1>4, PTL DEF Spec, ImplementsPrivateSequences, Private!Spec
===============================================================================
