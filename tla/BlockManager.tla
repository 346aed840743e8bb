----------------------------- MODULE BlockManager -----------------------------
(***************************************************************************)
(* The paged KV cache of the GPU engine: class BlockManager, with the      *)
(* model and engine entry points that read and write through it.           *)
(*                                                                         *)
(* A sequence owns a block table.  Blocks are reference counted, so a fork *)
(* shares the prefix of its source and copies a shared block when it       *)
(* writes into it.  Decoding reads the block table and the lengths from    *)
(* tensors cached for the last batch, which the operations must drop or    *)
(* update whenever they change a table or a length.                        *)
(*                                                                         *)
(* Abstractions: the free list is a set (a claim takes any free block; the *)
(* code pops the last one), a KV entry is the id of the sequence whose     *)
(* forward pass computed it, all layers of a block are one block, and a    *)
(* block on the free list holds no entry (nothing may read it).  A cached  *)
(* tensor is a function of its key, the batch; a key that only differs in  *)
(* order rebuilds the same rows.  An operation that raises before it       *)
(* changed anything is not a step.                                         *)
(***************************************************************************)
EXTENDS Integers, Sequences, FiniteSets, Functions

CONSTANTS Blocks,        \* physical KV blocks
          SeqIds,        \* sequence ids
          BlockSize,     \* tokens per block
          MaxLen,        \* bound: the longest sequence (engine.max_seq_len)
          SharedDecode,  \* whether callers decode into a block others share
          Nobody         \* the entry of a slot no live sequence has written

ASSUME ConstantsAssumption ==
    /\ IsFiniteSet(Blocks)
    /\ IsFiniteSet(SeqIds)
    /\ BlockSize \in Nat \ {0}
    /\ MaxLen \in Nat
    /\ SharedDecode \in BOOLEAN
    /\ Nobody \notin SeqIds

VARIABLES freeBlocks,  \* blocks on the free list
          refcounts,   \* refcounts[b] = how many tables hold b
          tables,      \* tables[s] = block table of s, <<>> when s is not live
          seqLens,     \* seqLens[s] = tokens of s whose KV is in the cache
          kv,          \* kv[<<b, o>>] = the entry at offset o of block b
          tableCache,  \* cached block-table tensor, a row per sequence of its key
          lensCache,   \* cached sequence-length tensor
          saved        \* KV entries of the last serialized snapshot

vars == <<freeBlocks, refcounts, tables, seqLens, kv, tableCache, lensCache, saved>>

Author == SeqIds \cup {Nobody}
Slots == Blocks \X (0..BlockSize-1)

CeilDiv(n) == (n + BlockSize - 1) \div BlockSize

\* Mutated form: the division rounds down.
BlocksForRoundedDown(n) == IF n \div BlockSize > 1 THEN n \div BlockSize ELSE 1

\* Blocks of a table that holds n tokens; even an empty sequence has one.
BlocksFor(n) == IF CeilDiv(n) > 1 THEN CeilDiv(n) ELSE 1

Live == {s \in SeqIds : tables[s] # <<>>}

\* Slot of the entry at position p (from 0) under block table t.
SlotAt(t, p) == <<t[(p \div BlockSize) + 1], p % BlockSize>>

\* What attention reads for s: every position below its length.
Reading(s) == [i \in 1..seqLens[s] |-> kv[SlotAt(tables[s], i - 1)]]

Init ==
    /\ freeBlocks = Blocks
    /\ refcounts = [b \in Blocks |-> 0]
    /\ tables = [s \in SeqIds |-> <<>>]
    /\ seqLens = [s \in SeqIds |-> 0]
    /\ kv = [x \in Slots |-> Nobody]
    /\ tableCache = <<>>
    /\ lensCache = <<>>
    /\ saved = <<>>

-------------------------------------------------------------------------------
(* Claiming, sharing and releasing blocks. *)

\* A claim of one block for every index of I.
Claims(I) == Injection(I, freeBlocks)

\* Mutated form: one of the two tensors is forgotten.
InvalidateTableOnly == tableCache' = <<>> /\ UNCHANGED lensCache

InvalidateCaches ==
    /\ tableCache' = <<>>
    /\ lensCache' = <<>>

\* Counts after claiming the blocks of `claimed` and retaining those of `kept`.
Retained(claimed, kept) ==
    [b \in Blocks |->
        IF b \in claimed THEN 1
        ELSE IF b \in kept THEN refcounts[b] + 1 ELSE refcounts[b]]

\* Mutated form: a released block is freed whoever else holds it.
ReleaseUncounted(B) ==
    /\ refcounts' = [b \in Blocks |-> IF b \in B THEN 0 ELSE refcounts[b]]
    /\ freeBlocks' = freeBlocks \cup B
    /\ kv' = [x \in Slots |-> IF x[1] \in B THEN Nobody ELSE kv[x]]

\* One reference less on every block of B; the last reference frees the block.
Release(B) ==
    /\ refcounts' = [b \in Blocks |->
                        IF b \in B /\ refcounts[b] > 0
                          THEN refcounts[b] - 1 ELSE refcounts[b]]
    /\ freeBlocks' = freeBlocks \cup {b \in B : refcounts[b] = 1}
    /\ kv' = [x \in Slots |->
                 IF x[1] \in B /\ refcounts[x[1]] = 1 THEN Nobody ELSE kv[x]]

\* Gives s, which is not live, a fresh table of n blocks.
FreshTable(s, n, claim) ==
    /\ tables' = [tables EXCEPT ![s] = [i \in 1..n |-> claim[i]]]
    /\ refcounts' = Retained(Range(claim), {})
    /\ freeBlocks' = freeBlocks \ Range(claim)

-------------------------------------------------------------------------------
(* Lifecycle of a sequence. *)

\* Mutated form: the sequence starts at the length of its reservation.
AllocateSequenceFull(s, n) ==
    /\ s \notin Live
    /\ \E claim \in Claims(1..BlocksFor(n)) : FreshTable(s, BlocksFor(n), claim)
    /\ seqLens' = [seqLens EXCEPT ![s] = BlocksFor(n) * BlockSize]
    /\ InvalidateCaches
    /\ UNCHANGED <<kv, saved>>

AllocateSequence(s, n) ==
    /\ s \notin Live
    /\ \E claim \in Claims(1..BlocksFor(n)) : FreshTable(s, BlocksFor(n), claim)
    /\ InvalidateCaches
    /\ UNCHANGED <<seqLens, kv, saved>>

FreeSequence(s) ==
    /\ s \in Live
    /\ Release(Range(tables[s]))
    /\ tables' = [tables EXCEPT ![s] = <<>>]
    /\ seqLens' = [seqLens EXCEPT ![s] = 0]
    /\ InvalidateCaches
    /\ UNCHANGED saved

\* The child shares the blocks that hold data and gets a private tail for
\* `extra` more tokens.
ForkSequencePrefix(s, child, extra) ==
    LET data  == BlocksFor(seqLens[s])
        total == BlocksFor(seqLens[s] + extra)
    IN  /\ s \in Live
        /\ child \notin Live
        /\ data <= Len(tables[s])
        /\ \E claim \in Claims((data+1)..total) :
              /\ tables' = [tables EXCEPT ![child] =
                              [i \in 1..total |->
                                  IF i <= data THEN tables[s][i] ELSE claim[i]]]
              /\ refcounts' = Retained(Range(claim), {tables[s][i] : i \in 1..data})
              /\ freeBlocks' = freeBlocks \ Range(claim)
        /\ seqLens' = [seqLens EXCEPT ![child] = seqLens[s]]
        /\ InvalidateCaches
        /\ UNCHANGED <<kv, saved>>

\* Mutated form: the blocks behind the new end are kept.
TruncateKeepingBlocks(s, n) ==
    /\ s \in Live
    /\ n < seqLens[s]
    /\ seqLens' = [seqLens EXCEPT ![s] = n]
    /\ InvalidateCaches
    /\ UNCHANGED <<freeBlocks, refcounts, tables, kv, saved>>

TruncateSequence(s, n) ==
    LET keep == BlocksFor(n)
    IN  /\ s \in Live
        /\ n < seqLens[s]
        /\ Release({tables[s][i] : i \in (keep+1)..Len(tables[s])})
        /\ tables' = [tables EXCEPT ![s] = SubSeq(tables[s], 1, keep)]
        /\ seqLens' = [seqLens EXCEPT ![s] = n]
        /\ InvalidateCaches
        /\ UNCHANGED saved

\* Grows the table of s for n more tokens, one allocate_block at a time: when
\* the pool runs dry the call raises and the blocks already added stay.
EnsureSequenceCapacity(s, n) ==
    LET missing == BlocksFor(seqLens[s] + n) - Len(tables[s])
        got     == IF missing <= Cardinality(freeBlocks)
                     THEN missing ELSE Cardinality(freeBlocks)
        tail    == (Len(tables[s])+1)..(Len(tables[s])+got)
    IN  /\ s \in Live
        /\ got > 0
        /\ \E claim \in Claims(tail) :
              /\ tables' = [tables EXCEPT ![s] =
                              [i \in 1..(Len(tables[s])+got) |->
                                  IF i \in tail THEN claim[i] ELSE tables[s][i]]]
              /\ refcounts' = Retained(Range(claim), {})
              /\ freeBlocks' = freeBlocks \ Range(claim)
        /\ tableCache' = <<>>
        /\ UNCHANGED <<seqLens, kv, lensCache, saved>>

-------------------------------------------------------------------------------
(* Writing KV entries. *)

FetchTable(batch) ==
    IF DOMAIN tableCache = batch THEN tableCache ELSE [s \in batch |-> tables[s]]

FetchLens(batch) ==
    IF DOMAIN lensCache = batch THEN lensCache ELSE [s \in batch |-> seqLens[s]]

\* Mutated form: write_kv writes in place.
ToCopyNothing(s, n) == {}

\* Shared blocks a write of n tokens would touch: write_kv copies them first.
ToCopy(s, n) ==
    {i \in 1..Len(tables[s]) :
        /\ i > seqLens[s] \div BlockSize
        /\ i <= CeilDiv(seqLens[s] + n)
        /\ refcounts[tables[s][i]] > 1}

ToGrow(s, n) == (Len(tables[s])+1)..CeilDiv(seqLens[s] + n)

\* The table of s once `claim` replaced the shared blocks and extended it.
WrittenTable(s, n, claim) ==
    LET size == IF CeilDiv(seqLens[s] + n) > Len(tables[s])
                  THEN CeilDiv(seqLens[s] + n) ELSE Len(tables[s])
    IN  [i \in 1..size |-> IF i \in DOMAIN claim THEN claim[i] ELSE tables[s][i]]

\* A copied block loses the reference of s, its copy starts at one.
CountsAfterCopy(copied, claimed) ==
    [b \in Blocks |->
        IF b \in claimed THEN 1
        ELSE IF b \in copied THEN refcounts[b] - 1 ELSE refcounts[b]]

\* The entries after each block tables[s][i], i in copy, was copied to claim[i].
CopiedEntry(s, copy, claim, x) ==
    IF \E i \in copy : claim[i] = x[1]
      THEN kv[<<tables[s][CHOOSE i \in copy : claim[i] = x[1]], x[2]>>]
      ELSE kv[x]

\* Model.prefill, or prefill_suffix when s already holds a prefix: write_kv of
\* n tokens, layer by layer, then advance_seq_len.  The first layer grows the
\* table and copies shared blocks; prefill_suffix has fetched the block table
\* before that.
Prefill(s, n) ==
    LET copy == ToCopy(s, n)
    IN  /\ s \in Live
        /\ seqLens[s] + n <= MaxLen
        /\ \E claim \in Claims(copy \cup ToGrow(s, n)) :
              LET new     == WrittenTable(s, n, claim)
                  written == {SlotAt(new, p) : p \in seqLens[s]..(seqLens[s]+n-1)}
              IN  /\ tables' = [tables EXCEPT ![s] = new]
                  /\ refcounts' = CountsAfterCopy({tables[s][i] : i \in copy}, Range(claim))
                  /\ freeBlocks' = freeBlocks \ Range(claim)
                  /\ kv' = [x \in Slots |-> IF x \in written THEN s
                                            ELSE CopiedEntry(s, copy, claim, x)]
                  /\ tableCache' = IF DOMAIN claim # {} THEN <<>>
                                   ELSE IF seqLens[s] > 0 THEN FetchTable({s})
                                   ELSE tableCache
        /\ lensCache' = <<>>
        /\ seqLens' = [seqLens EXCEPT ![s] = @ + n]
        /\ UNCHANGED saved

\* write_kv runs out of blocks in the first layer: it has grown the table with
\* every free block, raises, and the caller's sequence stays at its old length.
PrefillRaises(s, n) ==
    LET grow == ToGrow(s, n)
        got  == IF Cardinality(grow) <= Cardinality(freeBlocks)
                  THEN Cardinality(grow) ELSE Cardinality(freeBlocks)
        tail == (Len(tables[s])+1)..(Len(tables[s])+got)
    IN  /\ s \in Live
        /\ seqLens[s] + n <= MaxLen
        /\ Cardinality(grow \cup ToCopy(s, n)) > Cardinality(freeBlocks)
        /\ \E claim \in Claims(tail) :
              /\ tables' = [tables EXCEPT ![s] =
                              [i \in 1..(Len(tables[s])+got) |->
                                  IF i \in tail THEN claim[i] ELSE tables[s][i]]]
              /\ refcounts' = Retained(Range(claim), {})
              /\ freeBlocks' = freeBlocks \ Range(claim)
        /\ tableCache' = IF got > 0 THEN <<>>
                         ELSE IF seqLens[s] > 0 THEN FetchTable({s})
                         ELSE tableCache
        /\ lensCache' = IF seqLens[s] > 0 THEN FetchLens({s}) ELSE lensCache
        /\ UNCHANGED <<seqLens, kv, saved>>

\* Model.decode_step on a batch whose tables have room for one more token.  The
\* kernels write at the slot the cached tensors name, with no copy-on-write;
\* of two sequences that name the same slot either may be the last to write.
DecodeStep(batch) ==
    LET rows  == FetchTable(batch)
        lens  == FetchLens(batch)
        slot(s) == SlotAt(rows[s], lens[s])
        hit   == {slot(s) : s \in batch}
    IN  /\ batch # {}
        /\ \A s \in batch :
              /\ s \in Live
              /\ seqLens[s] < MaxLen
              /\ seqLens[s] \div BlockSize < Len(tables[s])
              /\ SharedDecode \/ refcounts[SlotAt(tables[s], seqLens[s])[1]] = 1
        /\ \E last \in [hit -> batch] :
              /\ \A x \in hit : slot(last[x]) = x
              /\ kv' = [x \in Slots |-> IF x \in hit THEN last[x] ELSE kv[x]]
        /\ seqLens' = [s \in SeqIds |-> IF s \in batch THEN seqLens[s] + 1 ELSE seqLens[s]]
        /\ tableCache' = rows
        /\ lensCache' = [s \in batch |-> lens[s] + 1]
        /\ UNCHANGED <<freeBlocks, refcounts, tables, saved>>

-------------------------------------------------------------------------------
(* Snapshots. *)

SerializeSequence(s) ==
    /\ s \in Live
    /\ seqLens[s] > 0
    /\ saved' = Reading(s)
    /\ UNCHANGED <<freeBlocks, refcounts, tables, seqLens, kv, tableCache, lensCache>>

DeserializeSequence(s, extra) ==
    LET n == BlocksFor(Len(saved) + extra)
    IN  /\ s \notin Live
        /\ saved # <<>>
        /\ \E claim \in Claims(1..n) :
              /\ FreshTable(s, n, claim)
              /\ kv' = [x \in Slots |->
                          IF \E i \in DOMAIN saved : SlotAt(claim, i - 1) = x
                            THEN saved[CHOOSE i \in DOMAIN saved : SlotAt(claim, i - 1) = x]
                            ELSE kv[x]]
        /\ seqLens' = [seqLens EXCEPT ![s] = Len(saved)]
        /\ InvalidateCaches
        /\ UNCHANGED saved

\* The engine forks contexts it has prefilled.
Next ==
    \/ \E s \in SeqIds, n \in 0..MaxLen :
          \/ AllocateSequence(s, n)
          \/ TruncateSequence(s, n)
    \/ \E s \in SeqIds, n \in 1..MaxLen :
          \/ EnsureSequenceCapacity(s, n)
          \/ Prefill(s, n)
          \/ PrefillRaises(s, n)
    \/ \E s \in SeqIds : FreeSequence(s) \/ SerializeSequence(s)
    \/ \E s, child \in SeqIds : \E extra \in 0..(MaxLen - seqLens[s]) :
          seqLens[s] > 0 /\ ForkSequencePrefix(s, child, extra)
    \/ \E s \in SeqIds : \E extra \in 0..(MaxLen - Len(saved)) :
          DeserializeSequence(s, extra)
    \/ \E batch \in SUBSET SeqIds : DecodeStep(batch)

Spec == Init /\ [][Next]_vars

-------------------------------------------------------------------------------
(* Properties. *)

TypeOK ==
    /\ freeBlocks \in SUBSET Blocks
    /\ refcounts \in [Blocks -> Nat]
    /\ tables \in [SeqIds -> Seq(Blocks)]
    /\ seqLens \in [SeqIds -> 0..MaxLen]
    /\ kv \in [Slots -> Author]
    /\ DOMAIN tableCache \subseteq SeqIds
    /\ tableCache \in [DOMAIN tableCache -> Seq(Blocks)]
    /\ DOMAIN lensCache \subseteq SeqIds
    /\ lensCache \in [DOMAIN lensCache -> Nat]
    /\ saved \in Seq(Author)

Holders(b) == {s \in SeqIds : b \in Range(tables[s])}

\* A table never lists a block twice, a block's count is the number of tables
\* that hold it, and the free list is exactly the blocks nobody holds: nothing
\* leaks and nothing is freed under a sequence that still reads it.
BlockAccounting ==
    /\ \A s \in SeqIds : IsInjective(tables[s])
    /\ \A b \in Blocks : refcounts[b] = Cardinality(Holders(b))
    /\ freeBlocks = {b \in Blocks : refcounts[b] = 0}

\* A live table has room for every token of its sequence, also after an
\* operation that ran out of blocks half way.
CapacityCoversLength ==
    \A s \in SeqIds : seqLens[s] <= Len(tables[s]) * BlockSize

\* The tensors decode reads agree with the tables and lengths they were made
\* from, whatever ran between two decode steps of the same batch.
CachesFresh ==
    /\ \A s \in DOMAIN tableCache : s \in Live /\ tableCache[s] = tables[s]
    /\ \A s \in DOMAIN lensCache : s \in Live /\ lensCache[s] = seqLens[s]

\* Only the block that holds a sequence's last token, or an earlier one, is
\* shared: a write copies at most one block, then goes on in private blocks.
TailIsPrivate ==
    \A s \in Live : \A i \in DOMAIN tables[s] :
        refcounts[tables[s][i]] > 1 => i = 1 \/ i <= CeilDiv(seqLens[s])

Private == INSTANCE SequenceStore
             WITH live <- Live, store <- [s \in SeqIds |-> Reading(s)], saved <- saved

\* Read through its block table, a sequence behaves as a private string of
\* entries: no allocation, fork, truncation, copy-on-write, decode or restore
\* of another sequence ever changes it.
ImplementsPrivateSequences == Private!Spec
===============================================================================
