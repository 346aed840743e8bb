------------------------------- MODULE TieredKV -------------------------------
(***************************************************************************)
(* The tiered KV cache: class TieredBlockManager, with the engine calls    *)
(* that page blocks in before a forward pass and out after it.             *)
(*                                                                         *)
(* A logical block of a sequence is on the GPU, where its table names it,  *)
(* or in a CPU slot, where the table holds a placeholder (-1) and a second *)
(* map names the slot.  Blocks are never shared here: forking raises.      *)
(*                                                                         *)
(* Abstractions: free lists and dictionaries are sets, so a claim takes    *)
(* any free block and a victim comes from any eligible sequence; an entry  *)
(* is the id of the sequence that computed it; a free block holds none;    *)
(* the cached length tensor, which this class drops as BlockManager does,  *)
(* is left out.  One call runs at a time, so the steps of a call (pc) do   *)
(* not interleave with another's.                                          *)
(***************************************************************************)
EXTENDS Integers, Sequences, FiniteSets, Functions, FiniteSetsExt

CONSTANTS GpuBlocks,   \* physical blocks of the GPU pool
          LastBlock,   \* the one torch reaches with index -1
          CpuBlocks,   \* pinned slots of the CPU pool
          Hole,        \* the placeholder -1 of a block table
          SeqIds,      \* sequence ids
          BlockSize,   \* tokens per block
          GpuWindow,   \* recent blocks evict_cold_blocks leaves on the GPU
          MaxLen,      \* bound: the longest sequence
          GrowBy,      \* bound: tokens one call may ask capacity for
          LongContexts,\* whether a batch may hold more blocks than the GPU
          Snapshots,   \* whether callers save and restore contexts
          Nobody       \* the entry of a slot no live sequence has written

ASSUME TieredAssumption ==
    /\ IsFiniteSet(GpuBlocks) /\ IsFiniteSet(CpuBlocks) /\ IsFiniteSet(SeqIds)
    /\ LastBlock \in GpuBlocks
    /\ GpuBlocks \cap CpuBlocks = {}
    /\ Hole \notin GpuBlocks
    /\ BlockSize \in Nat \ {0}
    /\ MaxLen \in Nat /\ GrowBy \in Nat
    /\ GpuWindow \in Nat
    /\ GpuWindow <= IF (Cardinality(GpuBlocks) * 3) \div 4 > 1
                      THEN (Cardinality(GpuBlocks) * 3) \div 4 ELSE 1
    /\ LongContexts \in BOOLEAN /\ Snapshots \in BOOLEAN
    /\ Nobody \notin SeqIds

VARIABLES gpuFree,     \* free_blocks
          cpuFree,     \* cpu_free_blocks
          tables,      \* tables[s][i] = the GPU block of logical block i, or Hole
          cpuMap,      \* cpuMap[s] = function from offloaded indices to CPU slots
          seqLens,     \* tokens of s whose KV is written
          kv,          \* kv[<<b, o>>] = the entry at offset o of block b
          tableCache,  \* cached block-table tensor, a row per sequence of its key
          saved,       \* KV entries of the last snapshot
          pc,          \* where the call in progress is
          batch,       \* the sequences it works on
          pending      \* the logical blocks <<s, i>> it has still to place

pools == <<gpuFree, cpuFree, tables, cpuMap, kv>>
call == <<pc, batch, pending>>
vars == <<pools, seqLens, tableCache, saved, call>>

Author == SeqIds \cup {Nobody}
Slots == (GpuBlocks \cup CpuBlocks) \X (0..BlockSize-1)

CeilDiv(n) == (n + BlockSize - 1) \div BlockSize
BlocksFor(n) == IF CeilDiv(n) > 1 THEN CeilDiv(n) ELSE 1

Live == {s \in SeqIds : tables[s] # <<>>}
IsResident(s, i) == tables[s][i] # Hole
Residents(s) == {i \in DOMAIN tables[s] : IsResident(s, i)}
Holes(s) == DOMAIN tables[s] \ Residents(s)

\* The logical blocks of the sequences of B.
BlocksOf(B) == UNION {{s} \X DOMAIN tables[s] : s \in B}

\* The block, of either pool, that holds logical block i of s.
Home(s, i) == IF IsResident(s, i) THEN tables[s][i] ELSE cpuMap[s][i]
Reading(s) == [p \in 1..seqLens[s] |->
                  kv[<<Home(s, ((p - 1) \div BlockSize) + 1), (p - 1) % BlockSize>>]]

Init ==
    /\ gpuFree = GpuBlocks
    /\ cpuFree = CpuBlocks
    /\ tables = [s \in SeqIds |-> <<>>]
    /\ cpuMap = [s \in SeqIds |-> <<>>]
    /\ seqLens = [s \in SeqIds |-> 0]
    /\ kv = [x \in Slots |-> Nobody]
    /\ tableCache = <<>>
    /\ saved = <<>>
    /\ pc = "idle"
    /\ batch = {}
    /\ pending = {}

Goto(place, B, P) == pc' = place /\ batch' = B /\ pending' = P
Return == Goto("idle", {}, {})

-------------------------------------------------------------------------------
(* Moving blocks between the pools. *)

\* Mutated form: the source is freed before it is copied.
MovedNothing(moves, freed) ==
    [x \in Slots |-> IF x[1] \in freed \cup {mv[2] : mv \in moves} THEN Nobody ELSE kv[x]]

\* The entries after the contents of each block x[1] moved to x[2] for x in
\* `moves`, and those of the blocks in `freed` no longer belong to anyone.
MovedEntries(moves, freed) ==
    [x \in Slots |->
        IF \E mv \in moves : mv[2] = x[1]
          THEN kv[<<(CHOOSE mv \in moves : mv[2] = x[1])[1], x[2]>>]
          ELSE IF x[1] \in freed THEN Nobody ELSE kv[x]]

TablesWithout(E) ==
    [s \in SeqIds |-> [i \in DOMAIN tables[s] |->
        IF <<s, i>> \in E THEN Hole ELSE tables[s][i]]]

OffloadedTo(E, claim) ==
    [s \in SeqIds |->
        [i \in DOMAIN cpuMap[s] \cup {x[2] : x \in {y \in E : y[1] = s}} |->
            IF <<s, i>> \in E THEN claim[<<s, i>>] ELSE cpuMap[s][i]]]

\* Copies the logical blocks of E to CPU slots; their GPU blocks become free.
Evict(E) ==
    \E claim \in Injection(E, cpuFree) :
        LET freed == {tables[x[1]][x[2]] : x \in E}
        IN  /\ tables' = TablesWithout(E)
            /\ cpuMap' = OffloadedTo(E, claim)
            /\ kv' = MovedEntries({<<tables[x[1]][x[2]], claim[x]>> : x \in E}, freed)
            /\ gpuFree' = gpuFree \cup freed
            /\ cpuFree' = cpuFree \ Range(claim)

\* Used blocks of s older than the window.
BehindWindow(s) ==
    LET used == CeilDiv(seqLens[s])
    IN  1..(used - (IF GpuWindow < used THEN GpuWindow ELSE used))

Oldest(C) == {x \in C : \A y \in C : x[1] = y[1] => x[2] <= y[2]}

\* What is evicted for the sequences of `active`: the first resident block of
\* another sequence, else of an active one behind its window, else of an
\* active one at all; nothing when the CPU pool is full.
Victims(active) ==
    LET on(S) == UNION {{s} \X Residents(s) : s \in S}
        behind == {x \in on(active) : x[2] \in BehindWindow(x[1])}
    IN  IF cpuFree = {} THEN {}
        ELSE IF on(Live \ active) # {} THEN Oldest(on(Live \ active))
        ELSE IF behind # {} THEN Oldest(behind)
        ELSE Oldest(on(active))

-------------------------------------------------------------------------------
(* Lifecycle of a sequence. *)

\* GPU blocks first; what does not fit starts out in CPU slots.
AllocateSequence(s, n) ==
    LET total == BlocksFor(n)
        onGpu == IF total <= Cardinality(gpuFree) THEN total ELSE Cardinality(gpuFree)
    IN  /\ pc = "idle"
        /\ s \notin Live
        /\ total <= Cardinality(gpuFree) + Cardinality(cpuFree)
        /\ \E g \in Injection(1..onGpu, gpuFree), c \in Injection((onGpu+1)..total, cpuFree) :
              /\ tables' = [tables EXCEPT ![s] =
                              [i \in 1..total |-> IF i <= onGpu THEN g[i] ELSE Hole]]
              /\ cpuMap' = [cpuMap EXCEPT ![s] = c]
              /\ gpuFree' = gpuFree \ Range(g)
              /\ cpuFree' = cpuFree \ Range(c)
        /\ UNCHANGED <<seqLens, kv, tableCache, saved, call>>

\* Mutated form: the CPU slots are not given back.
ReleaseGpuOnly(s, first) ==
    LET gone == {i \in DOMAIN tables[s] : i >= first}
        blocks == {Home(s, i) : i \in gone}
    IN  /\ tables' = [tables EXCEPT ![s] = SubSeq(@, 1, first - 1)]
        /\ cpuMap' = [cpuMap EXCEPT ![s] = [i \in DOMAIN @ \ gone |-> @[i]]]
        /\ gpuFree' = gpuFree \cup (blocks \cap GpuBlocks)
        /\ kv' = MovedEntries({}, blocks)
        /\ UNCHANGED cpuFree

\* Mutated form: the map still names the slots.
ReleaseKeepingMap(s, first) ==
    LET blocks == {Home(s, i) : i \in {j \in DOMAIN tables[s] : j >= first}}
    IN  /\ tables' = [tables EXCEPT ![s] = SubSeq(@, 1, first - 1)]
        /\ gpuFree' = gpuFree \cup (blocks \cap GpuBlocks)
        /\ cpuFree' = cpuFree \cup (blocks \cap CpuBlocks)
        /\ kv' = MovedEntries({}, blocks)
        /\ UNCHANGED cpuMap

\* Gives back the blocks of s from index `first` on, in whichever pool they are.
Release(s, first) ==
    LET gone == {i \in DOMAIN tables[s] : i >= first}
        blocks == {Home(s, i) : i \in gone}
    IN  /\ tables' = [tables EXCEPT ![s] = SubSeq(@, 1, first - 1)]
        /\ cpuMap' = [cpuMap EXCEPT ![s] = [i \in DOMAIN @ \ gone |-> @[i]]]
        /\ gpuFree' = gpuFree \cup (blocks \cap GpuBlocks)
        /\ cpuFree' = cpuFree \cup (blocks \cap CpuBlocks)
        /\ kv' = MovedEntries({}, blocks)

FreeSequence(s) ==
    /\ pc = "idle"
    /\ s \in Live
    /\ Release(s, 1)
    /\ seqLens' = [seqLens EXCEPT ![s] = 0]
    /\ tableCache' = <<>>
    /\ UNCHANGED <<saved, call>>

TruncateSequence(s, n) ==
    /\ pc = "idle"
    /\ s \in Live
    /\ n < seqLens[s]
    /\ Release(s, BlocksFor(n) + 1)
    /\ seqLens' = [seqLens EXCEPT ![s] = n]
    /\ tableCache' = <<>>
    /\ UNCHANGED <<saved, call>>

-------------------------------------------------------------------------------
(* _ensure_sequence_capacity: one allocate_block per missing block, and the  *)
(* cached table is dropped once the last one is there.                       *)

EnsureSequenceCapacity(s, n) ==
    LET missing == (Len(tables[s])+1)..BlocksFor(seqLens[s] + n)
    IN  /\ pc = "idle"
        /\ s \in Live
        /\ seqLens[s] + n <= MaxLen
        /\ missing # {}
        /\ Goto("growing", {s}, {s} \X missing)
        /\ UNCHANGED <<pools, seqLens, tableCache, saved>>

\* The tables once the sequence that grows has block b at its end.
Appended(base, b) ==
    [s \in SeqIds |-> IF s \in batch THEN Append(base[s], b) ELSE base[s]]

OneLess == pending' = pending \ Oldest(pending) /\ UNCHANGED <<pc, batch>>

AllocateBlock ==
    /\ pc = "growing"
    /\ pending # {}
    /\ \E b \in gpuFree :
          /\ tables' = Appended(tables, b)
          /\ gpuFree' = gpuFree \ {b}
    /\ OneLess
    /\ UNCHANGED <<cpuFree, cpuMap, kv, seqLens, tableCache, saved>>

\* The GPU pool is empty: a victim moves out and its block is taken at once.
\* (The code's last resort, a CPU slot for the new block, needs a full GPU pool
\* no table holds a block of, and is never reached.)
AllocateBlockEvicting ==
    /\ pc = "growing"
    /\ pending # {}
    /\ gpuFree = {}
    /\ \E v \in Victims(batch), c \in cpuFree :
          LET b == tables[v[1]][v[2]]
          IN  /\ tables' = Appended(TablesWithout({v}), b)
              /\ cpuMap' = OffloadedTo({v}, [x \in {v} |-> c])
              /\ kv' = MovedEntries({<<b, c>>}, {b})
              /\ cpuFree' = cpuFree \ {c}
    /\ OneLess
    /\ UNCHANGED <<gpuFree, seqLens, tableCache, saved>>

\* Both pools are full: the call raises and keeps the blocks already added.
AllocateBlockRaises ==
    /\ pc = "growing"
    /\ pending # {}
    /\ gpuFree = {}
    /\ Victims(batch) = {}
    /\ Return
    /\ UNCHANGED <<pools, seqLens, tableCache, saved>>

\* Mutated form: the cached table survives the growth.
CapacityEnsuredSilently ==
    /\ pc = "growing"
    /\ pending = {}
    /\ Return
    /\ UNCHANGED <<pools, seqLens, tableCache, saved>>

CapacityEnsured ==
    /\ pc = "growing"
    /\ pending = {}
    /\ tableCache' = <<>>
    /\ Return
    /\ UNCHANGED <<pools, seqLens, saved>>

-------------------------------------------------------------------------------
(* ensure_blocks_on_gpu, before every forward pass.                          *)

EnsureBlocksOnGpu(B) ==
    LET missing == UNION {{s} \X Holes(s) : s \in B}
    IN  /\ pc = "idle"
        /\ B # {} /\ B \subseteq Live
        /\ LongContexts \/ Cardinality(BlocksOf(B)) <= Cardinality(GpuBlocks)
        /\ Goto(IF missing = {} THEN "ready" ELSE "fetching", B, missing)
        /\ UNCHANGED <<pools, seqLens, tableCache, saved>>

RoomToFetch == Cardinality(pending) <= Cardinality(gpuFree)

\* Mutated form: the batch's own blocks are victims like any other.
EvictAnyForFetch ==
    /\ pc = "fetching"
    /\ ~RoomToFetch
    /\ \E v \in Victims(Live) : Evict({v})
    /\ UNCHANGED <<seqLens, tableCache, saved, call>>

EvictForFetch ==
    /\ pc = "fetching"
    /\ ~RoomToFetch
    /\ \E v \in Victims(batch) : Evict({v})
    /\ UNCHANGED <<seqLens, tableCache, saved, call>>

\* Mutated form: the loop goes round again instead of raising.
FetchSpins ==
    /\ pc = "fetching"
    /\ ~RoomToFetch
    /\ Victims(batch) = {}
    /\ UNCHANGED vars

\* Mutated form: raises without having tried to evict.
FetchRaisesAtOnce ==
    /\ pc = "fetching"
    /\ ~RoomToFetch
    /\ Return
    /\ UNCHANGED <<pools, seqLens, tableCache, saved>>

FetchRaises ==
    /\ pc = "fetching"
    /\ ~RoomToFetch
    /\ Victims(batch) = {}
    /\ Return
    /\ UNCHANGED <<pools, seqLens, tableCache, saved>>

\* Brings in the blocks that were missing when the call began.
FetchBlocks ==
    /\ pc = "fetching"
    /\ RoomToFetch
    /\ \E claim \in Injection(pending, gpuFree) :
          LET left == {cpuMap[x[1]][x[2]] : x \in pending}
          IN  /\ tables' = [s \in SeqIds |-> [i \in DOMAIN tables[s] |->
                              IF <<s, i>> \in pending THEN claim[<<s, i>>] ELSE tables[s][i]]]
              /\ cpuMap' = [s \in SeqIds |->
                              [i \in {j \in DOMAIN cpuMap[s] : <<s, j>> \notin pending} |->
                                  cpuMap[s][i]]]
              /\ kv' = MovedEntries({<<cpuMap[x[1]][x[2]], claim[x]>> : x \in pending}, left)
              /\ gpuFree' = gpuFree \ Range(claim)
              /\ cpuFree' = cpuFree \cup left
    /\ tableCache' = <<>>
    /\ Goto("ready", batch, {})
    /\ UNCHANGED <<seqLens, saved>>

-------------------------------------------------------------------------------
(* The forward pass, then evict_cold_blocks.                                 *)

FetchTable ==
    IF DOMAIN tableCache = batch THEN tableCache ELSE [s \in batch |-> tables[s]]

\* Where a write at position p under block table t lands.  Index -1 is the last
\* block to torch and outside the pool to a kernel, as is a row too short.
WriteSlots(t, p) ==
    LET i == (p \div BlockSize) + 1
        blocks == IF i \notin DOMAIN t THEN {Hole}
                  ELSE IF t[i] = Hole THEN {Hole, LastBlock} ELSE {t[i]}
    IN  blocks \X {p % BlockSize}

Written(t, from, n) ==
    {f \in [from..(from+n-1) -> (GpuBlocks \cup {Hole}) \X (0..BlockSize-1)] :
        \A p \in from..(from+n-1) : f[p] \in WriteSlots(t, p)}

\* prefill of a sequence of the batch, or prefill_suffix of one alone: write_kv
\* follows the table itself, whose capacity the caller has seen to.
Prefill(s, n) ==
    /\ pc = "ready"
    /\ s \in batch
    /\ seqLens[s] = 0 \/ batch = {s}
    /\ seqLens[s] + n <= MaxLen
    /\ CeilDiv(seqLens[s] + n) <= Len(tables[s])
    /\ \E at \in Written(tables[s], seqLens[s], n) :
          kv' = [x \in Slots |-> IF x \in Range(at) THEN s ELSE kv[x]]
    /\ seqLens' = [seqLens EXCEPT ![s] = @ + n]
    /\ tableCache' = IF seqLens[s] > 0 THEN FetchTable ELSE tableCache
    /\ UNCHANGED <<gpuFree, cpuFree, tables, cpuMap, saved, call>>

\* decode_step writes where the cached table says.
DecodeStep ==
    /\ pc = "ready"
    /\ \A s \in batch : seqLens[s] < MaxLen /\ CeilDiv(seqLens[s] + 1) <= Len(tables[s])
    /\ \E at \in [batch -> (GpuBlocks \cup {Hole}) \X (0..BlockSize-1)] :
          /\ \A s \in batch : at[s] \in WriteSlots(FetchTable[s], seqLens[s])
          /\ \E last \in [Range(at) -> batch] :
                /\ \A x \in Range(at) : at[last[x]] = x
                /\ kv' = [x \in Slots |-> IF x \in Range(at) THEN last[x] ELSE kv[x]]
    /\ seqLens' = [s \in SeqIds |-> IF s \in batch THEN seqLens[s] + 1 ELSE seqLens[s]]
    /\ tableCache' = FetchTable
    /\ UNCHANGED <<gpuFree, cpuFree, tables, cpuMap, saved, call>>

\* The forward pass raises, or the caller stops: nothing is evicted.
Leave ==
    /\ pc = "ready"
    /\ Return
    /\ UNCHANGED <<pools, seqLens, tableCache, saved>>

\* Offloads what is behind the windows, oldest first and sequence by sequence,
\* while CPU slots last.
EvictColdBlocks ==
    LET cold == UNION {{s} \X (BehindWindow(s) \cap Residents(s)) : s \in batch}
        room == IF Cardinality(cold) <= Cardinality(cpuFree)
                  THEN Cardinality(cold) ELSE Cardinality(cpuFree)
        cut(E) == {s \in batch : /\ \E x \in E : x[1] = s
                                 /\ \E x \in cold \ E : x[1] = s}
    IN  /\ pc = "ready"
        /\ \E E \in kSubset(room, cold) :
              /\ \A x \in E, y \in cold : x[1] = y[1] /\ y[2] < x[2] => y \in E
              /\ Cardinality(cut(E)) <= 1
              /\ Evict(E)
        /\ tableCache' = IF room > 0 THEN <<>> ELSE tableCache
        /\ Return
        /\ UNCHANGED <<seqLens, saved>>

-------------------------------------------------------------------------------
(* Snapshots: inherited from BlockManager, unaware of the CPU pool.          *)

\* Index -1 reads the last block.
SerializeSequence(s) ==
    LET block(i) == IF IsResident(s, i) THEN tables[s][i] ELSE LastBlock
    IN  /\ Snapshots
        /\ pc = "idle"
        /\ s \in Live
        /\ seqLens[s] > 0
        /\ saved' = [p \in 1..seqLens[s] |->
                        kv[<<block(((p - 1) \div BlockSize) + 1), (p - 1) % BlockSize>>]]
        /\ UNCHANGED <<pools, seqLens, tableCache, call>>

\* A data block that overflowed to the CPU is written to the last block; of two
\* either may be the one that stays.
DeserializeSequence(s, extra) ==
    LET total == BlocksFor(Len(saved) + extra)
        data == CeilDiv(Len(saved))
        onGpu == IF total <= Cardinality(gpuFree) THEN total ELSE Cardinality(gpuFree)
    IN  /\ Snapshots
        /\ pc = "idle"
        /\ s \notin Live
        /\ saved # <<>>
        /\ total <= Cardinality(gpuFree) + Cardinality(cpuFree)
        /\ \E g \in Injection(1..onGpu, gpuFree), c \in Injection((onGpu+1)..total, cpuFree) :
              LET t == [i \in 1..total |-> IF i <= onGpu THEN g[i] ELSE Hole]
                  at(i) == IF t[i] = Hole THEN LastBlock ELSE t[i]
                  entry(i, o) == LET p == (i - 1) * BlockSize + o + 1
                                 IN  IF p <= Len(saved) THEN saved[p] ELSE Nobody
              IN  /\ \E last \in [{at(i) : i \in 1..data} -> 1..data] :
                        /\ \A b \in DOMAIN last : at(last[b]) = b
                        /\ kv' = [x \in Slots |->
                                    IF x[1] \in DOMAIN last THEN entry(last[x[1]], x[2])
                                    ELSE kv[x]]
                  /\ tables' = [tables EXCEPT ![s] = t]
                  /\ cpuMap' = [cpuMap EXCEPT ![s] = c]
                  /\ gpuFree' = gpuFree \ Range(g)
                  /\ cpuFree' = cpuFree \ Range(c)
        /\ seqLens' = [seqLens EXCEPT ![s] = Len(saved)]
        /\ tableCache' = <<>>
        /\ UNCHANGED <<saved, call>>

-------------------------------------------------------------------------------
InCall ==
    \/ AllocateBlock \/ AllocateBlockEvicting \/ AllocateBlockRaises \/ CapacityEnsured
    \/ EvictForFetch \/ FetchRaises \/ FetchBlocks

Next ==
    \/ InCall
    \/ \E s \in SeqIds, n \in 0..MaxLen : AllocateSequence(s, n) \/ TruncateSequence(s, n)
    \/ \E s \in SeqIds, n \in 1..GrowBy : EnsureSequenceCapacity(s, n)
    \/ \E s \in SeqIds : FreeSequence(s) \/ SerializeSequence(s)
    \/ \E s \in SeqIds, n \in 1..MaxLen : Prefill(s, n)
    \/ \E s \in SeqIds : \E extra \in 0..(MaxLen - Len(saved)) : DeserializeSequence(s, extra)
    \/ \E B \in SUBSET SeqIds : EnsureBlocksOnGpu(B)
    \/ DecodeStep \/ EvictColdBlocks \/ Leave

Spec == Init /\ [][Next]_vars

\* A call that has begun runs on: it is ordinary sequential code.
FairSpec == Spec /\ WF_vars(InCall)

-------------------------------------------------------------------------------
(* Properties. *)

TypeOK ==
    /\ gpuFree \subseteq GpuBlocks
    /\ cpuFree \subseteq CpuBlocks
    /\ tables \in [SeqIds -> Seq(GpuBlocks \cup {Hole})]
    /\ \A s \in SeqIds : /\ DOMAIN cpuMap[s] \subseteq DOMAIN tables[s]
                          /\ cpuMap[s] \in [DOMAIN cpuMap[s] -> CpuBlocks]
    /\ seqLens \in [SeqIds -> 0..MaxLen]
    /\ kv \in [Slots -> Author]
    /\ DOMAIN tableCache \subseteq Live
    /\ saved \in Seq(Author)
    /\ pc \in {"idle", "growing", "fetching", "ready"}
    /\ batch \subseteq Live
    /\ \A x \in pending : x[1] \in batch

Placed == BlocksOf(SeqIds)
HomeOf(x) == Home(x[1], x[2])

\* A placeholder has a CPU slot and a resident block has none; no two logical
\* blocks are in one place; and the free lists are exactly the places nobody is
\* in: paging, overflow, truncation and failures half way leak or double-free
\* nothing.
PlacedOnce ==
    /\ \A s \in SeqIds : DOMAIN cpuMap[s] = Holes(s)
    /\ \A x, y \in Placed : HomeOf(x) = HomeOf(y) => x = y
    /\ gpuFree \cup cpuFree = (GpuBlocks \cup CpuBlocks) \ {HomeOf(x) : x \in Placed}

\* ensure_blocks_on_gpu: "every block with data must be on GPU".  When the
\* forward pass runs, no block of its batch is behind a placeholder.
ReadyMeansResident ==
    pc = "ready" => \A s \in batch : Holes(s) = {}

\* _ensure_sequence_capacity: "Rebuild cached block tables on the next decode
\* after changing capacity".  The block table a forward pass would read from
\* the cache is the one its sequences have.
RowsFresh ==
    pc = "ready" /\ DOMAIN tableCache = batch => \A s \in batch : tableCache[s] = tables[s]

\* A batch is refused only when the CPU pool has no slot left to swap through.
RefusedOnlyWhenFull ==
    [][pc = "fetching" /\ pc' = "idle" => cpuFree = {}]_vars

\* ensure_blocks_on_gpu and the capacity loop evict until there is room or
\* raise; neither goes round for ever.
CallsEnd == pc \in {"growing", "fetching"} ~> pc \in {"idle", "ready"}

Private == INSTANCE SequenceStore
             WITH live <- Live, store <- [s \in SeqIds |-> Reading(s)], saved <- saved

\* Wherever its blocks are paged to, a sequence behaves as a private string of
\* entries.
ImplementsPrivateSequences == Private!Spec
===============================================================================
