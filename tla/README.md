# MegaGemm in TLA+

A verification development of the MegaGemm inference engine: TLA+ modules for the
parts of the system whose correctness is a matter of order, sharing and failure;
TLC configurations that check them on small instances; and TLAPS proofs of the
properties that should hold for every instance. Numeric code (kernels, layers,
quantization) is out of scope: what matters here is which slot, block, sequence or
request an operation touches, and when.

## 1. The system

| part | state it keeps | operations | talks to |
|---|---|---|---|
| `engine/kv_cache.py` BlockManager | free list, reference counts, block tables, lengths, cached block-table and length tensors, linear-attention states | allocate, free, fork, truncate, write (copy-on-write), advance, fetch tensors, serialize, restore one or many | called by the model on every layer, by the scheduler and the engine |
| `engine/kv_cache.py` TieredBlockManager | the same plus a CPU pool and a map from logical blocks to CPU blocks | fetch before use, evict after use, overflow allocation | scheduler calls fetch and evict around every forward pass |
| `models/llama.py` | weights; none that outlives a call as far as the cache is concerned | prefill, prefill_suffix, decode_step, decode_multi_step | writes KV either through `write_kv` or at slots read from the cached tensors |
| `engine/scheduler.py` Scheduler | waiting list, running map, completed list, id counters, decode buffers, decode graphs | add_request, step (admit, prefill in chunks, decode), abort | one per batch call, over the engine's block manager |
| `engine/engine.py` MegaGemm | token history and pending logits per live context, its own id counter, last scheduler | generate, generate_batch(_stream), prefill/generate/save/restore/fork/truncate/replay context | owns block manager, model, scheduler |
| `engine/prophet.py` | on-disk index and snapshots, resident sources, LRU of loaded snapshots | record, restore (best, exact batch, speculative), prune | forks and restores contexts of the engine |
| `mesh/router.py`, `worker.py` | none across calls; a worker has an engine behind a lock | assign prompts to replicas, retry failed buckets elsewhere | HTTP |
| `mesh/shard_pipeline.py` | id counter, client pool | generate, generate_batch, generate_continuous, free | one request at a time per stage, two stages overlapped |
| `mesh/shard_worker.py`, `shard_model.py` | a block manager per stage, forward clients, counters | prefill, decode, chains, continuous admission, free | stage to stage over TTP |
| `mesh/ttp.py` | one socket per client | request (resent once after a connection error), serve | threads of the worker |
| `mesh/planner.py` | none | split layers over devices | pure algorithm |
| `engine/offload.py`, `monitor.py`, `dashboard.py`, `xai.py` | weight buffers, counters | streaming of weights, reports | around the forward pass |
| loaders, `mgx.py`, quantization, sparsity, embeddings, kernels, `microgemm/` | files and weights | conversion, numeric kernels | — |

What makes them correct:

- **BlockManager.** A block's count is the number of tables that hold it; the free
  blocks are those at zero; a table has room for its sequence; the cached tensors
  agree with tables and lengths; and a sequence read through its table is private:
  no operation on another sequence changes it.
- **Scheduler and engine calls.** A request is in exactly one list; admission never
  takes more than the pool has; a burst never passes a request's limit; what a call
  returns is complete and was returned once; a call ends; contexts that live beside
  a call survive it.
- **TieredBlockManager.** During a forward pass every block of every active sequence
  is on the GPU and named by the tensor the kernel reads.
- **Decode graphs.** A replay is a decode step of the sequences it was asked for,
  also after a failed capture or a change of the batch.
- **Prophet.** The index names only complete snapshots; an eviction never takes a
  block from a live fork.
- **Router.** Each prompt gets exactly one output at its own index or the call
  raises; retries end.
- **Shards.** All stages agree on the length of every sequence, although requests
  may be executed twice, clients are shared and frees may be lost.

Where it is hard: everything in one process is synchronous, so the hazards there are
*sequences of legal calls*, *exceptions half way* and *stale cached tensors* rather
than threads; a stream gives control back to its caller in the middle of a batch;
the mesh adds threads, timeouts, resent requests and failed replicas. `PROJECT.json`
lists the hazards at their lines.

## 2. Modules and plan

| # | module | contents | state |
|---|---|---|---|
| 1 | `SequenceStore` | what the cache promises: sequences as private strings of entries | done |
| 2 | `BlockManager` | the paged cache, its callers in model and engine | done, but for linear states |
| 3 | `BlockManager_proofs` | its invariants; fresh caches, private tails, and that it implements `SequenceStore` | done |
| 4 | `Scheduler` | batch and stream calls, scheduler steps, contexts beside them | done |
| | `Scheduler_proofs` | its invariants, and that contexts survive a call | done |
| 5 | `TieredKV` | two pools, overflow, fetch, evict, growth, cached tensor, snapshots | done |
| | `TieredKV_proofs` | its invariants, when it refuses, and that it implements `SequenceStore` | done |
| 6 | `MeshRouter` | replicas, failover: each prompt once, or raise | done |
| | `MeshRouter_proofs` | what dealing does, and all its safety properties | done |
| 7 | `TTP`, `ShardStage`, `RemoteLoop`, `ShardMesh` | transport, stage, remote loop, and the coordinator over two stages | done |
| | `ShardMesh_proofs` | one call per client, and nothing left behind | done |
| 8 | `DecodeGraph` | shape states, warm-up, capture failure, feedback chain, bursts | done |
| | `DecodeGraph_proofs` | that tokens are exact and lengths agree, with the cache by shape | done |
| 9 | `Contexts`, `Prophet` | contexts of an engine as functions of its state; the library over them | done |
| | `Contexts_proofs` | what each call of the engine does to the texts it keeps | done |
| | `Prophet_proofs` | that callers are told the truth, and nothing is left over | done |

Each `MC` module extends its module with the definitions a configuration needs.

`BlockManager` is the base of everything that stores KV. `Scheduler` uses a coarser
pool (numbers of blocks) because nothing it does shares a block; `BlockManager`
covers what it leaves out. `TieredKV` refines the same promise, `SequenceStore`.
`DecodeGraph` has its own account of tables and lengths, with the blocks numbered,
because which physical blocks a request gets is what a graph depends on. `Contexts`
computes with rows instead of authors, because Prophet truncates, replays and forks
texts. `ShardMesh` composes a transport (`TTP`), two stages (`ShardStage`) and, in
stage 1's threads, the loop of `RemoteLoop`.

One safety invariant has no theorem: `AnswersRight` of `ShardMesh`, which says what every
row on every stage was computed from. It stays with TLC.

## 3. The KV cache: `SequenceStore`, `BlockManager`

**Correspondence.** `tables`, `seqLens`, `refcounts`, `freeBlocks` are the fields of
the class. `kv` is the content of `kv_caches`: for every slot the id of the sequence
whose forward pass computed the entry, which is all that isolation needs to tell
apart. `tableCache` and `lensCache` are `_block_table_tensor` and `_seq_lens_tensor`
as functions from the batch they are keyed by. `saved` is the last snapshot.

| action | code |
|---|---|
| `AllocateSequence`, `FreeSequence`, `ForkSequencePrefix`, `TruncateSequence` | the methods of the same names |
| `EnsureSequenceCapacity` | the engine's `_ensure_sequence_capacity`, also when it runs out half way |
| `Prefill`, `PrefillRaises` | `prefill` and `prefill_suffix`: `write_kv` in each layer (grow the table, copy shared blocks, write), then `advance_seq_len`; or running out of blocks in the first layer |
| `DecodeStep` | `decode_step`: fetch the cached tensors, write where they point, advance lengths and the cached length tensor in place |
| `SerializeSequence`, `DeserializeSequence` | the snapshot of one sequence and its restore |

All layers of a block are one block because every layer uses the same table; the
layers after the first find the table already grown and copied. The free list is a
set: the code pops its last element, a claim here takes any, which includes that.

**Run.** `fork_isolation` has three sequences over three blocks of two tokens: the
pool runs dry in the middle of an operation, a block is shared by three, lengths end
on and off a block boundary. Snapshots are taken of a full-length sequence while at
most two live (`SnapshotsOfTwo` bounds the states that are continued) and restored at
any time after. Symmetry in blocks and sequences is sound because entries are only
compared for equality. The run checks the accounting, the capacity, the freshness of
the cached tensors, that at most one block of a write is shared, and that the cache
implements `SequenceStore`, snapshots included.

It sets `SharedDecode = FALSE`: callers do not decode into a block that another
sequence shares. That is an assumption about callers which the code does not make
true: with `SharedDecode = TRUE` a fork followed by a decode step overwrites an entry of
the parent, because `decode_step` writes in place and only `write_kv` and
`write_kv_decode_batch` copy. A caller that forks a context and goes on with both does
this; `prophet_shared` in section 9 shows it.

**Proofs** (`BlockManager_proofs`), for any finite set of blocks and sequences, any
block size and length bound, and either value of `SharedDecode`:

- `TypeCorrect`: `Spec => []TypeOK`;
- `CapacityAlways`: `Spec => []CapacityCoversLength`;
- `AccountingExact`: `Spec => []BlockAccounting`.

The invariant of the first two, `TypeInv`, is `TypeOK` with the capacity: a
snapshot reads a sequence through its table, so that entries of the right type come
out needs that the table has a block for every position.
The accounting is inductive only on top of it: `Inv == TypeInv /\ BlockAccounting`.
Its argument: an operation changes the tables of one sequence, so the holders of a
block change by at most that sequence (`HoldersChange`), the count changes by the
same amount (`AccountingStep`), and what is claimed is free, hence held by nobody
(`ClaimAccounting`); growth, fork and copy-on-write are the three ways to combine
them. Only the assumption of the module on its constants is used.

For the same constants but `SharedDecode = FALSE`:

- `CachesAlwaysFresh`: `Spec => []CachesFresh`;
- `TailAlwaysPrivate`: `Spec => []TailIsPrivate`;
- `PrivateSequences`: `Spec => ImplementsPrivateSequences`.

Isolation is not inductive by itself: two tables may share blocks, and that a write to
one does not show in the other rests on *what* they share. The strengthening is
`SharedPrefix`: a block that another table holds too is one of those that the
sequence's tokens fill, and never one of the reserve behind them, so that a write meets
at most one shared block, that of the last token. Each operation is then
shown to be an operation of the store or to stutter: a write touches blocks with one
holder, an append extends the string that is read by what was written, and a cut of the
table leaves the prefix. The assumption is needed in one place, a decode step that
writes through the cached tensor without copying; `prophet_shared` (section 9) shows
what happens without it.

## 4. Batching: `Scheduler`

**Correspondence.** `waiting`, `running`, `completed` are the scheduler's lists;
`admitted` is the local `batch` of a step and `newly` its `newly_completed`; `gen`
and `stopped` say how many tokens a request has and whether the last is a stop token;
`free`, `blocks`, `owner`, `kvLen` are the pool as numbers. `owner` is bookkeeping of
the model, it tells whose table an id names: a request of the call, a context of the
engine, or an *orphan*, a request whose call is over.

| action | code |
|---|---|
| `Submit`, `Return` | the two ends of `generate_batch` and `generate_batch_stream` |
| `BeginStep` | `_collect_prefill_batch` |
| `PrefillChunk` | one chunk of `_prefill_batch`, packed or padded, or `_prefill_request`: allocate all, forward, sample the first tokens |
| `PrefillRaises` | an allocation or the forward pass raises, `_abort_prefill_allocations` runs, the exception ends the call |
| `SampleRaises`, `DecodeRaises` | an exception where nothing is aborted |
| `EndPrefill`, `Decode` | the second phase of `step`: one token, or a burst when nothing waits |
| `Abandon` | the consumer drops the stream at a yield |
| `PrefillContext`, `FreeContext` | `prefill_context` and `free_sequence` by the caller, between calls or at a yield |

**Runs.** `batching`: two calls of up to three requests, prompts of one or three
tokens, limits of zero, one and three, over four blocks of two tokens and two slots.
Two long requests do not fit together, so requests wait for blocks, for slots, or
finish in their prefill. An exception is possible at every model call, the consumer of
a stream may drop it, and a context with an id of its own lives beside the calls.
`oversized_request` is one instance of a behaviour that contradicts what the code's
own text says: a request the pool cannot hold keeps the call looping.

Two more things the run assumes or allows because the code does not exclude them:

- Contexts have ids that no counter reaches (`FarIds`). With ids from the engine's
  counter, which starts at 1 like the scheduler's, the first call meets the context's
  table, its allocation raises, and the abort frees the context.
- A call that raises may leave blocks: when the second chunk of a prefill raises, the
  first keeps its tables. The properties account for them as orphans.

A limit of zero tokens yields one, because the first is sampled before the limit is
looked at; `ReturnedComplete` allows for it. The model also shows what follows an abandoned stream or an exception: its requests'
tables stay (`owner = "orphan"`), a later call's ids meet them, its allocation
raises and the abort frees them; or, when what they hold leaves too little, a later
call loops. `CallEnds` therefore speaks of calls that have the pool to themselves.

**Fairness.** `FairSpec` has weak fairness of the scheduler's steps as a whole: a
batch call is a loop in one thread, and the property is about streams whose consumer
asks for the next result or drops the stream. No fairness between alternatives is
assumed: which chunk, which token and whether a stop token comes is free.

**Bounds.** `MaxCalls` and `MaxRequests` bound the submissions. Two calls are the
least that show what one leaves behind; three requests over two slots the least with
one waiting while one runs and one finishes. Deadlock is not checked in these runs:
after its last call the system rests.

**Proofs** (`Scheduler_proofs`), for any pool, block size, number of slots, calls and
requests: `TypeCorrect`, `RequestsConserved`, `PoolAccounted`, `DecodeIsSafe`,
`AdmissionNeverOvercommits` and `ReturnsComplete` state the run's invariants, and
`ContextsAreSafe` the action property `ContextsSurvive` when no context has the number of
a request (`ContextIds \cap Requests = {}`; the run's `FarIds` are such numbers).

The invariant is `Inv == QueueTypes /\ Queues /\ Pool /\ Results`. `Queues` says that
every list is an interval of request numbers and the intervals follow one another, from
which order and conservation follow. `Pool` adds to the accounting that
what a running request owns covers its whole answer, and that what the running hold and
the admitted will need fits the pool. A prefill allocates for several
requests at once, so the accounting adds up blocks over sets of requests; the sums are
cardinalities of sets of pairs, which the theorems on finite sets can split. `Results`
ties what was handed over to the numbers that have left the lists. `CallEnds` is a
liveness property and stays with TLC.

## 5. Two pools: `TieredKV`

**Correspondence.** `tables` holds GPU blocks and `Hole` for the placeholder -1;
`cpuMap` is `cpu_block_map`; `gpuFree` and `cpuFree` are the two free lists; `kv` holds
the entries of both pools. A call that pages is a short sequence of steps, marked by
`pc`: `"growing"` is the loop of `_ensure_sequence_capacity`, `"fetching"` that of
`ensure_blocks_on_gpu`, and `"ready"` the time between that method's return and
`evict_cold_blocks`, in which the forward pass runs. `pending` is what the loop has
still to place; it is computed when the call begins, as in the code. Steps of two calls
never interleave: a stream yields only between steps of the scheduler, when `pc` is
idle.

| action | code |
|---|---|
| `AllocateSequence`, `FreeSequence`, `TruncateSequence` | the methods of the same names |
| `EnsureSequenceCapacity`, `AllocateBlock`, `AllocateBlockEvicting`, `AllocateBlockRaises`, `CapacityEnsured` | the engine's capacity loop around `allocate_block` |
| `EnsureBlocksOnGpu`, `EvictForFetch`, `FetchRaises`, `FetchBlocks` | `ensure_blocks_on_gpu`; `Victims` is the order of its two eviction helpers |
| `Prefill`, `DecodeStep`, `Leave` | the forward pass, or its exception |
| `EvictColdBlocks` | the method of the same name |
| `SerializeSequence`, `DeserializeSequence` | the inherited snapshot methods, which take a placeholder for the last block |

**Runs.** `tiered_paging`: three sequences of up to three one-token blocks, three GPU
blocks, three CPU slots, a window of one. Two full sequences do not fit the GPU, three
fill both pools, so every fetch, eviction, overflow and refusal happens. With callers
that stay inside three assumptions the cache implements `SequenceStore`, and a forward
pass sees neither a hole nor a stale table. The assumptions are constants; the code
makes none of them true, and what happens without them is this:

- `LongContexts = FALSE`: the tables of a batch fit the GPU. The scheduler's admission
  sees to that; `prefill_context` and `generate` do not. A longer sequence evicts its
  own blocks to fetch its others and the pass runs with placeholders, although the
  docstring of `ensure_blocks_on_gpu` says that this raises.
- `GrowBy = 1`: one call asks for at most one new block. A growth by two that fails at
  the second leaves a table longer than the cached tensor, and a later call that needs
  only the first block decodes with the short one.
- `Snapshots = FALSE`: offloaded contexts are not saved. A placeholder selects the last
  GPU block, so a snapshot holds another sequence's entries; a restore that overflows
  to the CPU writes over that block in the same way.

`tiered_oversubscribed` drops all three and checks what remains true: blocks and slots
are each in one place, and making room ends. It has one sequence, of up to four blocks
on two, because liveness is checked without symmetry.

**Fairness.** Weak fairness of the steps of a call in progress (`InCall`): it is
sequential code that nothing else delays.

**Left out.** The cached length tensor, which the class treats as its base class does;
the copy stream, on which the code waits before the pass reads; forking, which raises.
The last resort of `allocate_block`, a CPU slot for the new block, is not an action:
it needs a GPU pool that is full although no table holds any of it.

**Proofs** (`TieredKV_proofs`), for pools of any size and any number of sequences:

- `TypeCorrect`, `BlocksPlacedOnce`: `TypeOK` and `PlacedOnce`, without the three
  assumptions;
- `ReadyBatchesAreResident`, `RefusesOnlyWhenFull`: with `LongContexts = FALSE`, a batch
  that is ready has no placeholder, and one that is refused found the CPU pool full;
- `CachedRowsFresh`: with `LongContexts = FALSE` and `GrowBy <= 1`, every cached row a
  decode step would read is the table of its sequence.

The two assumptions are the first two of the list above: without either there is a
counterexample. `Inv == Pools /\ Data /\ Calls` is inductive for every constant.
`Pools` says that different logical blocks have different homes, that a home is never
free, and that the CPU map covers exactly the placeholders. Every operation removes
some homes and claims others that were free, and `PoolsStep` shows once that this
keeps `Pools`. `Calls` says what a call in progress may rely on between its steps. On
top of it, `Fit` says that while a fetch is going on, `pending` is exactly the
placeholders of the batch and the blocks of the batch fit the GPU; a set of blocks that
fits, with a placeholder among them, leaves either a free GPU block or one that
belongs to another sequence (`NoRoomMeansOthers`, by cardinality), so the loop always
finds a victim outside the batch. `Rows` says that a cached row may differ from
its table only in blocks that were paged out since, and those are fetched, which drops
the cache, before the pass reads it. `CallsEnd` stays with TLC.

The last theorem is `PrivateSequences`: under the three assumptions
`Spec => ImplementsPrivateSequences`. Its lemmas follow the entries: every paging step
is a bijection from the blocks it moves to blocks that were free (`Moves`), and the
entries go where the blocks go (`EntriesKept`), so what a sequence reads stays the same
although neither its table nor its slots do. Different positions have different slots
(`SlotsApart`), so that a pass, which writes at the end of the sequences of its batch,
changes nothing that anyone has read before (`AppendExtends`).

## 6. Replicas: `MeshRouter`

**Correspondence.** One call of `generate_batch_with_stats`. `endpoints`, `outputs`,
`failed_items`, `unavailable` are the locals of the same names; `eligible` and `buckets`
are the assignment of a round, `asked` the futures not yet taken from `as_completed`.

| action | code |
|---|---|
| `TakeAnswer` | a future with as many texts as prompts: each is stored at its prompt's index |
| `TakeFailure` | any exception, and an answer of another length: the bucket is kept for the next round, the endpoint is unavailable |
| `NextRound` | the failed prompts are dealt out to the endpoints that have not failed |
| `Finish` | the loop is left; the call raises if an output is missing |

A text is the number of its prompt. A replica answers with its texts in order, or
with fewer. Weights are positive integers, compared by products instead of quotients.

**Run.** `router_failover`: up to five prompts, with failover on or off, over three
endpoints of which one weighs two, over a list that repeats an endpoint (equal
endpoints are one member of the set of failed ones, as in the code), and over one
endpoint. Five prompts over three endpoints are enough for buckets of two and three,
for a failed bucket that is split, and for three rounds.

**Fairness.** Weak fairness of the call's steps: every HTTP request ends, by its
timeout at the latest, and the loop is one thread.

**Proofs** (`MeshRouter_proofs`), for any lists of endpoints, weights and number of
prompts: `TypeCorrect`, `PromptsOnce`, `TextsAtOwnIndex`, `FailsOnlyWhenExhausted`,
`LoadsAreFair` and the action property `RoundsProgress`. The two loops over a list are
recursive functions (`AssignIndexed`, `Without`). A recursive function is unfolded by
constructing it for the least length that is said to have none (`DealtUnfolds`,
`KeptUnfolds`), and what it computes is shown in the same way, with the least prefix for
which it fails (`Dealing`, `WithoutIs`). That the best bucket exists is that fractions,
compared by products, have a least one (`LeastLoad`). Dealing is balanced because a bucket
was the best one when it got its last prompt, and the others only grew since. The
invariant of the call, `Inv`, has the three places of a prompt as a partition
(`Where`) instead of as a count; and `Ends`, that a failed prompt means a failed
endpoint. `CallEnds` stays with TLC.

## 7. Layer shards: `TTP`, `ShardStage`, `RemoteLoop`, `ShardMesh`

**`TTP`** is the transport as functions on one record. A client has one connection; a
request is written to it, or to a new one, and the next frame read from it is taken
for the answer. `Retried` is the one repetition after an `OSError` or `EOFError`, a
timeout included; `GivenUp` is an error of the second attempt, which leaves the
connection open. `Turns` is the server: a thread per connection, in order on each, in
any order between them.

**`ShardStage`** is the cache of a stage, as the rows per sequence. A row is what
prompt and position it was computed for if everything before it was right, and `Junk`
otherwise; so a request that runs twice, or on another prompt's rows, shows in the
tokens. A prefill appends to a table that is already there and a decode appends
wherever the sequence stands, as in the code.

**`RemoteLoop`** is the state of the thread of stage 1 that runs
`generate_continuous_chain_ttp`; with a slot for every prompt it is
`generate_batch_chain_ttp`.

**`ShardMesh`** is `generate_batch`, and `generate_continuous` with `remote` set, over
two stages. `pc`, `k`, `chunks`, `held`, `tokens` are where the coordinator stands;
`future` is what its executor's two threads have; `executed`, `suspect` and `abandoned`
are bookkeeping of the model that says which sequences an actual double execution, a
swapped answer or a late request has touched.

| action | code |
|---|---|
| `GenerateBatch`, `PrefillRow`, `PrefillDone`, `BeginStep`, `ChainDecode`, `ChainDone`, `Finish` | the coordinator's loop in `generate_batch` |
| `OverlapBegin`, `Stage1Done`, `Stage2Next`, `OverlapDone`, `Drain` | `_run_two_stage_ttp_decode_chunks` and the end of its executor |
| `RemoteCall`, `RemoteDone` | the one request of the remote loop |
| `Release`, `Released`, `EndCall` | `free` for every sequence on every stage, errors swallowed |
| `Handle`, `StageRaises` | a handler thread: the stage under its lock, then the answer or the forward over the shared client |
| `LoopBegins`, `LoopCalls`, `LoopSteps`, `LoopReturns` | the thread of the remote loop |
| `Return`, `ReadFails`, `TimesOut` | the client's read, its error, its timeout |
| `LoseConnection`, `StageStops`, `StageStarts`, `CoordinatorRestarts` | the environment |

**Runs.** `shard_mesh`: two calls, of three and one prompts in the coordinator's loop
and two and one in stage 1's, one-token prompts, two new tokens, chunks of one row, one
slot, and one fault of any kind at any point. Three rows in chunks of one keep both
stages busy and leave rows that end early; a second call is what finds rows that a
first has left. One fault already gives repetitions, double executions, swapped
answers and lost releases; two at once are beyond the run's time. `AnswersRight` and
`NothingLeftBehind` excuse exactly the sequences that the bookkeeping names: the code
has no number on frames and no deduplication, so these are what it cannot protect. Among
them are `LostReleases`: after a timeout the client keeps its connection with an answer
still to come, the release that follows takes that answer for its own and is done, and
if the connection breaks before the stage has begun with it, nobody sends it again. Two
faults are needed for that, a timeout and a break; the run has one, and the proof found
it: without the excuse the invariant below is not inductive.

`shard_loop_repeated` asks for right texts without that excuse and finds the
repetition of the remote loop: after a timeout the coordinator sends the whole request
again while stage 1 still runs the first; both loops append to the same sequences and
the second answer, with wrong tokens, is returned as a success.

**Proofs** (`ShardMesh_proofs`), for any numbers of calls, prompts, new tokens, slots and
faults and any size of chunks, assuming of the constants only their types
(`MeshAssumption`, `LoopAssumption`): `OneCallPerClientAlways` and
`NothingLeftBehindAlways`. Both follow from the inductive invariant `IInv`. `Busy` says for every place the coordinator can
be at which of its two futures are empty, `Solo` that a call of the coordinator is one its
future waits for, and that there is one per client; a place that submits has found its
future empty or taken its outcome. For the second theorem every sequence that a stage holds
is `Settled` or `Due` (`HeldOrDue`). It is settled when it is excused, or when a release
that no thread has begun is in the stage's inbox (`Underway`): whatever the stage still does
with that sequence before it, the release ends it. It is due when `generate_batch` has the
release still before it. The step from one to the other is a release that is over:
`AnsweredSettled` says that its sequence is settled whatever the outcome was, and
`WaitingSettled` that this is so while a caller waits on a connection that works. That is
what the swapped answers make hard: the outcome of a release may be the answer to
something else, so it says nothing, but the release itself is on the connection and stays
there unless the connection breaks, which either the waiting caller sees or makes it a lost
release. An error of the first attempt sends the release again, one of the second excuses
the sequence. What a stage, a handler thread, the remote loop and most faults do is one
lemma, `StageSide`; `Quietly` and `Asking` are the coordinator's steps before the releases.
The lemmas about the transport (`SentFacts` to `ServerBackFacts`) say of each operation of
`TTP` what it keeps.

**Fairness.** Weak fairness of the coordinator (`Drive`) and, for each client, of the
threads behind it (`Serve`): they are running threads. Nothing is assumed of faults; a
stage that is down may stay down, and a refused connection is an error like others.

**Left out.** `generate` for one prompt, whose chain is that of a batch with one row,
the HTTP transports, more than two stages, the lm-head and MLP workers,
`ShardReplicaRouter`, and frames that arrive in part. The health snapshots that a call
takes for its result (`_stage_snapshot`, at its end and once before a remote loop's
sequences are released) go over the same clients: they change nothing on a stage and
swallow every error, but on a connection whose answers are out of step they take one
answer and leave another, as a release does. A chunk has one row, so that the `zip` of
rows and tokens after a decode never meets lists of different lengths.

## 8. Decode graphs: `DecodeGraph`

**Correspondence.** `buf` is `_decode_input_ids` and `_decode_positions`; `states`,
`warm`, `failed`, `started` are the shape states and the three sets of keys; `legacy`
is the one graph per membership with the cached length tensor; `changed` is
`_batch_changed`; `seqLen` is what Python counts and `kv` what the device has. A shape
state has the layout it was prepared for, the device's lengths, what the scheduler
believes of them, the layout its graph was captured on, and its unrolled graphs by
length. `cfg` holds the settings that are read once: `Config` says which.

| action | code |
|---|---|
| `StartCall`, `Admit`, `NothingToDecode`, `EndCall` | a call, a new scheduler or the one before after its reset; admission, with physical blocks popped off the free list |
| `BeginDecode` | `_decode_batch` and `_decode_graph_token_burst_batch` up to the first step: drop what a changed batch makes stale, stage the inputs or go on from the graph's |
| `EagerAfterFailure`, `Replay`, `WarmUp`, `Capture`, `CaptureFails` | the branches of `_run_decode_step_shape_graph`, each with the preparation of the state |
| `LegacyReplay`, `LegacyEager`, `LegacyCapture`, `LegacyCaptureFails` | the same for the graph per membership |
| `UnrolledBurst`, `UnrolledRefused`, `NativeBurst` | a resumed burst in one launch |
| `Collect` | the tokens reach the host, requests that are done leave |

A token is right if the device read the right token, at its position, with the right
length, layout and number of blocks, and `Junk` otherwise; junk stays junk.

**Run.** `decode_graph`: a call of three requests over two slots and one of one
request, seven new tokens in bursts of two, blocks of four, eight settings. The third
request gets the blocks of the first to finish, the same ids come again in the second
call, lengths cross a block boundary inside a burst and inside a chain, and a shape is
warmed, captured, replayed, rebound and captured again.

Four behaviours are in the model and in no property of the run:

- The graph per membership is bound to the number of KV blocks of its capture, and
  the sequences outgrow it: past a block boundary its tokens are not those of eager
  decoding. `ShapesExact` therefore speaks of the cache by shape only.
- A failed capture of that graph may count lengths twice (`LegacyCaptureFails`); the
  cache by shape puts them back.
- An unrolled graph of the call before is refused with an error when a reused scheduler
  meets it (`UnrolledRefused`): nothing wrong is computed, but the call fails.
- With `MEGAGEMM_DECODE_CUDA_GRAPHS_STABLE_MAX_BLOCKS=0` the number of KV blocks that a
  graph visits follows the lengths (`stable` is false) and is part of its key. The run
  has this with token feedback (`Following`) but not together with one-launch bursts or
  with buffers per shape, because there `ShapesExact` does not hold: a burst in one
  launch visits the blocks its key has at the start, also when it crosses a block
  boundary (prompts of one token, blocks of four, a burst of three); and a graph that
  advances the inputs of its own shape leaves the common inputs behind, from which the
  next shape then starts.

**Proofs** (`DecodeGraph_proofs`), for any calls, prompt lengths, limits, block size, pool,
batch size and burst: `ShapesAlwaysExact` (`LoopBoundsSuffice => (Spec => []ShapesExact)`)
and `LengthsInStep`, the same of `LensInStep`. `LoopBoundsSuffice` is a hypothesis on
`Configs`, namely that settings with native or unrolled bursts, or with feedback into
shared shapes, have the stable loop bound, which is the default; without it there
are the counterexamples of the last item above. All eight settings of the run satisfy it.

A text is right because what the device reads before each step is, so the inductive
invariant `Inv` is about *where* the right inputs are. `Staged`: the common inputs are
those of the next step, unless the batch has a chain of its own. `Chains`: a started
key either belongs to a state that is intact, that is, prepared for exactly these
sequences, tables and lengths, and with inputs that go on from the last token; or the
batch cannot have that key again (`Past`), because it has grown or its lengths have
passed the loop bound. When the batch shrinks it has changed, and the chains are
forgotten before the next dispatch. That keeps a chain of an earlier batch from being
taken for one of this batch. `StateOk` says of every shape state that the lengths on the device are those
the scheduler believes and that a graph is bound to the layout the state knows; it
is what `Prepared` needs to be right whatever the state was left by. One lemma,
`StepKeeps`, does all decode actions: each is `n` steps with a state that is `Steady`,
that is, fits the batch as it is. `LoopSuffices` is where the loop bound is needed, and
`KeyGrows` says that a key only moves forward within a batch. `Staying` is a recursive
function, unfolded like those of the router; what requests claim together is a fold
that the argument never opens. Physical blocks need no invariant here: a graph compares
tables, and that no block is in two tables is proved of `BlockManager`.

**Left out.** Samplers inside the graph, graphs that return logits, the engine's own
graph for a single context, and prefill graphs.

## 9. Contexts and Prophet: `Contexts`, `Prophet`

**`Contexts`** has the engine's operations on contexts as functions from an engine to
an engine and whether the call returned. A context has a block table, a length, the
token history and the pending logits; a row is the sequence of tokens it attended to.
Blocks are claimed in order of their number; `View` in `MCProphet` identifies states
that differ in the numbers only.

**`Prophet`** is one process with one library. `files` and `index` are the directory,
`eng` the engine, whose `resident` list is the resident cache in order of use, and
`held` what callers hold and were told. A call is one step, because the process has one
thread; a capture is two, because the process may end between its writes.

| action | code |
|---|---|
| `RestoreSpeculative` | `restore_speculative`: `ExactRoute`, `PrefixRoute` and `SemanticRoute` with `Validated` and `Decided` |
| `RestoreExactBatch`, `RestoreBest` | the methods of the same names |
| `CaptureSnapshot`, `CaptureEntry` | `record_snapshot`: the snapshot, then the index |
| `Prefill`, `PrefillRaises`, `Generate`, `Fork`, `Free` | the caller's own operations on contexts |
| `Restart` | the process ends and another begins |

**Sampling.** A caller's `generate_from_context` samples by default, so `Generate` takes
the tokens it draws, any of `Tokens`, or none at temperature 0, where a token is a
function of what was attended to. `decode_step` writes in place, and of two contexts that
share a half-filled block the one that goes on last overwrites the other's row. At
temperature 0 it writes the row that is there; a drawn token is a different row. `mixed`
remembers whether a call has sampled into a shared block (`EndShared`). From then on the
rows, the pending logits and what is saved of them need not be those of one text, so the
last clauses of `ContextsHoldWhatWasTold` and `LibrarySound` stop there. That
contexts are alive, with the tokens and the length the caller was told, that nothing is
stranded, that a resident source keeps its snapshot and that the index names whole
snapshots does not depend on it.

**Runs.** `prophet`: prompts of three and five tokens that begin alike, continued
greedily (tokens 0 to 2) or by a drawn token (3) that no greedy step says; two ids that
callers name, seven blocks of two tokens, two snapshots, one resident source, default
thresholds, validation of one token, and model calls that raise in a prefill, a replay or
a generation. A prompt of three leaves its last block half filled, so forks of it share
one; a call may draw or not, before a fork and after it, in a block of its own or in a
shared one. A prefix route rolls back or not, replays one block or two, and finds a source
or evicts another; the pool runs dry in forks, copies, batches and growth. The view
identifies states that differ in the numbers of blocks or in which of the two ids is
which. Two runs are expected to fail:

- `prophet_shared` asks of the same contexts that the rows of each be its own
  (`ForksArePrivate`), which is what the docstrings of `fork_sequence_prefix` and
  `fork_context_prefix` promise. Prefill, fork, and a call on each, one of which draws,
  refute it.
- `prophet_ids` leaves ids to the engine. The counter and `restore_context`'s next-free
  id meet; the validator's prefill raises and the clean-up frees the other's context.

A route of Prophet takes the same path as `prophet_shared` without a caller that samples:
a rest of the prompt of one token is replayed by `decode_step`, in place, in a block shared
with the resident source and its forks. In `prophet` the rest of a prompt has two tokens
or more, which go through `prefill_suffix` and are copied; `TailsOfTwoAssumption` says so
and TLC evaluates it. What the missing copy would do to a resident source is the mutant
`CopyOnWriteNever`.

**Proofs.** `Prophet_proofs` proves, for any prompts, tokens to draw, thresholds, pool,
block size, stop token and bounds:

- `ContextsAreTold`: `Spec => [](~mixed => ContextsHoldWhatWasTold)`;
- `NothingIsStranded`: `Spec => [](~mixed => NothingStranded)`;
- `ResidentsStaySnapshots`: `Spec => [](~mixed => ResidentsAreSnapshots)`;
- `LibraryIsSound`: `Spec => [](~mixed => LibrarySound)`.

That is, until a call samples into a block that two contexts share, which is what
`prophet_shared` does. After that, what the four properties still say is checked by TLC
only. The other hypotheses are:

- `IdsApart`: callers name their contexts, with numbers that the engine's counter does not
  hand out. Without it the third caller of `prophet_ids` loses a context.
- `NoTailOfOne`: a prompt that a reuse within the thresholds goes on to is more than one
  token longer than what it shares. Without it a replay writes into a shared block, as
  described above.
- `SuffixPrefill = TRUE`: a tail of several tokens goes through `prefill_suffix`, as it does
  in a full-attention model. Where `prefill_suffix` raises NotImplementedError (linear
  layers, Gemma 4) the engine decodes any tail in place, as it does a single token.

The run `prophet` satisfies all three: ids 11 and 12 against a counter that stops at 1, and
`TailsOfTwoAssumption` in `MCProphet`, which TLC evaluates for every text up to four tokens,
greedy or drawn, behind a prompt; a longer text shares no more with any prompt and has more
to roll back, so the thresholds reject it too.

The argument has two layers. `Contexts_proofs` is about engines, with no state machine: the
calls of `Contexts` are functions, and a lemma says of each what it does to the texts.
What one would like to keep is that each sequence has the rows of one text. That is not
preserved by itself, because `decode_step` writes in place into a block that others share:
two forks of one context do this all the time, and it is harmless as long as they write
the same rows, which they do at temperature 0 and in no other way. `Good` says when: blocks
shared by two tables lie at the same place of both and begin with rows of both (`Aligned`,
in `Layout`), and wherever the longer text goes on in such a block behind the shorter one,
it is what greedy decoding of the shorter would write (`Settled`). A drawn token is not
that, but while `mixed` is false it goes where no other table reaches (`EndShared` does not
hold, so the block and those behind it are `Private`), and a text that has it cannot share
more than it did. A replayed tail is not what greedy decoding would write, which is why
the block it begins in must be copied first; and a cut text may have company it no longer
agrees with, so `GoodBut(e, S)` exempts the sequences of `S` from settling between the cut
and the copy. Each call is then shown to keep `Good`, to change the words of the sequence
it is about, and to leave all others (`Holds`); a call that raises leaves them all.

`Prophet_proofs` follows every route call by call. `Inv` says that the engine is `Good`;
that every text goes on behind a prompt by greedy or drawn tokens (`Grown`); that the ids from
`-11 - ResidentMax` to `-11` are the resident cache's, each a listed source with its
entry's text; that all other ids are the callers', and `held` is exactly what they hold
(`Words(eng)`); and that every file, listed or not, is the snapshot of one text. A route
is `Right` when the engine it leaves is sane and its words are those of before, with the
one context put in that the caller is told about. The comparison of a candidate with its
validator holds two contexts at once, of which one is given back or both (`Both`, `Parts`).
The validator's id is new because of `IdsApart` (`CounterFresh`), and the fork that is
rolled back goes on by two tokens because of `NoTailOfOne` (`PrefixRight`).

The definitions that loop (`Total`, `FreeBlocks`, `Sampled`) are functions on `0..n`, so that
a proof can follow them step by step.

**Abstractions.** Similarity is any choice among the entries with a text, and entries
recorded within the same second (the resolution of `_now_iso8601`) match in any order; a
sampled token is any of `Tokens`, whatever the logits, temperature, cut-offs and penalty;
a greedy one, which is also what validation compares, a fixed function of the tokens
attended to, so that a call with a repetition penalty of its own counts as one that draws;
thresholds are exact percentages; compatibility of model and tokenizer, embeddings and the cache of
loaded snapshots are left out (a file is never rewritten, so the cache equals it). A
captured text is the context's tokens when those are one of the prompts. A second
process that records into the same directory, which can lose an index entry, is not
modelled. A plain `generate_from_context` that raises half way is not either: rows and
history disagree after it, and nothing says what a caller may then do.

## 10. What only TLC shows, and what is not modelled

TLAPS proves every safety property that the passing runs check but one, and that both
caches implement `SequenceStore`; sections 3 to 9 say from which assumptions, and those of
`Prophet` until a call samples into a shared block. What is
model-checked only, on the instances described, is liveness (`CallEnds`, `CallsEnd`), which
is out of the prover's reach, and the texts of the layer shards (`AnswersRight`): they need
an account of what each row on each stage was computed from, through late and
repeated requests. The instances are small where the state is
large: one fault in `shard_mesh`, two contexts in `prophet`. Type
invariants are stated where they are cheap to state and to check; the properties of
`ShardMesh`, `DecodeGraph` and `Prophet` compare whole values and would fail or be
undefined on a state of another shape.

Deadlock is checked for the two caches, which never rest. The other models rest after
their last call or fault; there the liveness properties say that what began ends.

Not modelled:

- numeric kernels and layers, quantization, sampling arithmetic: no protocol, and what
  they do to the cache is in `BlockManager`;
- loaders, file formats, runtime policy, embeddings, the CPU backend, command line,
  reporting, benchmarks: sequential code whose errors are numeric or of format;
- the layer planner: a pure heuristic on sizes, evaluated once before anything runs;
- linear-attention states, which are kept per sequence and never shared;
- two batch calls at once over one engine, a hazard listed as such: `Scheduler` has one
  call at a time.

Most of the repository's lines are of the first two kinds; the share that the map
covers is small for that reason.
