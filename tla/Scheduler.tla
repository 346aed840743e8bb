------------------------------- MODULE Scheduler -------------------------------
(***************************************************************************)
(* Continuous batching: class Scheduler, driven by generate_batch or       *)
(* generate_batch_stream, beside the contexts an engine keeps alive.       *)
(*                                                                         *)
(* A call submits requests and runs step() until none is pending.  A step  *)
(* admits waiting requests that fit the KV pool, prefills them chunk by    *)
(* chunk and decodes all running requests.  A batch call is synchronous;   *)
(* a stream call yields the results of a step to its caller.  An exception    *)
(* ends the call and drops its scheduler.                                  *)
(*                                                                         *)
(* Abstractions: a block table is its number of blocks (nothing is shared  *)
(* here; BlockManager has the rest), a token is whether it is a stop       *)
(* token.  Chunks are any split of the admitted batch in order: the code   *)
(* cuts it by token and memory budgets.  A request's seq_id is its index,  *)
(* as both counters of a scheduler start at 0 and advance together; a      *)
(* scheduler reused for a call is reset to the state of a new one.         *)
(***************************************************************************)
EXTENDS Integers, Sequences, FiniteSets, FiniteSetsExt

CONSTANTS NumBlocks,     \* KV blocks of the pool
          BlockSize,     \* tokens per block
          MaxBatch,      \* max_batch_size
          MaxRequests,   \* bound: requests of a call
          PromptLens,    \* prompt lengths a caller submits
          MaxNews,       \* values of max_new_tokens a caller passes
          Bursts,        \* tokens per decode dispatch, 1 = single steps
          Failures,      \* whether model calls may raise
          ContextIds,    \* seq_ids of the contexts callers keep
          ContextBlocks, \* block counts of a context
          MaxCalls       \* bound: generate calls

ASSUME SchedulerAssumption ==
    /\ NumBlocks \in Nat \ {0} /\ BlockSize \in Nat \ {0} /\ MaxBatch \in Nat \ {0}
    /\ MaxRequests \in Nat \ {0} /\ MaxCalls \in Nat
    /\ PromptLens \subseteq Nat \ {0} /\ MaxNews \subseteq Nat
    /\ Bursts \subseteq Nat \ {0} /\ ContextBlocks \subseteq Nat \ {0}
    /\ Failures \in BOOLEAN
    /\ ContextIds \subseteq Nat \ {0} /\ IsFiniteSet(ContextIds)

VARIABLES call,       \* "idle", "batch" or "stream"
          pc,         \* where the call is: "between" steps, in "prefill" or in
                      \* "decode", or at a "yield" with the results of a step
          outcome,    \* how the last call ended
          prompt,     \* prompt[r] = prompt length of request r
          maxNew,     \* max_new_tokens of the call
          burst,      \* tokens the call decodes per dispatch
          waiting,    \* requests not admitted, in order
          admitted,   \* requests admitted by this step and not prefilled yet
          running,    \* requests that decode
          completed,  \* requests that finished, in this call
          newly,      \* those of them the current step has not returned yet
          gen,        \* gen[r] = tokens generated for r
          stopped,    \* requests whose last token is a stop token
          delivered,  \* delivered[r] = times r was returned to the caller
          free,       \* free blocks of the pool
          blocks,     \* blocks[id] = blocks of the table of id, 0 when not live
          owner,      \* who allocated the table of id
          kvLen,      \* kvLen[id] = tokens of id in the cache
          calls       \* calls made so far

queues == <<waiting, admitted, running, completed, newly>>
progress == <<gen, stopped, delivered>>
pool == <<free, blocks, owner, kvLen>>
params == <<prompt, maxNew, burst>>
vars == <<call, pc, outcome, params, queues, progress, pool, calls>>

Requests == 1..MaxRequests
Ids == Requests \cup ContextIds
Submitted == DOMAIN prompt

\* Mutated form: the room for the answer is left out.
NeedPromptOnly(r) == (prompt[r] + BlockSize - 1) \div BlockSize

\* Blocks reserved for the whole sequence, prompt and answer.
Need(r) == (prompt[r] + maxNew + BlockSize - 1) \div BlockSize

Done(r, g, stop) == g >= maxNew \/ stop

Init ==
    /\ call = "idle" /\ pc = "between" /\ outcome = "none"
    /\ prompt = <<>> /\ maxNew = 0 /\ burst = 1
    /\ waiting = <<>> /\ admitted = <<>> /\ running = {} /\ completed = {}
    /\ newly = {}
    /\ gen = [r \in Requests |-> 0] /\ stopped = {}
    /\ delivered = [r \in Requests |-> 0]
    /\ free = NumBlocks
    /\ blocks = [id \in Ids |-> 0]
    /\ owner = [id \in Ids |-> "nobody"]
    /\ kvLen = [id \in Ids |-> 0]
    /\ calls = 0

-------------------------------------------------------------------------------
(* The pool. *)

\* The sum of f over S: as many units <<x, i>> as each f[x] counts.
Total(f, S) == Cardinality(UNION {{x} \X (1..f[x]) : x \in S})

Held(S) == Total(blocks, S)

\* The blocks that the requests of S need together.
NeedOf(S) == Total([r \in S |-> Need(r)], S)

\* Mutated form: the blocks are not taken off the free ones.
AllocateUncounted(S) ==
    /\ free' = free
    /\ blocks' = [id \in Ids |-> IF id \in S THEN Need(id) ELSE blocks[id]]
    /\ owner' = [id \in Ids |-> IF id \in S THEN "request" ELSE owner[id]]
    /\ kvLen' = [id \in Ids |-> IF id \in S THEN prompt[id] ELSE kvLen[id]]

\* allocate_sequence for the requests of S, then a prefill that fills them.
AllocateAndPrefill(S) ==
    /\ free' = free - NeedOf(S)
    /\ blocks' = [id \in Ids |-> IF id \in S THEN Need(id) ELSE blocks[id]]
    /\ owner' = [id \in Ids |-> IF id \in S THEN "request" ELSE owner[id]]
    /\ kvLen' = [id \in Ids |-> IF id \in S THEN prompt[id] ELSE kvLen[id]]

\* The pool after free_sequence(id) for every id of S.
FreeSequences(S) ==
    /\ free' = free + Held(S)
    /\ blocks' = [id \in Ids |-> IF id \in S THEN 0 ELSE blocks[id]]
    /\ owner' = [id \in Ids |-> IF id \in S THEN "nobody" ELSE owner[id]]
    /\ kvLen' = [id \in Ids |-> IF id \in S THEN 0 ELSE kvLen[id]]

-------------------------------------------------------------------------------
(* Calls. *)

Submit(kind) ==
    /\ call = "idle"
    /\ calls < MaxCalls
    /\ calls' = calls + 1
    /\ \E n \in 1..MaxRequests :
          /\ prompt' \in [1..n -> PromptLens]
          /\ waiting' = [i \in 1..n |-> i]
    /\ maxNew' \in MaxNews
    /\ burst' \in Bursts
    /\ call' = kind /\ pc' = "between" /\ outcome' = "none"
    /\ admitted' = <<>> /\ running' = {} /\ completed' = {} /\ newly' = {}
    /\ gen' = [r \in Requests |-> 0] /\ stopped' = {}
    /\ delivered' = [r \in Requests |-> 0]
    /\ UNCHANGED pool

HasPending == waiting # <<>> \/ running # {}

\* The loop around step() is about to test has_pending().
Resumable == call # "idle" /\ pc \in {"between", "yield"}

Return ==
    /\ Resumable /\ ~HasPending
    /\ call' = "idle" /\ pc' = "between" /\ outcome' = "returned"
    /\ UNCHANGED <<params, queues, progress, pool, calls>>

\* The scheduler is dropped; what its requests hold in the pool stays.
Dropped(how) ==
    /\ call' = "idle" /\ pc' = "between" /\ outcome' = how
    /\ waiting' = <<>> /\ admitted' = <<>> /\ running' = {}
    /\ completed' = {} /\ newly' = {}

Orphaned(own) == [id \in Ids |-> IF own[id] = "request" THEN "orphan" ELSE own[id]]

\* The consumer of a stream drops it at a yield.
Abandon ==
    /\ pc = "yield"
    /\ Dropped("abandoned")
    /\ owner' = Orphaned(owner)
    /\ UNCHANGED <<params, progress, free, blocks, kvLen, calls>>

-------------------------------------------------------------------------------
(* One step: admission. *)

\* Mutated form: the requests of the batch are not added up.
FitsOneByOne(k) ==
    \A j \in 1..k : Need(waiting[j]) <= free

\* The first k waiting requests pass the two checks of _collect_prefill_batch:
\* each alone fits the free blocks, and together with what the running requests
\* hold they fit the pool.
Fits(k) ==
    \A j \in 1..k :
        /\ Need(waiting[j]) <= free
        /\ Held(running) + NeedOf({waiting[i] : i \in 1..j}) <= NumBlocks

\* Mutated forms: the admitted requests stay in the waiting list; the slots of
\* completed requests are not given back.
CollectPrefillBatchKeeping ==
    LET slots == Min({MaxBatch - Cardinality(running), Len(waiting)})
    IN  \E k \in 0..slots :
          /\ Fits(k) /\ (k < slots => ~Fits(k + 1))
          /\ admitted' = SubSeq(waiting, 1, k)
          /\ waiting' = waiting
CollectPrefillBatchLosingSlots ==
    LET slots == Min({MaxBatch - Cardinality(running \cup completed), Len(waiting)})
    IN  \E k \in 0..slots :
          /\ Fits(k) /\ (k < slots => ~Fits(k + 1))
          /\ admitted' = SubSeq(waiting, 1, k)
          /\ waiting' = SubSeq(waiting, k + 1, Len(waiting))

CollectPrefillBatch ==
    LET slots == Min({MaxBatch - Cardinality(running), Len(waiting)})
    IN  \E k \in 0..slots :
          /\ Fits(k) /\ (k < slots => ~Fits(k + 1))
          /\ admitted' = SubSeq(waiting, 1, k)
          /\ waiting' = SubSeq(waiting, k + 1, Len(waiting))

BeginStep ==
    /\ Resumable /\ HasPending
    /\ CollectPrefillBatch
    /\ pc' = "prefill"
    /\ UNCHANGED <<call, outcome, params, running, completed, newly, progress, pool, calls>>

-------------------------------------------------------------------------------
(* One step: prefill, a chunk at a time. *)

Chunk(k) == {admitted[i] : i \in 1..k}

\* allocate_sequence succeeds for each request of the chunk in turn.
CanAllocate(k) ==
    \A j \in 1..k :
        /\ blocks[admitted[j]] = 0
        /\ NeedOf(Chunk(j)) <= free

\* The first token of each request is sampled; some are done with it.
PrefillChunk(k) ==
    LET S == Chunk(k)
    IN  /\ call # "idle" /\ pc = "prefill"
        /\ CanAllocate(k)
        /\ \E stop \in SUBSET S :
              LET over == {r \in S : Done(r, 1, r \in stop)}
              IN  /\ gen' = [r \in Requests |-> IF r \in S THEN 1 ELSE gen[r]]
                  /\ stopped' = stopped \cup stop
                  /\ AllocateAndPrefill(S \ over)
                  /\ running' = running \cup (S \ over)
                  /\ completed' = completed \cup over
                  /\ newly' = newly \cup over
        /\ admitted' = SubSeq(admitted, k + 1, Len(admitted))
        /\ UNCHANGED <<call, pc, outcome, params, waiting, delivered, calls>>

\* Mutated forms: the tables go without their blocks; every table goes.
AbortTablesOnly(S) ==
    /\ free' = free
    /\ blocks' = [id \in Ids |-> IF id \in S THEN 0 ELSE blocks[id]]
    /\ kvLen' = [id \in Ids |-> IF id \in S THEN 0 ELSE kvLen[id]]
    /\ owner' = Orphaned([id \in Ids |-> IF id \in S THEN "nobody" ELSE owner[id]])
AbortEverything(S) ==
    /\ free' = NumBlocks
    /\ blocks' = [id \in Ids |-> 0]
    /\ kvLen' = [id \in Ids |-> 0]
    /\ owner' = [id \in Ids |-> "nobody"]

\* _abort_prefill_allocations frees the sequence ids of the chunk, whoever
\* allocated them; the exception then drops the call.
Abort(S) ==
    /\ free' = free + Held(S)
    /\ blocks' = [id \in Ids |-> IF id \in S THEN 0 ELSE blocks[id]]
    /\ kvLen' = [id \in Ids |-> IF id \in S THEN 0 ELSE kvLen[id]]
    /\ owner' = Orphaned([id \in Ids |-> IF id \in S THEN "nobody" ELSE owner[id]])

\* An id is taken or the pool runs dry, or the forward pass raises.  What the
\* chunk itself had allocated is gone again.
PrefillRaises(k) ==
    /\ call # "idle" /\ pc = "prefill"
    /\ Failures \/ ~CanAllocate(k)
    /\ Abort(Chunk(k))
    /\ Dropped("prefill_raised")
    /\ UNCHANGED <<params, progress, calls>>

\* The capture hook or the sampling of a request raises after the forward pass.
\* Nothing is aborted: but for those done with their first token, which are
\* freed, the requests of the chunk keep their blocks.
SampleRaises(k) ==
    LET S == Chunk(k)
    IN  /\ call # "idle" /\ pc = "prefill"
        /\ Failures /\ CanAllocate(k)
        /\ \E before \in 0..(k-1) : \E stop \in SUBSET Chunk(before) :
              LET kept == {r \in S : ~(r \in Chunk(before) /\ Done(r, 1, r \in stop))}
              IN  /\ free' = free - NeedOf(kept)
                  /\ blocks' = [id \in Ids |-> IF id \in kept THEN Need(id) ELSE blocks[id]]
                  /\ kvLen' = [id \in Ids |-> IF id \in kept THEN prompt[id] ELSE kvLen[id]]
                  /\ owner' = Orphaned([id \in Ids |->
                                           IF id \in kept THEN "request" ELSE owner[id]])
        /\ Dropped("raised")
        /\ UNCHANGED <<params, progress, calls>>

\* step() returns the requests that finished in it; a stream yields them.
Deliver(S) ==
    /\ pc' = IF call = "stream" /\ S # {} THEN "yield" ELSE "between"
    /\ delivered' = [r \in Requests |-> IF r \in S THEN delivered[r] + 1 ELSE delivered[r]]
    /\ newly' = {}

EndPrefill ==
    /\ call # "idle" /\ pc = "prefill" /\ admitted = <<>>
    /\ IF running = {} THEN Deliver(newly)
                       ELSE pc' = "decode" /\ UNCHANGED <<newly, delivered>>
    /\ UNCHANGED <<call, outcome, params, waiting, admitted, running, completed,
                   gen, stopped, pool, calls>>

-------------------------------------------------------------------------------
(* One step: decode all running requests. *)

\* Mutated form: the request furthest along does not limit the burst.
StepsUnlimited == IF waiting = <<>> THEN burst ELSE 1

\* Tokens this dispatch decodes: a burst is for an empty waiting list, and never
\* passes the end of the request that has least left.
Steps ==
    IF waiting = <<>>
      THEN Min({burst} \cup {maxNew - gen[r] : r \in running})
      ELSE 1

\* Every sequence decodes all the steps; a request takes its tokens up to and
\* including a stop token, if one turns up.
Decode ==
    /\ call # "idle" /\ pc = "decode"
    /\ \E take \in [running -> 1..Steps], stop \in SUBSET running :
          LET now  == [r \in Requests |-> IF r \in running THEN gen[r] + take[r] ELSE gen[r]]
              over == {r \in running : Done(r, now[r], r \in stop)}
          IN  /\ \A r \in running : r \in stop \/ take[r] = Steps
              /\ gen' = now
              /\ stopped' = stopped \cup stop
              /\ free' = free + Held(over)
              /\ blocks' = [id \in Ids |-> IF id \in over THEN 0 ELSE blocks[id]]
              /\ owner' = [id \in Ids |-> IF id \in over THEN "nobody" ELSE owner[id]]
              /\ kvLen' = [id \in Ids |-> IF id \in over THEN 0
                                          ELSE IF id \in running THEN kvLen[id] + Steps
                                          ELSE kvLen[id]]
              /\ running' = running \ over
              /\ completed' = completed \cup over
              /\ Deliver(newly \cup over)
    /\ UNCHANGED <<call, outcome, params, waiting, admitted, calls>>

DecodeRaises ==
    /\ call # "idle" /\ pc = "decode" /\ Failures
    /\ Dropped("raised")
    /\ owner' = Orphaned(owner)
    /\ UNCHANGED <<params, progress, free, blocks, kvLen, calls>>

-------------------------------------------------------------------------------
(* Contexts of the engine, between calls or while a stream is at a yield. *)

CallerRuns == call = "idle" \/ pc = "yield"

PrefillContext(id, n) ==
    /\ CallerRuns
    /\ blocks[id] = 0 /\ n <= free
    /\ free' = free - n
    /\ blocks' = [blocks EXCEPT ![id] = n]
    /\ owner' = [owner EXCEPT ![id] = "context"]
    /\ kvLen' = [kvLen EXCEPT ![id] = n * BlockSize]
    /\ UNCHANGED <<call, pc, outcome, params, queues, progress, calls>>

FreeContext(id) ==
    /\ CallerRuns
    /\ owner[id] = "context"
    /\ FreeSequences({id})
    /\ UNCHANGED <<call, pc, outcome, params, queues, progress, calls>>

ContextStep ==
    \E id \in ContextIds :
        FreeContext(id) \/ \E n \in ContextBlocks : PrefillContext(id, n)

SchedulerStep ==
    \/ BeginStep \/ EndPrefill \/ Decode \/ DecodeRaises \/ Return
    \/ \E k \in 1..Len(admitted) : PrefillChunk(k) \/ PrefillRaises(k) \/ SampleRaises(k)

Next ==
    \/ \E kind \in {"batch", "stream"} : Submit(kind)
    \/ SchedulerStep
    \/ Abandon
    \/ ContextStep

Spec == Init /\ [][Next]_vars

\* A call runs to its end: generate_batch loops while a request is pending, and
\* the consumer of a stream asks for the next result.
FairSpec == Spec /\ WF_vars(SchedulerStep)

-------------------------------------------------------------------------------
(* Properties. *)

TypeOK ==
    /\ call \in {"idle", "batch", "stream"}
    /\ pc \in {"between", "prefill", "decode", "yield"}
    /\ outcome \in {"none", "returned", "raised", "prefill_raised", "abandoned"}
    /\ Submitted \subseteq Requests /\ prompt \in [Submitted -> Nat \ {0}]
    /\ maxNew \in Nat /\ burst \in Nat \ {0}
    /\ waiting \in Seq(Requests) /\ admitted \in Seq(Requests)
    /\ running \subseteq Requests /\ completed \subseteq Requests /\ newly \subseteq Requests
    /\ gen \in [Requests -> Nat] /\ stopped \subseteq Requests
    /\ delivered \in [Requests -> Nat]
    /\ free \in 0..NumBlocks
    /\ blocks \in [Ids -> 0..NumBlocks]
    /\ owner \in [Ids -> {"nobody", "request", "context", "orphan"}]
    /\ kvLen \in [Ids -> Nat]
    /\ calls \in 0..MaxCalls

RangeOf(s) == {s[i] : i \in DOMAIN s}

\* While a call is under way every submitted request is in exactly one place:
\* none is lost between the lists, none is scheduled twice, and requests are
\* admitted in the order they were submitted.
RequestConservation ==
    call # "idle" =>
        /\ RangeOf(waiting) \cup RangeOf(admitted) \cup running \cup completed = Submitted
        /\ Len(waiting) + Len(admitted) + Cardinality(running) + Cardinality(completed)
             = Cardinality(Submitted)
        /\ Cardinality(running) + Len(admitted) <= MaxBatch
        /\ \A i \in DOMAIN waiting, r \in Submitted \ RangeOf(waiting) : r < waiting[i]

\* The blocks of the pool are exactly the free ones and those the tables hold.
PoolAccounting ==
    /\ free + Held(Ids) = NumBlocks
    /\ \A id \in Ids : blocks[id] = 0 <=> owner[id] = "nobody"

\* A running request owns a table with room for everything it may still decode,
\* and its cache holds every token but the last, which the next step writes:
\* the position the step passes for that token is the length of the cache.
RunningIsDecodable ==
    \A r \in running :
        /\ owner[r] = "request"
        /\ kvLen[r] = prompt[r] + gen[r] - 1
        /\ gen[r] < maxNew /\ r \notin stopped
        /\ prompt[r] + maxNew <= blocks[r] * BlockSize

\* Nothing but the requests of the call holds blocks.
PoolIsOurs == \A id \in Ids : owner[id] \in {"nobody", "request"}

\* While the pool is the call's own, a step never admits more than the pool can
\* serve: no allocation of its prefill raises.
AdmissionFits == call # "idle" /\ PoolIsOurs => CanAllocate(Len(admitted))

\* A call that returned gave each request back once, with all its tokens or
\* with a stop token as the last, and its requests hold nothing of the pool.
ReturnedComplete ==
    outcome = "returned" =>
        /\ \A r \in Submitted :
              /\ delivered[r] = 1
              /\ gen[r] = maxNew \/ r \in stopped \/ maxNew = 0
        /\ \A id \in Ids : owner[id] # "request"

\* The steps of a call leave the contexts of the engine alone.
ContextsSurvive ==
    [][~ContextStep => \A id \in Ids : owner[id] = "context" =>
          /\ owner'[id] = "context"
          /\ blocks'[id] = blocks[id] /\ kvLen'[id] = kvLen[id]]_vars

\* A call whose requests all fit an empty pool comes to an end, unless
\* something else takes blocks of the pool.
CallEnds ==
    call # "idle" /\ PoolIsOurs /\ (\A r \in Submitted : Need(r) <= NumBlocks)
        ~> call = "idle" \/ ~PoolIsOurs

\* generate_batch: "Returns: List of generated texts (same order as input)".
CallReturns == call # "idle" ~> call = "idle"
===============================================================================
