------------------------------ MODULE ShardMesh ------------------------------
(***************************************************************************)
(* ShardPipeline.generate_batch and generate_continuous over two TTP       *)
(* stages (megagemm/mesh/shard_pipeline.py). With the loop in the          *)
(* coordinator prompts are prefilled one by one through stage 1, which     *)
(* forwards to stage 2; a decode step with one chunk takes the same way,   *)
(* and one with several chunks keeps both stages busy, stage 1 with a      *)
(* chunk and stage 2 with the one before. With the remote loop, which is   *)
(* the default, one request makes a thread of stage 1 run all of it.       *)
(* At the end, and after any error, every sequence is freed on every stage.*)
(*                                                                         *)
(* Connections may break, answers may be late, stages may fail or restart, *)
(* and the coordinator may die and be started again.                       *)
(***************************************************************************)
EXTENDS RemoteLoop, FiniteSets

CONSTANTS
    Batches,        \* bound: per setting, the numbers of prompts of the calls, in order
    Remote,         \* settings of remote_chain_loop a pipeline is made with
    Faults,         \* which of "lose", "timeout", "crash", "raise", "restart" occur
    MaxFaults       \* bound: faults of one behaviour

ASSUME MeshAssumption ==
    /\ Remote \subseteq BOOLEAN
    /\ \A loop \in Remote : Batches[loop] \in Seq(Nat)
    /\ MaxFaults \in Nat

\* The coordinator's clients of stages 1 and 2, and the client of stage 1's
\* process for stage 2, which all its handler threads share.
MeshClients == {"c1", "c2", "f"}
StageOf(c) == IF c = "c1" THEN 1 ELSE 2
EntryOf(s) == IF s = 1 THEN "c1" ELSE "c2"
Coordinator == 0

INSTANCE TTP WITH Clients <- MeshClients

VARIABLES
    net,            \* the transport
    cache,          \* cache[s]: what stage s holds per sequence id
    remote,         \* remote_chain_loop
    counter,        \* _seq_counter
    batch,          \* calls begun
    rows,           \* the prompts of the call under way, with what they have so far
    pc,             \* where generate_batch stands
    k,              \* the row, chunk or release it is at
    chunks,         \* the chunks of this decode step: sequences of row indices
    future,         \* future[c]: None, Pending, or what the coordinator's call gave
    held,           \* hidden states of the chunk that goes to stage 2 next
    tokens,         \* tokens of the chunks that are through
    result,         \* how the last call ended
    faults,         \* faults so far
    executed,       \* requests that changed a stage's cache, by stage
    suspect,        \* sequences a request of which ran twice or met another's answer
    abandoned       \* sequences that may stay behind: release given up or lost, late request

driver == <<remote, counter, batch, rows, pc, k, chunks, held, tokens, result>>
ghosts == <<executed, suspect, abandoned>>
vars == <<net, cache, driver, future, faults, ghosts>>

None == [kind |-> "none"]
Pending == [kind |-> "pending"]
Raised == [kind |-> "raised"]
Hidden(vals) == [kind |-> "hidden", vals |-> vals]
Ok == [kind |-> "ok"]

Forwarded == [at |-> "forwarded"]

Init ==
    /\ net = Initially
    /\ cache = [s \in 1..2 |-> <<>>]
    /\ remote \in Remote
    /\ counter = 0
    /\ batch = 0
    /\ rows = <<>>
    /\ pc = "idle"
    /\ k = 1
    /\ chunks = <<>>
    /\ future = [c \in {"c1", "c2"} |-> None]
    /\ held = <<>>
    /\ tokens = <<>>
    /\ result = "none"
    /\ faults = 0
    /\ executed = {}
    /\ suspect = {}
    /\ abandoned = {}

-----------------------------------------------------------------------------
(* The stages. *)

\* What stage s does with a request, as its next cache and its reply; Raised
\* stands for an answer with ok = false.
Effect(s, req) ==
    CASE req.op = "free" ->
           [cache |-> Freed(cache[s], req.seqs[1]), reply |-> Ok]
      [] req.op \in {"prefill", "prefill_chain"} ->
           [cache |-> Prefilled(cache[s], req.seqs[1], req.vals[1]),
            reply |-> IF s = 1 THEN Hidden(req.vals)
                      ELSE Token(<<NextToken(req.vals[1])>>)]
      [] OTHER ->
           IF \E j \in DOMAIN req.seqs : req.seqs[j] \notin DOMAIN cache[s]
           THEN [cache |-> cache[s], reply |-> Raised]
           ELSE LET out == DecodeOuts(cache[s], req.seqs, req.vals)
                IN [cache |-> Decoded(cache[s], req.seqs, req.vals),
                    reply |-> IF s = 1 THEN Hidden(out)
                              ELSE Tokens([j \in DOMAIN out |-> NextToken(out[j])])]

Chained(req, reply) ==
    req.op \in {"prefill_chain", "decode_batch_chain"} /\ reply.kind = "hidden"

ForwardOp(op) == IF op = "prefill_chain" THEN "prefill" ELSE "decode_batch"

\* A request for sequences that the coordinator is releasing or has released,
\* or that a coordinator before this one used.
Late(req) ==
    pc \in {"idle", "free"} \/ ~(ToSet(req.seqs) \subseteq {rows[i].seq : i \in DOMAIN rows})

\* Stage s has carried out req, which is no release.
Ran(s, req) ==
    /\ executed' = executed \union {<<s, req>>}
    /\ suspect' = IF <<s, req>> \in executed
                  THEN suspect \union ToSet(req.seqs) ELSE suspect
    /\ abandoned' = IF Late(req) THEN abandoned \union ToSet(req.seqs) ELSE abandoned

\* A handler thread takes the lock, runs the stage and answers, or passes the
\* hidden states on with the process's one client for the next stage.
Handle(c, i) ==
    LET s == StageOf(c)
        turn == net.inbox[c][i]
        req == turn.req
        effect == Effect(s, req)
    IN /\ i \in Turns(net, c)
       /\ turn.local = Unhandled
       /\ req.op # "generate_chain"
       /\ cache' = [cache EXCEPT ![s] = effect.cache]
       /\ net' = IF Chained(req, effect.reply)
                 THEN Called([net EXCEPT !.inbox[c][i].local = Forwarded], turn.conn, "f",
                             Request(ForwardOp(req.op), req.seqs, effect.reply.vals))
                 ELSE Answered(net, c, i, effect.reply)
       /\ IF req.op = "free" \/ effect.reply = Raised
          THEN UNCHANGED ghosts
          ELSE Ran(s, req)
       /\ UNCHANGED <<driver, future, faults>>

\* A request for the whole loop: the thread that handles it, at place i of
\* stage 1's requests, ...
LoopBegins(i) ==
    /\ i \in Turns(net, "c1")
    /\ net.inbox["c1"][i].local = Unhandled
    /\ net.inbox["c1"][i].req.op = "generate_chain"
    /\ net' = [net EXCEPT !.inbox["c1"][i].local = LoopFor(net.inbox["c1"][i].req)]
    /\ UNCHANGED <<cache, driver, future, faults, ghosts>>

\* ... when it does not wait for the next stage, ...
Looping(i) ==
    /\ net.inbox["c1"][i].local.at = "loop"
    /\ \A call \in net.calls : call.client = "f" => call.by # net.inbox["c1"][i].conn

\* ... prefills a prompt or decodes a chunk and passes it on, ...
LoopCalls(i) ==
    LET l == net.inbox["c1"][i].local
        req == IF Decodes(l) THEN ChunkOf(l) ELSE Admission(l)
        effect == Effect(1, req)
    IN /\ Looping(i)
       /\ Decodes(l) \/ Admits(l)
       /\ IF effect.reply = Raised
          THEN net' = Answered(net, "c1", i, Raised) /\ UNCHANGED <<cache, ghosts>>
          ELSE /\ cache' = [cache EXCEPT ![1] = effect.cache]
               /\ net' = Called(net, net.inbox["c1"][i].conn, "f",
                                Request(req.op, req.seqs, effect.reply.vals))
               /\ Ran(1, req)
       /\ UNCHANGED <<driver, future, faults>>

\* ... takes a step, ...
LoopSteps(i) ==
    LET l == net.inbox["c1"][i].local
    IN /\ Looping(i)
       /\ Steps(l)
       /\ \E eos \in SUBSET ToSet(l.running) :
             net' = [net EXCEPT !.inbox["c1"][i].local = Stepped(l, eos)]
       /\ UNCHANGED <<cache, driver, future, faults, ghosts>>

\* ... and answers when nothing waits and nothing runs.
LoopReturns(i) ==
    /\ Looping(i)
    /\ Over(net.inbox["c1"][i].local)
    /\ net' = Answered(net, "c1", i, Generated(net.inbox["c1"][i].local.out))
    /\ UNCHANGED <<cache, driver, future, faults, ghosts>>

Fault(kind) ==
    /\ kind \in Faults
    /\ faults < MaxFaults
    /\ faults' = faults + 1

\* The layers or the cache of the stage raise, for a request or for what a loop
\* is at: the answer says so, and a prefill may have made the sequence known.
StageRaises(c, i) ==
    LET s == StageOf(c)
        turn == net.inbox[c][i]
        req == IF turn.local = Unhandled THEN turn.req
               ELSE IF Decodes(turn.local) THEN ChunkOf(turn.local) ELSE Admission(turn.local)
    IN /\ i \in Turns(net, c)
       /\ \/ turn.local = Unhandled /\ turn.req.op \notin {"free", "generate_chain"}
          \/ c = "c1" /\ Looping(i) /\ (Decodes(turn.local) \/ Admits(turn.local))
       /\ Fault("raise")
       /\ cache' \in IF req.op \in {"prefill", "prefill_chain"}
                     THEN {cache, [cache EXCEPT ![s] = Ensured(@, req.seqs[1])]}
                     ELSE {cache}
       /\ net' = Answered(net, c, i, Raised)
       /\ abandoned' = IF Late(req) THEN abandoned \union ToSet(req.seqs) ELSE abandoned
       /\ UNCHANGED <<driver, future, executed, suspect>>

\* The process of stage s ends ...
StageStops(s) ==
    /\ Fault("crash")
    /\ net.up[EntryOf(s)]
    /\ cache' = [cache EXCEPT ![s] = <<>>]
    /\ net' = IF s = 1 THEN Dropped(ServerGone(net, "c1"), "f")
              ELSE ServerGone(ServerGone(net, "c2"), "f")
    /\ UNCHANGED <<driver, future, ghosts>>

\* ... and another one is started, with an empty cache.
StageStarts(s) ==
    /\ ~net.up[EntryOf(s)]
    /\ net' = IF s = 1 THEN ServerBack(net, "c1") ELSE ServerBack(ServerBack(net, "c2"), "f")
    /\ UNCHANGED <<cache, driver, future, faults, ghosts>>

-----------------------------------------------------------------------------
(* The clients. *)

\* The place of the handler thread that made a call on client f; there is one.
HandlerOf(call) ==
    {i \in DOMAIN net.inbox["c1"] :
        net.inbox["c1"][i].local # Unhandled /\ net.inbox["c1"][i].conn = call.by}

\* The caller of a finished call goes on: the coordinator has the outcome in
\* its future, a handler thread answers with it or has it in its loop, which
\* an answer that is not the one it expects ends.
Delivered(after, call, reply) ==
    IF call.by = Coordinator
    THEN /\ net' = after
         /\ future' = [future EXCEPT ![call.client] = reply]
    ELSE /\ \E i \in HandlerOf(call) :
                LET l == net.inbox["c1"][i].local
                IN net' = IF l = Forwarded THEN Answered(after, "c1", i, reply)
                          ELSE IF Expects(l, reply)
                          THEN [after EXCEPT !.inbox["c1"][i].local = Taking(l, reply)]
                          ELSE Answered(after, "c1", i, Raised)
         /\ UNCHANGED future

Return(call) ==
    /\ Readable(net, call)
    /\ LET answer == Head(net.answers[call.client])
       IN /\ Delivered(Read(net, call), call, answer.reply)
          /\ suspect' = IF answer.req = call.req THEN suspect
                        ELSE suspect \union ToSet(answer.req.seqs) \union ToSet(call.req.seqs)
    /\ UNCHANGED <<cache, driver, faults, executed, abandoned>>

\* The error of an attempt: the first is followed by a second, whose error the
\* caller gets. A release that is given up leaves its sequence on the stage.
Fail(call) ==
    /\ IF call.attempt = 1
       THEN net' = Retried(net, call) /\ UNCHANGED <<future, abandoned>>
       ELSE /\ Delivered(GivenUp(net, call), call, Raised)
            /\ abandoned' = IF call.req.op = "free"
                            THEN abandoned \union ToSet(call.req.seqs) ELSE abandoned
    /\ UNCHANGED <<cache, driver, executed, suspect>>

ReadFails(call) == Broken(net, call) /\ Fail(call) /\ UNCHANGED faults

TimesOut(call) == Fault("timeout") /\ ~Broken(net, call) /\ Fail(call)

\* A release whose caller took the answer of another request for its own, and
\* which is lost before it is carried out: nobody sends it again.
LostReleases(c) ==
    {turn \in Unbegun(net, c) :
        turn.req.op = "free" /\ \A call \in net.calls : call.client = c => call.req # turn.req}

LoseConnection(c, keep) ==
    /\ Fault("lose")
    /\ net.alive[c]
    /\ net' = Lost(net, c, keep)
    /\ abandoned' = IF keep THEN abandoned
                    ELSE abandoned \union UNION {ToSet(turn.req.seqs) : turn \in LostReleases(c)}
    /\ UNCHANGED <<cache, driver, future, executed, suspect>>

-----------------------------------------------------------------------------
(* The coordinator. *)

\* The coordinator's thread or one of its two workers makes a call.
Submit(c, req) ==
    /\ net' = Called(net, Coordinator, c, req)
    /\ future' = [future EXCEPT ![c] = Pending]

Taken(c) == future' = [future EXCEPT ![c] = None] /\ UNCHANGED net

Seqs(is) == [j \in DOMAIN is |-> rows[is[j]].seq]
CurTokens(is) == [j \in DOMAIN is |-> rows[is[j]].cur]

GenerateBatch ==
    /\ pc = "idle"
    /\ batch < Len(Batches[remote])
    /\ batch' = batch + 1
    /\ counter' = counter + Batches[remote][batch']
    /\ rows' = [j \in 1..Batches[remote][batch'] |->
                  [seq |-> counter + j, prompt |-> 10 * batch' + j,
                   cur |-> Junk, generated |-> <<>>, done |-> FALSE]]
    /\ pc' = IF remote THEN "remote" ELSE "prefill"
    /\ k' = 1
    /\ result' = "none"
    /\ UNCHANGED <<net, cache, remote, chunks, future, held, tokens, faults, ghosts>>

\* The first statement that raises ends the call; finally, everything is freed.
StartRelease(outcome) ==
    /\ result' = outcome
    /\ pc' = "free"
    /\ k' = 1

\* The remote loop: one request with all prompts, one answer with all texts.
RemoteCall ==
    /\ pc = "remote"
    /\ future["c1"] = None
    /\ Submit("c1", Request("generate_chain", [j \in DOMAIN rows |-> rows[j].seq],
                           [j \in DOMAIN rows |-> PromptValue(rows[j].prompt)]))
    /\ UNCHANGED <<cache, driver, faults, ghosts>>

RemoteDone ==
    /\ pc = "remote"
    /\ future["c1"].kind \notin {"none", "pending"}
    /\ Taken("c1")
    /\ IF future["c1"].kind = "generated" /\ Len(future["c1"].texts) = Len(rows)
       THEN /\ rows' = [j \in DOMAIN rows |->
                          [rows[j] EXCEPT !.generated = future["c1"].texts[j]]]
            /\ StartRelease("returned")
       ELSE StartRelease("raised") /\ UNCHANGED rows
    /\ UNCHANGED <<cache, remote, counter, batch, chunks, held, tokens, faults, ghosts>>

PrefillRow ==
    /\ pc = "prefill"
    /\ k <= Len(rows)
    /\ future["c1"] = None
    /\ Submit("c1", Request("prefill_chain", <<rows[k].seq>>, <<PromptValue(rows[k].prompt)>>))
    /\ UNCHANGED <<cache, driver, faults, ghosts>>

PrefillDone ==
    /\ pc = "prefill"
    /\ future["c1"].kind \notin {"none", "pending"}
    /\ Taken("c1")
    /\ IF future["c1"].kind = "next_token"
       THEN /\ rows' = [rows EXCEPT ![k].cur = future["c1"].vals[1]]
            /\ k' = k + 1
            /\ UNCHANGED <<pc, result>>
       ELSE StartRelease("raised") /\ UNCHANGED rows
    /\ UNCHANGED <<cache, remote, counter, batch, chunks, held, tokens, faults, ghosts>>

Ready(i) == ~rows[i].done /\ Len(rows[i].generated) < MaxNew

\* All prompts are prefilled, or a decode step is through.
Between == (pc = "prefill" /\ k > Len(rows)) \/ pc = "step"

\* One decode step: every row that is not done takes its token; the rows whose
\* token is no end of sequence (eos) and that have room go on in chunks.
BeginStep ==
    /\ Between
    /\ \E i \in DOMAIN rows : Ready(i)
    /\ \E eos \in SUBSET {i \in DOMAIN rows : Ready(i)} :
         LET taken == [i \in DOMAIN rows |->
                         IF ~Ready(i) THEN rows[i]
                         ELSE [rows[i] EXCEPT
                                 !.generated = Append(@, rows[i].cur),
                                 !.done = i \in eos \/ Len(rows[i].generated) + 1 >= MaxNew]]
             going == SelectSeq([i \in DOMAIN rows |-> i],
                                LAMBDA i : Ready(i) /\ ~taken[i].done)
         IN /\ rows' = taken
            /\ chunks' = Split(going)
            /\ pc' = IF going = <<>> THEN "step"
                     ELSE IF Len(Split(going)) > 1 THEN "overlap" ELSE "chain"
    /\ k' = 1
    /\ tokens' = <<>>
    /\ UNCHANGED <<net, cache, remote, counter, batch, future, held, result, faults, ghosts>>

Finish ==
    /\ Between
    /\ \A i \in DOMAIN rows : ~Ready(i)
    /\ StartRelease("returned")
    /\ UNCHANGED <<net, cache, remote, counter, batch, rows, chunks, future, held, tokens, faults, ghosts>>

\* Mutant: the tokens are dealt out from the first row on, done or not.
WithTokensInPlace(is, vals) ==
    [i \in DOMAIN rows |-> IF i \in DOMAIN vals THEN [rows[i] EXCEPT !.cur = vals[i]]
                           ELSE rows[i]]

\* Token j belongs to row is[j].
WithTokens(is, vals) ==
    [i \in DOMAIN rows |->
        IF i \in ToSet(is)
        THEN [rows[i] EXCEPT !.cur = vals[CHOOSE j \in DOMAIN is : is[j] = i]]
        ELSE rows[i]]

\* A single chunk goes through both stages in one request.
ChainDecode ==
    /\ pc = "chain"
    /\ future["c1"] = None
    /\ Submit("c1", Request("decode_batch_chain", Seqs(chunks[1]), CurTokens(chunks[1])))
    /\ UNCHANGED <<cache, driver, faults, ghosts>>

ChainDone ==
    /\ pc = "chain"
    /\ future["c1"].kind \notin {"none", "pending"}
    /\ Taken("c1")
    /\ IF future["c1"].kind = "next_tokens"
       THEN /\ rows' = WithTokens(chunks[1], future["c1"].vals)
            /\ pc' = "step"
            /\ UNCHANGED <<k, result>>
       ELSE StartRelease("raised") /\ UNCHANGED rows
    /\ UNCHANGED <<cache, remote, counter, batch, chunks, held, tokens, faults, ghosts>>

\* Several chunks: stage 1 is given chunk 1 ...
OverlapBegin ==
    /\ pc = "overlap"
    /\ Submit("c1", Request("decode_batch", Seqs(chunks[1]), CurTokens(chunks[1])))
    /\ pc' = "stage1"
    /\ UNCHANGED <<cache, remote, counter, batch, rows, k, chunks, held, tokens, result, faults, ghosts>>

\* ... and when it has the hidden states of chunk k, chunk k + 1.
Stage1Done ==
    /\ pc = "stage1"
    /\ future["c1"].kind \notin {"none", "pending"}
    /\ IF future["c1"].kind = "hidden"
       THEN /\ held' = future["c1"].vals
            /\ IF k < Len(chunks)
               THEN Submit("c1", Request("decode_batch", Seqs(chunks[k + 1]),
                                         CurTokens(chunks[k + 1])))
               ELSE Taken("c1")
            /\ pc' = "stage2"
            /\ UNCHANGED result
       ELSE /\ Taken("c1")
            /\ result' = "raised"
            /\ pc' = "drain"
            /\ UNCHANGED held
    /\ UNCHANGED <<cache, remote, counter, batch, rows, k, chunks, tokens, faults, ghosts>>

Chunk2(vals) == Request("decode_batch", Seqs(chunks[k]), vals)

\* Mutant: stage 2 is given its next chunk without waiting for the last one.
Stage2NextAtOnce ==
    /\ pc = "stage2"
    /\ Submit("c2", Chunk2(held))
    /\ k' = k + 1
    /\ pc' = IF k < Len(chunks) THEN "stage1" ELSE "last"
    /\ UNCHANGED <<cache, remote, counter, batch, rows, chunks, held, tokens, result, faults, ghosts>>

\* The tokens of chunk k - 1 come first; then stage 2 is given chunk k.
Stage2Next ==
    /\ pc = "stage2"
    /\ future["c2"].kind # "pending"
    /\ IF future["c2"].kind \in {"none", "next_tokens"}
       THEN /\ tokens' = IF future["c2"] = None THEN tokens ELSE Append(tokens, future["c2"].vals)
            /\ Submit("c2", Chunk2(held))
            /\ k' = k + 1
            /\ pc' = IF k < Len(chunks) THEN "stage1" ELSE "last"
            /\ UNCHANGED result
       ELSE /\ Taken("c2")
            /\ result' = "raised"
            /\ pc' = "drain"
            /\ UNCHANGED <<k, tokens>>
    /\ UNCHANGED <<cache, remote, counter, batch, rows, chunks, held, faults, ghosts>>

OverlapDone ==
    /\ pc = "last"
    /\ future["c2"].kind \notin {"none", "pending"}
    /\ Taken("c2")
    /\ IF future["c2"].kind = "next_tokens"
       THEN /\ rows' = LET all == Append(tokens, future["c2"].vals)
                       IN WithTokens(FlattenSeq(chunks), FlattenSeq(all))
            /\ pc' = "step"
            /\ UNCHANGED result
       ELSE result' = "raised" /\ pc' = "drain" /\ UNCHANGED rows
    /\ UNCHANGED <<cache, remote, counter, batch, k, chunks, held, tokens, faults, ghosts>>

\* Leaving the executor's with-block waits for what was submitted.
Drain ==
    /\ pc = "drain"
    /\ \A c \in DOMAIN future : future[c] # Pending
    /\ future' = [c \in DOMAIN future |-> None]
    /\ StartRelease(result)
    /\ UNCHANGED <<net, cache, remote, counter, batch, rows, chunks, held, tokens, faults, ghosts>>

\* Release number k: sequence by sequence, stage 1 then stage 2.
ReleaseClient(n) == IF n % 2 = 1 THEN "c1" ELSE "c2"
ReleaseSeq(n) == rows[(n + 1) \div 2].seq

Release ==
    /\ pc = "free"
    /\ k <= 2 * Len(rows)
    /\ future[ReleaseClient(k)] = None
    /\ Submit(ReleaseClient(k), Request("free", <<ReleaseSeq(k)>>, <<>>))
    /\ UNCHANGED <<cache, driver, faults, ghosts>>

\* Mutant: an error of a release ends the loop, and with it the releases to come.
ReleasedUntilError ==
    /\ pc = "free"
    /\ k <= 2 * Len(rows)
    /\ future[ReleaseClient(k)].kind \notin {"none", "pending"}
    /\ Taken(ReleaseClient(k))
    /\ k' = IF future[ReleaseClient(k)] = Raised THEN 2 * Len(rows) + 1 ELSE k + 1
    /\ UNCHANGED <<cache, remote, counter, batch, rows, pc, chunks, held, tokens, result, faults, ghosts>>

\* Mutant: only an answer lets the release go on.
ReleasedWhenAnswered ==
    /\ pc = "free"
    /\ k <= 2 * Len(rows)
    /\ future[ReleaseClient(k)].kind = "ok"
    /\ Taken(ReleaseClient(k))
    /\ k' = k + 1
    /\ UNCHANGED <<cache, remote, counter, batch, rows, pc, chunks, held, tokens, result, faults, ghosts>>

\* Whatever the answer is, and if there is none, the release goes on.
Released ==
    /\ pc = "free"
    /\ k <= 2 * Len(rows)
    /\ future[ReleaseClient(k)].kind \notin {"none", "pending"}
    /\ Taken(ReleaseClient(k))
    /\ k' = k + 1
    /\ UNCHANGED <<cache, remote, counter, batch, rows, pc, chunks, held, tokens, result, faults, ghosts>>

\* generate_batch is left, and what it knew is gone.
Left ==
    /\ pc' = "idle"
    /\ rows' = <<>>
    /\ k' = 1
    /\ chunks' = <<>>
    /\ held' = <<>>
    /\ tokens' = <<>>
    /\ result' = "none"

EndCall ==
    /\ pc = "free"
    /\ k > 2 * Len(rows)
    /\ Left
    /\ UNCHANGED <<net, cache, remote, counter, batch, future, faults, ghosts>>

\* The requests that some stage has still to carry out or to answer.
Undone == UNION {ToSet(net.inbox[c]) : c \in MeshClients}

\* The coordinator dies and another one is started: it counts from 1 again.
CoordinatorRestarts ==
    /\ Fault("restart")
    /\ batch > 0
    /\ net' = Dropped(Dropped(net, "c1"), "c2")
    /\ remote' \in Remote
    /\ counter' = 0
    /\ Left
    /\ future' = [c \in DOMAIN future |-> None]
    /\ LET left == (IF pc = "idle" THEN {} ELSE {rows[j].seq : j \in DOMAIN rows})
                   \union UNION {ToSet(turn.req.seqs) : turn \in Undone}
       IN suspect' = suspect \union left /\ abandoned' = abandoned \union left
    /\ UNCHANGED <<cache, batch, executed>>

Serve(c) ==
    \/ \E i \in Turns(net, c) :
          \/ Handle(c, i)
          \/ c = "c1" /\ (LoopBegins(i) \/ LoopCalls(i) \/ LoopSteps(i) \/ LoopReturns(i))
    \/ \E call \in net.calls : call.client = c /\ (Return(call) \/ ReadFails(call))

Drive ==
    \/ GenerateBatch \/ RemoteCall \/ RemoteDone \/ PrefillRow \/ PrefillDone
    \/ BeginStep \/ ChainDecode \/ ChainDone \/ Finish
    \/ OverlapBegin \/ Stage1Done \/ Stage2Next \/ OverlapDone \/ Drain
    \/ Release \/ Released \/ EndCall

Misfortune ==
    \/ \E c \in MeshClients : \E i \in Turns(net, c) : StageRaises(c, i)
    \/ \E s \in 1..2 : StageStops(s) \/ StageStarts(s)
    \/ \E call \in net.calls : TimesOut(call)
    \/ \E c \in MeshClients, keep \in BOOLEAN : LoseConnection(c, keep)
    \/ CoordinatorRestarts

Next == (\E c \in MeshClients : Serve(c)) \/ Drive \/ Misfortune

Spec == Init /\ [][Next]_vars

\* The coordinator's threads run on, and so do the handler threads of every
\* connection: an answer that is there is read, an error is noticed.
FairSpec ==
    /\ Spec
    /\ WF_vars(Drive)
    /\ \A c \in MeshClients : WF_vars(Serve(c))

-----------------------------------------------------------------------------
(* Properties. *)

Quiet == pc = "idle" /\ Undone = {} /\ net.calls = {}

\* What prompt p gives when nothing goes wrong, up to n tokens.
Text(p, n) == [i \in 1..n |-> Value(p, PromptLen + i - 1)]

\* generate_batch returns for each prompt the tokens of that prompt, whatever
\* was chunked, overlapped, retried or restarted, unless a request of the
\* sequence was carried out twice, met the answer of another request, or
\* found rows that an earlier call had to leave on a stage.
AnswersRight ==
    pc = "free" /\ result = "returned" =>
        \A i \in DOMAIN rows :
            \/ rows[i].seq \in suspect \union abandoned
            \/ rows[i].generated = Text(rows[i].prompt, Len(rows[i].generated))

\* A TTPClient keeps one unnumbered connection, so the coordinator must never
\* have two of its requests outstanding on one client: in the overlapped step
\* stage 2 is given a chunk only when it has answered the one before.
OneCallPerClient ==
    \A c \in {"c1", "c2"} : Cardinality({call \in net.calls : call.client = c}) <= 1

\* When generate_batch is over, by a return or an error, and nothing is on its
\* way, the stages hold no sequence, except those a release of which was given
\* up or lost with nobody waiting for it, that a late request created again or
\* that a dead coordinator left.
NothingLeftBehind ==
    Quiet => \A s \in 1..2 : DOMAIN cache[s] \subseteq abandoned

\* The texts a coordinator returns are those of its prompts, with no exception:
\* its one request for the whole generation runs once, until it is finished.
TextsRight ==
    pc = "free" /\ result = "returned" =>
        \A i \in DOMAIN rows :
            rows[i].generated = Text(rows[i].prompt, Len(rows[i].generated))

\* Every generate_batch ends: faults delay it, but no wait lasts for ever.
CallEnds == [](pc # "idle" => <>(pc = "idle"))
=============================================================================
