----------------------------- MODULE DecodeGraph -----------------------------
(***************************************************************************)
(* Decode graphs of the scheduler (megagemm/engine/scheduler.py): a decode *)
(* step of the running batch is captured as a CUDA graph and replayed. A   *)
(* graph is bound to buffers: its inputs, which with token feedback it     *)
(* advances itself, the lengths it increments, the block layout and the    *)
(* number of KV blocks its attention loop visits. Each step the scheduler  *)
(* decides which of these it refreshes, and whether it runs eagerly,       *)
(* captures or replays; a burst is several steps whose tokens reach the    *)
(* host together.                                                          *)
(*                                                                         *)
(* Abstractions: every request is greedy and the model returns token ids.  *)
(* A token is <<s, i>>: what greedy decoding gives sequence s at position  *)
(* i. A step yields it if the device reads the token before it, at its     *)
(* position, with the right length, layout and context; anything else is   *)
(* Junk. Settings that never change while a scheduler lives are in cfg.    *)
(***************************************************************************)
EXTENDS Integers, SequencesExt, FiniteSetsExt

CONSTANTS
    Configs,        \* the settings to check, see Config
    Calls,          \* bound: the numbers of requests of the calls, in order
    PromptLens,     \* prompt lengths
    MaxNew,         \* max_new_tokens
    MaxBatch,       \* max_batch_size
    Burst,          \* tokens per burst
    BlockSize, NumBlocks

\* shape: graphs are cached by shape, not one per membership. shared: the cache
\* belongs to the block manager and its states have input buffers of their own.
\* stable: the loop bound is the width of the block table. feedback: graphs
\* write tokens and positions back. native, unrolled: the two one-launch
\* bursts. reuse: the scheduler serves the next call. strict: a failed capture
\* raises. fails: captures may fail.
Config ==
    [{"shape", "shared", "stable", "feedback", "native", "unrolled",
      "reuse", "strict", "fails"} -> BOOLEAN]

ASSUME DecodeGraphAssumption ==
    /\ Configs \subseteq Config
    /\ Calls \in Seq(Nat)
    /\ PromptLens \subseteq Nat \ {0}
    /\ {MaxNew, MaxBatch, Burst, BlockSize, NumBlocks} \subseteq Nat \ {0}

VARIABLES
    cfg,
    calls,          \* calls begun
    stops,          \* do requests of this call have stop tokens?
    prompt,         \* prompt[s]: prompt length
    waiting,        \* requests not admitted
    running,        \* the running batch, in order
    text,           \* text[s]: generated tokens on the host
    free,           \* free_blocks
    blocks,         \* block_tables
    seqLen,         \* seq_lens, as Python has them
    kv,             \* kv[s]: rows of s on the device
    changed,        \* _batch_changed
    pc,             \* "idle", "step" or "decode"
    left,           \* steps of the dispatch under way that are still to come
    burst,          \* tokens of the steps done, one row of tokens per step
    resumed,        \* did the burst start without staging its inputs?
    buf,            \* _decode_input_ids and _decode_positions
    states,         \* _decode_graph_shape_states
    warm, failed,   \* keys warmed up, keys whose capture failed
    started,        \* _decode_graph_chain_started_keys
    legacy          \* the one graph without shapes: graph, warm and failed keys, lengths

requests == <<calls, stops, prompt, waiting, running, text>>
pool == <<free, blocks, seqLen, kv>>
dispatch == <<pc, left, burst, resumed, buf>>
graphs == <<states, warm, failed, started, legacy>>
vars == <<cfg, requests, pool, changed, dispatch, graphs>>

Junk == <<0, 0>>
Token(s, i) == <<s, i>>

\* One input row: a token and the position it is fed at.
Row(tok, pos) == [tok |-> tok, pos |-> pos]

None == <<>>
NoTensor == [seqs |-> None, vals |-> None]
NoGraph == [graph |-> None, loop |-> 0, bound |-> FALSE,
            warm |-> None, failed |-> None, lens |-> NoTensor]

Last1(s) == text[s][Len(text[s])]
Current(s) == prompt[s] + Len(text[s])
Blocks(tokens) == (tokens + BlockSize - 1) \div BlockSize

Lens(ss) == [i \in DOMAIN ss |-> seqLen[ss[i]]]
Layout(ss) == [i \in DOMAIN ss |-> blocks[ss[i]]]

Init ==
    /\ cfg \in Configs
    /\ calls = 0
    /\ stops = FALSE
    /\ prompt = <<>>
    /\ waiting = <<>>
    /\ running = <<>>
    /\ text = <<>>
    /\ free = [i \in 1..NumBlocks |-> i]
    /\ blocks = <<>>
    /\ seqLen = <<>>
    /\ kv = <<>>
    /\ changed = TRUE
    /\ pc = "idle"
    /\ left = 0
    /\ burst = <<>>
    /\ resumed = FALSE
    /\ buf = [i \in 1..MaxBatch |-> Row(Junk, 0)]
    /\ states = <<>>
    /\ warm = {}
    /\ failed = {}
    /\ started = {}
    /\ legacy = NoGraph

-----------------------------------------------------------------------------
(* Calls, admission and the end of requests. *)

\* A call is served by a new scheduler or, if it may be reused, by the one
\* before after a reset; the shapes live on with it or with the block manager.
StartCall ==
    /\ pc = "idle"
    /\ calls < Len(Calls)
    /\ calls' = calls + 1
    /\ LET ids == 1..Calls[calls'] IN
         /\ stops' \in BOOLEAN
         /\ prompt' \in [ids -> PromptLens]
         /\ waiting' = [i \in ids |-> i]
         /\ text' = [s \in ids |-> <<>>]
         /\ blocks' = [s \in ids |-> <<>>]
         /\ seqLen' = [s \in ids |-> 0]
         /\ kv' = [s \in ids |-> 0]
    /\ changed' = TRUE
    /\ started' = {}
    /\ pc' = "step"
    /\ IF cfg.reuse \/ cfg.shared
       THEN UNCHANGED <<states, warm, failed>>
       ELSE states' = <<>> /\ warm' = {} /\ failed' = {}
    /\ legacy' = IF cfg.reuse THEN legacy ELSE NoGraph
    /\ UNCHANGED <<cfg, running, free, left, burst, resumed, buf>>

Need(s) == Blocks(prompt[s] + MaxNew)

\* What the requests of ss claim together.
Claim(ss) == FoldSeq(LAMBDA s, sum : sum + Need(s), 0, ss)

\* How many of the waiting requests are admitted: a prefix that fits.
Admitted ==
    LET fits(n) == n <= MaxBatch - Len(running) /\ Claim(SubSeq(waiting, 1, n)) <= Len(free)
    IN Max({0} \cup {n \in 1..Len(waiting) : fits(n)})

\* Each admitted request pops its blocks off the end of the free list.
Popped(ss) ==
    LET start(i) == Len(free) - Claim(SubSeq(ss, 1, i - 1))
    IN [i \in DOMAIN ss |-> [j \in 1..Need(ss[i]) |-> free[start(i) - j + 1]]]

\* The free list after the sequences of ss that are over are freed, in the order
\* of ss; when no table is left the list is sorted.
FreeAfter(list, tables, ss, over) ==
    LET gone == SelectSeq(ss, LAMBDA s : s \in over)
        back == list \o FlattenSeq([i \in DOMAIN gone |-> tables[gone[i]]])
    IN IF over = {} THEN list
       ELSE IF \A s \in DOMAIN tables : tables[s] = <<>> \/ s \in over
       THEN [i \in 1..NumBlocks |-> i] ELSE back

Without(tables, over) == [s \in DOMAIN tables |-> IF s \in over THEN <<>> ELSE tables[s]]

\* The sequences of ss that are not over, in order.
Staying(ss, over) ==
    LET kept[n \in 0..Len(ss)] ==
            IF n = 0 THEN <<>>
            ELSE IF ss[n] \in over THEN kept[n-1] ELSE Append(kept[n-1], ss[n])
    IN kept[Len(ss)]

\* Lengths and tables change outside a decode step: the cached tensors go.
Dropped == [legacy EXCEPT !.lens = NoTensor, !.bound = FALSE]

\* A step of the scheduler admits what fits and prefills it. The first token is
\* there then, and a request it stops is freed at once; the batch counts as
\* changed only by what decoding finishes.
Admit ==
    /\ pc = "step"
    /\ Admitted > 0
    /\ \E stopped \in SUBSET {i \in 1..Admitted : stops} :
         LET new == SubSeq(waiting, 1, Admitted)
             tables == [s \in DOMAIN blocks |->
                          IF s \in ToSet(new) THEN Popped(new)[CHOOSE i \in DOMAIN new : new[i] = s]
                          ELSE blocks[s]]
             rest == SubSeq(free, 1, Len(free) - Claim(new))
             over == {new[i] : i \in IF MaxNew = 1 THEN DOMAIN new ELSE stopped}
         IN /\ blocks' = Without(tables, over)
            /\ free' = FreeAfter(rest, tables, new, over)
            /\ running' = running \o Staying(new, over)
            /\ text' = [s \in DOMAIN text |-> IF s \in ToSet(new) THEN <<Token(s, prompt[s])>>
                                              ELSE text[s]]
            /\ seqLen' = [s \in DOMAIN seqLen |-> IF s \in ToSet(new) THEN prompt[s] ELSE seqLen[s]]
            /\ kv' = [s \in DOMAIN kv |-> IF s \in ToSet(new) THEN prompt[s] ELSE kv[s]]
            /\ waiting' = SubSeq(waiting, Admitted + 1, Len(waiting))
    /\ legacy' = Dropped
    /\ pc' = "admitted"
    /\ UNCHANGED <<cfg, calls, stops, prompt, changed, left, burst, resumed, buf,
                   states, warm, failed, started>>

EndCall ==
    /\ pc \in {"step", "admitted"}
    /\ running = <<>>
    /\ waiting = <<>>
    /\ pc' = "idle"
    /\ stops' = FALSE
    /\ prompt' = <<>>
    /\ text' = <<>>
    /\ blocks' = <<>>
    /\ seqLen' = <<>>
    /\ kv' = <<>>
    /\ UNCHANGED <<cfg, calls, waiting, running, free, changed, left, burst, resumed, buf, graphs>>

\* A step that only finished requests at their first token is followed by another.
NothingToDecode ==
    /\ pc = "admitted"
    /\ running = <<>>
    /\ waiting # <<>>
    /\ pc' = "step"
    /\ UNCHANGED <<cfg, requests, pool, changed, left, burst, resumed, buf, graphs>>

-----------------------------------------------------------------------------
(* The shapes. *)

\* _decode_graph_shape_key: two batches with the same key share a state.
Key(ss) ==
    LET table == Max({Len(blocks[s]) : s \in ToSet(ss)})
    IN <<Len(ss), table,
         IF cfg.stable THEN table ELSE Blocks(Max(ToSet(Lens(ss))) + 1)>>
LoopOf(key) == key[3]

Fresh == [seqs |-> None, layout |-> None, lens |-> None, known |-> None,
          graph |-> None, rows |-> None, unrolled |-> <<>>]

State(key) == IF key \in DOMAIN states THEN states[key] ELSE Fresh

Rebound(old, ss) == old.graph # None /\ old.layout # Layout(ss)

\* Mutant: a graph is kept although the blocks it was captured with are not
\* those of this batch.
PreparedKeepingGraph(old, ss) ==
    [old EXCEPT !.seqs = ss, !.layout = Layout(ss), !.known = Lens(ss),
                !.lens = IF old.seqs = ss /\ old.layout = Layout(ss) /\ old.known = Lens(ss)
                         THEN @ ELSE Lens(ss)]

\* _prepare_decode_graph_shape_state: a graph captured on another layout is
\* dropped; lengths and tables are copied when they are not what the state knows.
Prepared(old, ss) ==
    LET same == old.seqs = ss /\ old.layout = Layout(ss) /\ old.known = Lens(ss)
    IN [old EXCEPT !.seqs = ss, !.layout = Layout(ss), !.known = Lens(ss),
                   !.lens = IF same THEN @ ELSE Lens(ss),
                   !.graph = IF Rebound(old, ss) THEN None ELSE @,
                   !.unrolled = IF Rebound(old, ss) THEN <<>> ELSE @]

\* The graph goes on from the inputs it has written itself.
GoesOn(key, st) == cfg.feedback /\ st.graph # None /\ key \in started

\* What a step of this state reads: its own buffers, filled from the common
\* ones unless the graph goes on, or the common ones.
Inputs(key, st, ss) ==
    IF cfg.shared /\ GoesOn(key, st) THEN st.rows ELSE SubSeq(buf, 1, Len(ss))

\* Tokens that n steps in a row give the batch, the i-th from the one before:
\* lens, loop and layout are what the device has.
Decoded(ss, rows, lens, layout, loop, n) ==
    [j \in 1..n |-> [i \in DOMAIN ss |->
        LET s == ss[i] IN
        IF /\ rows[i] = Row(Token(s, kv[s]), kv[s])
           /\ lens[i] = kv[s]
           /\ layout[i] = blocks[s]
           /\ kv[s] + j <= loop * BlockSize
        THEN Token(s, kv[s] + j) ELSE Junk]]

Fed(rows, toks, n) == [i \in DOMAIN toks |-> Row(toks[i], rows[i].pos + n)]
Plus(lens, n) == [i \in DOMAIN lens |-> lens[i] + n]
Advanced(f, ss, n) == [s \in DOMAIN f |-> IF s \in ToSet(ss) THEN f[s] + n ELSE f[s]]
Overlay(rows) == [i \in DOMAIN buf |-> IF i \in DOMAIN rows THEN rows[i] ELSE buf[i]]

\* n steps of the state st have run on this layout: the device's lengths and
\* Python's move on; if a graph feeds itself, so do its inputs. In a burst the
\* tokens of a step that feeds nothing are copied to the common inputs.
Stepped(key, st, ss, layout, n, feeds) ==
    LET rows == Inputs(key, st, ss)
        toks == Decoded(ss, rows, st.lens, layout, LoopOf(key), n)
        next == Fed(rows, toks[n], n)
        after == [st EXCEPT !.lens = Plus(@, n), !.known = Plus(Lens(ss), n),
                            !.rows = IF ~cfg.shared THEN @ ELSE IF feeds THEN next ELSE rows]
    IN /\ states' = [k \in DOMAIN states \cup {key} |-> IF k = key THEN after ELSE states[k]]
       /\ burst' = burst \o toks
       /\ seqLen' = Advanced(seqLen, ss, n)
       /\ kv' = Advanced(kv, ss, n)
       /\ left' = left - n
       /\ started' = IF feeds THEN started \cup {key} ELSE started
       /\ buf' = IF feeds
                 THEN IF cfg.shared THEN buf ELSE Overlay(next)
                 ELSE IF left > n THEN Overlay(Fed(SubSeq(buf, 1, Len(ss)), toks[n], n))
                 ELSE buf

ShapeStep == pc = "decode" /\ left > 0 /\ cfg.shape

Now(key) == Prepared(State(key), running)
WarmNow(key) == IF Rebound(State(key), running) THEN warm \ {key} ELSE warm

StepFrame == UNCHANGED <<cfg, requests, free, blocks, changed, pc, resumed, legacy>>

\* _run_decode_step_shape_graph: a key whose capture failed runs eagerly, ...
EagerAfterFailure ==
    /\ ShapeStep
    /\ LET key == Key(running) IN
         /\ key \in failed
         /\ Stepped(key, Now(key), running, Layout(running), 1, FALSE)
         /\ warm' = WarmNow(key)
    /\ UNCHANGED failed
    /\ StepFrame

\* ... a graph is replayed, ...
Replay ==
    /\ ShapeStep
    /\ LET key == Key(running) IN
         /\ key \notin failed
         /\ Now(key).graph # None
         /\ Stepped(key, Now(key), running, Now(key).graph, 1, cfg.feedback)
         /\ warm' = WarmNow(key)
    /\ UNCHANGED failed
    /\ StepFrame

\* ... a key seen for the first time is warmed up by an eager step, ...
WarmUp ==
    /\ ShapeStep
    /\ LET key == Key(running) IN
         /\ key \notin failed \cup WarmNow(key)
         /\ Now(key).graph = None
         /\ Stepped(key, Now(key), running, Layout(running), 1, FALSE)
         /\ warm' = WarmNow(key) \cup {key}
    /\ UNCHANGED failed
    /\ StepFrame

\* ... and captured the next time. The capture runs nothing, the replay after it
\* is the step.
Capture ==
    /\ ShapeStep
    /\ LET key == Key(running)
           st == [Now(key) EXCEPT !.graph = Layout(running),
                                  !.rows = SubSeq(buf, 1, Len(running))]
       IN /\ key \in WarmNow(key) \ failed
          /\ Now(key).graph = None
          /\ Stepped(key, st, running, Layout(running), 1, cfg.feedback)
          /\ warm' = WarmNow(key)
    /\ UNCHANGED failed
    /\ StepFrame

\* Every sequence is freed and the call is over.
Abandoned ==
    /\ free' = [i \in 1..NumBlocks |-> i]
    /\ blocks' = [s \in DOMAIN blocks |-> <<>>]
    /\ running' = <<>>
    /\ waiting' = <<>>
    /\ pc' = "idle"
    /\ left' = 0
    /\ burst' = <<>>
    /\ legacy' = Dropped
    /\ UNCHANGED <<cfg, calls, stops, prompt, text, seqLen, kv, changed, resumed, buf>>

\* Mutant: Python's lengths keep what the capture has counted.
CaptureFailsCounted ==
    /\ ShapeStep
    /\ cfg.fails
    /\ ~cfg.strict
    /\ LET key == Key(running) IN
         /\ key \in WarmNow(key) \ failed
         /\ Now(key).graph = None
         /\ failed' = failed \cup {key}
         /\ warm' = WarmNow(key)
         /\ seqLen' = Advanced(seqLen, running, 2)
         /\ kv' = Advanced(kv, running, 1)
         /\ burst' = burst \o Decoded(running, SubSeq(buf, 1, Len(running)), Now(key).lens,
                                      Layout(running), LoopOf(key), 1)
         /\ left' = left - 1
    /\ UNCHANGED <<states, started, buf>>
    /\ StepFrame

\* A capture that fails puts back the lengths Python had counted on; the step is
\* run eagerly, or the error is raised.
CaptureFails ==
    /\ ShapeStep
    /\ cfg.fails
    /\ LET key == Key(running) IN
         /\ key \in WarmNow(key) \ failed
         /\ Now(key).graph = None
         /\ failed' = failed \cup {key}
         /\ warm' = WarmNow(key)
         /\ IF cfg.strict
            THEN /\ Abandoned
                 /\ states' = [k \in DOMAIN states \cup {key} |->
                                 IF k = key THEN Now(key) ELSE states[k]]
                 /\ UNCHANGED started
            ELSE Stepped(key, Now(key), running, Layout(running), 1, FALSE) /\ StepFrame

-----------------------------------------------------------------------------
(* One graph per membership. *)

\* The lengths the device has for the batch: a cached tensor of this batch or a
\* new one made from Python's.
TensorOf(ss) == IF legacy.lens.seqs = ss THEN legacy.lens.vals ELSE Lens(ss)

\* An eager decode_step advances Python's lengths and the tensor.
LegacyStepped(ss, graphState, python) ==
    LET toks == Decoded(ss, SubSeq(buf, 1, Len(ss)), TensorOf(ss), Layout(ss),
                        graphState.loop, 1)
    IN /\ burst' = burst \o toks
       /\ seqLen' = Advanced(seqLen, ss, python)
       /\ kv' = Advanced(kv, ss, 1)
       /\ left' = left - 1
       /\ buf' = IF left > 1 THEN Overlay(Fed(SubSeq(buf, 1, Len(ss)), toks[1], 1)) ELSE buf
       /\ legacy' = [graphState.then EXCEPT !.lens = [seqs |-> ss, vals |-> Plus(TensorOf(ss), 1)]]

LegacyStep == pc = "decode" /\ left > 0 /\ ~cfg.shape
LegacyFrame ==
    UNCHANGED <<cfg, requests, free, blocks, changed, pc, resumed,
                states, warm, failed, started>>

\* A graph of another batch is forgotten, with its warm and failed keys.
Relevant ==
    IF legacy.graph # None /\ legacy.graph # running
    THEN [legacy EXCEPT !.graph = None, !.warm = None, !.failed = None] ELSE legacy

LoopNow == Blocks(Max(ToSet(Lens(running))) + 1)

LegacyReplay ==
    /\ LegacyStep
    /\ Relevant.graph = running
    /\ Relevant.failed # running
    /\ LegacyStepped(running, [loop |-> IF legacy.bound THEN legacy.loop ELSE 0, then |-> legacy], 1)
    /\ LegacyFrame

LegacyEager ==
    /\ LegacyStep
    /\ Relevant.graph = None \/ Relevant.failed = running
    /\ Relevant.failed = running \/ Relevant.warm # running
    /\ LegacyStepped(running, [loop |-> LoopNow, then |-> [Relevant EXCEPT
                        !.warm = IF Relevant.failed = running THEN @ ELSE running]], 1)
    /\ LegacyFrame

LegacyCapture ==
    /\ LegacyStep
    /\ Relevant.graph = None
    /\ Relevant.warm = running
    /\ Relevant.failed # running
    /\ LegacyStepped(running, [loop |-> LoopNow, then |-> [Relevant EXCEPT
                        !.graph = running, !.loop = LoopNow, !.bound = TRUE]], 1)
    /\ LegacyFrame

\* A capture that fails may have counted Python's lengths on already; the eager
\* step after it counts them again.
LegacyCaptureFails ==
    /\ LegacyStep
    /\ cfg.fails
    /\ Relevant.graph = None
    /\ Relevant.warm = running
    /\ Relevant.failed # running
    /\ \E counted \in 0..1 :
         LegacyStepped(running, [loop |-> Blocks(Max(ToSet(Lens(running)))
                                                 + counted + 1),
                                 then |-> [Relevant EXCEPT !.failed = running]], 1 + counted)
    /\ LegacyFrame

-----------------------------------------------------------------------------
(* Dispatch. *)

StartedNow == IF changed THEN {} ELSE started

\* The chain of this batch goes on where its graph has left the inputs.
ChainReady(ss) ==
    /\ cfg.feedback /\ cfg.shape
    /\ Key(ss) \in StartedNow
    /\ Key(ss) \in DOMAIN states
    /\ LET st == states[Key(ss)]
       IN st.graph # None /\ st.seqs = ss /\ st.layout = Layout(ss)

Room == Min({MaxNew - Len(text[s]) : s \in ToSet(running)})

\* A burst needs requests without stop tokens, nobody waiting, and room.
Steps == IF ~stops /\ waiting = <<>> /\ Room > 1 /\ Burst > 1 THEN Min({Burst, Room}) ELSE 1

\* _decode_batch and _decode_graph_token_burst_batch: after a change of the batch
\* graphs and chains are forgotten; the inputs are staged from the host's tokens
\* unless a burst goes on from the graph's own.
BeginDecode ==
    /\ pc \in {"step", "admitted"}
    /\ running # <<>>
    /\ pc = "admitted" \/ Admitted = 0
    /\ left' = Steps
    /\ resumed' = (Steps > 1 /\ ChainReady(running))
    /\ buf' = IF resumed' THEN buf
              ELSE Overlay([i \in DOMAIN running |-> Row(Last1(running[i]), Current(running[i]) - 1)])
    /\ started' = StartedNow
    /\ legacy' = IF changed THEN NoGraph ELSE legacy
    /\ changed' = FALSE
    /\ burst' = <<>>
    /\ pc' = "decode"
    /\ UNCHANGED <<cfg, requests, pool, states, warm, failed>>

WholeBurst == pc = "decode" /\ resumed /\ burst = <<>>

\* The whole burst as one graph, captured or replayed.
UnrolledBurst ==
    /\ WholeBurst
    /\ cfg.unrolled
    /\ LET key == Key(running)
           st == states[key]
       IN /\ left \in DOMAIN st.unrolled => st.unrolled[left] = <<running, st.layout>>
          /\ Stepped(key, [st EXCEPT !.unrolled =
                             [n \in DOMAIN @ \cup {left} |-> IF n = left THEN <<running, st.layout>>
                                                             ELSE @[n]]],
                     running, st.layout, left, TRUE)
    /\ UNCHANGED <<warm, failed>>
    /\ StepFrame

\* An unrolled graph of other sequences is refused with an error.
UnrolledRefused ==
    /\ WholeBurst
    /\ cfg.unrolled
    /\ LET st == states[Key(running)]
       IN left \in DOMAIN st.unrolled /\ st.unrolled[left] # <<running, st.layout>>
    /\ Abandoned
    /\ UNCHANGED <<states, warm, failed, started>>

\* The graph of the chain is replayed left times in one native call.
NativeBurst ==
    /\ WholeBurst
    /\ ~cfg.unrolled
    /\ cfg.native
    /\ LET st == states[Key(running)]
       IN Stepped(Key(running), st, running, st.graph, left, TRUE)
    /\ UNCHANGED <<warm, failed>>
    /\ StepFrame

OneByOne == ~(WholeBurst /\ (cfg.unrolled \/ cfg.native))

\* The tokens reach the host; what is done leaves the batch.
Collect ==
    /\ pc = "decode"
    /\ left = 0
    /\ \E stopped \in SUBSET {s \in ToSet(running) : stops} :
         LET at(s) == CHOOSE i \in DOMAIN running : running[i] = s
             grown == [s \in DOMAIN text |->
                         IF s \in ToSet(running) THEN text[s] \o [j \in DOMAIN burst |-> burst[j][at(s)]]
                         ELSE text[s]]
             over == {s \in ToSet(running) : s \in stopped \/ Len(grown[s]) >= MaxNew}
         IN /\ text' = grown
            /\ running' = Staying(running, over)
            /\ blocks' = Without(blocks, over)
            /\ free' = FreeAfter(free, blocks, running, over)
            /\ changed' = (changed \/ over # {})
            /\ legacy' = IF over = {} THEN legacy ELSE Dropped
    /\ pc' = "step"
    /\ burst' = <<>>
    /\ resumed' = FALSE
    /\ UNCHANGED <<cfg, calls, stops, prompt, waiting, seqLen, kv, left, buf,
                   states, warm, failed, started>>

Decode ==
    \/ UnrolledBurst \/ UnrolledRefused \/ NativeBurst
    \/ OneByOne /\ (EagerAfterFailure \/ Replay \/ WarmUp \/ Capture \/ CaptureFails)
    \/ LegacyReplay \/ LegacyEager \/ LegacyCapture \/ LegacyCaptureFails

Next ==
    \/ StartCall \/ Admit \/ NothingToDecode \/ EndCall
    \/ BeginDecode \/ Decode \/ Collect

Spec == Init /\ [][Next]_vars

-----------------------------------------------------------------------------
(* Properties. *)

\* Every token on the host is the one eager greedy decoding gives at its place,
\* whatever mixture of warm-ups, captures, replays and bursts has produced it.
\* It is what a burst promises ("replay exact greedy-token steps"), and it fails
\* for the one graph per membership: that graph keeps the number of KV blocks of
\* its capture, and the sequences outgrow it.
ExactTokens ==
    \A s \in DOMAIN text : \A j \in DOMAIN text[s] : text[s][j] = Token(s, prompt[s] + j - 1)

\* With the cache by shape the tokens are exact: a graph is only replayed on
\* the layout it was captured on, with lengths that are refreshed or its own,
\* and inputs that are staged or those it has left itself.
ShapesExact == cfg.shape => ExactTokens

\* Between two steps Python's sequence lengths are the numbers of rows the
\* device has, although a replay runs no Python, a capture runs nothing else,
\* and one that fails may have run half of it (cache by shape).
LensInStep == cfg.shape /\ pc = "step" => \A s \in ToSet(running) : seqLen[s] = kv[s]
=============================================================================
