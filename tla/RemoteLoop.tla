------------------------------ MODULE RemoteLoop ------------------------------
(***************************************************************************)
(* The decode loop that a coordinator hands to the first stage             *)
(* (generate_continuous_chain_ttp in megagemm/mesh/shard_worker.py): the   *)
(* local state of the handler thread that runs it. Prompts wait, are       *)
(* prefilled one by one while fewer than Slots run, and take a token per   *)
(* step; the rows of a step that go on are decoded in chunks, one request  *)
(* to the next stage after the other. generate_batch_chain_ttp is the same *)
(* loop with a slot for every prompt.                                      *)
(***************************************************************************)
EXTENDS ShardStage, SequencesExt

CONSTANTS
    MaxNew,         \* max_new_tokens
    Microbatch,     \* microbatch_size
    Slots           \* max_batch_size

ASSUME LoopAssumption ==
    /\ MaxNew \in Nat
    /\ Microbatch \in Nat \ {0}
    /\ Slots \in Nat \ {0}

\* What a stage is asked, and what it may answer.
Request(op, seqs, vals) == [op |-> op, seqs |-> seqs, vals |-> vals]

Token(vals) == [kind |-> "next_token", vals |-> vals]
Tokens(vals) == [kind |-> "next_tokens", vals |-> vals]
Generated(texts) == [kind |-> "generated", texts |-> texts]

\* A list in pieces of microbatch_size.
Split(s) ==
    [j \in 1..((Len(s) + Microbatch - 1) \div Microbatch) |->
        SubSeq(s, (j - 1) * Microbatch + 1,
               IF j * Microbatch > Len(s) THEN Len(s) ELSE j * Microbatch)]

\* The state after the request was parsed: rows by their place in the request.
LoopFor(req) ==
    [at      |-> "loop",
     seqs    |-> req.seqs,
     vals    |-> req.vals,
     cur     |-> [i \in DOMAIN req.seqs |-> Junk],
     out     |-> [i \in DOMAIN req.seqs |-> <<>>],
     waiting |-> [i \in DOMAIN req.seqs |-> i],
     running |-> <<>>,
     chunks  |-> <<>>]

\* The chunks of a step are decoded before anything else happens.
Decodes(l) == l.chunks # <<>>

\* admit_available goes on before each step while a slot is free.
Admits(l) == ~Decodes(l) /\ l.waiting # <<>> /\ Len(l.running) < Slots

Admission(l) ==
    Request("prefill", <<l.seqs[Head(l.waiting)]>>, <<l.vals[Head(l.waiting)]>>)

Admitted(l, token) ==
    LET i == Head(l.waiting)
    IN [l EXCEPT !.cur[i] = token,
                 !.waiting = Tail(@),
                 !.running = IF MaxNew = 0 THEN @ ELSE Append(@, i)]

\* A step: every running row takes its token; rows that end with it (eos) or
\* are full leave, the others are decoded.
Steps(l) == ~Admits(l) /\ ~Decodes(l) /\ l.running # <<>>

Stepped(l, eos) ==
    LET out == [i \in DOMAIN l.out |->
                  IF i \in ToSet(l.running) THEN Append(l.out[i], l.cur[i]) ELSE l.out[i]]
        going == SelectSeq(l.running, LAMBDA i : i \notin eos /\ Len(out[i]) < MaxNew)
    IN [l EXCEPT !.out = out, !.running = going, !.chunks = Split(going)]

ChunkOf(l) ==
    LET is == Head(l.chunks)
    IN Request("decode_batch", [j \in DOMAIN is |-> l.seqs[is[j]]],
                               [j \in DOMAIN is |-> l.cur[is[j]]])

TokensTaken(l, vals) ==
    LET is == Head(l.chunks)
    IN [l EXCEPT !.chunks = Tail(@),
                 !.cur = [i \in DOMAIN @ |->
                            IF \E j \in DOMAIN is \cap DOMAIN vals : is[j] = i
                            THEN vals[CHOOSE j \in DOMAIN is : is[j] = i] ELSE @[i]]]

\* What the next stage answers is taken if it is what the loop asked for.
Expects(l, reply) ==
    reply.kind = IF Decodes(l) THEN "next_tokens" ELSE "next_token"

Taking(l, reply) ==
    IF Decodes(l) THEN TokensTaken(l, reply.vals) ELSE Admitted(l, reply.vals[1])

\* Everything is generated; the answer has the rows in the order of the request.
Over(l) == l.waiting = <<>> /\ l.running = <<>> /\ l.chunks = <<>>
===============================================================================
