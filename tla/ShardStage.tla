------------------------------ MODULE ShardStage ------------------------------
(***************************************************************************)
(* What the operations of one layer-shard stage do to its cache            *)
(* (megagemm/mesh/shard_model.py). The cache of a stage maps the sequences *)
(* it knows to the rows they hold; a prefill appends one row per prompt    *)
(* token and a decode one row, wherever the sequence stands.               *)
(*                                                                         *)
(* A value <<p, i>> stands for what prompt p has at position i when every  *)
(* stage has computed it from exactly the positions before; everything     *)
(* else that may come out of the layers is Junk. The same values stand for *)
(* tokens, hidden states and cache rows.                                   *)
(***************************************************************************)
EXTENDS Integers, Sequences

CONSTANT PromptLen      \* tokens of every prompt

ASSUME PromptLenPositive == PromptLen \in Nat \ {0}

Junk == <<0, 0>>
Value(p, i) == <<p, i>>

\* The token the last stage picks from v: the one for the next position.
NextToken(v) == IF v = Junk THEN Junk ELSE Value(v[1], v[2] + 1)

\* A prefill is given the value of the last prompt position.
PromptValue(p) == Value(p, PromptLen - 1)

PromptRows(v) ==
    [i \in 1..PromptLen |-> IF v = Junk THEN Junk ELSE Value(v[1], i - 1)]

Rows(cache, seq) == IF seq \in DOMAIN cache THEN cache[seq] ELSE <<>>

\* _ensure_sequence keeps a table that is already there.
Ensured(cache, seq) == [s \in DOMAIN cache \union {seq} |-> Rows(cache, s)]

\* prefill: the layers attend to the rows of this call only, and write_kv
\* appends them to those the sequence has.
Prefilled(cache, seq, v) == [Ensured(cache, seq) EXCEPT ![seq] = @ \o PromptRows(v)]

\* decode attends to the rows the sequence has and to the one it adds.
DecodeOut(cache, seq, v) ==
    IF v # Junk /\ cache[seq] = [i \in 1..v[2] |-> Value(v[1], i - 1)] THEN v ELSE Junk

Decoded(cache, seqs, vals) ==
    [seq \in DOMAIN cache |->
        IF \E j \in DOMAIN seqs : seqs[j] = seq
        THEN LET j == CHOOSE j \in DOMAIN seqs : seqs[j] = seq
             IN Append(cache[seq], DecodeOut(cache, seq, vals[j]))
        ELSE cache[seq]]

DecodeOuts(cache, seqs, vals) ==
    [j \in DOMAIN seqs |-> DecodeOut(cache, seqs[j], vals[j])]

\* free_sequence; a sequence the stage does not know is no error.
Freed(cache, seq) == [s \in DOMAIN cache \ {seq} |-> cache[s]]
===============================================================================
