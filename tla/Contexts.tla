------------------------------- MODULE Contexts -------------------------------
(***************************************************************************)
(* The contexts of an InferenceEngine: sequences kept alive between calls, *)
(* each with its KV rows, the tokens the engine believes it holds and the  *)
(* logits of its next token.  These are the engine's context operations as *)
(* functions of the engine's state, for the modules that combine them.     *)
(*                                                                         *)
(* An engine is a record: ctx maps the id of a live sequence to its block  *)
(* table, length, token history and pending logits; cell holds the rows of *)
(* every block; count is the engine's sequence counter; resident lists the *)
(* sources of Prophet's resident cache, the one used last at the end.      *)
(*                                                                         *)
(* A row stands for what attention computed at its position, which is the  *)
(* sequence of tokens it attended to, itself included; logits likewise.    *)
(* Blocks are claimed in order of their number.                            *)
(***************************************************************************)
EXTENDS Integers, Sequences, SequencesExt, Functions

CONSTANTS NumBlocks,     \* blocks of the KV pool
          BlockSize,     \* tokens per block
          SuffixPrefill, \* whether the model has prefill_suffix
          Stop           \* the stop token

ASSUME PoolAssumption ==
    /\ NumBlocks \in Nat
    /\ BlockSize \in Nat \ {0}
    /\ SuffixPrefill \in BOOLEAN
    /\ Stop \in Nat

Junk == <<-1>>       \* a row computed over rows that do not fit together
NoLogits == <<-2>>   \* no pending logits
NoId == -1000

Blank == [i \in 1..BlockSize |-> Junk]

\* The model: a greedy token is a function of the tokens attended to.
Total(seen) ==
    LET upto[i \in 0..Len(seen)] == IF i = 0 THEN 0 ELSE upto[i-1] + seen[i]
    IN  upto[Len(seen)]
Greedy(seen) == (Total(seen) + 2) % 3

BlocksFor(n) == IF n > 0 THEN (n + BlockSize - 1) \div BlockSize ELSE 1

Boot == [ctx |-> <<>>, cell |-> [b \in 1..NumBlocks |-> Blank],
         count |-> 0, resident |-> <<>>]

Live(e) == DOMAIN e.ctx
Held(e, b) == {s \in Live(e) : b \in Range(e.ctx[s].tab)}
FreeBlocks(e) ==
    LET upto[b \in 0..NumBlocks] ==
          IF b = 0 THEN <<>>
          ELSE IF Held(e, b) = {} THEN Append(upto[b-1], b) ELSE upto[b-1]
    IN  upto[NumBlocks]
CanClaim(e, n) == n <= Len(FreeBlocks(e))
Claim(e, n) == SubSeq(FreeBlocks(e), 1, n)

\* The position of slot i of the k-th block of a table.
Pos(k, i) == (k - 1) * BlockSize + i

\* Blank again: the slots behind the end of every sequence that has the block.
Reached(e, b, i) ==
    \E s \in Live(e) : \E k \in DOMAIN e.ctx[s].tab :
        e.ctx[s].tab[k] = b /\ Pos(k, i) <= e.ctx[s].len
Swept(e) ==
    [e EXCEPT !.cell = [b \in 1..NumBlocks |-> [i \in 1..BlockSize |->
                           IF Reached(e, b, i) THEN e.cell[b][i] ELSE Junk]]]

RowAt(e, s, p) ==
    e.cell[e.ctx[s].tab[(p - 1) \div BlockSize + 1]][((p - 1) % BlockSize) + 1]
Rows(e, s) == [p \in 1..e.ctx[s].len |-> RowAt(e, s, p)]
RowsOf(tokens) == [p \in 1..Len(tokens) |-> SubSeq(tokens, 1, p)]

\* The tokens the rows of s stand for, when they are the rows of one text.
Seen(e, s) ==
    LET rows == Rows(e, s)
    IN  IF rows = <<>> THEN <<>>
        ELSE IF rows = RowsOf(Last(rows)) THEN Last(rows) ELSE Junk

-------------------------------------------------------------------------------
(* Outcomes of a call: the engine it leaves, and whether it returned. *)

Done(e) == [e |-> e, ok |-> TRUE]
Raised(e) == [e |-> e, ok |-> FALSE]

\* A call that goes on after r, unless r raised.
Then(r, Rest(_)) == IF r.ok THEN Rest(r) ELSE r

FreeSequence(e, s) == Swept([e EXCEPT !.ctx = Restrict(@, Live(e) \ {s})])
FreeAll(e, S) == Swept([e EXCEPT !.ctx = Restrict(@, Live(e) \ S)])

\* The function f with x mapped to v.
Put(f, x, v) == [y \in DOMAIN f \cup {x} |-> IF y = x THEN v ELSE f[y]]

\* A fresh sequence of n reserved tokens.
Allocate(e, s, n) ==
    IF s \in Live(e) \/ ~CanClaim(e, BlocksFor(n))
      THEN Raised(e)
      ELSE Done([e EXCEPT !.ctx = Put(@, s, [tab |-> Claim(e, BlocksFor(n)), len |-> 0,
                                             hist |-> <<>>, pend |-> NoLogits])])

\* Blocks are added one by one: a pool that runs dry leaves those added.
EnsureCapacity(e, s, n) ==
    LET tab     == e.ctx[s].tab
        missing == BlocksFor(e.ctx[s].len + n) - Len(tab)
    IN  IF missing <= 0 THEN Done(e)
        ELSE IF CanClaim(e, missing)
          THEN Done([e EXCEPT !.ctx[s].tab = tab \o Claim(e, missing)])
          ELSE Raised([e EXCEPT !.ctx[s].tab = tab \o FreeBlocks(e)])

\* The rows of `tokens` behind those of s, where the table says: decode_step
\* writes in place, in a shared block or not.
Written(e, s, tokens) ==
    LET c    == e.ctx[s]
        seen == Seen(e, s)
        row(n) == IF seen = Junk THEN Junk ELSE seen \o SubSeq(tokens, 1, n)
        home(b, i) == Pos(CHOOSE k \in DOMAIN c.tab : c.tab[k] = b, i)
    IN  [e EXCEPT !.ctx[s].len = c.len + Len(tokens),
                  !.cell = [b \in 1..NumBlocks |-> [i \in 1..BlockSize |->
                      IF b \in Range(c.tab) /\ home(b, i) \in c.len+1..c.len+Len(tokens)
                        THEN row(home(b, i) - c.len) ELSE e.cell[b][i]]]]

\* Mutated form: the first block is written in place.
CopyOnWriteNever(e, s) == Done(e)

\* write_kv copies the shared block a write begins in; later ones are private.
CopyOnWrite(e, s) ==
    LET i == e.ctx[s].len \div BlockSize + 1
        b == e.ctx[s].tab[i]
    IN  IF Held(e, b) = {s} THEN Done(e)
        ELSE IF ~CanClaim(e, 1) THEN Raised(e)
        ELSE LET new == Claim(e, 1)[1]
             IN  Done([e EXCEPT !.cell[new] = e.cell[b], !.ctx[s].tab[i] = new])

-------------------------------------------------------------------------------
(* The engine's calls. *)

Snapshot(e, s) ==
    [rows |-> Rows(e, s), hist |-> e.ctx[s].hist, pend |-> e.ctx[s].pend]

\* The engine's record of tokens whose rows were written last.
Remembered(e, s, tokens) ==
    Done([e EXCEPT !.ctx[s].hist = @ \o tokens, !.ctx[s].pend = Seen(e, s)])

PrefillContext(e, s, prompt, room) ==
    Then(Allocate(e, s, Len(prompt) + IF room > 1 THEN room ELSE 1),
         LAMBDA a : Remembered(Written(a.e, s, prompt), s, prompt))

TruncateContext(e, s, n) ==
    Swept([e EXCEPT !.ctx[s] = [tab |-> SubSeq(@.tab, 1, BlocksFor(n)), len |-> n,
                                hist |-> SubSeq(@.hist, 1, n), pend |-> NoLogits]])

\* Several tokens go through prefill_suffix, a single one through decode_step.
ReplayTokens(e, s, tokens) ==
    LET ready(grown) == IF SuffixPrefill /\ Len(tokens) > 1
                          THEN CopyOnWrite(grown.e, s) ELSE grown
    IN  IF tokens = <<>> THEN Done(e)
        ELSE Then(Then(EnsureCapacity(e, s, Len(tokens)), ready),
                  LAMBDA r : Remembered(Written(r.e, s, tokens), s, tokens))

\* Whether the block that the next token of s is decoded in is another's, too.
EndShared(e, s) ==
    \E k \in DOMAIN e.ctx[s].tab :
        e.ctx[s].len < k * BlockSize /\ Held(e, e.ctx[s].tab[k]) # {s}

\* Token i of a call: the one drawn, or at temperature 0, where nothing is
\* drawn, the greedy one.
Drawn(draws, i, pend) == IF draws = <<>> THEN Greedy(pend) ELSE draws[i]

\* The sampling loop of generate_from_context: the stop token ends it and is
\* not decoded.
Decoded(r, token, next, s) ==
    [e |-> next, pend |-> Seen(next, s), stopped |-> FALSE,
     said |-> Append(r.said, token), out |-> Append(r.out, token)]

NextToken(r, s, token) ==
    IF r.stopped THEN r
    ELSE IF token = Stop
      THEN [r EXCEPT !.stopped = TRUE, !.out = Append(@, Stop)]
    ELSE Decoded(r, token, Written(r.e, s, <<token>>), s)

Sampled(e, s, n, draws) ==
    LET run[i \in 0..n] ==
          IF i = 0 THEN [e |-> e, pend |-> e.ctx[s].pend, stopped |-> FALSE,
                         said |-> <<>>, out |-> <<>>]
          ELSE NextToken(run[i-1], s, Drawn(draws, i, run[i-1].pend))
    IN  run[n]

\* The history and the pending logits are written once, after the last token.
Finished(r, s) ==
    [e |-> [r.e EXCEPT !.ctx[s].hist = @ \o r.said,
                       !.ctx[s].pend = IF r.stopped THEN NoLogits ELSE r.pend],
     ok |-> TRUE, said |-> r.said, out |-> r.out]

GenerateFromContext(e, s, n, draws) ==
    IF e.ctx[s].pend = NoLogits THEN Raised(e)
    ELSE Then(EnsureCapacity(e, s, n),
              LAMBDA grown : Finished(Sampled(grown.e, s, n, draws), s))

\* deserialize_sequence: the rows are copied into blocks of its own.
Copied(e, s, snap) ==
    LET tab == e.ctx[s].tab
        home(b, i) == Pos(CHOOSE k \in DOMAIN tab : tab[k] = b, i)
    IN  Done([e EXCEPT
            !.ctx[s] = [tab |-> tab, len |-> Len(snap.rows),
                        hist |-> snap.hist, pend |-> snap.pend],
            !.cell = [b \in 1..NumBlocks |-> [i \in 1..BlockSize |->
                        IF b \notin Range(tab) THEN e.cell[b][i]
                        ELSE IF home(b, i) <= Len(snap.rows)
                          THEN snap.rows[home(b, i)] ELSE Junk]]])

RestoreContext(e, s, snap, room) ==
    Then(Allocate(e, s, Len(snap.rows) + room), LAMBDA a : Copied(a.e, s, snap))

\* deserialize_sequences: both of the batch, or none of it.
RestoreContexts(e, ids, snaps, room) ==
    LET both == Then(RestoreContext(e, ids[1], snaps[1], room),
                     LAMBDA r : RestoreContext(r.e, ids[2], snaps[2], room))
    IN  IF both.ok THEN both ELSE Raised(e)

\* The child shares the blocks with data and gets a tail of its own.
ForkContextPrefix(e, src, s, room) ==
    LET from  == e.ctx[src]
        data  == BlocksFor(from.len)
        extra == BlocksFor(from.len + room) - data
        tab   == SubSeq(from.tab, 1, data) \o Claim(e, extra)
    IN  IF s \in Live(e) \/ ~CanClaim(e, extra) THEN Raised(e)
        ELSE Done([e EXCEPT !.ctx = Put(@, s, [from EXCEPT !.tab = tab])])
===============================================================================
