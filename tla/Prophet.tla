------------------------------- MODULE Prophet --------------------------------
(***************************************************************************)
(* MGXProphetLibrary and the contexts of the engine that uses it.          *)
(*                                                                         *)
(* The library keeps snapshots of contexts on disk, in files that an index *)
(* lists.  A later prompt is answered by the best match: an exact one is   *)
(* restored, or forked from a copy kept resident in the cache; one with a  *)
(* common token prefix is rolled back to it and the rest is replayed; any  *)
(* other is restored and compared, token by token, with a fresh prefill.   *)
(* A process is single threaded, so each call is a step; a capture is two, *)
(* as the process may die between writing the snapshot and the index.      *)
(*                                                                         *)
(* Abstractions: a prompt is its tokens; similarity is any choice among    *)
(* the entries with a text; a call that samples draws any of some tokens;  *)
(* the entries are of this model; a file is never rewritten, so the        *)
(* snapshot cache is the file.                                             *)
(***************************************************************************)
EXTENDS Contexts

CONSTANTS Prompts,          \* token sequences callers ask about
          CallerIds,        \* ids callers pick; empty: the engine picks them
          Tokens,           \* tokens that a call which samples may draw
          Policy,           \* thresholds of prefix reuse, in percent
          PrefixTokens,     \* shortest prefix worth reusing
          ResidentMax,      \* sources the resident cache keeps
          Room,             \* max_new_tokens of every call
          ValidationTokens, \* greedy tokens a candidate is compared on
          Faults,           \* model calls that may raise
          MaxEntries,       \* bound: snapshots ever written
          MaxHeld,          \* bound: contexts the callers hold
          MaxLen,           \* bound: tokens of a context
          MaxCount          \* bound: ids the engine's counter hands out

ASSUME ProphetAssumption ==
    /\ Prompts \subseteq Seq(Nat) \ {<<>>}
    /\ CallerIds \subseteq Nat
    /\ Tokens \subseteq Nat
    /\ ResidentMax \in Nat \ {0}
    /\ Room \in Nat \ {0}
    /\ ValidationTokens \in Nat
    /\ PrefixTokens \in Nat
    /\ MaxCount \in Nat

VARIABLES eng,      \* the engine of the running process
          held,     \* held[s] = tokens the caller was told context s holds
          files,    \* files[x] = what snapshot file x holds
          index,    \* ids of the entries index.json lists
          writing,  \* whether a snapshot is written and not yet listed
          mixed     \* history: whether a call has sampled into a shared block

vars == <<eng, held, files, index, writing, mixed>>

NoText == <<>>
NoEntry == 0

Init ==
    /\ eng = Boot
    /\ held = <<>>
    /\ files = <<>>
    /\ index = <<>>
    /\ writing = FALSE
    /\ mixed = FALSE

Listed == Range(index)
SnapOf(x) == files[x].snap

-------------------------------------------------------------------------------
(* Ids. *)

\* The engine's counter, which never looks at the ids in use.
Counted(e) == [e EXCEPT !.count = @ + 1]
IdFor(e, s) == IF s = NoId THEN e.count + 1 ELSE s
Asked(e, s) == IF s = NoId THEN Counted(e) ELSE e

\* restore_context picks the id after the largest one in use.
RestoreId(e, s) ==
    IF s # NoId THEN s ELSE IF Live(e) = {} THEN 0 ELSE Max(Live(e)) + 1

ResidentId(e) == Max((-11 - ResidentMax .. -11) \ Live(e))

-------------------------------------------------------------------------------
(* The resident cache. *)

\* The source used longest ago goes; forks of it live on.
Pruned(e) ==
    IF Len(e.resident) <= ResidentMax THEN e
    ELSE FreeSequence([e EXCEPT !.resident = Tail(@)], Head(e.resident).id)

\* The resident source of entry x, now the one used last; restored when there
\* is none.
ResidentSource(e, x, room) ==
    LET at     == {i \in DOMAIN e.resident : e.resident[i].entry = x}
        i      == CHOOSE k \in at : TRUE
        others == IF at = {} THEN e.resident ELSE RemoveAt(e.resident, i)
        added(r) == Append(r.e.resident, [entry |-> x, id |-> ResidentId(e)])
    IN  IF at # {} /\ e.resident[i].id \in Live(e)
          THEN Done([e EXCEPT !.resident = Append(others, e.resident[i])])
        ELSE Then(RestoreContext([e EXCEPT !.resident = others], ResidentId(e),
                                 SnapOf(x), room),
                  LAMBDA r : Done(Pruned([r.e EXCEPT !.resident = added(r)])))

Named(r, s) == [e |-> r.e, ok |-> r.ok, id |-> s]

ForkResidentSource(e, x, s, room) ==
    Then(ResidentSource(e, x, room), LAMBDA r :
        Named(ForkContextPrefix(Asked(r.e, s), Last(r.e.resident).id, IdFor(r.e, s), room),
              IdFor(r.e, s)))

\* A fork of the resident source, or a copy from the snapshot when that raises.
\* Without an id the fork asks the counter and the copy takes the next one.
Copy(e, x, s, room) ==
    Named(RestoreContext(e, RestoreId(e, s), SnapOf(x), room), RestoreId(e, s))

ForkOrCopy(fork, x, s, room) == IF fork.ok THEN fork ELSE Copy(fork.e, x, s, room)

Restored(e, x, s, resident, room) ==
    IF resident THEN ForkOrCopy(ForkResidentSource(e, x, s, room), x, s, room)
                ELSE Copy(e, x, s, room)

-------------------------------------------------------------------------------
(* Matches. *)

Exact(q) == {x \in Listed : files[x].text = q}
Texts == {x \in Listed : files[x].text # NoText}
HasLogits(x) == SnapOf(x).pend # NoLogits

\* The first of the matches: an exact one when there is one, the newest; those
\* recorded within a second are in any order.
Best(q, rejected) ==
    IF Exact(q) # {} THEN Exact(q) ELSE (Texts \ rejected) \cup {NoEntry}

CommonPrefix(q, tokens) ==
    Max({n \in 0..Len(q) : n <= Len(tokens) /\ SubSeq(q, 1, n) = SubSeq(tokens, 1, n)})
Common(q, x) == CommonPrefix(q, SnapOf(x).hist)

Rollback(q, x) == Len(SnapOf(x).rows) - Common(q, x)

\* The entries with the longest common prefix and the least to roll back, in
\* any order, like the exact ones; the prompt must go on behind it.
PrefixCandidates(q) ==
    LET least == Max({1, Min({PrefixTokens, Max({1, Len(q) \div 2})})})
        usable == {x \in Listed : Common(q, x) >= least /\ Common(q, x) < Len(q)}
    IN  {x \in usable : \A y \in usable :
            \/ Common(q, y) < Common(q, x)
            \/ Common(q, y) = Common(q, x) /\ Rollback(q, y) >= Rollback(q, x)}

\* _build_prefix_reuse_policy, the ratios multiplied out: a prompt of `query`
\* tokens, the first `common` of them those of an entry of `tokens` tokens and
\* `rows` rows.
Acceptable(query, common, tokens, rows) ==
    LET rollback == rows - common
        score    == 55 * common * tokens * rows + 20 * common * query * rows
                    + 15 * (rows - rollback) * query * tokens
                    + 10 * common * tokens * rows
    IN  /\ 100 * common >= Policy.coverage * query
        /\ 100 * rollback <= Policy.rollback * rows
        /\ 100 * (query - common) <= Policy.tail * query
        /\ score >= Policy.score * query * tokens * rows

Accepted(q, x) ==
    Acceptable(Len(q), Common(q, x), Len(SnapOf(x).hist), Len(SnapOf(x).rows))

-------------------------------------------------------------------------------
(* The routes of restore_speculative.  An outcome is the engine, the id that  *)
(* is returned (none when nothing was restored or the call raised) and the    *)
(* tokens the caller is told that context holds.                              *)

Outcome(e, s, told) == [e |-> e, id |-> s, told |-> told]
Nothing(e) == Outcome(e, NoId, <<>>)

\* What becomes of a call that may have raised.
OrNothing(r, Rest(_)) == IF r.ok THEN Rest(r) ELSE Nothing(r.e)
OrFreeing(r, ids, Rest(_)) == IF r.ok THEN Rest(r) ELSE Nothing(FreeAll(r.e, ids))
Told(r, s, tokens) == OrNothing(r, LAMBDA t : Outcome(t.e, s, tokens))

\* A model call that raises, or not, behind what it has already done.
RaisesIf(r, fault) == IF fault THEN Raised(r.e) ELSE r

ExactRoute(e, x, s, resident) ==
    OrNothing(Restored(e, x, s, resident, Room),
              LAMBDA r : Outcome(r.e, r.id, SnapOf(x).hist))

\* Mutated form: the rows behind the common prefix are not rolled back.
RolledBackNever(e, s, q, x) == e

RolledBack(e, s, q, x) ==
    IF Rollback(q, x) > 0 THEN TruncateContext(e, s, Common(q, x)) ELSE e

\* When the replay raises, the restored context is freed again.
PrefixRoute(e, q, x, s, resident, fault) ==
    LET tail == SubSeq(q, Common(q, x) + 1, Len(q))
        replayed(r) == ReplayTokens(RolledBack(r.e, r.id, q, x), r.id, tail)
    IN  OrNothing(Restored(e, x, s, resident, Room + Len(tail)), LAMBDA r :
            OrFreeing(RaisesIf(replayed(r), fault = "replay"), {r.id},
                      LAMBDA t : Outcome(t.e, r.id, q)))

\* Mutated form: a rejected candidate is not freed before the fallback.
DecidedKeeping(e, q, x, s, v, c, w, fallback) ==
    IF HasLogits(x) /\ c.out = w.out
      THEN Outcome(FreeSequence(e, v), s, SnapOf(x).hist \o c.said)
    ELSE IF fallback THEN Outcome(e, v, q \o w.said)
    ELSE Nothing(FreeAll(e, {s, v}))

\* Candidate s is kept when it says what validator v says; otherwise v takes
\* its place, or nothing does.  Both have moved on by what they said.
Decided(e, q, x, s, v, c, w, fallback) ==
    LET agree == SubSeq(c.out, 1, 1) = SubSeq(w.out, 1, 1)
                 /\ \A i \in DOMAIN c.out \cap DOMAIN w.out : c.out[i] = w.out[i]
    IN  IF HasLogits(x) /\ agree
          THEN Outcome(FreeSequence(e, v), s, SnapOf(x).hist \o c.said)
        ELSE IF fallback THEN Outcome(FreeSequence(e, s), v, q \o w.said)
        ELSE Nothing(FreeAll(e, {s, v}))

\* What a context says in the comparison, when there is one, at temperature 0.
Says(e, s, asks) ==
    IF asks THEN GenerateFromContext(e, s, ValidationTokens, <<>>)
            ELSE [e |-> e, ok |-> TRUE, said |-> <<>>, out |-> <<>>]

\* The validator is prefilled under the counter's next id.  Whatever raises,
\* both ids are freed, also when the validator's was somebody else's.
Validated(e, q, x, s, fallback, fault) ==
    LET v    == e.count + 1
        asks == HasLogits(x) /\ ValidationTokens > 0
        fresh == RaisesIf(PrefillContext(Counted(e), v, q, Room), fault = "prefill")
        said(r) == RaisesIf(Says(r.e, s, asks), fault = "generate")
    IN  OrFreeing(fresh, {s, v}, LAMBDA r :
            OrFreeing(said(r), {s, v}, LAMBDA c :
                OrFreeing(Says(c.e, v, asks), {s, v}, LAMBDA w :
                    Decided(w.e, q, x, s, v, c, w, fallback))))

SemanticRoute(e, q, x, s, mode, fault) ==
    OrNothing(Copy(e, x, s, Room), LAMBDA r :
        IF mode # "none" THEN Validated(r.e, q, x, r.id, mode = "fallback", fault)
        ELSE IF HasLogits(x) THEN Outcome(r.e, r.id, SnapOf(x).hist)
        ELSE Nothing(FreeSequence(r.e, r.id)))

SemanticOutcomes(e, q, s, mode, fault, matches) ==
    {IF x = NoEntry THEN Nothing(e) ELSE SemanticRoute(e, q, x, s, mode, fault) :
        x \in matches}

\* The matches left when prefix candidate y was rejected, x the best before.
Remaining(q, x, y) == IF x = y THEN Best(q, {y}) ELSE {x}

\* The route the matches lead to when x is the best of them: an exact one that
\* has no logits is passed over for a prefix.
Routed(e, q, x, s, mode, resident, fault) ==
    LET candidates == PrefixCandidates(q)
    IN  IF x \in Exact(q) /\ HasLogits(x) THEN {ExactRoute(e, x, s, resident)}
        ELSE IF candidates = {} THEN SemanticOutcomes(e, q, s, mode, fault, {x})
        ELSE UNION {IF Accepted(q, y) THEN {PrefixRoute(e, q, y, s, resident, fault)}
                    ELSE SemanticOutcomes(e, q, s, mode, fault, Remaining(q, x, y)) :
                    y \in candidates}

Speculated(e, q, s, mode, resident, fault) ==
    UNION {Routed(e, q, x, s, mode, resident, fault) : x \in Best(q, {})}

-------------------------------------------------------------------------------
(* The calls. *)

\* The id a caller passes: its first one not in use, or none.
AskedId ==
    IF CallerIds = {} THEN NoId
    ELSE IF CallerIds \subseteq Live(eng) THEN Min(CallerIds)
    ELSE Min(CallerIds \ Live(eng))
AskedIds == IF CallerIds = {} THEN {NoId} ELSE CallerIds \ Live(eng)

CanHold ==
    /\ Cardinality(DOMAIN held) < MaxHeld
    /\ CallerIds = {} => eng.count < MaxCount

Ready == ~writing

Took(o) ==
    /\ eng' = o.e
    /\ held' = IF o.id = NoId THEN held ELSE Put(held, o.id, o.told)
    /\ UNCHANGED <<files, index, writing, mixed>>

Prefill(q, s) ==
    LET id == IdFor(eng, s)
    IN  /\ Ready /\ CanHold
        /\ Took(Told(PrefillContext(Asked(eng, s), id, q, Room), id, q))

\* A model call that raises in prefill_context frees the new sequence.
PrefillRaises(q, s) ==
    LET id == IdFor(eng, s)
        r  == PrefillContext(Asked(eng, s), id, q, Room)
    IN  /\ Ready /\ CanHold
        /\ "prefill" \in Faults /\ r.ok
        /\ Took(Nothing(FreeSequence(r.e, id)))

Spoke(s, r) ==
    /\ eng' = r.e
    /\ held' = IF r.ok THEN [held EXCEPT ![s] = @ \o r.said] ELSE held
    /\ UNCHANGED <<files, index, writing>>

\* A caller's generate_from_context: at temperature 0, or with tokens drawn.
Generate(s, n, draws) ==
    /\ Ready
    /\ s \in DOMAIN held \cap Live(eng)
    /\ Len(held[s]) + n <= MaxLen
    /\ eng.ctx[s].pend # NoLogits
    /\ Spoke(s, GenerateFromContext(eng, s, n, draws))
    /\ mixed' = (mixed \/ (draws # <<>> /\ EndShared(eng, s)))

Free(s) ==
    /\ Ready
    /\ s \in DOMAIN held
    /\ eng' = FreeSequence(eng, s)
    /\ held' = Restrict(held, DOMAIN held \ {s})
    /\ UNCHANGED <<files, index, writing, mixed>>

\* A caller forks a context it holds.
Fork(src, s) ==
    LET id == IdFor(eng, s)
    IN  /\ Ready /\ CanHold
        /\ src \in DOMAIN held \cap Live(eng)
        /\ Took(Told(ForkContextPrefix(Asked(eng, s), src, id, Room), id, held[src]))

\* restore_best takes the first match as it is.
RestoreBest(q, s) ==
    /\ Ready /\ CanHold
    /\ \E x \in Best(q, {}) \ {NoEntry} :
          Took(Told(Copy(eng, x, s, Room), RestoreId(eng, s), SnapOf(x).hist))

\* The forks of a batch, up to the first that raises.
Forked(r, fork, s) ==
    [e |-> fork.e, ok |-> fork.ok,
     forked |-> IF fork.ok THEN r.forked \cup {s} ELSE r.forked]

BatchForks(e, xs, ids) ==
    LET next(r, i) == Forked(r, ForkResidentSource(r.e, xs[i], ids[i], Room), ids[i])
    IN  Then(next([e |-> e, ok |-> TRUE, forked |-> {}], 1), LAMBDA r : next(r, 2))

\* Forks for both, or copies of both.
BatchCopies(e, xs, ids) == RestoreContexts(e, ids, <<SnapOf(xs[1]), SnapOf(xs[2])>>, Room)

ForksOrCopies(forks, xs, ids) ==
    IF forks.ok THEN forks ELSE BatchCopies(FreeAll(forks.e, forks.forked), xs, ids)

TookBoth(r, xs, ids) ==
    /\ eng' = r.e
    /\ held' = IF r.ok THEN Put(Put(held, ids[1], SnapOf(xs[1]).hist), ids[2], SnapOf(xs[2]).hist)
               ELSE held
    /\ UNCHANGED <<files, index, writing, mixed>>

\* restore_exact_batch for two prompts.
RestoreExactBatch(q1, q2, s1, s2, resident) ==
    LET ids == IF s1 = NoId THEN <<eng.count + 1, eng.count + 2>> ELSE <<s1, s2>>
        e   == IF s1 = NoId THEN Counted(Counted(eng)) ELSE eng
    IN  /\ Ready /\ CanHold
        /\ Cardinality(DOMAIN held) + 2 <= MaxHeld
        /\ s1 # s2 \/ s1 = NoId
        /\ \E x1 \in Exact(q1), x2 \in Exact(q2) :
              /\ HasLogits(x1) /\ HasLogits(x2)
              /\ TookBoth(IF resident THEN ForksOrCopies(BatchForks(e, <<x1, x2>>, ids),
                                                        <<x1, x2>>, ids)
                          ELSE BatchCopies(e, <<x1, x2>>, ids),
                          <<x1, x2>>, ids)

RestoreSpeculative(q, s, mode, resident, fault) ==
    /\ Ready /\ CanHold /\ eng.count < MaxCount
    /\ \E o \in Speculated(eng, q, s, mode, resident, fault) : Took(o)

\* Mutated form: the entry is listed before its snapshot is written.
CaptureSnapshotListedFirst(s) ==
    /\ Ready
    /\ s \in DOMAIN held \cap Live(eng)
    /\ Len(files) < MaxEntries
    /\ index' = Append(index, Len(files) + 1)
    /\ writing' = TRUE
    /\ UNCHANGED <<eng, held, files, mixed>>

\* capture: the snapshot file first ...
CaptureSnapshot(s) ==
    /\ Ready
    /\ s \in DOMAIN held \cap Live(eng)
    /\ Len(files) < MaxEntries
    /\ files' = Append(files, [text |-> IF held[s] \in Prompts THEN held[s] ELSE NoText,
                               snap |-> Snapshot(eng, s)])
    /\ writing' = TRUE
    /\ UNCHANGED <<eng, held, index, mixed>>

\* ... then the index, replaced as a whole.
CaptureEntry ==
    /\ writing
    /\ index' = Append(index, Len(files))
    /\ writing' = FALSE
    /\ UNCHANGED <<eng, held, files, mixed>>

\* The process ends, in the middle of a capture or not; another one starts.
Restart ==
    /\ eng' = Boot
    /\ held' = <<>>
    /\ writing' = FALSE
    /\ UNCHANGED <<files, index, mixed>>

Next ==
    \/ \E q \in Prompts : LET s == AskedId IN
          \/ Prefill(q, s)
          \/ PrefillRaises(q, s)
          \/ RestoreBest(q, s)
          \/ \E mode \in {"none", "fallback", "refuse"}, resident \in BOOLEAN,
                fault \in Faults \cup {"no"} :
                /\ fault # "no" => mode = "fallback"
                /\ RestoreSpeculative(q, s, mode, resident, fault)
    \/ \E q1, q2 \in Prompts, s1, s2 \in AskedIds, resident \in BOOLEAN :
          RestoreExactBatch(q1, q2, s1, s2, resident)
    \/ \E s \in DOMAIN held :
          \/ Free(s) \/ CaptureSnapshot(s)
          \/ \E n \in {ValidationTokens} :
                \E draws \in {<<>>} \cup [1..n -> Tokens] : Generate(s, n, draws)
          \/ Fork(s, AskedId)
    \/ CaptureEntry
    \/ Restart

Spec == Init /\ [][Next]_vars

-------------------------------------------------------------------------------
(* Properties. *)

Coherent(c, rows, tokens) ==
    rows = RowsOf(tokens) /\ c.hist = tokens /\ c.pend \in {tokens, NoLogits}

\* A context a caller holds is alive and has the tokens the caller was told: the
\* prompt, the match or the fallback it asked for and what it has generated
\* since, whatever was forked, rolled back, evicted or validated next to it; and
\* until a call samples into a block that two contexts share, its rows and its
\* logits are those of these tokens.
ContextsHoldWhatWasTold ==
    \A s \in DOMAIN held :
        /\ s \in Live(eng)
        /\ eng.ctx[s].hist = held[s] /\ eng.ctx[s].len = Len(held[s])
        /\ ~mixed => Coherent(eng.ctx[s], Rows(eng, s), held[s])

\* The rows of a context are its own, also after a fork of it, or the context it
\* is a fork of, has gone on: fork_sequence_prefix says that a write into the
\* shared partial block copies it.
ForksArePrivate ==
    \A s \in DOMAIN held : Rows(eng, s) = RowsOf(held[s])

\* Every sequence of the engine is a caller's context or a source of the
\* resident cache: a candidate that was rejected, a validator, a batch that
\* was given up or an evicted source leaves nothing behind.
NothingStranded ==
    Live(eng) = DOMAIN held \cup {eng.resident[i].id : i \in DOMAIN eng.resident}

\* A resident source still holds its entry's snapshot, after any fork of it
\* was rolled back and went on.
ResidentsAreSnapshots ==
    /\ Len(eng.resident) <= ResidentMax
    /\ \A i \in DOMAIN eng.resident :
          LET r == eng.resident[i]
          IN  r.id \in Live(eng) /\ Snapshot(eng, r.id) = SnapOf(r.entry)

\* What the index lists can be restored by any later process: the whole
\* snapshot is there, with a row for every token, and until a call samples into
\* a block that two contexts share, these rows are one text's.
LibrarySound ==
    \A x \in Listed :
        /\ x \in DOMAIN files
        /\ Len(SnapOf(x).rows) = Len(SnapOf(x).hist)
        /\ files[x].text \in {NoText, SnapOf(x).hist}
        /\ ~mixed => Coherent(SnapOf(x), SnapOf(x).rows, SnapOf(x).hist)
===============================================================================
