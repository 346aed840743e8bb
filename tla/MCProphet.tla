------------------------------- MODULE MCProphet ------------------------------
(* Prophet on short prompts.  Three prompts share their first tokens; one of   *)
(* them goes on behind another by two.                                         *)
EXTENDS Prophet

Defaults == [score |-> 55, coverage |-> 50, rollback |-> 35, tail |-> 50]

\* The model's greedy tokens are 0, 1 and 2, and 3 is drawn: a text that went on
\* parts from every other prompt.
Begin == <<4, 4, 4>>
Turned == <<4, 4, 5, 5, 5>>
Long == <<4, 4, 4, 4, 4>>
TailsOfTwo == {Begin, Turned, Long}

\* The texts of a prompt, as far as four tokens behind it.
Continued(p) == UNION {{p \o said : said \in [1..n -> Tokens \cup 0..2]} : n \in 0..4}

\* With these prompts no reuse within the thresholds has one token to replay,
\* which is what Prophet_proofs asks of the prompts.
ASSUME TailsOfTwoAssumption ==
    \A p, q \in TailsOfTwo : \A h \in Continued(p) :
        Acceptable(Len(q), CommonPrefix(q, h), Len(h), Len(h))
            => CommonPrefix(q, h) + 1 # Len(q)

\* Blocks are interchangeable, what counts is which sequence reads which rows and
\* which of its blocks it shares with which other; and so are the callers' ids:
\* the view of a state is what it looks like under every renaming of them.
Shared == {<<s, k, t>> \in Live(eng) \X (1..NumBlocks) \X Live(eng) :
              /\ s # t /\ k \in DOMAIN eng.ctx[s].tab \cap DOMAIN eng.ctx[t].tab
              /\ eng.ctx[s].tab[k] = eng.ctx[t].tab[k]}
Renamed(name, s) == IF s \in CallerIds THEN name[s] ELSE s
View ==
    LET looks == [s \in Live(eng) |-> <<Snapshot(eng, s), Len(eng.ctx[s].tab)>>]
        shared == Shared
        under(name) ==
            <<{<<Renamed(name, s), looks[s]>> : s \in Live(eng)},
              {<<Renamed(name, x[1]), x[2], Renamed(name, x[3])>> : x \in shared},
              {<<Renamed(name, s), held[s]>> : s \in DOMAIN held}>>
    IN  <<{under(name) : name \in Permutations(CallerIds)},
          eng.count, eng.resident, files, index, writing, mixed>>
===============================================================================
