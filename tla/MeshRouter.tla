------------------------------ MODULE MeshRouter ------------------------------
(***************************************************************************)
(* One generate_batch call of the replica router (megagemm/mesh/router.py).*)
(* The prompts are dealt out to the replica endpoints by weight, every     *)
(* bucket is one HTTP request sent by a thread of its own, the answers     *)
(* are taken in whatever order they complete, and the prompts of the       *)
(* requests that failed are dealt out again to the endpoints that have not *)
(* failed in this call, until nothing failed or nobody is left.            *)
(***************************************************************************)
EXTENDS Integers, FiniteSets, SequencesExt

CONSTANTS
    EndpointLists,  \* the endpoint lists to check; equal entries may repeat
    Weight,         \* Weight[e]: the configured weight of endpoint e
    MaxPrompts      \* bound: prompts of one call

ASSUME MeshRouterAssumption ==
    /\ \A list \in EndpointLists : /\ list \in Seq(ToSet(list)) \ {<<>>}
                                   /\ \A e \in ToSet(list) : Weight[e] \in Nat \ {0}
    /\ MaxPrompts \in Nat \ {0}

VARIABLES
    endpoints,      \* self.endpoints, in the order the caller gave them
    failover,       \* the argument of the call
    prompts,        \* how many prompts it has; they are named 1..prompts
    eligible,       \* the endpoints of this round, in order
    buckets,        \* buckets[k]: the prompts given to eligible[k]
    asked,          \* the places k whose future has not been taken yet
    outputs,        \* outputs[i]: the text for prompt i, or None
    failed_items,   \* prompts of failed requests, in the order they failed
    unavailable,    \* endpoints that failed during this call
    state           \* running, then returned or raised

vars == <<endpoints, failover, prompts, eligible, buckets, asked, outputs,
          failed_items, unavailable, state>>

\* The text generated for prompt i is written i.
None == 0
Answers(items) == items

-----------------------------------------------------------------------------
\* Mutant: the bucket is chosen by its length alone
BestIgnoringWeight(b, list) ==
    CHOOSE k \in DOMAIN list : \A l \in DOMAIN list :
        Len(b[k]) < Len(b[l]) \/ (Len(b[k]) = Len(b[l]) /\ k <= l)

\* The bucket with the least load for its weight, the first of equals.
Best(b, list) ==
    LET Load(k, l) == Len(b[k]) * Weight[list[l]]
        Least == {k \in DOMAIN list : \A l \in DOMAIN list : Load(k, l) <= Load(l, k)}
    IN CHOOSE k \in Least : \A l \in Least : k <= l

\* The items are dealt one after the other, each to the bucket that is best then.
AssignIndexed(items, list) ==
    LET dealt[n \in 0..Len(items)] ==
            IF n = 0 THEN [k \in DOMAIN list |-> <<>>]
            ELSE [dealt[n-1] EXCEPT ![Best(dealt[n-1], list)] = Append(@, items[n])]
    IN dealt[Len(items)]

Submitted(b) == {k \in DOMAIN b : b[k] # <<>>}

\* An empty prompt list returns at once and is not modelled.
Init ==
    /\ endpoints \in EndpointLists
    /\ failover \in BOOLEAN
    /\ prompts \in 1..MaxPrompts
    /\ eligible = endpoints
    /\ buckets = AssignIndexed([i \in 1..prompts |-> i], endpoints)
    /\ asked = Submitted(buckets)
    /\ outputs = [i \in 1..prompts |-> None]
    /\ failed_items = <<>>
    /\ unavailable = {}
    /\ state = "running"

PlaceOf(i, items) == CHOOSE j \in DOMAIN items : items[j] = i

\* Mutant: texts are written in the order of the round's prompts, not of the bucket
StoredInOrder(items, texts) ==
    LET sorted == SetToSortSeq(ToSet(items), LAMBDA i, j : i < j)
    IN [i \in DOMAIN outputs |->
           IF i \in ToSet(items) /\ PlaceOf(i, items) \in DOMAIN texts
           THEN texts[PlaceOf(i, sorted)] ELSE outputs[i]]

\* outputs with the texts of one answer written at the prompts' own indices.
Stored(items, texts) ==
    [i \in DOMAIN outputs |->
        IF i \in ToSet(items) /\ PlaceOf(i, items) \in DOMAIN texts
        THEN texts[PlaceOf(i, items)] ELSE outputs[i]]

\* Mutant: the number of texts is not compared with the number of prompts
TakeAnswerUnchecked(k, texts) ==
    /\ k \in asked
    /\ outputs' = Stored(buckets[k], texts)
    /\ asked' = asked \ {k}
    /\ UNCHANGED <<endpoints, failover, prompts, eligible, buckets,
                   failed_items, unavailable, state>>

\* The request comes back with texts, as many as were asked for; otherwise
\* the answer counts as a failure.
TakeAnswer(k, texts) ==
    /\ k \in asked
    /\ Len(texts) = Len(buckets[k])
    /\ outputs' = Stored(buckets[k], texts)
    /\ asked' = asked \ {k}
    /\ UNCHANGED <<endpoints, failover, prompts, eligible, buckets,
                   failed_items, unavailable, state>>

\* Mutant: the endpoint is not remembered as failed
TakeFailureForgiving(k) ==
    /\ k \in asked
    /\ failed_items' = failed_items \o buckets[k]
    /\ asked' = asked \ {k}
    /\ UNCHANGED <<endpoints, failover, prompts, eligible, buckets, outputs,
                   unavailable, state>>

\* Mutant: the failed place is remembered instead of the endpoint
TakeFailureByPlace(k) ==
    /\ k \in asked
    /\ failed_items' = failed_items \o buckets[k]
    /\ unavailable' = unavailable \union {k}
    /\ asked' = asked \ {k}
    /\ UNCHANGED <<endpoints, failover, prompts, eligible, buckets, outputs, state>>

\* An HTTP error, a lost connection, a timeout or an answer of wrong length.
TakeFailure(k) ==
    /\ k \in asked
    /\ failed_items' = failed_items \o buckets[k]
    /\ unavailable' = unavailable \union {eligible[k]}
    /\ asked' = asked \ {k}
    /\ UNCHANGED <<endpoints, failover, prompts, eligible, buckets, outputs, state>>

\* The endpoints of a list that are not among the failed, in order.
Without(list, failed) ==
    LET kept[n \in 0..Len(list)] ==
            IF n = 0 THEN <<>>
            ELSE IF list[n] \in failed THEN kept[n-1] ELSE Append(kept[n-1], list[n])
    IN kept[Len(list)]

\* Mutant: everybody who was asked in the round is left out of the next
FallbackSameRound == Without(endpoints, unavailable \union ToSet(eligible))

\* The endpoints that have not failed in this call.
Fallback == Without(endpoints, unavailable)

\* Mutant: the failed prompts go to the endpoints of the first round
NextRoundToAll ==
    /\ state = "running"
    /\ asked = {}
    /\ failed_items # <<>>
    /\ failover
    /\ Fallback # <<>>
    /\ eligible' = endpoints
    /\ buckets' = AssignIndexed(failed_items, endpoints)
    /\ asked' = Submitted(buckets')
    /\ failed_items' = <<>>
    /\ UNCHANGED <<endpoints, failover, prompts, outputs, unavailable, state>>

\* All futures of the round are taken: deal the failed prompts out again.
NextRound ==
    /\ state = "running"
    /\ asked = {}
    /\ failed_items # <<>>
    /\ failover
    /\ Fallback # <<>>
    /\ eligible' = Fallback
    /\ buckets' = AssignIndexed(failed_items, Fallback)
    /\ asked' = Submitted(buckets')
    /\ failed_items' = <<>>
    /\ UNCHANGED <<endpoints, failover, prompts, outputs, unavailable, state>>

Finish ==
    /\ state = "running"
    /\ asked = {}
    /\ failed_items = <<>> \/ ~failover \/ Fallback = <<>>
    /\ state' = IF \E i \in DOMAIN outputs : outputs[i] = None THEN "raised" ELSE "returned"
    /\ UNCHANGED <<endpoints, failover, prompts, eligible, buckets, asked, outputs,
                   failed_items, unavailable>>

\* A replica answers with its texts in order, or with fewer of them.
Take(k) ==
    \/ \E n \in 0..Len(buckets[k]) :
           TakeAnswer(k, SubSeq(Answers(buckets[k]), 1, n))
    \/ TakeFailure(k)

Next ==
    \/ \E k \in asked : Take(k)
    \/ NextRound
    \/ Finish

Spec == Init /\ [][Next]_vars

\* Every request ends, with an answer or by its timeout, and the caller's
\* loop goes on.
FairSpec == Spec /\ WF_vars(Next)

-----------------------------------------------------------------------------
\* The variables have the shape the code gives them.
TypeOK ==
    /\ endpoints \in EndpointLists
    /\ failover \in BOOLEAN
    /\ ToSet(eligible) \subseteq ToSet(endpoints)
    /\ DOMAIN buckets = DOMAIN eligible
    /\ asked \subseteq DOMAIN eligible
    /\ \A k \in DOMAIN buckets : ToSet(buckets[k]) \subseteq 1..prompts
    /\ DOMAIN outputs = 1..prompts
    /\ ToSet(failed_items) \subseteq 1..prompts
    /\ unavailable \subseteq ToSet(endpoints)
    /\ state \in {"running", "returned", "raised"}

\* Where prompt i is: with a request still out, among the failed, answered.
Places(i) ==
    Cardinality({k \in asked : i \in ToSet(buckets[k])})
    + Cardinality({j \in DOMAIN failed_items : failed_items[j] = i})
    + (IF outputs[i] = None THEN 0 ELSE 1)

\* However requests fail and in whatever order they are taken, a prompt is in
\* exactly one of the three places: none is lost by a failed bucket and none is
\* generated by two replicas whose answers would race for one slot.
EveryPromptOnce ==
    /\ \A i \in 1..prompts : Places(i) = 1
    /\ \A k \in asked : IsInjective(buckets[k])

\* A text is stored at the index of the prompt it answers, also after a bucket
\* was split and dealt out again in the order in which requests failed.
AnswersAtOwnIndex ==
    \A i \in 1..prompts : outputs[i] \in {None, i}

\* A call that raises with failover on has tried everybody: each endpoint of
\* the list, duplicates included, failed at least once. A call that returns
\* has a text for each prompt.
RaisesOnlyWhenExhausted ==
    /\ state = "raised" /\ failover => ToSet(endpoints) \subseteq unavailable
    /\ state = "raised" => unavailable # {}
    /\ state = "returned" => \A i \in 1..prompts : outputs[i] # None

\* In every round the buckets respect the weights: giving the last prompt of a
\* bucket to any other endpoint of the round would not have loaded it less.
DealtByWeight ==
    \A k, l \in DOMAIN eligible :
        buckets[k] # <<>> =>
            (Len(buckets[k]) - 1) * Weight[eligible[l]] <= Len(buckets[l]) * Weight[eligible[k]]

\* A round asks nobody who failed earlier in the call, and keeps every text
\* that an earlier round has stored.
RoundsMakeProgress ==
    [][/\ asked' \ asked # {} => ToSet(eligible') \intersect unavailable = {}
       /\ \A i \in 1..prompts : outputs[i] # None => outputs'[i] = outputs[i]]_vars

\* The call ends: with fewer endpoints in each round the retries run out.
CallEnds == <>(state # "running")
=============================================================================
