---------------------------- MODULE Scheduler_proofs ----------------------------
(***************************************************************************)
(* Proofs about Scheduler for any pool, batch size, number of requests,    *)
(* prompt lengths, burst lengths and set of contexts.                      *)
(***************************************************************************)
EXTENDS Scheduler, FiniteSetTheorems, WellFoundedInduction, TLAPS

(* Sums over finite sets. *)

\* The least element of a set of natural numbers.
LEMMA MinIsLeast ==
    ASSUME NEW S \in SUBSET Nat, S # {}
    PROVE  Min(S) \in S /\ \A x \in S : Min(S) <= x
<1>1. PICK x \in S : \A y \in S : ~(<<y, x>> \in OpToRel(<, Nat))
  BY NatLessThanWellFounded, WFMin
<1>2. \A y \in S : x <= y
  <2>. TAKE y \in S
  <2>1. ~(y < x)
    BY <1>1 DEF OpToRel
  <2>. QED BY <2>1
<1>. QED BY <1>2 DEF Min

\* The units of one element.
LEMMA UnitsOfOne ==
    ASSUME NEW x, NEW n \in Nat
    PROVE  IsFiniteSet({x} \X (1..n)) /\ Cardinality({x} \X (1..n)) = n
<1>1. IsFiniteSet({x}) /\ Cardinality({x}) = 1
  BY FS_Singleton
<1>2. IsFiniteSet(1..n) /\ Cardinality(1..n) = IF 1 > n THEN 0 ELSE n - 1 + 1
  BY FS_Interval
<1>3. Cardinality(1..n) = n
  BY <1>2
<1>. DEFINE one == {x}
            upto == 1..n
<1>4. /\ IsFiniteSet(one) /\ Cardinality(one) = 1
      /\ IsFiniteSet(upto) /\ Cardinality(upto) = n
  BY <1>1, <1>2, <1>3
<1>. HIDE DEF one, upto
<1>5. IsFiniteSet(one \X upto) /\ Cardinality(one \X upto) = 1 * n
  BY <1>4, FS_Product
<1>. QED BY <1>5 DEF one, upto

Units(f, S) == UNION {{x} \X (1..f[x]) : x \in S}

LEMMA UnitsFinite ==
    ASSUME NEW f, NEW S, IsFiniteSet(S), \A x \in S : f[x] \in Nat
    PROVE  IsFiniteSet(Units(f, S))
<1>. DEFINE parts == {{x} \X (1..f[x]) : x \in S}
            part  == [x \in S |-> {x} \X (1..f[x])]
<1>1. part \in Surjection(S, parts)
  BY DEF Surjection
<1>2. IsFiniteSet(parts)
  BY <1>1, FS_Surjection
<1>3. \A P \in parts : IsFiniteSet(P)
  <2>. SUFFICES ASSUME NEW x \in S PROVE IsFiniteSet({x} \X (1..f[x]))
    OBVIOUS
  <2>. QED BY UnitsOfOne
<1>4. IsFiniteSet(UNION parts)
  BY <1>2, <1>3, FS_UNION
<1>. QED BY <1>4 DEF Units

LEMMA TotalType ==
    ASSUME NEW f, NEW S, IsFiniteSet(S), \A x \in S : f[x] \in Nat
    PROVE  Total(f, S) \in Nat
BY UnitsFinite, FS_CardinalityType DEF Total, Units

\* A sum over nothing, or of nothing, is 0.
LEMMA TotalZero ==
    ASSUME NEW f, NEW S, \A x \in S : f[x] = 0
    PROVE  Total(f, S) = 0
<1>1. UNION {{x} \X (1..f[x]) : x \in S} = {}
  OBVIOUS
<1>. QED BY <1>1, FS_EmptySet DEF Total

LEMMA TotalOne ==
    ASSUME NEW f, NEW x, f[x] \in Nat
    PROVE  Total(f, {x}) = f[x]
<1>1. UNION {{y} \X (1..f[y]) : y \in {x}} = {x} \X (1..f[x])
  OBVIOUS
<1>2. Cardinality({x} \X (1..f[x])) = f[x]
  BY UnitsOfOne
<1>. QED BY <1>1, <1>2 DEF Total

LEMMA TotalSame ==
    ASSUME NEW f, NEW g, NEW S, \A x \in S : f[x] = g[x]
    PROVE  Total(f, S) = Total(g, S)
<1>1. {{x} \X (1..f[x]) : x \in S} = {{x} \X (1..g[x]) : x \in S}
  OBVIOUS
<1>. QED BY <1>1 DEF Total

LEMMA TotalUnion ==
    ASSUME NEW f, NEW S, NEW T, IsFiniteSet(S), IsFiniteSet(T), S \cap T = {},
           \A x \in S \cup T : f[x] \in Nat
    PROVE  Total(f, S \cup T) = Total(f, S) + Total(f, T)
<1>1. Units(f, S \cup T) = Units(f, S) \cup Units(f, T)
  BY DEF Units
<1>2. Units(f, S) \cap Units(f, T) = {}
  BY DEF Units
<1>3. IsFiniteSet(Units(f, S)) /\ IsFiniteSet(Units(f, T))
  BY UnitsFinite
<1>. DEFINE A == Units(f, S)
            B == Units(f, T)
<1>4. IsFiniteSet(A) /\ IsFiniteSet(B) /\ A \cap B = {}
  BY <1>2, <1>3
<1>5. Total(f, S \cup T) = Cardinality(A \cup B)
  BY <1>1 DEF Total, Units
<1>6. Total(f, S) = Cardinality(A) /\ Total(f, T) = Cardinality(B)
  BY DEF Total, Units
<1>. HIDE DEF A, B
<1>7. Cardinality(A \cup B) = Cardinality(A) + Cardinality(B) - Cardinality(A \cap B)
  BY <1>4, FS_Union
<1>8. Cardinality(A) \in Nat /\ Cardinality(B) \in Nat /\ Cardinality(A \cap B) = 0
  BY <1>4, FS_CardinalityType, FS_EmptySet
<1>. QED BY <1>5, <1>6, <1>7, <1>8

LEMMA TotalSubset ==
    ASSUME NEW f, NEW T, IsFiniteSet(T), NEW S \in SUBSET T, \A x \in T : f[x] \in Nat
    PROVE  /\ Total(f, T) = Total(f, S) + Total(f, T \ S)
           /\ Total(f, S) <= Total(f, T)
<1>1. IsFiniteSet(S) /\ IsFiniteSet(T \ S) /\ S \cup (T \ S) = T
  BY FS_Subset
<1>2. Total(f, T) = Total(f, S) + Total(f, T \ S)
  BY <1>1, TotalUnion
<1>3. Total(f, S) \in Nat /\ Total(f, T \ S) \in Nat
  BY <1>1, TotalType
<1>. QED BY <1>2, <1>3

\* Replacing the values on S.
LEMMA TotalUpdate ==
    ASSUME NEW f, NEW g, NEW T, IsFiniteSet(T), NEW S \in SUBSET T,
           \A x \in T : f[x] \in Nat /\ g[x] \in Nat,
           \A x \in T \ S : g[x] = f[x]
    PROVE  Total(g, T) = Total(f, T) - Total(f, S) + Total(g, S)
<1>1. /\ Total(f, T) = Total(f, S) + Total(f, T \ S)
      /\ Total(g, T) = Total(g, S) + Total(g, T \ S)
  BY TotalSubset
<1>2. Total(g, T \ S) = Total(f, T \ S)
  BY TotalSame
<1>3. IsFiniteSet(S) /\ IsFiniteSet(T \ S)
  BY FS_Subset
<1>4. /\ Total(f, S) \in Nat /\ Total(g, S) \in Nat
      /\ Total(f, T \ S) \in Nat
  BY <1>3, TotalType
<1>. QED BY <1>1, <1>2, <1>4

-------------------------------------------------------------------------------
(* The queues.  A request moves from the waiting list to the admitted batch, to *)
(* the running set and to the completed set; as requests are numbered in the    *)
(* order of their submission, each list is an interval of their numbers.        *)

QueueTypes ==
    /\ call \in {"idle", "batch", "stream"}
    /\ pc \in {"between", "prefill", "decode", "yield"}
    /\ outcome \in {"none", "returned", "raised", "prefill_raised", "abandoned"}
    /\ prompt \in Seq(PromptLens) /\ Len(prompt) <= MaxRequests
    /\ maxNew \in Nat /\ burst \in Nat \ {0}
    /\ waiting \in Seq(Requests) /\ admitted \in Seq(Requests)
    /\ running \subseteq Requests /\ completed \subseteq Requests /\ newly \subseteq Requests
    /\ gen \in [Requests -> Nat] /\ stopped \subseteq Requests
    /\ delivered \in [Requests -> Nat]
    /\ calls \in 0..MaxCalls

\* The number of requests that left the waiting list and the admitted batch.
Started == Len(prompt) - Len(waiting) - Len(admitted)

Queues ==
    /\ call = "idle" => /\ waiting = <<>> /\ admitted = <<>> /\ running = {}
                        /\ newly = {} /\ pc = "between"
    /\ call # "idle" => /\ Started \in Nat
                        /\ \A i \in 1..Len(admitted) : admitted[i] = Started + i
                        /\ \A i \in 1..Len(waiting) :
                              waiting[i] = Started + Len(admitted) + i
                        /\ running \cup completed = 1..Started
                        /\ running \cap completed = {}
                        /\ stopped \subseteq completed
    /\ newly \subseteq completed
    /\ pc # "prefill" => admitted = <<>>
    /\ pc \in {"between", "yield"} => newly = {}
    /\ Cardinality(running) + Len(admitted) <= MaxBatch

LEMMA RequestsFinite ==
    /\ IsFiniteSet(Requests) /\ Requests \subseteq Nat \ {0}
    /\ IsFiniteSet(Ids) /\ Requests \subseteq Ids /\ ContextIds \subseteq Ids
<1>1. IsFiniteSet(Requests) /\ Requests \subseteq Nat \ {0}
  BY FS_Interval, SchedulerAssumption DEF Requests
<1>2. IsFiniteSet(Ids)
  BY <1>1, FS_Union, SchedulerAssumption DEF Ids
<1>. QED BY <1>1, <1>2 DEF Ids

LEMMA Lengths ==
    ASSUME QueueTypes
    PROVE  /\ Len(prompt) \in Nat /\ Submitted = 1..Len(prompt)
           /\ Len(waiting) \in Nat /\ DOMAIN waiting = 1..Len(waiting)
           /\ Len(admitted) \in Nat /\ DOMAIN admitted = 1..Len(admitted)
           /\ MaxRequests \in Nat /\ MaxBatch \in Nat /\ MaxCalls \in Nat
<1>1. prompt \in Seq(PromptLens) /\ waiting \in Seq(Requests) /\ admitted \in Seq(Requests)
  BY DEF QueueTypes
<1>2. Len(prompt) \in Nat /\ DOMAIN prompt = 1..Len(prompt)
  BY <1>1
<1>3. Len(waiting) \in Nat /\ DOMAIN waiting = 1..Len(waiting)
  BY <1>1
<1>4. Len(admitted) \in Nat /\ DOMAIN admitted = 1..Len(admitted)
  BY <1>1
<1>. QED BY <1>2, <1>3, <1>4, SchedulerAssumption DEF Submitted

\* Part of a sequence.
LEMMA Parts ==
    ASSUME NEW R, NEW s \in Seq(R), NEW k \in 0..Len(s)
    PROVE  /\ Len(s) \in Nat /\ k \in Nat /\ k <= Len(s)
           /\ SubSeq(s, 1, k) \in Seq(R) /\ Len(SubSeq(s, 1, k)) = k
           /\ \A i \in 1..k : SubSeq(s, 1, k)[i] = s[i]
           /\ SubSeq(s, k + 1, Len(s)) \in Seq(R)
           /\ Len(SubSeq(s, k + 1, Len(s))) = Len(s) - k
           /\ \A i \in 1..(Len(s) - k) : SubSeq(s, k + 1, Len(s))[i] = s[k + i]
<1>1. Len(s) \in Nat
  OBVIOUS
<1>2. k \in Nat /\ k <= Len(s)
  BY <1>1
<1>. QED BY <1>1, <1>2

\* The first k admitted requests, and those behind them.
LEMMA ChunkIs ==
    ASSUME QueueTypes, Queues, call # "idle", NEW k \in 0..Len(admitted)
    PROVE  /\ Started + Len(admitted) + Len(waiting) = Len(prompt)
           /\ Chunk(k) = (Started+1)..(Started+k)
           /\ Chunk(k) \subseteq Submitted
           /\ Chunk(k) \subseteq Requests
           /\ IsFiniteSet(Chunk(k)) /\ Cardinality(Chunk(k)) = k
           /\ Chunk(k) \cap running = {} /\ Chunk(k) \cap completed = {}
           /\ RangeOf(admitted) = Chunk(Len(admitted))
           /\ Submitted = 1..Len(prompt) /\ Submitted \subseteq Requests
<1>a. /\ Len(prompt) \in Nat /\ Len(waiting) \in Nat /\ Len(admitted) \in Nat
      /\ DOMAIN admitted = 1..Len(admitted) /\ Submitted = 1..Len(prompt)
  BY Lengths
<1>b. Len(prompt) <= MaxRequests /\ Started \in Nat
  BY DEF QueueTypes, Queues
<1>c. k \in Nat /\ k <= Len(admitted)
  BY <1>a
<1>d. Started + Len(admitted) + Len(waiting) = Len(prompt)
  BY <1>a DEF Started
<1>1. /\ Len(prompt) \in Nat /\ Len(waiting) \in Nat /\ Len(admitted) \in Nat
      /\ k \in Nat /\ k <= Len(admitted) /\ Started \in Nat
      /\ Started + Len(admitted) + Len(waiting) = Len(prompt)
      /\ DOMAIN admitted = 1..Len(admitted)
      /\ Submitted = 1..Len(prompt) /\ Len(prompt) <= MaxRequests
  BY <1>a, <1>b, <1>c, <1>d
<1>2. \A i \in 1..Len(admitted) : admitted[i] = Started + i
  BY DEF Queues
<1>3. Chunk(k) = (Started+1)..(Started+k)
  <2>1. \A i \in 1..k : admitted[i] \in (Started+1)..(Started+k)
    BY <1>1, <1>2
  <2>2. ASSUME NEW r \in (Started+1)..(Started+k) PROVE r \in Chunk(k)
    <3>1. r - Started \in 1..k /\ r - Started \in 1..Len(admitted)
      BY <1>1
    <3>2. admitted[r - Started] = r
      BY <1>1, <1>2, <3>1
    <3>. QED BY <3>1, <3>2 DEF Chunk
  <2>. QED BY <2>1, <2>2 DEF Chunk
<1>4. Submitted \subseteq Requests
  BY <1>1, SchedulerAssumption DEF Requests
<1>5. Chunk(k) \subseteq Submitted
  BY <1>1, <1>3
<1>6. IsFiniteSet(Chunk(k)) /\ Cardinality(Chunk(k)) = k
  <2>1. Started + 1 \in Int /\ Started + k \in Int
    BY <1>1
  <2>. DEFINE a == Started + 1
              b == Started + k
  <2>2. a \in Int /\ b \in Int
    BY <2>1
  <2>. HIDE DEF a, b
  <2>3. IsFiniteSet(a..b) /\ Cardinality(a..b) = IF a > b THEN 0 ELSE b - a + 1
    BY <2>2, FS_Interval
  <2>. QED BY <1>1, <1>3, <2>3 DEF a, b
<1>7. Chunk(k) \cap (running \cup completed) = {}
  <2>1. running \cup completed = 1..Started
    BY DEF Queues
  <2>. QED BY <1>1, <1>3, <2>1
<1>8. RangeOf(admitted) = Chunk(Len(admitted))
  BY <1>1 DEF RangeOf, Chunk
<1>. QED BY <1>1, <1>3, <1>4, <1>5, <1>6, <1>7, <1>8

LEMMA InitQueues == Init => QueueTypes /\ Queues
<1>. SUFFICES ASSUME Init PROVE QueueTypes /\ Queues
  OBVIOUS
<1>1. QueueTypes
  BY SchedulerAssumption DEF Init, QueueTypes
<1>2. Cardinality(running) + Len(admitted) <= MaxBatch
  BY FS_EmptySet, SchedulerAssumption DEF Init
<1>. QED BY <1>1, <1>2 DEF Init, Queues

\* An ended call leaves no request behind.
LEMMA DroppedQueues ==
    ASSUME QueueTypes, NEW how \in {"raised", "prefill_raised", "abandoned"}, Dropped(how),
           prompt' = prompt, maxNew' = maxNew, burst' = burst,
           gen' = gen, stopped' = stopped, delivered' = delivered, calls' = calls
    PROVE  QueueTypes' /\ Queues'
<1>a. /\ call' = "idle" /\ pc' = "between" /\ outcome' = how
      /\ waiting' = <<>> /\ admitted' = <<>> /\ running' = {}
      /\ completed' = {} /\ newly' = {}
  BY DEF Dropped
<1>b. /\ prompt' = prompt /\ maxNew' = maxNew /\ burst' = burst
      /\ gen' = gen /\ stopped' = stopped /\ delivered' = delivered /\ calls' = calls
  OBVIOUS
<1>1. QueueTypes'
  <2>1. /\ prompt' \in Seq(PromptLens) /\ Len(prompt') <= MaxRequests
        /\ maxNew' \in Nat /\ burst' \in Nat \ {0}
        /\ gen' \in [Requests -> Nat] /\ stopped' \subseteq Requests
        /\ delivered' \in [Requests -> Nat]
        /\ calls' \in 0..MaxCalls
    BY <1>b DEF QueueTypes
  <2>2. /\ waiting' \in Seq(Requests) /\ admitted' \in Seq(Requests)
        /\ running' \subseteq Requests /\ completed' \subseteq Requests
        /\ newly' \subseteq Requests
    <3>1. <<>> \in Seq(Requests)
      OBVIOUS
    <3>. QED BY <1>a, <3>1
  <2>3. /\ call' \in {"idle", "batch", "stream"}
        /\ pc' \in {"between", "prefill", "decode", "yield"}
        /\ outcome' \in {"none", "returned", "raised", "prefill_raised", "abandoned"}
    BY <1>a
  <2>. QED BY <2>1, <2>2, <2>3 DEF QueueTypes
<1>2. Cardinality(running') = 0 /\ Len(admitted') = 0
  BY <1>a, FS_EmptySet
<1>3. Cardinality(running') + Len(admitted') <= MaxBatch
  <2>1. MaxBatch \in Nat
    BY SchedulerAssumption
  <2>2. Cardinality(running') + Len(admitted') = 0
    BY <1>2
  <2>. QED BY <2>1, <2>2
<1>. QED BY <1>1, <1>3, <1>a DEF Queues

LEMMA SubmitQueues ==
    ASSUME QueueTypes, NEW kind \in {"batch", "stream"}, Submit(kind)
    PROVE  QueueTypes' /\ Queues'
<1>1. PICK n \in 1..MaxRequests : /\ prompt' \in [1..n -> PromptLens]
                                  /\ waiting' = [i \in 1..n |-> i]
  BY DEF Submit
<1>2. /\ call' = kind /\ pc' = "between" /\ outcome' = "none"
      /\ maxNew' \in MaxNews /\ burst' \in Bursts
      /\ admitted' = <<>> /\ running' = {} /\ completed' = {} /\ newly' = {}
      /\ gen' = [r \in Requests |-> 0] /\ stopped' = {}
      /\ delivered' = [r \in Requests |-> 0]
      /\ calls < MaxCalls /\ calls' = calls + 1
  BY DEF Submit
<1>3. n \in Nat /\ n <= MaxRequests
  BY SchedulerAssumption
<1>4. prompt' \in Seq(PromptLens) /\ Len(prompt') = n
  BY <1>1, <1>3
<1>5. waiting' \in Seq(Requests) /\ Len(waiting') = n /\ \A i \in 1..n : waiting'[i] = i
  <2>1. \A i \in 1..n : i \in Requests
    BY <1>3, SchedulerAssumption DEF Requests
  <2>2. waiting' \in [1..n -> Requests]
    BY <1>1, <2>1
  <2>. QED BY <1>1, <1>3, <2>2
<1>6. QueueTypes'
  <2>1. calls' \in 0..MaxCalls
    <3>1. MaxCalls \in Nat
      BY SchedulerAssumption
    <3>a. calls \in 0..MaxCalls
      BY DEF QueueTypes
    <3>2. calls \in Nat
      BY <3>1, <3>a
    <3>. QED BY <1>2, <3>1, <3>2
  <2>2. maxNew' \in Nat /\ burst' \in Nat \ {0} /\ <<>> \in Seq(Requests)
    BY <1>2, SchedulerAssumption
  <2>3. gen' \in [Requests -> Nat] /\ delivered' \in [Requests -> Nat]
    BY <1>2
  <2>4. /\ call' \in {"idle", "batch", "stream"}
        /\ pc' \in {"between", "prefill", "decode", "yield"}
        /\ outcome' \in {"none", "returned", "raised", "prefill_raised", "abandoned"}
    BY <1>2
  <2>. QED BY <1>2, <1>3, <1>4, <1>5, <2>1, <2>2, <2>3, <2>4 DEF QueueTypes
<1>a. Len(admitted') = 0 /\ Cardinality(running') = 0
  BY <1>2, FS_EmptySet
<1>7. Started' = 0
  BY <1>3, <1>4, <1>5, <1>a DEF Started
<1>8. Cardinality(running') + Len(admitted') <= MaxBatch
  BY <1>a, SchedulerAssumption
<1>9. \A i \in 1..Len(waiting') : waiting'[i] = Started' + Len(admitted') + i
  BY <1>3, <1>5, <1>7, <1>a
<1>10. \A i \in 1..Len(admitted') : admitted'[i] = Started' + i
  BY <1>a
<1>11. running' \cup completed' = 1..Started'
  BY <1>2, <1>7
<1>12. Started' \in Nat
  BY <1>7
<1>. QED BY <1>2, <1>6, <1>8, <1>9, <1>10, <1>11, <1>12 DEF Queues

\* The slots of a batch, and what admission leaves.
LEMMA CollectFacts ==
    ASSUME QueueTypes, Queues, CollectPrefillBatch
    PROVE  \E k \in 0..Len(waiting) :
              /\ Fits(k)
              /\ Cardinality(running) + k <= MaxBatch
              /\ admitted' = SubSeq(waiting, 1, k)
              /\ waiting' = SubSeq(waiting, k + 1, Len(waiting))
<1>. DEFINE room  == MaxBatch - Cardinality(running)
            slots == Min({room, Len(waiting)})
<1>a. running \in SUBSET Requests
  BY DEF QueueTypes
<1>b. IsFiniteSet(running)
  BY <1>a, RequestsFinite, FS_Subset
<1>1. /\ Cardinality(running) \in Nat /\ Len(waiting) \in Nat /\ Len(admitted) \in Nat
      /\ MaxBatch \in Nat
  BY <1>b, Lengths, FS_CardinalityType
<1>c. Cardinality(running) + Len(admitted) <= MaxBatch
  BY DEF Queues
<1>2. room \in Nat
  BY <1>1, <1>c
<1>3. PICK k \in 0..slots :
          /\ Fits(k)
          /\ admitted' = SubSeq(waiting, 1, k)
          /\ waiting' = SubSeq(waiting, k + 1, Len(waiting))
  BY DEF CollectPrefillBatch
<1>. HIDE DEF room
<1>4. slots \in Nat /\ slots <= room /\ slots <= Len(waiting)
  <2>1. {room, Len(waiting)} \in SUBSET Nat /\ {room, Len(waiting)} # {}
    BY <1>1, <1>2
  <2>. QED BY <1>1, <1>2, <2>1, MinIsLeast
<1>. HIDE DEF slots
<1>5. k \in 0..Len(waiting) /\ k <= room /\ k \in Nat
  BY <1>1, <1>2, <1>4
<1>6. Cardinality(running) + k <= MaxBatch
  BY <1>1, <1>5 DEF room
<1>. QED BY <1>3, <1>5, <1>6

LEMMA BeginQueues ==
    ASSUME QueueTypes, Queues, BeginStep
    PROVE  QueueTypes' /\ Queues'
<1>1. PICK k \in 0..Len(waiting) :
              /\ Cardinality(running) + k <= MaxBatch
              /\ admitted' = SubSeq(waiting, 1, k)
              /\ waiting' = SubSeq(waiting, k + 1, Len(waiting))
  BY CollectFacts DEF BeginStep
<1>2. /\ call # "idle" /\ pc' = "prefill" /\ pc \in {"between", "yield"}
      /\ UNCHANGED <<call, outcome, params, running, completed, newly, progress, calls>>
  BY DEF BeginStep, Resumable
<1>a. waiting \in Seq(Requests)
  BY DEF QueueTypes
<1>3. /\ Len(waiting) \in Nat /\ k \in Nat /\ k <= Len(waiting) /\ Len(prompt) \in Nat
  BY <1>a, Parts, Lengths
<1>4. /\ admitted' \in Seq(Requests) /\ Len(admitted') = k
      /\ \A i \in 1..k : admitted'[i] = waiting[i]
  BY <1>1, <1>a, Parts
<1>5. /\ waiting' \in Seq(Requests) /\ Len(waiting') = Len(waiting) - k
      /\ \A i \in 1..(Len(waiting) - k) : waiting'[i] = waiting[k + i]
  BY <1>1, <1>a, Parts
<1>6. QueueTypes'
  BY <1>2, <1>4, <1>5 DEF QueueTypes, params, progress
<1>7. Len(admitted) = 0
  BY <1>2 DEF Queues
<1>8. Started' = Started /\ Started \in Nat
  BY <1>2, <1>3, <1>4, <1>5, <1>7 DEF Queues, Started, params
<1>9. \A i \in 1..Len(waiting) : waiting[i] = Started + i
  BY <1>2, <1>7, <1>8 DEF Queues
<1>10. \A i \in 1..k : admitted'[i] = Started + i
  BY <1>3, <1>4, <1>9
<1>11. \A i \in 1..(Len(waiting) - k) : waiting'[i] = Started + k + i
  BY <1>3, <1>5, <1>8, <1>9
<1>12. /\ call' = call /\ running' = running /\ completed' = completed /\ newly' = newly
       /\ stopped' = stopped
  BY <1>2 DEF progress
<1>13. newly = {}
  BY <1>2 DEF Queues
<1>14. /\ \A i \in 1..Len(admitted') : admitted'[i] = Started' + i
       /\ \A i \in 1..Len(waiting') : waiting'[i] = Started' + Len(admitted') + i
       /\ Started' \in Nat
       /\ Cardinality(running') + Len(admitted') <= MaxBatch
  BY <1>1, <1>4, <1>5, <1>8, <1>10, <1>11, <1>12
<1>15. running' \cup completed' = 1..Started' /\ running' \cap completed' = {}
       /\ stopped' \subseteq completed'
  BY <1>2, <1>8, <1>12 DEF Queues
<1>. QED BY <1>2, <1>6, <1>12, <1>13, <1>14, <1>15 DEF Queues

\* The requests of a chunk run, or are complete with their first token.
LEMMA ChunkQueues ==
    ASSUME QueueTypes, Queues, NEW k \in 1..Len(admitted), PrefillChunk(k)
    PROVE  QueueTypes' /\ Queues'
<1>. DEFINE S == Chunk(k)
            over(stop) == {r \in S : Done(r, 1, r \in stop)}
<1>1. PICK stop \in SUBSET S :
          /\ gen' = [r \in Requests |-> IF r \in S THEN 1 ELSE gen[r]]
          /\ stopped' = stopped \cup stop
          /\ running' = running \cup (S \ over(stop))
          /\ completed' = completed \cup over(stop)
          /\ newly' = newly \cup over(stop)
  BY DEF PrefillChunk
<1>2. /\ call # "idle" /\ pc = "prefill"
      /\ admitted' = SubSeq(admitted, k + 1, Len(admitted))
      /\ UNCHANGED <<call, pc, outcome, params, waiting, delivered, calls>>
  BY DEF PrefillChunk
<1>a. Len(admitted) \in Nat /\ Len(waiting) \in Nat /\ Len(prompt) \in Nat
  BY Lengths
<1>3. k \in 0..Len(admitted) /\ k \in Nat /\ k <= Len(admitted) /\ Len(admitted) \in Nat
  BY <1>a
<1>4. /\ S = (Started+1)..(Started+k) /\ S \subseteq Requests
      /\ IsFiniteSet(S) /\ Cardinality(S) = k
      /\ S \cap running = {} /\ S \cap completed = {}
  BY <1>2, <1>3, ChunkIs
<1>. DEFINE done == over(stop)
<1>5. done \subseteq S /\ stop \subseteq done
  BY DEF Done
<1>6. /\ gen' = [r \in Requests |-> IF r \in S THEN 1 ELSE gen[r]]
      /\ stopped' = stopped \cup stop /\ running' = running \cup (S \ done)
      /\ completed' = completed \cup done /\ newly' = newly \cup done
  BY <1>1
<1>. HIDE DEF S, done
<1>7. /\ admitted' \in Seq(Requests) /\ Len(admitted') = Len(admitted) - k
      /\ \A i \in 1..(Len(admitted) - k) : admitted'[i] = admitted[k + i]
  <2>1. admitted \in Seq(Requests)
    BY DEF QueueTypes
  <2>. QED BY <1>2, <1>3, <2>1, Parts
<1>8. QueueTypes'
  BY <1>2, <1>4, <1>5, <1>6, <1>7 DEF QueueTypes, params
<1>b. prompt' = prompt /\ waiting' = waiting
  BY <1>2 DEF params
<1>c. Started \in Nat
  BY <1>2 DEF Queues
<1>9. /\ Started \in Nat /\ Len(prompt) \in Nat /\ Len(waiting) \in Nat
      /\ Started' = Started + k
  BY <1>a, <1>b, <1>c, <1>3, <1>7 DEF Started
<1>10. \A i \in 1..Len(admitted') : admitted'[i] = Started' + i
  <2>1. \A i \in 1..Len(admitted) : admitted[i] = Started + i
    BY <1>2 DEF Queues
  <2>. QED BY <1>3, <1>7, <1>9, <2>1
<1>11. \A i \in 1..Len(waiting') : waiting'[i] = Started' + Len(admitted') + i
  <2>1. \A i \in 1..Len(waiting) : waiting[i] = Started + Len(admitted) + i
    BY <1>2 DEF Queues
  <2>2. Started' + Len(admitted') = Started + Len(admitted)
    BY <1>3, <1>7, <1>9
  <2>. QED BY <1>b, <2>1, <2>2
<1>12. running' \cup completed' = 1..Started'
  <2>1. running \cup completed = 1..Started
    BY <1>2 DEF Queues
  <2>2. (1..Started) \cup S = 1..(Started + k)
    BY <1>3, <1>4, <1>9
  <2>. QED BY <1>5, <1>6, <1>9, <2>1, <2>2
<1>13. running' \cap completed' = {}
  BY <1>2, <1>4, <1>5, <1>6 DEF Queues
<1>14. Cardinality(running') + Len(admitted') <= MaxBatch
  <2>1. IsFiniteSet(running) /\ IsFiniteSet(S \ done)
    BY <1>4, RequestsFinite, FS_Subset DEF QueueTypes
  <2>2. /\ Cardinality(running \cup (S \ done)) =
              Cardinality(running) + Cardinality(S \ done)
                - Cardinality(running \cap (S \ done))
        /\ Cardinality(running) \in Nat /\ Cardinality(S \ done) \in Nat
    BY <2>1, FS_Union, FS_CardinalityType
  <2>3. running \cap (S \ done) = {}
    BY <1>4
  <2>4. Cardinality(running \cap (S \ done)) = 0
    BY <2>3, FS_EmptySet
  <2>. DEFINE rest == S \ done
  <2>5. Cardinality(rest) <= Cardinality(S)
    <3>1. rest \in SUBSET S
      OBVIOUS
    <3>. HIDE DEF rest
    <3>. QED BY <1>4, <3>1, FS_Subset
  <2>6. Cardinality(running) + Len(admitted) <= MaxBatch /\ MaxBatch \in Nat
    BY SchedulerAssumption DEF Queues
  <2>7. Cardinality(running') = Cardinality(running) + Cardinality(rest)
    BY <1>6, <2>2, <2>4
  <2>. HIDE DEF rest
  <2>8. Cardinality(rest) \in Nat /\ Cardinality(rest) <= k
    BY <1>4, <2>2, <2>5 DEF rest
  <2>. QED BY <1>3, <1>7, <2>2, <2>6, <2>7, <2>8
<1>15. stopped' \subseteq completed' /\ newly' \subseteq completed'
  BY <1>2, <1>5, <1>6 DEF Queues
<1>16. call' = call /\ pc' = pc /\ Started' \in Nat
  BY <1>2, <1>3, <1>9
<1>. QED BY <1>2, <1>8, <1>10, <1>11, <1>12, <1>13, <1>14, <1>15, <1>16 DEF Queues

LEMMA EndPrefillQueues ==
    ASSUME QueueTypes, Queues, EndPrefill
    PROVE  QueueTypes' /\ Queues'
<1>1. /\ call # "idle" /\ admitted = <<>>
      /\ UNCHANGED <<call, outcome, params, waiting, admitted, running, completed,
                     gen, stopped, calls>>
  BY DEF EndPrefill
<1>2. \/ /\ pc' \in {"between", "yield"} /\ newly' = {}
         /\ delivered' = [r \in Requests |->
                             IF r \in newly THEN delivered[r] + 1 ELSE delivered[r]]
      \/ pc' = "decode" /\ UNCHANGED <<newly, delivered>>
  BY DEF EndPrefill, Deliver
<1>3. delivered' \in [Requests -> Nat]
  <2>1. delivered \in [Requests -> Nat]
    BY DEF QueueTypes
  <2>2. \A r \in Requests : delivered[r] \in Nat /\ delivered[r] + 1 \in Nat
    BY <2>1
  <2>. QED BY <1>2, <2>1, <2>2
<1>4. newly' \subseteq newly
  BY <1>2
<1>5. QueueTypes'
  BY <1>1, <1>2, <1>3, <1>4 DEF QueueTypes, params
<1>6. Started' = Started
  BY <1>1 DEF Started, params
<1>. QED BY <1>1, <1>2, <1>4, <1>5, <1>6 DEF Queues, params

LEMMA StepsBound ==
    ASSUME QueueTypes, running # {}, \A r \in running : gen[r] < maxNew
    PROVE  Steps \in Nat \ {0} /\ \A r \in running : Steps <= maxNew - gen[r]
<1>1. \A r \in running : /\ gen[r] \in Nat /\ maxNew \in Nat
                         /\ maxNew - gen[r] \in Nat /\ 1 <= maxNew - gen[r]
  BY DEF QueueTypes
<1>2. CASE waiting = <<>>
  <2>. DEFINE left == {maxNew - gen[r] : r \in running}
              bounds == {burst} \cup left
  <2>1. burst \in Nat /\ burst # 0
    BY DEF QueueTypes
  <2>2. left \subseteq Nat /\ \A n \in left : 1 <= n
    BY <1>1
  <2>3. /\ bounds \in SUBSET Nat /\ bounds # {}
        /\ \A n \in bounds : 1 <= n
        /\ \A r \in running : maxNew - gen[r] \in bounds
    BY <2>1, <2>2
  <2>4. Steps = Min(bounds)
    BY <1>2 DEF Steps
  <2>. HIDE DEF left, bounds
  <2>5. Min(bounds) \in bounds /\ \A n \in bounds : Min(bounds) <= n
    BY <2>3, MinIsLeast
  <2>6. Min(bounds) \in Nat /\ 1 <= Min(bounds)
    BY <2>3, <2>5
  <2>7. \A r \in running : Min(bounds) <= maxNew - gen[r]
    BY <2>3, <2>5
  <2>8. Min(bounds) \in Nat \ {0}
    BY <2>6
  <2>. QED BY <2>4, <2>7, <2>8
<1>3. CASE waiting # <<>>
  BY <1>1, <1>3 DEF Steps
<1>. QED BY <1>2, <1>3

LEMMA DecodeQueues ==
    ASSUME QueueTypes, Queues, RunningIsDecodable, Decode
    PROVE  QueueTypes' /\ Queues'
<1>1. PICK take \in [running -> 1..Steps], stop \in SUBSET running :
          LET now  == [r \in Requests |-> IF r \in running THEN gen[r] + take[r] ELSE gen[r]]
              over == {r \in running : Done(r, now[r], r \in stop)}
          IN  /\ gen' = now
              /\ stopped' = stopped \cup stop
              /\ running' = running \ over
              /\ completed' = completed \cup over
              /\ Deliver(newly \cup over)
  BY DEF Decode
<1>. DEFINE now  == [r \in Requests |-> IF r \in running THEN gen[r] + take[r] ELSE gen[r]]
            over == {r \in running : Done(r, now[r], r \in stop)}
<1>2. /\ call # "idle" /\ pc = "decode"
      /\ UNCHANGED <<call, outcome, params, waiting, admitted, calls>>
  BY DEF Decode
<1>3. gen' \in [Requests -> Nat]
  <2>1. gen \in [Requests -> Nat]
    BY DEF QueueTypes
  <2>2. \A r \in running : take[r] \in Nat
    <3>. TAKE r \in running
    <3>1. Steps \in Nat
      BY StepsBound DEF RunningIsDecodable
    <3>. QED BY <3>1
  <2>3. \A r \in Requests : now[r] \in Nat
    BY <2>1, <2>2
  <2>. QED BY <1>1, <2>3
<1>4. over \subseteq running /\ stop \subseteq over
  BY DEF Done, QueueTypes
<1>5. /\ stopped' = stopped \cup stop /\ running' = running \ over
      /\ completed' = completed \cup over /\ Deliver(newly \cup over)
  BY <1>1
<1>. HIDE DEF now, over
<1>6. /\ pc' \in {"between", "yield"} /\ newly' = {}
      /\ delivered' = [r \in Requests |->
                          IF r \in newly \cup over THEN delivered[r] + 1 ELSE delivered[r]]
  BY <1>5 DEF Deliver
<1>7. delivered' \in [Requests -> Nat]
  <2>1. delivered \in [Requests -> Nat]
    BY DEF QueueTypes
  <2>2. \A r \in Requests : delivered[r] \in Nat /\ delivered[r] + 1 \in Nat
    BY <2>1
  <2>. QED BY <1>6, <2>1, <2>2
<1>8. /\ call' = call /\ outcome' = outcome /\ prompt' = prompt /\ maxNew' = maxNew
      /\ burst' = burst /\ waiting' = waiting /\ admitted' = admitted /\ calls' = calls
  BY <1>2 DEF params
<1>9. QueueTypes'
  BY <1>3, <1>4, <1>5, <1>6, <1>7, <1>8 DEF QueueTypes
<1>10. Started' = Started
  BY <1>8 DEF Started
<1>11. Cardinality(running') + Len(admitted') <= MaxBatch
  <2>. DEFINE rest == running \ over
  <2>1. running \in SUBSET Requests
    BY DEF QueueTypes
  <2>2. IsFiniteSet(running)
    BY <2>1, RequestsFinite, FS_Subset
  <2>3. rest \in SUBSET running
    OBVIOUS
  <2>4. running' = rest
    BY <1>5
  <2>. HIDE DEF rest
  <2>5. IsFiniteSet(rest) /\ Cardinality(rest) <= Cardinality(running)
    BY <2>2, <2>3, FS_Subset
  <2>6. Cardinality(rest) \in Nat /\ Cardinality(running) \in Nat
    BY <2>2, <2>5, FS_CardinalityType
  <2>7. Len(admitted) \in Nat /\ MaxBatch \in Nat
    BY Lengths
  <2>8. Cardinality(running) + Len(admitted) <= MaxBatch
    BY DEF Queues
  <2>. QED BY <1>8, <2>4, <2>5, <2>6, <2>7, <2>8
<1>. QED BY <1>2, <1>4, <1>5, <1>6, <1>8, <1>9, <1>10, <1>11 DEF Queues

\* Steps that leave the lists of the scheduler alone.
LEMMA OtherQueues ==
    ASSUME QueueTypes, Queues, Return \/ ContextStep
    PROVE  QueueTypes' /\ Queues'
<1>1. CASE ContextStep
  <2>1. UNCHANGED <<call, pc, outcome, params, queues, progress, calls>>
    BY <1>1 DEF ContextStep, FreeContext, PrefillContext
  <2>2. /\ call' = call /\ pc' = pc /\ outcome' = outcome /\ prompt' = prompt
        /\ maxNew' = maxNew /\ burst' = burst /\ calls' = calls
        /\ waiting' = waiting /\ admitted' = admitted /\ running' = running
        /\ completed' = completed /\ newly' = newly
        /\ gen' = gen /\ stopped' = stopped /\ delivered' = delivered
    BY <2>1 DEF params, queues, progress
  <2>. QED BY <2>2 DEF QueueTypes, Queues, Started
<1>2. CASE Return
  <2>1. /\ call' = "idle" /\ pc' = "between" /\ outcome' = "returned"
        /\ waiting = <<>> /\ running = {} /\ pc \in {"between", "yield"}
        /\ UNCHANGED <<params, queues, progress, calls>>
    BY <1>2 DEF Return, Resumable, HasPending
  <2>2. /\ prompt' = prompt /\ maxNew' = maxNew /\ burst' = burst /\ calls' = calls
        /\ waiting' = waiting /\ admitted' = admitted /\ running' = running
        /\ completed' = completed /\ newly' = newly
        /\ gen' = gen /\ stopped' = stopped /\ delivered' = delivered
    BY <2>1 DEF params, queues, progress
  <2>3. newly = {} /\ admitted = <<>>
    BY <2>1 DEF Queues
  <2>4. QueueTypes'
    BY <2>1, <2>2 DEF QueueTypes
  <2>. QED BY <2>1, <2>2, <2>3, <2>4 DEF Queues
<1>. QED BY <1>1, <1>2

-------------------------------------------------------------------------------
(* The pool. *)

PoolTypes ==
    /\ free \in Nat /\ blocks \in [Ids -> Nat]
    /\ owner \in [Ids -> {"nobody", "request", "context", "orphan"}]
    /\ kvLen \in [Ids -> Nat]

\* Only running requests and contexts own tables, each its own.
Owned ==
    /\ \A id \in Ids : owner[id] = "request" => id \in running
    /\ \A id \in Ids : owner[id] = "context" => id \in ContextIds

\* What the running requests hold and what the admitted ones will need fits the pool.
Reserved == pc = "prefill" => Held(running) + NeedOf(RangeOf(admitted)) <= NumBlocks

\* Enough blocks, and none too many, are counted for n tokens.
LEMMA BlocksFor ==
    ASSUME NEW n \in Nat \ {0}
    PROVE  /\ (n + BlockSize - 1) \div BlockSize \in Nat \ {0}
           /\ n <= ((n + BlockSize - 1) \div BlockSize) * BlockSize
BY SchedulerAssumption

LEMMA NeedFacts ==
    ASSUME QueueTypes, NEW r \in Submitted
    PROVE  /\ prompt[r] \in Nat \ {0} /\ Need(r) \in Nat \ {0}
           /\ prompt[r] + maxNew <= Need(r) * BlockSize
<1>1. prompt[r] \in Nat \ {0}
  <2>1. prompt \in Seq(PromptLens) /\ r \in 1..Len(prompt)
    BY Lengths DEF QueueTypes
  <2>2. prompt[r] \in PromptLens
    BY <2>1
  <2>. QED BY <2>2, SchedulerAssumption
<1>2. maxNew \in Nat
  BY DEF QueueTypes
<1>3. prompt[r] + maxNew \in Nat \ {0}
  BY <1>1, <1>2
<1>. DEFINE n == prompt[r] + maxNew
<1>4. Need(r) = (n + BlockSize - 1) \div BlockSize
  BY DEF Need
<1>5. n \in Nat \ {0}
  BY <1>3
<1>. HIDE DEF n
<1>6. Need(r) \in Nat \ {0} /\ n <= Need(r) * BlockSize
  BY <1>4, <1>5, BlocksFor
<1>. QED BY <1>1, <1>6 DEF n

LEMMA SubmittedFinite ==
    ASSUME QueueTypes
    PROVE  IsFiniteSet(Submitted) /\ Submitted \subseteq Requests /\ Submitted \subseteq Ids
<1>1. /\ Len(prompt) \in Nat /\ Submitted = 1..Len(prompt) /\ MaxRequests \in Nat
      /\ Len(prompt) <= MaxRequests
  BY Lengths DEF QueueTypes
<1>2. Submitted \subseteq Requests
  BY <1>1 DEF Requests
<1>. QED BY <1>2, RequestsFinite, FS_Subset

\* What a set of requests needs is made of what its parts need.
LEMMA NeedOfFacts ==
    ASSUME QueueTypes, NEW S \in SUBSET Submitted, NEW T \in SUBSET S
    PROVE  /\ NeedOf(S) \in Nat /\ NeedOf(T) \in Nat
           /\ NeedOf(S) = NeedOf(T) + NeedOf(S \ T)
           /\ NeedOf(T) <= NeedOf(S)
<1>. DEFINE need == [r \in Submitted |-> Need(r)]
<1>1. \A r \in Submitted : need[r] \in Nat
  BY NeedFacts
<1>2. ASSUME NEW R \in SUBSET Submitted PROVE NeedOf(R) = Total(need, R)
  <2>. DEFINE part == [r \in R |-> Need(r)]
  <2>1. \A r \in R : part[r] = need[r]
    OBVIOUS
  <2>2. NeedOf(R) = Total(part, R)
    BY DEF NeedOf
  <2>. HIDE DEF part, need
  <2>. QED BY <2>1, <2>2, TotalSame
<1>. HIDE DEF need
<1>3. IsFiniteSet(S) /\ IsFiniteSet(T)
  BY SubmittedFinite, FS_Subset
<1>4. Total(need, S) \in Nat /\ Total(need, T) \in Nat
  BY <1>1, <1>3, TotalType
<1>5. /\ Total(need, S) = Total(need, T) + Total(need, S \ T)
      /\ Total(need, T) <= Total(need, S)
  BY <1>1, <1>3, TotalSubset
<1>6. S \ T \in SUBSET Submitted /\ T \in SUBSET Submitted
  OBVIOUS
<1>. QED BY <1>2, <1>4, <1>5, <1>6

LEMMA HeldFacts ==
    ASSUME PoolTypes, NEW S \in SUBSET Ids
    PROVE  /\ Held(S) \in Nat /\ Held(Ids) \in Nat /\ Held(S) <= Held(Ids)
           /\ Held(Ids) = Held(S) + Held(Ids \ S)
<1>1. IsFiniteSet(Ids) /\ IsFiniteSet(S)
  BY RequestsFinite, FS_Subset
<1>2. \A id \in Ids : blocks[id] \in Nat
  BY DEF PoolTypes
<1>3. Total(blocks, S) \in Nat /\ Total(blocks, Ids) \in Nat
  BY <1>1, <1>2, TotalType
<1>4. /\ Total(blocks, S) <= Total(blocks, Ids)
      /\ Total(blocks, Ids) = Total(blocks, S) + Total(blocks, Ids \ S)
  BY <1>1, <1>2, TotalSubset
<1>. QED BY <1>3, <1>4 DEF Held

\* The sums after the tables of S were replaced.
LEMMA Replacing ==
    ASSUME PoolTypes, PoolAccounting, NEW S \in SUBSET Ids, NEW g \in [Ids -> Nat],
           \A id \in Ids \ S : g[id] = blocks[id]
    PROVE  /\ Total(g, S) \in Nat /\ Held(S) \in Nat
           /\ free + Held(S) - Total(g, S) + Total(g, Ids) = NumBlocks
<1>1. IsFiniteSet(Ids) /\ IsFiniteSet(S)
  BY RequestsFinite, FS_Subset
<1>2. \A id \in Ids : blocks[id] \in Nat /\ g[id] \in Nat
  BY DEF PoolTypes
<1>3. /\ Total(g, S) \in Nat /\ Total(blocks, S) \in Nat
      /\ Total(g, Ids) \in Nat /\ Total(blocks, Ids) \in Nat
  BY <1>1, <1>2, TotalType
<1>4. Total(g, Ids) = Total(blocks, Ids) - Total(blocks, S) + Total(g, S)
  BY <1>1, <1>2, TotalUpdate
<1>5. free + Total(blocks, Ids) = NumBlocks /\ free \in Nat
  BY DEF PoolTypes, PoolAccounting, Held
<1>. QED BY <1>3, <1>4, <1>5 DEF Held

LEMMA Allocating ==
    ASSUME QueueTypes, PoolTypes, PoolAccounting, NEW S \in SUBSET Submitted,
           \A r \in S : blocks[r] = 0, NeedOf(S) <= free,
           free' = free - NeedOf(S),
           blocks' = [id \in Ids |-> IF id \in S THEN Need(id) ELSE blocks[id]]
    PROVE  /\ free' \in Nat /\ blocks' \in [Ids -> Nat]
           /\ (free + Held(Ids) = NumBlocks)'
<1>1. S \in SUBSET Ids
  BY SubmittedFinite
<1>2. blocks' \in [Ids -> Nat]
  <2>1. \A id \in S : Need(id) \in Nat
    BY NeedFacts
  <2>. QED BY <2>1 DEF PoolTypes
<1>. DEFINE g == blocks'
<1>3. g \in [Ids -> Nat] /\ (\A id \in Ids \ S : g[id] = blocks[id])
      /\ \A id \in S : g[id] = Need(id)
  BY <1>1, <1>2
<1>. DEFINE need == [r \in S |-> Need(r)]
<1>4. NeedOf(S) = Total(need, S)
  BY DEF NeedOf
<1>5. \A r \in S : need[r] = g[r]
  BY <1>3
<1>6. Held(Ids)' = Total(g, Ids)
  BY DEF Held
<1>. HIDE DEF need, g
<1>7. NeedOf(S) = Total(g, S)
  BY <1>4, <1>5, TotalSame
<1>8. /\ Total(g, S) \in Nat /\ Held(S) \in Nat
      /\ free + Held(S) - Total(g, S) + Total(g, Ids) = NumBlocks
  BY <1>1, <1>3, Replacing
<1>9. Held(S) = 0
  BY TotalZero DEF Held
<1>10. free \in Nat
  BY DEF PoolTypes
<1>11. Total(g, Ids) \in Nat
  BY <1>3, RequestsFinite, TotalType
<1>12. free' \in Nat /\ free' + Total(g, Ids) = NumBlocks
  BY <1>7, <1>8, <1>9, <1>10, <1>11
<1>. QED BY <1>2, <1>6, <1>12

LEMMA Freeing ==
    ASSUME PoolTypes, PoolAccounting, NEW S \in SUBSET Ids,
           free' = free + Held(S),
           blocks' = [id \in Ids |-> IF id \in S THEN 0 ELSE blocks[id]]
    PROVE  /\ free' \in Nat /\ blocks' \in [Ids -> Nat]
           /\ (free + Held(Ids) = NumBlocks)'
<1>1. blocks' \in [Ids -> Nat]
  BY DEF PoolTypes
<1>. DEFINE g == blocks'
<1>2. g \in [Ids -> Nat] /\ (\A id \in Ids \ S : g[id] = blocks[id])
      /\ \A id \in S : g[id] = 0
  BY <1>1
<1>3. Held(Ids)' = Total(g, Ids)
  BY DEF Held
<1>. HIDE DEF g
<1>4. /\ Total(g, S) \in Nat /\ Held(S) \in Nat
      /\ free + Held(S) - Total(g, S) + Total(g, Ids) = NumBlocks
  BY <1>2, Replacing
<1>5. Total(g, S) = 0
  BY <1>2, TotalZero
<1>6. free \in Nat
  BY DEF PoolTypes
<1>7. free' \in Nat
  BY <1>4, <1>6
<1>8. Total(g, Ids) \in Nat
  BY <1>2, RequestsFinite, TotalType
<1>9. free' + Total(g, Ids) = NumBlocks
  BY <1>4, <1>5, <1>6, <1>8
<1>. QED BY <1>1, <1>3, <1>7, <1>9

\* What an ended call leaves in the pool is nobody's to decode.
LEMMA DroppedPool ==
    ASSUME PoolTypes, PoolAccounting, Owned,
           NEW how \in {"raised", "prefill_raised", "abandoned"}, Dropped(how),
           NEW own \in [Ids -> {"nobody", "request", "context", "orphan"}],
           owner' = Orphaned(own),
           free' \in Nat, blocks' \in [Ids -> Nat], kvLen' \in [Ids -> Nat],
           (free + Held(Ids) = NumBlocks)',
           \A id \in Ids : blocks'[id] = 0 <=> own[id] = "nobody",
           \A id \in Ids : own[id] = "context" => owner[id] = "context"
    PROVE  (PoolTypes /\ PoolAccounting /\ Owned /\ RunningIsDecodable /\ Reserved)'
<1>1. /\ owner' \in [Ids -> {"nobody", "request", "context", "orphan"}]
      /\ \A id \in Ids : /\ owner'[id] # "request"
                         /\ owner'[id] = "context" <=> own[id] = "context"
                         /\ owner'[id] = "nobody" <=> own[id] = "nobody"
  BY DEF Orphaned
<1>2. running' = {} /\ pc' = "between"
  BY DEF Dropped
<1>3. PoolTypes'
  BY <1>1 DEF PoolTypes
<1>4. PoolAccounting'
  BY <1>1 DEF PoolAccounting
<1>5. Owned'
  BY <1>1 DEF Owned
<1>6. RunningIsDecodable'
  BY <1>2 DEF RunningIsDecodable
<1>7. Reserved'
  BY <1>2 DEF Reserved
<1>. QED BY <1>3, <1>4, <1>5, <1>6, <1>7

Pool == PoolTypes /\ PoolAccounting /\ Owned /\ RunningIsDecodable /\ Reserved

\* A call that is abandoned, or whose decode step raises, keeps its tables.
LEMMA LeavePool ==
    ASSUME Pool, Abandon \/ DecodeRaises
    PROVE  Pool'
<1>1. PICK how \in {"raised", "prefill_raised", "abandoned"} : Dropped(how)
  BY DEF Abandon, DecodeRaises
<1>2. free' = free /\ blocks' = blocks /\ kvLen' = kvLen /\ owner' = Orphaned(owner)
  BY DEF Abandon, DecodeRaises
<1>3. /\ free' \in Nat /\ blocks' \in [Ids -> Nat] /\ kvLen' \in [Ids -> Nat]
      /\ owner \in [Ids -> {"nobody", "request", "context", "orphan"}]
  BY <1>2 DEF Pool, PoolTypes
<1>4. (free + Held(Ids) = NumBlocks)'
  BY <1>2 DEF Pool, PoolAccounting, Held
<1>5. \A id \in Ids : blocks'[id] = 0 <=> owner[id] = "nobody"
  BY <1>2 DEF Pool, PoolAccounting
<1>. QED BY <1>1, <1>2, <1>3, <1>4, <1>5, DroppedPool DEF Pool

LEMMA PrefillRaisesPool ==
    ASSUME QueueTypes, Queues, Pool, NEW k \in 1..Len(admitted), PrefillRaises(k)
    PROVE  Pool'
<1>. DEFINE S == Chunk(k)
            own == [id \in Ids |-> IF id \in S THEN "nobody" ELSE owner[id]]
<1>1. /\ call # "idle" /\ Dropped("prefill_raised")
      /\ free' = free + Held(S)
      /\ blocks' = [id \in Ids |-> IF id \in S THEN 0 ELSE blocks[id]]
      /\ kvLen' = [id \in Ids |-> IF id \in S THEN 0 ELSE kvLen[id]]
      /\ owner' = Orphaned(own)
  BY DEF PrefillRaises, Abort
<1>2. S \in SUBSET Ids
  <2>1. k \in 0..Len(admitted)
    BY Lengths
  <2>. QED BY <1>1, <2>1, ChunkIs, RequestsFinite
<1>3. own \in [Ids -> {"nobody", "request", "context", "orphan"}]
  BY DEF Pool, PoolTypes
<1>4. kvLen' \in [Ids -> Nat]
  BY <1>1 DEF Pool, PoolTypes
<1>5. \A id \in Ids : own[id] = "context" => owner[id] = "context"
  OBVIOUS
<1>6. \A id \in Ids : blocks'[id] = 0 <=> own[id] = "nobody"
  BY <1>1 DEF Pool, PoolAccounting
<1>. HIDE DEF S, own
<1>7. /\ free' \in Nat /\ blocks' \in [Ids -> Nat]
      /\ (free + Held(Ids) = NumBlocks)'
  BY <1>1, <1>2, Freeing DEF Pool
<1>. QED BY <1>1, <1>3, <1>4, <1>5, <1>6, <1>7, DroppedPool DEF Pool

\* A chunk that can be allocated.
LEMMA ChunkFits ==
    ASSUME QueueTypes, Queues, call # "idle", NEW k \in 1..Len(admitted), CanAllocate(k)
    PROVE  /\ Chunk(k) \in SUBSET Submitted /\ NeedOf(Chunk(k)) <= free
           /\ \A r \in Chunk(k) : blocks[r] = 0
<1>1. k \in 0..Len(admitted) /\ k \in 1..k
  BY Lengths
<1>2. Chunk(k) \in SUBSET Submitted
  BY <1>1, ChunkIs
<1>. QED BY <1>1, <1>2 DEF CanAllocate, Chunk

LEMMA SampleRaisesPool ==
    ASSUME QueueTypes, Queues, Pool, NEW k \in 1..Len(admitted), SampleRaises(k)
    PROVE  Pool'
<1>a. PICK before \in 0..(k-1) : \E stop \in SUBSET Chunk(before) :
          LET kept == {r \in Chunk(k) : ~(r \in Chunk(before) /\ Done(r, 1, r \in stop))}
          IN  /\ free' = free - NeedOf(kept)
              /\ blocks' = [id \in Ids |-> IF id \in kept THEN Need(id) ELSE blocks[id]]
              /\ kvLen' = [id \in Ids |-> IF id \in kept THEN prompt[id] ELSE kvLen[id]]
              /\ owner' = Orphaned([id \in Ids |-> IF id \in kept THEN "request"
                                                                  ELSE owner[id]])
  BY DEF SampleRaises
<1>1. PICK stop \in SUBSET Chunk(before) :
          LET kept == {r \in Chunk(k) : ~(r \in Chunk(before) /\ Done(r, 1, r \in stop))}
          IN  /\ free' = free - NeedOf(kept)
              /\ blocks' = [id \in Ids |-> IF id \in kept THEN Need(id) ELSE blocks[id]]
              /\ kvLen' = [id \in Ids |-> IF id \in kept THEN prompt[id] ELSE kvLen[id]]
              /\ owner' = Orphaned([id \in Ids |-> IF id \in kept THEN "request"
                                                                  ELSE owner[id]])
  BY <1>a
<1>. DEFINE kept == {r \in Chunk(k) : ~(r \in Chunk(before) /\ Done(r, 1, r \in stop))}
            own == [id \in Ids |-> IF id \in kept THEN "request" ELSE owner[id]]
<1>2. call # "idle" /\ CanAllocate(k) /\ Dropped("raised")
  BY DEF SampleRaises
<1>3. kept \in SUBSET Chunk(k)
  OBVIOUS
<1>4. /\ free' = free - NeedOf(kept)
      /\ blocks' = [id \in Ids |-> IF id \in kept THEN Need(id) ELSE blocks[id]]
      /\ kvLen' = [id \in Ids |-> IF id \in kept THEN prompt[id] ELSE kvLen[id]]
      /\ owner' = Orphaned(own)
  BY <1>1
<1>. HIDE DEF kept
<1>5. /\ Chunk(k) \in SUBSET Submitted /\ NeedOf(Chunk(k)) <= free
      /\ \A r \in Chunk(k) : blocks[r] = 0
  BY <1>2, ChunkFits
<1>6. NeedOf(kept) <= free
  <2>1. NeedOf(kept) \in Nat /\ NeedOf(Chunk(k)) \in Nat /\ NeedOf(kept) <= NeedOf(Chunk(k))
    BY <1>3, <1>5, NeedOfFacts
  <2>2. free \in Nat
    BY DEF Pool, PoolTypes
  <2>. QED BY <1>5, <2>1, <2>2
<1>7. kept \in SUBSET Submitted /\ \A r \in kept : blocks[r] = 0
  BY <1>3, <1>5
<1>8. /\ free' \in Nat /\ blocks' \in [Ids -> Nat]
      /\ (free + Held(Ids) = NumBlocks)'
  BY <1>4, <1>6, <1>7, Allocating DEF Pool
<1>9. own \in [Ids -> {"nobody", "request", "context", "orphan"}]
  BY DEF Pool, PoolTypes
<1>10. \A r \in kept : Need(r) \in Nat \ {0} /\ prompt[r] \in Nat
  BY <1>7, NeedFacts
<1>11. kvLen' \in [Ids -> Nat]
  BY <1>4, <1>10 DEF Pool, PoolTypes
<1>12. \A id \in Ids : own[id] = "context" => owner[id] = "context"
  OBVIOUS
<1>13. \A id \in Ids : blocks'[id] = 0 <=> own[id] = "nobody"
  <2>1. \A id \in Ids : blocks[id] = 0 <=> owner[id] = "nobody"
    BY DEF Pool, PoolAccounting
  <2>. QED BY <1>4, <1>10, <2>1
<1>. HIDE DEF own
<1>. QED BY <1>2, <1>4, <1>8, <1>9, <1>11, <1>12, <1>13, DroppedPool DEF Pool

LEMMA StillPool ==
    ASSUME QueueTypes, Queues, Pool,
           (\E kind \in {"batch", "stream"} : Submit(kind)) \/ Return \/ EndPrefill
    PROVE  Pool'
<1>1. /\ free' = free /\ blocks' = blocks /\ owner' = owner /\ kvLen' = kvLen
      /\ pc' # "prefill"
  BY DEF Submit, Return, EndPrefill, Deliver, pool
<1>2. (\A id \in Ids : owner[id] = "request" => id \in running') /\ RunningIsDecodable'
  <2>1. CASE \E kind \in {"batch", "stream"} : Submit(kind)
    <3>1. call = "idle" /\ running' = {}
      BY <2>1 DEF Submit
    <3>2. running = {}
      BY <3>1 DEF Queues
    <3>. QED BY <3>1, <3>2 DEF Pool, Owned, RunningIsDecodable
  <2>2. CASE Return \/ EndPrefill
    <3>1. /\ running' = running /\ prompt' = prompt /\ maxNew' = maxNew
          /\ gen' = gen /\ stopped' = stopped
      BY <2>2 DEF Return, EndPrefill, queues, params, progress
    <3>. QED BY <1>1, <3>1 DEF Pool, Owned, RunningIsDecodable
  <2>. QED BY <2>1, <2>2
<1>3. PoolTypes'
  BY <1>1 DEF Pool, PoolTypes
<1>4. PoolAccounting'
  BY <1>1 DEF Pool, PoolAccounting, Held
<1>5. Owned'
  BY <1>1, <1>2 DEF Pool, Owned
<1>6. Reserved'
  BY <1>1 DEF Reserved
<1>. QED BY <1>2, <1>3, <1>4, <1>5, <1>6 DEF Pool

\* Admission reserves what the admitted requests will need.
LEMMA BeginPool ==
    ASSUME QueueTypes, Queues, Pool, BeginStep
    PROVE  Pool'
<1>1. /\ free' = free /\ blocks' = blocks /\ owner' = owner /\ kvLen' = kvLen
      /\ running' = running /\ prompt' = prompt /\ maxNew' = maxNew
      /\ gen' = gen /\ stopped' = stopped
  BY DEF BeginStep, pool, params, progress
<1>2. (PoolTypes /\ PoolAccounting /\ Owned /\ RunningIsDecodable)'
  BY <1>1 DEF Pool, PoolTypes, PoolAccounting, Held, Owned, RunningIsDecodable
<1>3. PICK k \in 0..Len(waiting) : Fits(k) /\ admitted' = SubSeq(waiting, 1, k)
  BY CollectFacts DEF BeginStep
<1>4. waiting \in Seq(Requests)
  BY DEF QueueTypes
<1>5. /\ k \in Nat /\ admitted' \in Seq(Requests) /\ Len(admitted') = k
      /\ \A i \in 1..k : admitted'[i] = waiting[i]
  BY <1>3, <1>4, Parts
<1>6. RangeOf(admitted') = {waiting[i] : i \in 1..k}
  BY <1>5 DEF RangeOf
<1>7. Held(running) + NeedOf({waiting[i] : i \in 1..k}) <= NumBlocks
  <2>1. CASE k = 0
    <3>1. {waiting[i] : i \in 1..k} = {}
      BY <2>1
    <3>2. NeedOf({}) = 0
      BY TotalZero DEF NeedOf
    <3>3. running \in SUBSET Ids
      BY RequestsFinite DEF QueueTypes
    <3>4. Held(running) \in Nat /\ Held(Ids) \in Nat /\ Held(running) <= Held(Ids)
      BY <3>3, HeldFacts DEF Pool
    <3>5. free \in Nat /\ free + Held(Ids) = NumBlocks
      BY DEF Pool, PoolTypes, PoolAccounting
    <3>6. Held(running) <= NumBlocks
      BY <3>4, <3>5, SchedulerAssumption
    <3>. DEFINE chosen == {waiting[i] : i \in 1..k}
    <3>7. NeedOf(chosen) = 0
      BY <3>1, <3>2
    <3>. HIDE DEF chosen
    <3>8. Held(running) + NeedOf(chosen) <= NumBlocks
      BY <3>4, <3>6, <3>7
    <3>. QED BY <3>8 DEF chosen
  <2>2. CASE k # 0
    <3>1. k \in 1..k
      BY <1>5, <2>2
    <3>. QED BY <1>3, <3>1 DEF Fits
  <2>. QED BY <2>1, <2>2
<1>8. Held(running)' = Held(running)
  BY <1>1 DEF Held
<1>9. NeedOf(RangeOf(admitted))' = NeedOf(RangeOf(admitted'))
  BY <1>1 DEF NeedOf, Need, RangeOf
<1>10. Reserved'
  BY <1>6, <1>7, <1>8, <1>9 DEF Reserved
<1>. QED BY <1>2, <1>10 DEF Pool

LEMMA ChunkPool ==
    ASSUME QueueTypes, Queues, Pool, NEW k \in 1..Len(admitted), PrefillChunk(k)
    PROVE  Pool'
<1>. DEFINE over(stop) == {r \in Chunk(k) : Done(r, 1, r \in stop)}
<1>1. PICK stop \in SUBSET Chunk(k) :
          /\ gen' = [r \in Requests |-> IF r \in Chunk(k) THEN 1 ELSE gen[r]]
          /\ stopped' = stopped \cup stop
          /\ AllocateAndPrefill(Chunk(k) \ over(stop))
          /\ running' = running \cup (Chunk(k) \ over(stop))
  BY DEF PrefillChunk
<1>. DEFINE S == Chunk(k) \ over(stop)
<1>2. /\ call # "idle" /\ pc = "prefill" /\ pc' = pc /\ CanAllocate(k)
      /\ admitted' = SubSeq(admitted, k + 1, Len(admitted))
      /\ prompt' = prompt /\ maxNew' = maxNew
  BY DEF PrefillChunk, params
<1>3. k \in 0..Len(admitted) /\ Len(admitted) \in 0..Len(admitted) /\ k \in Nat
  BY Lengths
<1>4. /\ Chunk(k) \in SUBSET Submitted /\ NeedOf(Chunk(k)) <= free
      /\ \A r \in Chunk(k) : blocks[r] = 0
  BY <1>2, ChunkFits
<1>5. /\ Chunk(k) \cap running = {} /\ Chunk(k) \cap completed = {}
      /\ Chunk(k) \subseteq Requests
      /\ RangeOf(admitted) = Chunk(Len(admitted))
      /\ RangeOf(admitted) \in SUBSET Submitted
  BY <1>2, <1>3, ChunkIs
<1>6. /\ S \in SUBSET Chunk(k)
      /\ \A r \in S : 1 < maxNew /\ r \notin stop
  BY DEF Done, QueueTypes
<1>7. /\ gen' = [r \in Requests |-> IF r \in Chunk(k) THEN 1 ELSE gen[r]]
      /\ stopped' = stopped \cup stop
      /\ free' = free - NeedOf(S)
      /\ blocks' = [id \in Ids |-> IF id \in S THEN Need(id) ELSE blocks[id]]
      /\ owner' = [id \in Ids |-> IF id \in S THEN "request" ELSE owner[id]]
      /\ kvLen' = [id \in Ids |-> IF id \in S THEN prompt[id] ELSE kvLen[id]]
      /\ running' = running \cup S
  BY <1>1 DEF AllocateAndPrefill
<1>. HIDE DEF S
<1>8. /\ NeedOf(S) \in Nat /\ NeedOf(Chunk(k)) \in Nat /\ NeedOf(S) <= NeedOf(Chunk(k))
  BY <1>4, <1>6, NeedOfFacts
<1>9. NeedOf(S) <= free
  <2>1. free \in Nat
    BY DEF Pool, PoolTypes
  <2>. QED BY <1>4, <1>8, <2>1
<1>10. S \in SUBSET Submitted /\ S \subseteq Ids /\ S \subseteq Requests
       /\ \A r \in S : blocks[r] = 0
  BY <1>4, <1>5, <1>6, RequestsFinite
<1>11. /\ free' \in Nat /\ blocks' \in [Ids -> Nat]
       /\ (free + Held(Ids) = NumBlocks)'
  BY <1>7, <1>9, <1>10, Allocating DEF Pool
<1>12. \A r \in S : /\ Need(r) \in Nat \ {0} /\ prompt[r] \in Nat \ {0}
                    /\ prompt[r] + maxNew <= Need(r) * BlockSize
  BY <1>10, NeedFacts
<1>13. PoolTypes'
  <2>1. kvLen' \in [Ids -> Nat]
    BY <1>7, <1>12 DEF Pool, PoolTypes
  <2>2. owner' \in [Ids -> {"nobody", "request", "context", "orphan"}]
    BY <1>7 DEF Pool, PoolTypes
  <2>. QED BY <1>11, <2>1, <2>2 DEF PoolTypes
<1>14. PoolAccounting'
  <2>1. \A id \in Ids : blocks[id] = 0 <=> owner[id] = "nobody"
    BY DEF Pool, PoolAccounting
  <2>2. \A id \in Ids : blocks'[id] = 0 <=> owner'[id] = "nobody"
    BY <1>7, <1>12, <2>1
  <2>. QED BY <1>11, <2>2 DEF PoolAccounting
<1>15. Owned'
  <2>1. /\ \A id \in Ids : owner[id] = "request" => id \in running
        /\ \A id \in Ids : owner[id] = "context" => id \in ContextIds
    BY DEF Pool, Owned
  <2>. QED BY <1>7, <2>1 DEF Owned
<1>16. RunningIsDecodable'
  <2>. SUFFICES ASSUME NEW r \in running'
                PROVE  /\ owner'[r] = "request"
                       /\ kvLen'[r] = prompt[r] + gen'[r] - 1
                       /\ gen'[r] < maxNew /\ r \notin stopped'
                       /\ prompt[r] + maxNew <= blocks'[r] * BlockSize
    BY <1>2 DEF RunningIsDecodable
  <2>1. CASE r \in S
    <3>1. /\ owner'[r] = "request" /\ kvLen'[r] = prompt[r] /\ gen'[r] = 1
          /\ blocks'[r] = Need(r)
      BY <1>6, <1>7, <1>10, <2>1
    <3>2. r \notin stopped'
      <4>1. stopped \subseteq completed
        BY <1>2 DEF Queues
      <4>2. r \notin completed
        BY <1>5, <1>6, <2>1
      <4>. QED BY <1>6, <1>7, <2>1, <4>1, <4>2
    <3>3. kvLen'[r] = prompt[r] + gen'[r] - 1
      BY <1>12, <2>1, <3>1
    <3>. QED BY <1>6, <1>12, <2>1, <3>1, <3>2, <3>3
  <2>2. CASE r \in running
    <3>1. r \notin Chunk(k) /\ r \in Requests /\ r \in Ids
      BY <1>5, <2>2, RequestsFinite DEF QueueTypes
    <3>2. r \notin S /\ r \notin stop
      BY <1>6, <3>1
    <3>3. /\ owner'[r] = owner[r] /\ kvLen'[r] = kvLen[r] /\ gen'[r] = gen[r]
          /\ blocks'[r] = blocks[r] /\ (r \in stopped' => r \in stopped)
      BY <1>7, <3>1, <3>2
    <3>4. /\ owner[r] = "request" /\ kvLen[r] = prompt[r] + gen[r] - 1
          /\ gen[r] < maxNew /\ r \notin stopped
          /\ prompt[r] + maxNew <= blocks[r] * BlockSize
      BY <2>2 DEF Pool, RunningIsDecodable
    <3>. QED BY <3>3, <3>4
  <2>. QED BY <1>7, <2>1, <2>2
<1>17. Reserved'
  <2>. DEFINE rest == RangeOf(admitted) \ Chunk(k)
  <2>1. RangeOf(admitted') = rest
    <3>1. admitted \in Seq(Requests)
      BY DEF QueueTypes
    <3>2. /\ Len(admitted) \in Nat /\ Len(admitted') = Len(admitted) - k
          /\ DOMAIN admitted' = 1..Len(admitted')
          /\ \A i \in 1..(Len(admitted) - k) : admitted'[i] = admitted[k + i]
      BY <1>2, <1>3, <3>1, Parts
    <3>3. /\ Started \in Nat /\ \A i \in 1..Len(admitted) : admitted[i] = Started + i
      BY <1>2 DEF Queues
    <3>4. \A i \in 1..(Len(admitted) - k) : admitted'[i] = Started + (k + i)
      BY <1>3, <3>2, <3>3
    <3>5. RangeOf(admitted) = (Started+1)..(Started+Len(admitted))
          /\ Chunk(k) = (Started+1)..(Started+k)
      BY <1>2, <1>3, <1>5, ChunkIs
    <3>6. rest = (Started+k+1)..(Started+Len(admitted))
      BY <1>3, <3>2, <3>3, <3>5
    <3>. HIDE DEF rest
    <3>7. \A i \in 1..Len(admitted') : admitted'[i] \in rest
      BY <1>3, <3>2, <3>3, <3>4, <3>6
    <3>8. ASSUME NEW r \in rest PROVE r \in RangeOf(admitted')
      <4>1. r \in Int /\ Started + k + 1 <= r /\ r <= Started + Len(admitted)
        BY <1>3, <3>2, <3>3, <3>6
      <4>. DEFINE j == r - Started - k
      <4>2. j \in 1..(Len(admitted) - k) /\ r = Started + (k + j)
        BY <1>3, <3>2, <3>3, <4>1
      <4>. HIDE DEF j
      <4>3. admitted'[j] = r
        BY <3>4, <4>2
      <4>. QED BY <3>2, <4>2, <4>3 DEF RangeOf
    <3>. QED BY <3>2, <3>7, <3>8 DEF RangeOf
  <2>2. NeedOf(RangeOf(admitted))' = NeedOf(RangeOf(admitted'))
    BY <1>2 DEF NeedOf, Need, RangeOf
  <2>3. Chunk(k) \in SUBSET RangeOf(admitted)
    BY <1>3 DEF Chunk, RangeOf
  <2>4. /\ NeedOf(RangeOf(admitted)) = NeedOf(Chunk(k)) + NeedOf(rest)
        /\ NeedOf(rest) \in Nat
    <3>1. rest \in SUBSET RangeOf(admitted)
      OBVIOUS
    <3>2. NeedOf(RangeOf(admitted)) = NeedOf(Chunk(k)) + NeedOf(RangeOf(admitted) \ Chunk(k))
      BY <1>5, <2>3, NeedOfFacts
    <3>3. NeedOf(rest) \in Nat
      BY <1>5, <3>1, NeedOfFacts
    <3>. QED BY <3>2, <3>3
  <2>5. Held(running)' = Held(running) + NeedOf(S)
    <3>. DEFINE g == blocks'
                need == [r \in S |-> Need(r)]
    <3>1. running \in SUBSET Ids /\ running \cap S = {} /\ IsFiniteSet(running)
          /\ IsFiniteSet(S)
      BY <1>5, <1>6, <1>10, RequestsFinite, FS_Subset DEF QueueTypes
    <3>2. /\ \A r \in running : g[r] = blocks[r]
          /\ \A r \in S : g[r] = need[r]
          /\ \A r \in running \cup S : g[r] \in Nat
      BY <1>7, <1>10, <1>11, <3>1
    <3>3. Held(running)' = Total(g, running \cup S)
      BY <1>7 DEF Held
    <3>4. NeedOf(S) = Total(need, S)
      BY DEF NeedOf
    <3>. HIDE DEF g, need
    <3>5. Total(g, running \cup S) = Total(g, running) + Total(g, S)
      BY <3>1, <3>2, TotalUnion
    <3>6. Total(g, running) = Total(blocks, running) /\ Total(g, S) = Total(need, S)
      BY <3>2, TotalSame
    <3>. QED BY <3>3, <3>4, <3>5, <3>6 DEF Held
  <2>6. Held(running) \in Nat /\ Held(running) + NeedOf(RangeOf(admitted)) <= NumBlocks
    <3>1. running \in SUBSET Ids
      BY RequestsFinite DEF QueueTypes
    <3>2. Held(running) \in Nat
      BY <3>1, HeldFacts DEF Pool
    <3>. QED BY <1>2, <3>2 DEF Pool, Reserved
  <2>. HIDE DEF rest
  <2>7. Held(running)' + NeedOf(rest) <= NumBlocks
    BY <1>8, <2>4, <2>5, <2>6, SchedulerAssumption
  <2>. QED BY <2>1, <2>2, <2>7 DEF Reserved
<1>. QED BY <1>13, <1>14, <1>15, <1>16, <1>17 DEF Pool

LEMMA DecodePool ==
    ASSUME QueueTypes, Queues, Pool, Decode
    PROVE  Pool'
<1>1. PICK take \in [running -> 1..Steps], stop \in SUBSET running :
          LET now  == [r \in Requests |-> IF r \in running THEN gen[r] + take[r] ELSE gen[r]]
              over == {r \in running : Done(r, now[r], r \in stop)}
          IN  /\ \A r \in running : r \in stop \/ take[r] = Steps
              /\ gen' = now
              /\ stopped' = stopped \cup stop
              /\ free' = free + Held(over)
              /\ blocks' = [id \in Ids |-> IF id \in over THEN 0 ELSE blocks[id]]
              /\ owner' = [id \in Ids |-> IF id \in over THEN "nobody" ELSE owner[id]]
              /\ kvLen' = [id \in Ids |-> IF id \in over THEN 0
                                          ELSE IF id \in running THEN kvLen[id] + Steps
                                          ELSE kvLen[id]]
              /\ running' = running \ over
              /\ Deliver(newly \cup over)
  BY DEF Decode
<1>. DEFINE now  == [r \in Requests |-> IF r \in running THEN gen[r] + take[r] ELSE gen[r]]
            over == {r \in running : Done(r, now[r], r \in stop)}
<1>2. /\ prompt' = prompt /\ maxNew' = maxNew
  BY DEF Decode, params
<1>3. pc' # "prefill"
  BY <1>1 DEF Deliver
<1>4. running \subseteq Requests /\ running \subseteq Ids /\ gen \in [Requests -> Nat]
      /\ maxNew \in Nat
  BY RequestsFinite DEF QueueTypes
<1>5. \A r \in running : Steps \in Nat \ {0} /\ take[r] \in 1..Steps /\ take[r] \in Nat
  <2>. TAKE r \in running
  <2>1. Steps \in Nat \ {0}
    BY StepsBound DEF Pool, RunningIsDecodable
  <2>. QED BY <2>1
<1>6. over \in SUBSET running
      /\ \A r \in running \ over : /\ take[r] = Steps /\ r \notin stop
                                   /\ now[r] < maxNew /\ now[r] = gen[r] + Steps
  <2>1. over \in SUBSET running
    OBVIOUS
  <2>. SUFFICES ASSUME NEW r \in running, r \notin over
                PROVE  /\ take[r] = Steps /\ r \notin stop
                       /\ now[r] < maxNew /\ now[r] = gen[r] + Steps
    BY <2>1
  <2>2. ~(now[r] >= maxNew) /\ r \notin stop
    BY DEF Done
  <2>3. take[r] = Steps
    BY <1>1, <2>2
  <2>4. now[r] = gen[r] + take[r]
    BY <1>4
  <2>5. now[r] \in Nat
    BY <1>4, <1>5, <2>4
  <2>6. now[r] < maxNew
    BY <1>4, <2>2, <2>5
  <2>. QED BY <2>2, <2>3, <2>4, <2>6
<1>7. /\ gen' = now /\ stopped' = stopped \cup stop
      /\ free' = free + Held(over)
      /\ blocks' = [id \in Ids |-> IF id \in over THEN 0 ELSE blocks[id]]
      /\ owner' = [id \in Ids |-> IF id \in over THEN "nobody" ELSE owner[id]]
      /\ kvLen' = [id \in Ids |-> IF id \in over THEN 0
                                  ELSE IF id \in running THEN kvLen[id] + Steps
                                  ELSE kvLen[id]]
      /\ running' = running \ over
  BY <1>1
<1>. HIDE DEF now, over
<1>8. over \in SUBSET Ids
  BY <1>4, <1>6
<1>9. /\ free' \in Nat /\ blocks' \in [Ids -> Nat]
      /\ (free + Held(Ids) = NumBlocks)'
  BY <1>7, <1>8, Freeing DEF Pool
<1>10. PoolTypes'
  <2>1. kvLen' \in [Ids -> Nat]
    <3>1. kvLen \in [Ids -> Nat]
      BY DEF Pool, PoolTypes
    <3>2. \A r \in running : kvLen[r] + Steps \in Nat
      BY <1>4, <1>5, <3>1
    <3>. QED BY <1>7, <3>1, <3>2
  <2>2. owner' \in [Ids -> {"nobody", "request", "context", "orphan"}]
    BY <1>7 DEF Pool, PoolTypes
  <2>. QED BY <1>9, <2>1, <2>2 DEF PoolTypes
<1>11. PoolAccounting'
  <2>1. \A id \in Ids : blocks[id] = 0 <=> owner[id] = "nobody"
    BY DEF Pool, PoolAccounting
  <2>2. \A id \in Ids : blocks'[id] = 0 <=> owner'[id] = "nobody"
    BY <1>7, <2>1
  <2>. QED BY <1>9, <2>2 DEF PoolAccounting
<1>12. Owned'
  <2>1. /\ \A id \in Ids : owner[id] = "request" => id \in running
        /\ \A id \in Ids : owner[id] = "context" => id \in ContextIds
    BY DEF Pool, Owned
  <2>. QED BY <1>7, <2>1 DEF Owned
<1>13. RunningIsDecodable'
  <2>. SUFFICES ASSUME NEW r \in running \ over
                PROVE  /\ owner'[r] = "request"
                       /\ kvLen'[r] = prompt[r] + gen'[r] - 1
                       /\ gen'[r] < maxNew /\ r \notin stopped'
                       /\ prompt[r] + maxNew <= blocks'[r] * BlockSize
    BY <1>2, <1>7 DEF RunningIsDecodable
  <2>1. /\ owner[r] = "request" /\ kvLen[r] = prompt[r] + gen[r] - 1
        /\ r \notin stopped /\ prompt[r] + maxNew <= blocks[r] * BlockSize
    BY DEF Pool, RunningIsDecodable
  <2>2. /\ owner'[r] = owner[r] /\ kvLen'[r] = kvLen[r] + Steps
        /\ blocks'[r] = blocks[r] /\ gen'[r] = gen[r] + Steps
        /\ gen'[r] < maxNew
    BY <1>4, <1>6, <1>7
  <2>3. r \notin stopped'
    BY <1>6, <1>7, <2>1
  <2>4. prompt[r] \in Nat /\ gen[r] \in Nat /\ Steps \in Nat
    <3>1. r \in Submitted
      <4>1. call # "idle" /\ 0 \in 0..Len(admitted)
        BY Lengths DEF Decode
      <4>2. Started + Len(admitted) + Len(waiting) = Len(prompt) /\ Submitted = 1..Len(prompt)
        BY <4>1, ChunkIs
      <4>3. running \cup completed = 1..Started /\ Started \in Nat
        BY <4>1 DEF Queues
      <4>4. Len(admitted) \in Nat /\ Len(waiting) \in Nat /\ Len(prompt) \in Nat
        BY Lengths
      <4>5. 1..Started \subseteq 1..Len(prompt)
        BY <4>2, <4>3, <4>4
      <4>. QED BY <4>2, <4>3, <4>5
    <3>. QED BY <1>4, <1>5, <3>1, NeedFacts
  <2>5. kvLen'[r] = prompt[r] + gen'[r] - 1
    BY <2>1, <2>2, <2>4
  <2>. QED BY <2>1, <2>2, <2>3, <2>5
<1>14. Reserved'
  BY <1>3 DEF Reserved
<1>. QED BY <1>10, <1>11, <1>12, <1>13, <1>14 DEF Pool

LEMMA ContextPool ==
    ASSUME QueueTypes, Queues, Pool, ContextStep
    PROVE  /\ Pool'
           /\ \A id \in Ids : owner'[id] = "request" <=> owner[id] = "request"
<1>1. PICK id \in ContextIds : FreeContext(id) \/ \E n \in ContextBlocks : PrefillContext(id, n)
  BY DEF ContextStep
<1>2. /\ prompt' = prompt /\ maxNew' = maxNew /\ gen' = gen /\ stopped' = stopped
      /\ running' = running /\ pc' = pc
      /\ call = "idle" \/ pc = "yield"
  BY <1>1 DEF FreeContext, PrefillContext, CallerRuns, params, queues, progress
<1>3. id \in Ids /\ {id} \in SUBSET Ids
  BY RequestsFinite
<1>4. pc' # "prefill"
  BY <1>2 DEF Queues
<1>5. Reserved'
  BY <1>4 DEF Reserved
<1>6. /\ free' \in Nat /\ blocks' \in [Ids -> Nat]
      /\ (free + Held(Ids) = NumBlocks)'
      /\ owner' \in [Ids -> {"nobody", "request", "context", "orphan"}]
      /\ kvLen' \in [Ids -> Nat]
      /\ owner'[id] \in {"nobody", "context"}
      /\ (blocks'[id] = 0 <=> owner'[id] = "nobody")
      /\ owner[id] # "request"
      /\ \A x \in Ids \ {id} : /\ owner'[x] = owner[x] /\ blocks'[x] = blocks[x]
                               /\ kvLen'[x] = kvLen[x]
  <2>1. CASE FreeContext(id)
    <3>1. /\ owner[id] = "context"
          /\ free' = free + Held({id})
          /\ blocks' = [x \in Ids |-> IF x \in {id} THEN 0 ELSE blocks[x]]
          /\ owner' = [x \in Ids |-> IF x \in {id} THEN "nobody" ELSE owner[x]]
          /\ kvLen' = [x \in Ids |-> IF x \in {id} THEN 0 ELSE kvLen[x]]
      BY <2>1 DEF FreeContext, FreeSequences
    <3>2. /\ free' \in Nat /\ blocks' \in [Ids -> Nat]
          /\ (free + Held(Ids) = NumBlocks)'
      BY <1>3, <3>1, Freeing DEF Pool
    <3>3. /\ owner' \in [Ids -> {"nobody", "request", "context", "orphan"}]
          /\ kvLen' \in [Ids -> Nat]
      BY <3>1 DEF Pool, PoolTypes
    <3>. QED BY <1>3, <3>1, <3>2, <3>3
  <2>2. CASE \E n \in ContextBlocks : PrefillContext(id, n)
    <3>1. PICK n \in ContextBlocks : PrefillContext(id, n)
      BY <2>2
    <3>2. /\ blocks[id] = 0 /\ n <= free /\ free' = free - n
          /\ blocks' = [blocks EXCEPT ![id] = n]
          /\ owner' = [owner EXCEPT ![id] = "context"]
          /\ kvLen' = [kvLen EXCEPT ![id] = n * BlockSize]
      BY <3>1 DEF PrefillContext
    <3>3. n \in Nat \ {0} /\ n * BlockSize \in Nat
      BY SchedulerAssumption
    <3>4. free \in Nat /\ blocks \in [Ids -> Nat] /\ kvLen \in [Ids -> Nat]
          /\ owner \in [Ids -> {"nobody", "request", "context", "orphan"}]
          /\ owner[id] = "nobody"
      BY <1>3, <3>2 DEF Pool, PoolTypes, PoolAccounting
    <3>5. free' \in Nat /\ blocks' \in [Ids -> Nat] /\ kvLen' \in [Ids -> Nat]
          /\ owner' \in [Ids -> {"nobody", "request", "context", "orphan"}]
      BY <1>3, <3>2, <3>3, <3>4
    <3>6. (free + Held(Ids) = NumBlocks)'
      <4>. DEFINE g == blocks'
                  S == {id}
      <4>1. g \in [Ids -> Nat] /\ (\A x \in Ids \ S : g[x] = blocks[x]) /\ g[id] = n
            /\ S \in SUBSET Ids
        BY <1>3, <3>2, <3>4, <3>5
      <4>2. Held(Ids)' = Total(g, Ids) /\ Held(S) = Total(blocks, S)
        BY DEF Held
      <4>3. Total(g, S) = n
        <5>. HIDE DEF g
        <5>. QED BY <3>3, <4>1, TotalOne
      <4>4. Total(blocks, S) = 0
        <5>1. blocks[id] \in Nat
          BY <1>3, <3>4
        <5>. QED BY <3>2, <5>1, TotalOne
      <4>. HIDE DEF g, S
      <4>5. free + Held(S) - Total(g, S) + Total(g, Ids) = NumBlocks
        BY <4>1, Replacing DEF Pool
      <4>6. Total(g, Ids) \in Nat
        BY <4>1, RequestsFinite, TotalType
      <4>7. free' + Total(g, Ids) = NumBlocks
        BY <3>2, <3>3, <3>4, <4>2, <4>3, <4>4, <4>5, <4>6
      <4>. QED BY <4>2, <4>7
    <3>. QED BY <1>3, <3>2, <3>3, <3>4, <3>5, <3>6
  <2>. QED BY <1>1, <2>1, <2>2
<1>7. PoolTypes'
  BY <1>6 DEF PoolTypes
<1>8. PoolAccounting'
  <2>1. \A x \in Ids : blocks[x] = 0 <=> owner[x] = "nobody"
    BY DEF Pool, PoolAccounting
  <2>2. \A x \in Ids : blocks'[x] = 0 <=> owner'[x] = "nobody"
    BY <1>6, <2>1
  <2>. QED BY <1>6, <2>2 DEF PoolAccounting
<1>9. \A x \in Ids : owner'[x] = "request" <=> owner[x] = "request"
  BY <1>6
<1>10. Owned'
  <2>1. /\ \A x \in Ids : owner[x] = "request" => x \in running
        /\ \A x \in Ids : owner[x] = "context" => x \in ContextIds
    BY DEF Pool, Owned
  <2>2. \A x \in Ids : owner'[x] = "context" => x \in ContextIds
    BY <1>6, <2>1
  <2>. QED BY <1>2, <1>9, <2>1, <2>2 DEF Owned
<1>11. RunningIsDecodable'
  <2>. SUFFICES ASSUME NEW r \in running
                PROVE  /\ owner'[r] = "request"
                       /\ kvLen'[r] = prompt[r] + gen[r] - 1
                       /\ gen[r] < maxNew /\ r \notin stopped
                       /\ prompt[r] + maxNew <= blocks'[r] * BlockSize
    BY <1>2 DEF RunningIsDecodable
  <2>1. /\ owner[r] = "request" /\ kvLen[r] = prompt[r] + gen[r] - 1
        /\ gen[r] < maxNew /\ r \notin stopped
        /\ prompt[r] + maxNew <= blocks[r] * BlockSize
    BY DEF Pool, RunningIsDecodable
  <2>2. r \in Ids \ {id}
    BY <1>6, <2>1, RequestsFinite DEF QueueTypes
  <2>3. owner'[r] = owner[r] /\ blocks'[r] = blocks[r] /\ kvLen'[r] = kvLen[r]
    BY <1>6, <2>2
  <2>. QED BY <2>1, <2>3
<1>. QED BY <1>5, <1>7, <1>8, <1>9, <1>10, <1>11 DEF Pool

-------------------------------------------------------------------------------
(* What a call has returned so far, and what it has returned in the end. *)

Delivering ==
    /\ outcome = "none"
    /\ \A r \in Requests : delivered[r] = IF r \in completed \ newly THEN 1 ELSE 0
    /\ \A r \in completed : gen[r] = maxNew \/ r \in stopped \/ maxNew = 0

Whole ==
    /\ \A r \in Submitted :
          /\ delivered[r] = 1
          /\ gen[r] = maxNew \/ r \in stopped \/ maxNew = 0
    /\ \A id \in Ids : owner[id] # "request"

Results ==
    /\ call # "idle" => Delivering
    /\ outcome = "returned" => call = "idle" /\ Whole

Inv == QueueTypes /\ Queues /\ Pool /\ Results

LEMMA InitInv == Init => Inv
<1>. SUFFICES ASSUME Init PROVE Inv
  OBVIOUS
<1>1. QueueTypes /\ Queues
  BY InitQueues
<1>2. /\ free = NumBlocks /\ blocks = [id \in Ids |-> 0] /\ running = {}
      /\ owner = [id \in Ids |-> "nobody"] /\ kvLen = [id \in Ids |-> 0]
      /\ pc = "between" /\ call = "idle" /\ outcome = "none"
  BY DEF Init
<1>3. Held(Ids) = 0
  BY <1>2, TotalZero DEF Held
<1>4. PoolTypes /\ PoolAccounting
  BY <1>2, <1>3, SchedulerAssumption DEF PoolTypes, PoolAccounting
<1>5. Owned /\ RunningIsDecodable /\ Reserved
  BY <1>2 DEF Owned, RunningIsDecodable, Reserved
<1>6. Results
  BY <1>2 DEF Results
<1>. QED BY <1>1, <1>4, <1>5, <1>6 DEF Inv, Pool

LEMMA ChunkResults ==
    ASSUME Inv, NEW k \in 1..Len(admitted), PrefillChunk(k)
    PROVE  Results'
<1>. DEFINE over(stop) == {r \in Chunk(k) : Done(r, 1, r \in stop)}
<1>1. PICK stop \in SUBSET Chunk(k) :
          /\ gen' = [r \in Requests |-> IF r \in Chunk(k) THEN 1 ELSE gen[r]]
          /\ stopped' = stopped \cup stop
          /\ completed' = completed \cup over(stop)
          /\ newly' = newly \cup over(stop)
  BY DEF PrefillChunk
<1>. DEFINE done == over(stop)
<1>2. /\ call # "idle" /\ call' = call /\ outcome' = outcome /\ maxNew' = maxNew
      /\ delivered' = delivered
  BY DEF PrefillChunk, params
<1>3. Chunk(k) \cap completed = {} /\ Chunk(k) \subseteq Requests
      /\ completed \subseteq Requests /\ gen \in [Requests -> Nat] /\ maxNew \in Nat
  <2>1. k \in 0..Len(admitted)
    BY Lengths DEF Inv
  <2>. QED BY <1>2, <2>1, ChunkIs DEF Inv, QueueTypes
<1>4. Delivering
  BY <1>2 DEF Inv, Results
<1>5. /\ done \subseteq Chunk(k)
      /\ \A r \in done : maxNew = 1 \/ maxNew = 0 \/ r \in stop
  BY <1>3 DEF Done
<1>6. /\ gen' = [r \in Requests |-> IF r \in Chunk(k) THEN 1 ELSE gen[r]]
      /\ stopped' = stopped \cup stop
      /\ completed' = completed \cup done /\ newly' = newly \cup done
  BY <1>1
<1>. HIDE DEF done
<1>7. completed' \ newly' = completed \ newly
  BY <1>3, <1>5, <1>6
<1>8. \A r \in completed' : gen'[r] = maxNew \/ r \in stopped' \/ maxNew = 0
  <2>. TAKE r \in completed'
  <2>1. CASE r \in completed
    <3>1. gen'[r] = gen[r]
      BY <1>3, <1>6, <2>1
    <3>2. gen[r] = maxNew \/ r \in stopped \/ maxNew = 0
      BY <1>4, <2>1 DEF Delivering
    <3>. QED BY <1>6, <3>1, <3>2
  <2>2. CASE r \in done
    <3>1. gen'[r] = 1
      BY <1>3, <1>5, <1>6, <2>2
    <3>. QED BY <1>5, <1>6, <2>2, <3>1
  <2>. QED BY <1>6, <2>1, <2>2
<1>9. Delivering'
  BY <1>2, <1>4, <1>7, <1>8 DEF Delivering
<1>10. outcome' # "returned"
  BY <1>2, <1>4 DEF Delivering
<1>. QED BY <1>9, <1>10 DEF Results

\* The requests a step completed are handed over once.
LEMMA DeliverOnce ==
    ASSUME Inv, call # "idle", NEW over \in SUBSET running, Deliver(newly \cup over),
           completed' = completed \cup over
    PROVE  \A r \in Requests : delivered'[r] = IF r \in completed' \ newly' THEN 1 ELSE 0
<1>1. /\ newly' = {}
      /\ delivered' = [r \in Requests |->
                          IF r \in newly \cup over THEN delivered[r] + 1 ELSE delivered[r]]
  BY DEF Deliver
<1>2. \A r \in Requests : delivered[r] = IF r \in completed \ newly THEN 1 ELSE 0
  BY DEF Inv, Results, Delivering
<1>3. newly \subseteq completed /\ over \cap completed = {}
  BY DEF Inv, Queues
<1>. QED BY <1>1, <1>2, <1>3

LEMMA EndPrefillResults ==
    ASSUME Inv, EndPrefill
    PROVE  Results'
<1>1. /\ call # "idle" /\ call' = call /\ outcome' = outcome /\ maxNew' = maxNew
      /\ completed' = completed /\ gen' = gen /\ stopped' = stopped
  BY DEF EndPrefill, params
<1>2. Delivering
  BY <1>1 DEF Inv, Results
<1>3. \A r \in Requests : delivered'[r] = IF r \in completed' \ newly' THEN 1 ELSE 0
  <2>1. CASE running = {}
    <3>1. Deliver(newly)
      BY <2>1 DEF EndPrefill
    <3>2. {} \in SUBSET running /\ newly \cup {} = newly /\ completed \cup {} = completed
      OBVIOUS
    <3>3. Deliver(newly \cup {}) /\ completed' = completed \cup {}
      BY <1>1, <3>1, <3>2
    <3>. QED BY <1>1, <3>2, <3>3, DeliverOnce
  <2>2. CASE running # {}
    <3>1. newly' = newly /\ delivered' = delivered
      BY <2>2 DEF EndPrefill
    <3>. QED BY <1>1, <1>2, <3>1 DEF Delivering
  <2>. QED BY <2>1, <2>2
<1>4. Delivering'
  BY <1>1, <1>2, <1>3 DEF Delivering
<1>5. outcome' # "returned"
  BY <1>1, <1>2 DEF Delivering
<1>. QED BY <1>4, <1>5 DEF Results

LEMMA DecodeResults ==
    ASSUME Inv, Decode
    PROVE  Results'
<1>1. PICK take \in [running -> 1..Steps], stop \in SUBSET running :
          LET now  == [r \in Requests |-> IF r \in running THEN gen[r] + take[r] ELSE gen[r]]
              over == {r \in running : Done(r, now[r], r \in stop)}
          IN  /\ gen' = now
              /\ stopped' = stopped \cup stop
              /\ completed' = completed \cup over
              /\ Deliver(newly \cup over)
  BY DEF Decode
<1>. DEFINE now  == [r \in Requests |-> IF r \in running THEN gen[r] + take[r] ELSE gen[r]]
            over == {r \in running : Done(r, now[r], r \in stop)}
<1>2. /\ call # "idle" /\ call' = call /\ outcome' = outcome /\ maxNew' = maxNew
  BY DEF Decode, params
<1>3. Delivering
  BY <1>2 DEF Inv, Results
<1>4. /\ running \subseteq Requests /\ completed \subseteq Requests
      /\ running \cap completed = {}
      /\ gen \in [Requests -> Nat] /\ maxNew \in Nat
  BY <1>2 DEF Inv, QueueTypes, Queues
<1>5. over \subseteq running
      /\ \A r \in over : now[r] = maxNew \/ r \in stop
  <2>1. over \subseteq running
    OBVIOUS
  <2>. SUFFICES ASSUME NEW r \in over, r \notin stop PROVE now[r] = maxNew
    BY <2>1
  <2>2. r \in running /\ now[r] >= maxNew
    BY DEF Done
  <2>3. now[r] = gen[r] + take[r]
    BY <1>4, <2>2
  <2>4. Steps \in Nat /\ Steps <= maxNew - gen[r]
    BY <2>2, StepsBound DEF Inv, Pool, RunningIsDecodable
  <2>5. take[r] \in Nat /\ take[r] <= Steps
    BY <2>2, <2>4
  <2>6. gen[r] \in Nat
    BY <1>4, <2>2
  <2>7. gen[r] + take[r] >= maxNew
    BY <2>2, <2>3
  <2>8. gen[r] + take[r] = maxNew
    BY <1>4, <2>4, <2>5, <2>6, <2>7
  <2>. QED BY <2>3, <2>8
<1>6. /\ gen' = now /\ stopped' = stopped \cup stop
      /\ completed' = completed \cup over /\ Deliver(newly \cup over)
  BY <1>1
<1>7. \A r \in completed : now[r] = gen[r]
  BY <1>4
<1>. HIDE DEF now, over
<1>8. \A r \in Requests : delivered'[r] = IF r \in completed' \ newly' THEN 1 ELSE 0
  BY <1>2, <1>5, <1>6, DeliverOnce
<1>9. \A r \in completed' : gen'[r] = maxNew \/ r \in stopped' \/ maxNew = 0
  <2>1. \A r \in completed : gen[r] = maxNew \/ r \in stopped \/ maxNew = 0
    BY <1>3 DEF Delivering
  <2>. QED BY <1>5, <1>6, <1>7, <2>1
<1>10. Delivering'
  BY <1>2, <1>3, <1>8, <1>9 DEF Delivering
<1>11. outcome' # "returned"
  BY <1>2, <1>3 DEF Delivering
<1>. QED BY <1>10, <1>11 DEF Results

LEMMA ReturnResults ==
    ASSUME Inv, Return
    PROVE  Results'
<1>1. /\ call # "idle" /\ call' = "idle" /\ waiting = <<>> /\ running = {}
      /\ pc \in {"between", "yield"}
      /\ UNCHANGED <<params, queues, progress, pool, calls>>
  BY DEF Return, Resumable, HasPending
<1>2. /\ prompt' = prompt /\ maxNew' = maxNew /\ gen' = gen /\ stopped' = stopped
      /\ delivered' = delivered /\ owner' = owner
  BY <1>1 DEF params, progress, pool
<1>3. newly = {} /\ admitted = <<>> /\ completed = 1..Started
  BY <1>1 DEF Inv, Queues
<1>4. completed = Submitted /\ completed \subseteq Requests
  <2>1. Len(waiting) = 0 /\ Len(admitted) = 0
    BY <1>1, <1>3
  <2>2. Len(prompt) \in Nat /\ Submitted = 1..Len(prompt)
    BY Lengths DEF Inv
  <2>3. Started = Len(prompt)
    BY <2>1, <2>2 DEF Started
  <2>. QED BY <1>3, <2>2, <2>3 DEF Inv, QueueTypes
<1>5. Delivering
  BY <1>1 DEF Inv, Results
<1>6. \A r \in Submitted : delivered[r] = 1
                           /\ (gen[r] = maxNew \/ r \in stopped \/ maxNew = 0)
  BY <1>3, <1>4, <1>5 DEF Delivering
<1>7. \A id \in Ids : owner[id] # "request"
  BY <1>1 DEF Inv, Pool, Owned
<1>8. Whole'
  BY <1>2, <1>6, <1>7 DEF Whole, Submitted
<1>. QED BY <1>1, <1>8 DEF Results

LEMMA OtherResults ==
    ASSUME Inv, BeginStep \/ ContextStep
    PROVE  Results'
<1>1. /\ call' = call /\ outcome' = outcome /\ prompt' = prompt /\ maxNew' = maxNew
      /\ completed' = completed /\ newly' = newly
      /\ gen' = gen /\ stopped' = stopped /\ delivered' = delivered
  BY DEF BeginStep, ContextStep, FreeContext, PrefillContext, params, queues, progress
<1>2. \A id \in Ids : owner'[id] = "request" <=> owner[id] = "request"
  <2>1. CASE BeginStep
    BY <2>1 DEF BeginStep, pool
  <2>2. CASE ContextStep
    BY <2>2, ContextPool DEF Inv
  <2>. QED BY <2>1, <2>2
<1>3. Delivering => Delivering'
  BY <1>1 DEF Delivering
<1>4. Whole => Whole'
  BY <1>1, <1>2 DEF Whole, Submitted
<1>. QED BY <1>1, <1>3, <1>4 DEF Inv, Results

\* A call that ended with an exception, or was dropped.
LEMMA DroppedInv ==
    ASSUME QueueTypes, NEW how \in {"raised", "prefill_raised", "abandoned"}, Dropped(how),
           UNCHANGED <<params, progress, calls>>
    PROVE  QueueTypes' /\ Queues' /\ Results'
<1>1. /\ prompt' = prompt /\ maxNew' = maxNew /\ burst' = burst
      /\ gen' = gen /\ stopped' = stopped /\ delivered' = delivered /\ calls' = calls
  BY DEF params, progress
<1>2. QueueTypes' /\ Queues'
  BY <1>1, DroppedQueues
<1>3. Results'
  BY DEF Dropped, Results
<1>. QED BY <1>2, <1>3

LEMMA StepInv == Inv /\ [Next]_vars => Inv'
<1>. SUFFICES ASSUME Inv, [Next]_vars PROVE Inv'
  OBVIOUS
<1>0. QueueTypes /\ Queues /\ Pool
  BY DEF Inv
<1>1. ASSUME NEW kind \in {"batch", "stream"}, Submit(kind) PROVE Inv'
  <2>1. Results'
    <3>1. /\ outcome' = "none" /\ completed' = {} /\ delivered' = [r \in Requests |-> 0]
      BY <1>1 DEF Submit
    <3>. QED BY <3>1 DEF Results, Delivering
  <2>. QED BY <1>0, <1>1, <2>1, SubmitQueues, StillPool DEF Inv
<1>2. ASSUME BeginStep PROVE Inv'
  BY <1>0, <1>2, BeginQueues, BeginPool, OtherResults DEF Inv
<1>3. ASSUME EndPrefill PROVE Inv'
  BY <1>0, <1>3, EndPrefillQueues, StillPool, EndPrefillResults DEF Inv
<1>4. ASSUME Decode PROVE Inv'
  <2>1. RunningIsDecodable
    BY <1>0 DEF Pool
  <2>. QED BY <1>0, <1>4, <2>1, DecodeQueues, DecodePool, DecodeResults DEF Inv
<1>5. ASSUME DecodeRaises PROVE Inv'
  <2>1. Dropped("raised") /\ UNCHANGED <<params, progress, calls>>
    BY <1>5 DEF DecodeRaises
  <2>. QED BY <1>0, <1>5, <2>1, DroppedInv, LeavePool DEF Inv
<1>6. ASSUME Return PROVE Inv'
  BY <1>0, <1>6, OtherQueues, StillPool, ReturnResults DEF Inv
<1>7. ASSUME NEW k \in 1..Len(admitted), PrefillChunk(k) PROVE Inv'
  BY <1>0, <1>7, ChunkQueues, ChunkPool, ChunkResults DEF Inv
<1>8. ASSUME NEW k \in 1..Len(admitted), PrefillRaises(k) PROVE Inv'
  <2>1. Dropped("prefill_raised") /\ UNCHANGED <<params, progress, calls>>
    BY <1>8 DEF PrefillRaises
  <2>. QED BY <1>0, <1>8, <2>1, DroppedInv, PrefillRaisesPool DEF Inv
<1>9. ASSUME NEW k \in 1..Len(admitted), SampleRaises(k) PROVE Inv'
  <2>1. Dropped("raised") /\ UNCHANGED <<params, progress, calls>>
    BY <1>9 DEF SampleRaises
  <2>. QED BY <1>0, <1>9, <2>1, DroppedInv, SampleRaisesPool DEF Inv
<1>10. ASSUME Abandon PROVE Inv'
  <2>1. Dropped("abandoned") /\ UNCHANGED <<params, progress, calls>>
    BY <1>10 DEF Abandon
  <2>. QED BY <1>0, <1>10, <2>1, DroppedInv, LeavePool DEF Inv
<1>11. ASSUME ContextStep PROVE Inv'
  BY <1>0, <1>11, OtherQueues, ContextPool, OtherResults DEF Inv
<1>12. ASSUME UNCHANGED vars PROVE Inv'
  <2>1. /\ call' = call /\ pc' = pc /\ outcome' = outcome /\ prompt' = prompt
        /\ maxNew' = maxNew /\ burst' = burst /\ calls' = calls
        /\ waiting' = waiting /\ admitted' = admitted /\ running' = running
        /\ completed' = completed /\ newly' = newly
        /\ gen' = gen /\ stopped' = stopped /\ delivered' = delivered
        /\ free' = free /\ blocks' = blocks /\ owner' = owner /\ kvLen' = kvLen
    BY <1>12 DEF vars, params, queues, progress, pool
  <2>2. QueueTypes' /\ Queues'
    BY <1>0, <2>1 DEF QueueTypes, Queues, Started
  <2>3. (PoolTypes /\ PoolAccounting /\ Owned /\ RunningIsDecodable)'
    BY <1>0, <2>1 DEF Pool, PoolTypes, PoolAccounting, Held, Owned, RunningIsDecodable
  <2>4. Held(running)' = Held(running)
    BY <2>1 DEF Held
  <2>5. NeedOf(RangeOf(admitted))' = NeedOf(RangeOf(admitted))
    BY <2>1 DEF NeedOf, Need, RangeOf
  <2>6. Reserved'
    BY <1>0, <2>1, <2>4, <2>5 DEF Pool, Reserved
  <2>7. Results'
    BY <2>1 DEF Inv, Results, Delivering, Whole, Submitted
  <2>. QED BY <2>2, <2>3, <2>6, <2>7 DEF Inv, Pool
<1>. QED BY <1>1, <1>2, <1>3, <1>4, <1>5, <1>6, <1>7, <1>8, <1>9, <1>10, <1>11, <1>12
     DEF Next, SchedulerStep


-------------------------------------------------------------------------------
(* Theorems. *)

LEMMA Invariance == Spec => []Inv
<1>1. Init => Inv
  BY InitInv
<1>2. Inv /\ [Next]_vars => Inv'
  BY StepInv
<1>. QED BY <1>1, <1>2, PTL DEF Spec

LEMMA InvTypeOK == Inv => TypeOK
<1>. SUFFICES ASSUME Inv PROVE TypeOK
  OBVIOUS
<1>1. QueueTypes /\ Pool /\ PoolTypes /\ PoolAccounting
  BY DEF Inv, Pool
<1>2. prompt \in [Submitted -> Nat \ {0}] /\ Submitted \subseteq Requests
  <2>1. \A r \in Submitted : prompt[r] \in Nat \ {0}
    BY <1>1, NeedFacts
  <2>2. prompt = [r \in Submitted |-> prompt[r]]
    BY <1>1 DEF QueueTypes, Submitted
  <2>. QED BY <1>1, <2>1, <2>2, SubmittedFinite
<1>3. free \in Nat /\ Held(Ids) \in Nat /\ free + Held(Ids) = NumBlocks
      /\ NumBlocks \in Nat
  <2>1. Ids \in SUBSET Ids
    OBVIOUS
  <2>2. Held(Ids) \in Nat
    BY <1>1, <2>1, HeldFacts
  <2>. QED BY <1>1, <2>2, SchedulerAssumption DEF PoolTypes, PoolAccounting
<1>4. free \in 0..NumBlocks
  BY <1>3
<1>5. ASSUME NEW id \in Ids PROVE blocks[id] \in 0..NumBlocks
  <2>1. blocks[id] \in Nat
    BY <1>1 DEF PoolTypes
  <2>2. Held({id}) = blocks[id]
    BY <2>1, TotalOne DEF Held
  <2>3. {id} \in SUBSET Ids
    OBVIOUS
  <2>4. Held({id}) <= Held(Ids)
    BY <1>1, <2>3, HeldFacts
  <2>. QED BY <1>3, <2>1, <2>2, <2>4
<1>6. blocks \in [Ids -> 0..NumBlocks]
  BY <1>1, <1>5 DEF PoolTypes
<1>7. /\ owner \in [Ids -> {"nobody", "request", "context", "orphan"}]
      /\ kvLen \in [Ids -> Nat]
  BY <1>1 DEF PoolTypes
<1>. HIDE DEF Submitted
<1>. QED BY <1>1, <1>2, <1>4, <1>6, <1>7 DEF TypeOK, QueueTypes

\* The variables of a scheduler and of the pool keep their types: the free count
\* never goes below 0 or above the pool, and no table is longer than the pool.
THEOREM TypeCorrect == Spec => []TypeOK
BY Invariance, InvTypeOK, PTL

LEMMA InvConserves == Inv => RequestConservation
<1>. SUFFICES ASSUME Inv, call # "idle"
              PROVE  /\ RangeOf(waiting) \cup RangeOf(admitted) \cup running \cup completed
                          = Submitted
                     /\ Len(waiting) + Len(admitted) + Cardinality(running)
                          + Cardinality(completed) = Cardinality(Submitted)
                     /\ Cardinality(running) + Len(admitted) <= MaxBatch
                     /\ \A i \in DOMAIN waiting, r \in Submitted \ RangeOf(waiting) :
                           r < waiting[i]
  BY DEF RequestConservation
<1>0. QueueTypes /\ Queues
  BY DEF Inv
<1>. DEFINE A == Len(admitted)
            W == Len(waiting)
            N == Len(prompt)
<1>1. /\ A \in Nat /\ W \in Nat /\ N \in Nat
      /\ DOMAIN waiting = 1..W /\ DOMAIN admitted = 1..A /\ Submitted = 1..N
  BY <1>0, Lengths
<1>2. /\ Started \in Nat /\ N = Started + A + W
      /\ \A i \in 1..A : admitted[i] = Started + i
      /\ \A i \in 1..W : waiting[i] = Started + A + i
      /\ running \cup completed = 1..Started /\ running \cap completed = {}
      /\ Cardinality(running) + A <= MaxBatch
  <2>1. N = Started + A + W
    BY <1>1 DEF Started
  <2>. QED BY <1>0, <2>1 DEF Queues
<1>3. RangeOf(admitted) = (Started+1)..(Started+A)
  <2>1. A \in 0..A
    BY <1>1
  <2>. QED BY <1>0, <2>1, ChunkIs
<1>. HIDE DEF A, W, N
<1>4. RangeOf(waiting) = (Started+A+1)..N
  <2>1. \A i \in 1..W : waiting[i] \in (Started+A+1)..N
    BY <1>1, <1>2
  <2>2. ASSUME NEW r \in (Started+A+1)..N PROVE r \in RangeOf(waiting)
    <3>. DEFINE j == r - Started - A
    <3>1. j \in 1..W /\ r = Started + A + j
      BY <1>1, <1>2
    <3>. HIDE DEF j
    <3>2. waiting[j] = r
      BY <1>2, <3>1
    <3>. QED BY <1>1, <3>1, <3>2 DEF RangeOf
  <2>. QED BY <1>1, <2>1, <2>2 DEF RangeOf
<1>5. RangeOf(waiting) \cup RangeOf(admitted) \cup running \cup completed = Submitted
  <2>1. (Started+A+1)..N \cup (Started+1)..(Started+A) \cup 1..Started = 1..N
    BY <1>1, <1>2
  <2>. QED BY <1>1, <1>2, <1>3, <1>4, <2>1
<1>6. Cardinality(running) + Cardinality(completed) = Started
      /\ Cardinality(running) \in Nat /\ Cardinality(completed) \in Nat
  <2>1. IsFiniteSet(running) /\ IsFiniteSet(completed)
    BY <1>0, RequestsFinite, FS_Subset DEF QueueTypes
  <2>2. Cardinality(1..Started) = Started
    <3>1. Cardinality(1..Started) = IF 1 > Started THEN 0 ELSE Started - 1 + 1
      BY <1>2, FS_Interval
    <3>. QED BY <1>2, <3>1
  <2>3. Cardinality(running \cup completed) =
          Cardinality(running) + Cardinality(completed) - Cardinality(running \cap completed)
    BY <2>1, FS_Union
  <2>4. /\ Cardinality(running) \in Nat /\ Cardinality(completed) \in Nat
        /\ Cardinality(running \cap completed) = 0
    BY <1>2, <2>1, FS_CardinalityType, FS_EmptySet
  <2>5. Cardinality(running \cup completed) = Started
    BY <1>2, <2>2
  <2>. QED BY <2>3, <2>4, <2>5
<1>7. Cardinality(Submitted) = N
  <2>1. Cardinality(1..N) = IF 1 > N THEN 0 ELSE N - 1 + 1
    BY <1>1, FS_Interval
  <2>. QED BY <1>1, <2>1
<1>8. Len(waiting) + Len(admitted) + Cardinality(running) + Cardinality(completed)
        = Cardinality(Submitted)
  <2>1. W + A + Cardinality(running) + Cardinality(completed) = N
    BY <1>1, <1>2, <1>6
  <2>. QED BY <1>7, <2>1 DEF A, W
<1>9. ASSUME NEW i \in DOMAIN waiting, NEW r \in Submitted \ RangeOf(waiting)
      PROVE  r < waiting[i]
  <2>1. r \in Nat /\ r <= Started + A
    BY <1>1, <1>2, <1>4
  <2>2. waiting[i] = Started + A + i /\ i \in Nat /\ i >= 1
    BY <1>1, <1>2
  <2>. QED BY <1>1, <1>2, <2>1, <2>2
<1>. QED BY <1>2, <1>5, <1>8, <1>9 DEF A

\* No request is lost, duplicated or overtaken: while a call is under way each
\* submitted request is in exactly one of the waiting list, the admitted batch,
\* the running set and the completed set, and the batch never outgrows its limit.
THEOREM RequestsConserved == Spec => []RequestConservation
BY Invariance, InvConserves, PTL

\* However steps of a call, exceptions, dropped streams and contexts interleave,
\* the free count and the tables add up to the pool.
THEOREM PoolAccounted == Spec => []PoolAccounting
<1>1. Inv => PoolAccounting
  BY DEF Inv, Pool
<1>. QED BY <1>1, Invariance, PTL

\* Each running request has its table, with room for its whole answer, and its
\* cache ends exactly where the next step writes.
THEOREM DecodeIsSafe == Spec => []RunningIsDecodable
<1>1. Inv => RunningIsDecodable
  BY DEF Inv, Pool
<1>. QED BY <1>1, Invariance, PTL

LEMMA InvFits == Inv => AdmissionFits
<1>. SUFFICES ASSUME Inv, call # "idle", PoolIsOurs PROVE CanAllocate(Len(admitted))
  BY DEF AdmissionFits
<1>0. QueueTypes /\ Queues /\ Pool /\ PoolTypes /\ PoolAccounting /\ Owned /\ Reserved
  BY DEF Inv, Pool
<1>. SUFFICES ASSUME NEW j \in 1..Len(admitted)
              PROVE  blocks[admitted[j]] = 0 /\ NeedOf(Chunk(j)) <= free
  BY DEF CanAllocate
<1>1. Len(admitted) \in Nat /\ j \in 0..Len(admitted) /\ Len(admitted) \in 0..Len(admitted)
  BY <1>0, Lengths
<1>2. pc = "prefill"
  BY <1>0, <1>1 DEF Queues
<1>3. /\ RangeOf(admitted) \in SUBSET Submitted /\ RangeOf(admitted) \cap running = {}
      /\ Chunk(j) \in SUBSET RangeOf(admitted)
      /\ admitted[j] \in RangeOf(admitted)
  <2>1. RangeOf(admitted) = Chunk(Len(admitted))
    BY <1>0, <1>1, ChunkIs
  <2>2. Chunk(Len(admitted)) \subseteq Submitted /\ Chunk(Len(admitted)) \cap running = {}
    BY <1>0, <1>1, ChunkIs
  <2>3. Chunk(j) \subseteq Chunk(Len(admitted)) /\ admitted[j] \in Chunk(Len(admitted))
    BY <1>1 DEF Chunk
  <2>. QED BY <2>1, <2>2, <2>3
<1>4. \A id \in Ids \ running : blocks[id] = 0
  BY <1>0 DEF PoolIsOurs, Owned, PoolAccounting
<1>5. blocks[admitted[j]] = 0
  BY <1>0, <1>3, <1>4, SubmittedFinite
<1>6. Held(Ids) = Held(running) /\ Held(running) \in Nat
  <2>1. running \in SUBSET Ids
    BY <1>0, RequestsFinite DEF QueueTypes
  <2>2. Held(Ids) = Held(running) + Held(Ids \ running) /\ Held(running) \in Nat
    BY <1>0, <2>1, HeldFacts
  <2>3. Held(Ids \ running) = 0
    BY <1>4, TotalZero DEF Held
  <2>. QED BY <2>2, <2>3
<1>7. Held(running) + NeedOf(RangeOf(admitted)) <= NumBlocks
  BY <1>0, <1>2 DEF Reserved
<1>8. /\ NeedOf(Chunk(j)) \in Nat /\ NeedOf(RangeOf(admitted)) \in Nat
      /\ NeedOf(Chunk(j)) <= NeedOf(RangeOf(admitted))
  BY <1>0, <1>3, NeedOfFacts
<1>9. free \in Nat /\ free + Held(Ids) = NumBlocks
  BY <1>0 DEF PoolTypes, PoolAccounting
<1>10. NeedOf(Chunk(j)) <= free
  BY <1>6, <1>7, <1>8, <1>9
<1>. QED BY <1>5, <1>10

\* While nothing but the call's own requests holds blocks, every allocation of a
\* prefill that was admitted succeeds.
THEOREM AdmissionNeverOvercommits == Spec => []AdmissionFits
BY Invariance, InvFits, PTL

\* A call that returned handed over every request exactly once and complete, and
\* left none of their tables in the pool.
THEOREM ReturnsComplete == Spec => []ReturnedComplete
<1>1. Inv => ReturnedComplete
  BY DEF Inv, Results, Whole, ReturnedComplete
<1>. QED BY <1>1, Invariance, PTL

\* Provided the sequence numbers of contexts are none a call uses, no step of a
\* call, failing or not, touches the table of a context.
THEOREM ContextsAreSafe ==
    ASSUME ContextIds \cap Requests = {}
    PROVE  Spec => ContextsSurvive
<1>. DEFINE Kept == \A id \in Ids : owner[id] = "context" =>
                       /\ owner'[id] = "context"
                       /\ blocks'[id] = blocks[id] /\ kvLen'[id] = kvLen[id]
<1>1. ASSUME Inv, [Next]_vars, ~ContextStep PROVE Kept
  <2>. SUFFICES ASSUME NEW id \in Ids, owner[id] = "context"
                PROVE  /\ owner'[id] = "context"
                       /\ blocks'[id] = blocks[id] /\ kvLen'[id] = kvLen[id]
    OBVIOUS
  <2>0. QueueTypes /\ Queues /\ Pool
    BY <1>1 DEF Inv
  <2>1. id \notin Requests /\ blocks[id] # 0 /\ id \notin running
    BY <2>0 DEF Pool, PoolAccounting, Owned, QueueTypes
  <2>2. ASSUME NEW k \in 1..Len(admitted), call # "idle" PROVE id \notin Chunk(k)
    <3>1. k \in 0..Len(admitted)
      BY <2>0, Lengths
    <3>. QED BY <2>0, <2>1, <2>2, <3>1, ChunkIs
  <2>3. CASE \/ (\E kind \in {"batch", "stream"} : Submit(kind))
             \/ BeginStep \/ EndPrefill \/ Return \/ UNCHANGED vars
    BY <2>3 DEF Submit, BeginStep, EndPrefill, Return, vars, pool
  <2>4. CASE Abandon \/ DecodeRaises
    BY <2>4 DEF Abandon, DecodeRaises, Orphaned
  <2>5. CASE Decode
    <3>1. PICK over \in SUBSET running :
            /\ blocks' = [x \in Ids |-> IF x \in over THEN 0 ELSE blocks[x]]
            /\ owner' = [x \in Ids |-> IF x \in over THEN "nobody" ELSE owner[x]]
            /\ kvLen' = [x \in Ids |-> IF x \in over THEN 0
                                       ELSE IF x \in running THEN kvLen[x] + Steps
                                       ELSE kvLen[x]]
      BY <2>5 DEF Decode
    <3>. QED BY <2>1, <3>1
  <2>6. ASSUME NEW k \in 1..Len(admitted), PrefillChunk(k)
        PROVE  /\ owner'[id] = "context"
               /\ blocks'[id] = blocks[id] /\ kvLen'[id] = kvLen[id]
    <3>1. call # "idle" /\ \E S \in SUBSET Chunk(k) : AllocateAndPrefill(S)
      BY <2>6 DEF PrefillChunk
    <3>2. id \notin Chunk(k)
      BY <2>2, <3>1
    <3>. QED BY <3>1, <3>2 DEF AllocateAndPrefill
  <2>7. ASSUME NEW k \in 1..Len(admitted), PrefillRaises(k)
        PROVE  /\ owner'[id] = "context"
               /\ blocks'[id] = blocks[id] /\ kvLen'[id] = kvLen[id]
    <3>1. call # "idle" /\ Abort(Chunk(k))
      BY <2>7 DEF PrefillRaises
    <3>2. id \notin Chunk(k)
      BY <2>2, <3>1
    <3>. QED BY <3>1, <3>2 DEF Abort, Orphaned
  <2>8. ASSUME NEW k \in 1..Len(admitted), SampleRaises(k)
        PROVE  /\ owner'[id] = "context"
               /\ blocks'[id] = blocks[id] /\ kvLen'[id] = kvLen[id]
    <3>1. call # "idle"
      BY <2>8 DEF SampleRaises
    <3>2. \E kept \in SUBSET Chunk(k) :
              /\ blocks' = [x \in Ids |-> IF x \in kept THEN Need(x) ELSE blocks[x]]
              /\ kvLen' = [x \in Ids |-> IF x \in kept THEN prompt[x] ELSE kvLen[x]]
              /\ owner' = Orphaned([x \in Ids |-> IF x \in kept THEN "request"
                                                                ELSE owner[x]])
      BY <2>8 DEF SampleRaises
    <3>3. id \notin Chunk(k)
      BY <2>2, <3>1
    <3>. QED BY <3>2, <3>3 DEF Orphaned
  <2>. QED BY <1>1, <2>3, <2>4, <2>5, <2>6, <2>7, <2>8 DEF Next, SchedulerStep
<1>2. Inv /\ [Next]_vars => [~ContextStep => Kept]_vars
  BY <1>1
<1>. QED BY <1>2, Invariance, PTL DEF Spec, ContextsSurvive

===============================================================================
