----------------------------- MODULE Prophet_proofs ----------------------------
(***************************************************************************)
(* What Prophet promises holds of every prompt, policy, size and token     *)
(* drawn, when no reuse replays a single token and the ids the engine      *)
(* hands out are not the callers', until a call samples into a block that  *)
(* two contexts share.  The invariant: the contexts are as Contexts_proofs *)
(* asks, each on a text that goes on behind a prompt with greedy or drawn  *)
(* tokens; those with an id of the resident cache are its sources and hold *)
(* their entries' snapshots; and those with any other id are the callers', *)
(* and hold what they were told.  Every route of a restore is followed     *)
(* call by call, and each call adds a context, tells one more or frees     *)
(* one.                                                                    *)
(***************************************************************************)
EXTENDS Prophet, Contexts_proofs, FiniteSetTheorems

\* The ids of the resident cache, and those of the callers and the counter.
ResidentIds == (-11 - ResidentMax) .. (-11)
OwnIds(e) == CallerIds \cup 1..e.count

\* A prompt, or a text that goes on behind one.
Grown(h) == \E p \in Prompts : GoesOn(Tokens, p, h)

\* The contexts that are not the cache's, with the tokens they hold.
Owned(e) == Live(e) \ ResidentIds
Words(e) == [s \in Owned(e) |-> e.ctx[s].hist]

\* A source of the cache holds its entry's snapshot.
IsSource(r, e) ==
    /\ r.entry \in Listed
    /\ r.id \in Live(e) /\ r.id \in ResidentIds
    /\ e.ctx[r.id].hist = SnapOf(r.entry).hist
    /\ e.ctx[r.id].pend = SnapOf(r.entry).pend

\* The sources that l lists are those that are there.
IsCache(l, e) ==
    /\ \A i \in 1..Len(l) : IsSource(l[i], e)
    /\ \A i, j \in 1..Len(l) : l[i].id = l[j].id => i = j
    /\ \A t \in Live(e) : t \in ResidentIds => \E i \in 1..Len(l) : l[i].id = t

Orderly(e) ==
    /\ \A s \in Live(e) : Grown(e.ctx[s].hist)
    /\ Live(e) \subseteq OwnIds(e) \cup ResidentIds
    /\ IsCache(e.resident, e)
    /\ Len(e.resident) <= ResidentMax

Sane(e) == Good(e) /\ Orderly(e)

\* What a snapshot file holds.
IsSnap(c) ==
    /\ c.hist \in Seq(Nat) /\ Grown(c.hist)
    /\ c.pend \in {c.hist, NoLogits}
    /\ c = [rows |-> RowsOf(c.hist), hist |-> c.hist, pend |-> c.pend]

Library ==
    /\ \A x \in DOMAIN files :
          IsSnap(SnapOf(x)) /\ files[x].text \in {NoText, SnapOf(x).hist}
    /\ \E n \in Nat : DOMAIN files = 1..n
    /\ Listed \subseteq DOMAIN files

-------------------------------------------------------------------------------
(* Ids, texts and functions. *)

\* No id of the callers or the counter is the cache's.
LEMMA IdsFacts ==
    ASSUME NEW e, e.count \in Nat
    PROVE  /\ OwnIds(e) \subseteq Nat /\ CallerIds \subseteq OwnIds(e)
           /\ \A s \in Nat : s \notin ResidentIds /\ s # NoId
           /\ ResidentIds \subseteq Int
           /\ Room \in Nat
  <1>1. ResidentMax \in Nat /\ CallerIds \subseteq Nat /\ Room \in Nat
    BY ProphetAssumption
  <1>2. OwnIds(e) \subseteq Nat /\ CallerIds \subseteq OwnIds(e)
    <2> DEFINE n == e.count
    <2>1. n \in Nat
      OBVIOUS
    <2> HIDE DEF n
    <2>2. 1..n \subseteq Nat
      BY <2>1
    <2> QED BY <1>1, <2>2 DEF OwnIds, n
  <1>3. ResidentIds \subseteq Int
    BY <1>1 DEF ResidentIds
  <1>4. \A s \in Nat : s # NoId
    BY DEF NoId
  <1>5. ASSUME NEW s \in Nat
        PROVE  s \notin ResidentIds
    BY <1>1 DEF ResidentIds
  <1> QED BY <1>1, <1>2, <1>3, <1>4, <1>5

\* What is grown has a prompt in front, so it is not empty.
LEMMA GrownFacts ==
    ASSUME NEW h, Grown(h)
    PROVE  h \in Seq(Nat) /\ h # <<>> /\ Len(h) \in Nat \ {0}
  <1>1. PICK p \in Prompts : GoesOn(Tokens, p, h)
    BY DEF Grown
  <1>2. p \in Seq(Nat) /\ p # <<>>
    BY ProphetAssumption
  <1>3. h \in Seq(Nat) /\ Len(p) <= Len(h) /\ Len(p) \in Nat \ {0} /\ Len(h) \in Nat
    BY <1>1, <1>2 DEF GoesOn
  <1> QED BY <1>3

\* Prompts are grown, and what goes on behind what is grown is too.
LEMMA PromptGrown ==
    ASSUME NEW q \in Prompts
    PROVE  Grown(q) /\ q \in Seq(Nat)
  <1>1. q \in Seq(Nat)
    BY ProphetAssumption
  <1> QED BY <1>1, GoesOnSelf DEF Grown

\* Going on behind what is grown is grown too.
LEMMA GrownFurther ==
    ASSUME NEW h, NEW k, Grown(h), GoesOn(Tokens, h, k)
    PROVE  Grown(k)
  <1>1. PICK p \in Prompts : GoesOn(Tokens, p, h)
    BY DEF Grown
  <1>2. p \in Seq(Nat)
    BY ProphetAssumption
  <1>3. GoesOn(Tokens, p, k)
    BY <1>1, <1>2, GoesOnFurther
  <1> QED BY <1>3 DEF Grown

\* What is put into a function and taken out again.
LEMMA PutFacts ==
    ASSUME NEW f, NEW s, NEW v
    PROVE  /\ DOMAIN Put(f, s, v) = DOMAIN f \cup {s}
           /\ Put(f, s, v)[s] = v
           /\ \A t \in DOMAIN f \ {s} : Put(f, s, v)[t] = f[t]
  BY DEF Put

\* Taking out what was put leaves the function there was.
LEMMA TakenOut ==
    ASSUME NEW D, NEW f, f = [x \in D |-> f[x]], NEW s, s \notin D, NEW v
    PROVE  Restrict(Put(f, s, v), DOMAIN Put(f, s, v) \ {s}) = f
  <1> DEFINE g == Put(f, s, v)
  <1>1. DOMAIN f = D
    OBVIOUS
  <1>2. DOMAIN g = D \cup {s} /\ \A t \in D : g[t] = f[t]
    <2>1. DOMAIN g = DOMAIN f \cup {s} /\ \A t \in DOMAIN f \ {s} : g[t] = f[t]
      BY DEF Put
    <2> HIDE DEF g
    <2> QED BY <1>1, <2>1
  <1> HIDE DEF g
  <1>3. DOMAIN g \ {s} = D
    BY <1>2
  <1>4. Restrict(g, D) = [x \in D |-> g[x]]
    BY DEF Restrict
  <1> QED BY <1>2, <1>3, <1>4 DEF g

-------------------------------------------------------------------------------
(* One context more, one less, or one that was told more. *)

\* A context of the callers or the counter holds h now.
LEMMA Gained ==
    ASSUME NEW e, Sane(e), NEW s \in OwnIds(e), NEW d, NEW h, NEW p,
           Good(d), Holds(d, e, s, h, p), Grown(h)
    PROVE  /\ Sane(d) /\ Words(d) = Put(Words(e), s, h)
           /\ d.count = e.count /\ s \in Owned(d) /\ d.ctx[s].hist = h
  <1>1. e.count \in Nat
    BY DEF Sane, Good, Layout, Engines
  <1>2. s \notin ResidentIds
    BY <1>1, IdsFacts
  <1>3. /\ Live(d) = Live(e) \cup {s} /\ d.ctx[s].hist = h
        /\ \A t \in Live(e) \ {s} : d.ctx[t].hist = e.ctx[t].hist /\ d.ctx[t].pend = e.ctx[t].pend
        /\ d.count = e.count /\ d.resident = e.resident
    BY DEF Holds, Kept
  <1>4. /\ \A t \in Live(e) : Grown(e.ctx[t].hist)
        /\ Live(e) \subseteq OwnIds(e) \cup ResidentIds
        /\ IsCache(e.resident, e) /\ Len(e.resident) <= ResidentMax
    BY DEF Sane, Orderly
  <1>5. \A t \in Live(d) : Grown(d.ctx[t].hist)
    BY <1>3, <1>4
  <1>6. Live(d) \subseteq OwnIds(d) \cup ResidentIds
    BY <1>3, <1>4 DEF OwnIds
  <1>7. IsCache(d.resident, d)
    <2>1. ASSUME NEW r, IsSource(r, e)
          PROVE  IsSource(r, d)
      <3>1. r.id \in Live(e) \ {s}
        BY <2>1, <1>2 DEF IsSource
      <3> QED BY <2>1, <3>1, <1>3 DEF IsSource
    <2>2. \A t \in Live(d) : t \in ResidentIds => t \in Live(e)
      BY <1>2, <1>3
    <2> QED BY <2>1, <2>2, <1>3, <1>4 DEF IsCache
  <1>8. Sane(d)
    BY <1>3, <1>4, <1>5, <1>6, <1>7 DEF Sane, Orderly
  <1>9. Words(d) = Put(Words(e), s, h)
    <2> DEFINE w == Put(Words(e), s, h)
    <2>1. Owned(d) = Owned(e) \cup {s}
      BY <1>2, <1>3 DEF Owned
    <2>2. DOMAIN Words(e) = Owned(e) /\ \A t \in Owned(e) : Words(e)[t] = e.ctx[t].hist
      BY DEF Words
    <2>3. w = [t \in Owned(d) |-> IF t = s THEN h ELSE Words(e)[t]]
      BY <2>1, <2>2 DEF Put
    <2>4. \A t \in Owned(d) : d.ctx[t].hist = IF t = s THEN h ELSE Words(e)[t]
      BY <2>1, <2>2, <1>3 DEF Owned
    <2> HIDE DEF w
    <2> QED BY <2>3, <2>4 DEF Words, w
  <1>10. s \in Owned(d)
    BY <1>2, <1>3 DEF Owned
  <1> QED BY <1>3, <1>8, <1>9, <1>10

\* Some contexts of the callers or the counter are gone.
LEMMA Dropped ==
    ASSUME NEW e, Orderly(e), NEW S, S \cap ResidentIds = {}, NEW d, Good(d),
           Live(d) = Live(e) \ S,
           \A t \in Live(d) : d.ctx[t].hist = e.ctx[t].hist /\ d.ctx[t].pend = e.ctx[t].pend,
           d.count = e.count, d.resident = e.resident
    PROVE  Sane(d) /\ Words(d) = Restrict(Words(e), DOMAIN Words(e) \ S)
  <1>4. /\ \A t \in Live(e) : Grown(e.ctx[t].hist)
        /\ Live(e) \subseteq OwnIds(e) \cup ResidentIds
        /\ IsCache(e.resident, e) /\ Len(e.resident) <= ResidentMax
    BY DEF Orderly
  <1>5. \A t \in Live(d) : Grown(d.ctx[t].hist)
    BY <1>4
  <1>6. Live(d) \subseteq OwnIds(d) \cup ResidentIds
    BY <1>4 DEF OwnIds
  <1>7. IsCache(d.resident, d)
    <2>1. ASSUME NEW r, IsSource(r, e)
          PROVE  IsSource(r, d)
      <3>1. r.id \in Live(d)
        BY <2>1 DEF IsSource
      <3> QED BY <2>1, <3>1 DEF IsSource
    <2>2. \A t \in Live(d) : t \in Live(e)
      OBVIOUS
    <2> QED BY <2>1, <2>2, <1>4 DEF IsCache
  <1>8. Sane(d)
    BY <1>4, <1>5, <1>6, <1>7 DEF Sane, Orderly
  <1>9. Words(d) = Restrict(Words(e), DOMAIN Words(e) \ S)
    <2>1. Owned(d) = Owned(e) \ S
      BY DEF Owned
    <2>2. DOMAIN Words(e) = Owned(e) /\ \A t \in Owned(e) : Words(e)[t] = e.ctx[t].hist
      BY DEF Words
    <2>3. Restrict(Words(e), Owned(e) \ S) = [t \in Owned(e) \ S |-> Words(e)[t]]
      BY DEF Restrict
    <2>4. Words(d) = [t \in Owned(e) \ S |-> d.ctx[t].hist]
      BY <2>1 DEF Words
    <2>5. \A t \in Owned(e) \ S : d.ctx[t].hist = Words(e)[t]
      BY <2>1, <2>2 DEF Owned
    <2> QED BY <2>2, <2>3, <2>4, <2>5
  <1> QED BY <1>8, <1>9

\* Freeing contexts of the callers or the counter takes just these away.
LEMMA FreedSane ==
    ASSUME NEW e, Sane(e), NEW S, S \subseteq Nat
    PROVE  LET d == FreeAll(e, S)
           IN  /\ Sane(d) /\ Words(d) = Restrict(Words(e), DOMAIN Words(e) \ S)
               /\ d.count = e.count
  <1> DEFINE d == FreeAll(e, S)
  <1>1. GoodBut(e, S) /\ Orderly(e) /\ e.count \in Nat
    BY GoodGoodBut DEF Sane, Good, Layout, Engines
  <1>2. /\ Good(d) /\ Live(d) = Live(e) \ S /\ \A t \in Live(d) : d.ctx[t] = e.ctx[t]
        /\ d.count = e.count /\ d.resident = e.resident
    BY <1>1, FreeAllMakes
  <1>3. S \cap ResidentIds = {}
    BY <1>1, IdsFacts
  <1> HIDE DEF d
  <1>4. Sane(d) /\ Words(d) = Restrict(Words(e), DOMAIN Words(e) \ S)
    BY <1>1, <1>2, <1>3, Dropped
  <1> QED BY <1>2, <1>4 DEF d

\* Freeing the context that a call left half done, and no other.
LEMMA FreedBehind ==
    ASSUME NEW e, Sane(e), NEW s \in Nat, NEW f, NEW h, NEW p,
           GoodBut(f, {s}), Holds(f, e, s, h, p), s \in Live(e)
    PROVE  LET d == FreeAll(f, {s})
           IN  /\ Sane(d) /\ Words(d) = Restrict(Words(e), DOMAIN Words(e) \ {s})
               /\ d.count = e.count
  <1> DEFINE d == FreeAll(f, {s})
  <1>1. Orderly(e) /\ e.count \in Nat
    BY DEF Sane, Good, Layout, Engines
  <1>2. /\ Good(d) /\ Live(d) = Live(f) \ {s} /\ \A t \in Live(d) : d.ctx[t] = f.ctx[t]
        /\ d.count = f.count /\ d.resident = f.resident
    BY FreeAllMakes
  <1>3. {s} \cap ResidentIds = {}
    BY <1>1, IdsFacts
  <1> HIDE DEF d
  <1>4. /\ Live(d) = Live(e) \ {s}
        /\ \A t \in Live(d) : d.ctx[t].hist = e.ctx[t].hist /\ d.ctx[t].pend = e.ctx[t].pend
        /\ d.count = e.count /\ d.resident = e.resident
    BY <1>2 DEF Holds, Kept
  <1>5. Sane(d) /\ Words(d) = Restrict(Words(e), DOMAIN Words(e) \ {s})
    BY <1>1, <1>2, <1>3, <1>4, Dropped
  <1> QED BY <1>4, <1>5 DEF d

\* The counter goes on and the contexts stay.
LEMMA CountedSane ==
    ASSUME NEW e, Sane(e)
    PROVE  LET d == Counted(e)
           IN  Sane(d) /\ Words(d) = Words(e) /\ d.count = e.count + 1 /\ Live(d) = Live(e)
  <1> DEFINE d == Counted(e)
             n == e.count + 1
  <1>1. e \in Engines /\ e.count \in Nat /\ e.resident \in Seq([entry : Nat, id : Int]) /\ n \in Nat
    BY DEF Sane, Good, Layout, Engines
  <1>2. e = [ctx |-> e.ctx, cell |-> e.cell, count |-> e.count, resident |-> e.resident]
    BY <1>1, EngineRecord
  <1>3. d = [e EXCEPT !.count = n]
    BY DEF Counted
  <1> HIDE DEF n, d
  <1>4. d = [ctx |-> e.ctx, cell |-> e.cell, count |-> n, resident |-> e.resident]
    BY <1>2, <1>3
  <1>5. /\ Good(d) /\ d.ctx = e.ctx /\ Live(d) = Live(e) /\ d.count = n
        /\ d.resident = e.resident
    BY <1>1, <1>4, GoodCounted DEF Sane
  <1>6. OwnIds(e) \subseteq OwnIds(d)
    BY <1>1, <1>5 DEF OwnIds, n
  <1>7. IsCache(d.resident, d)
    BY <1>5 DEF IsCache, IsSource, Sane, Orderly
  <1>8. Orderly(d)
    BY <1>5, <1>6, <1>7 DEF Sane, Orderly
  <1>9. Words(d) = Words(e)
    BY <1>5 DEF Words, Owned
  <1> QED BY <1>5, <1>8, <1>9 DEF Sane, d, n

-------------------------------------------------------------------------------
(* Largest and least elements. *)

\* A set of integers that is bounded above has a largest element.
LEMMA MaxFacts ==
    ASSUME NEW S \in SUBSET Int, S # {}, NEW b \in Int, \A x \in S : x <= b
    PROVE  Max(S) \in S /\ \A y \in S : Max(S) >= y
  <1> DEFINE D == {n \in Nat : b - n \in S}
  <1>1. PICK x \in S : TRUE
    OBVIOUS
  <1>2. b - x \in Nat /\ b - (b - x) = x
    BY <1>1
  <1>3. b - x \in D
    BY <1>1, <1>2
  <1>4. D \in SUBSET Nat /\ D # {}
    BY <1>3
  <1> HIDE DEF D
  <1>5. PICK m \in D : \A n \in D : m <= n
    BY <1>4, LeastExists
  <1>6. m \in Nat /\ b - m \in S
    BY <1>5 DEF D
  <1>7. ASSUME NEW y \in S
        PROVE  b - m >= y
    <2>1. b - y \in Nat /\ b - (b - y) = y
      BY <1>7
    <2>2. b - y \in D
      BY <2>1, <1>7 DEF D
    <2>3. m <= b - y
      BY <1>5, <2>2
    <2> QED BY <2>3, <1>6, <1>7
  <1>8. \E z \in S : \A y \in S : z >= y
    BY <1>6, <1>7
  <1> QED BY <1>8 DEF Max

\* A set of naturals has a least element.
LEMMA MinFacts ==
    ASSUME NEW S \in SUBSET Nat, S # {}
    PROVE  Min(S) \in S /\ \A y \in S : Min(S) <= y
  <1>1. \E m \in S : \A y \in S : m <= y
    BY LeastExists
  <1> QED BY <1>1 DEF Min

-------------------------------------------------------------------------------
(* The resident cache. *)

\* The cache's ids are one more than its sources.
LEMMA ResidentIdFree ==
    ASSUME NEW e, Sane(e)
    PROVE  ResidentId(e) \in ResidentIds /\ ResidentId(e) \notin Live(e) /\ ResidentId(e) \in Int
  <1> DEFINE B == ResidentIds
             l == e.resident
             n == Len(l)
             a == -11 - ResidentMax
  <1>1. /\ IsCache(l, e) /\ n <= ResidentMax /\ n \in Nat /\ ResidentMax \in Nat
        /\ a \in Int
    BY ProphetAssumption DEF Sane, Orderly, Good, Layout, Engines
  <1>2. B = a..(-11)
    BY DEF ResidentIds
  <1> HIDE DEF a
  <1>3. B \in SUBSET Int /\ \A x \in B : x <= -11
    BY <1>1, <1>2
  <1>4. B \ Live(e) # {}
    <2> SUFFICES ASSUME B \subseteq Live(e) PROVE FALSE
      OBVIOUS
    <2>1. IsFiniteSet(B) /\ Cardinality(B) = ResidentMax + 1
      <3> DEFINE z == -11
      <3>1. z \in Int
        OBVIOUS
      <3>2. ~(a > z) /\ z - a + 1 = ResidentMax + 1
        BY <1>1 DEF a
      <3>3. B = a..z
        BY <1>2
      <3> HIDE DEF z, B
      <3>4. IsFiniteSet(a..z) /\ Cardinality(a..z) = IF a > z THEN 0 ELSE z - a + 1
        BY <1>1, <3>1, FS_Interval
      <3> QED BY <3>2, <3>3, <3>4
    <2>2. IsFiniteSet(1..n) /\ Cardinality(1..n) = n
      <3> HIDE DEF n
      <3>1. IsFiniteSet(1..n) /\ Cardinality(1..n) = IF 1 > n THEN 0 ELSE n - 1 + 1
        BY <1>1, FS_Interval
      <3> QED BY <1>1, <3>1
    <2> DEFINE f == [t \in B |-> CHOOSE i \in 1..n : l[i].id = t]
    <2>3. ASSUME NEW t \in B
          PROVE  f[t] \in 1..n /\ l[f[t]].id = t
      <3>1. \E i \in 1..n : l[i].id = t
        BY <1>1, <2>3 DEF IsCache
      <3> QED BY <3>1
    <2>4. f \in [B -> 1..n]
      BY <2>3
    <2> HIDE DEF f, B, n
    <2>5. n < ResidentMax + 1
      BY <1>1
    <2>6. \E x, y \in B : x # y /\ f[x] = f[y]
      BY <2>1, <2>2, <2>4, <2>5, FS_PigeonHole
    <2> QED BY <2>3, <2>6
  <1> DEFINE F == B \ Live(e)
  <1>5. F \in SUBSET Int /\ \A x \in F : x <= -11
    BY <1>3
  <1> HIDE DEF F
  <1>6. Max(F) \in F
    BY <1>4, <1>5, MaxFacts DEF F
  <1>7. ResidentId(e) = Max(F)
    BY DEF ResidentId, F, ResidentIds
  <1> QED BY <1>3, <1>6, <1>7 DEF F

\* The i-th element of a sequence is moved to its end.
MovedLast(l, i) == Append(RemoveAt(l, i), l[i])

\* The others close up and keep their order.
LEMMA MovedLastFacts ==
    ASSUME NEW S, NEW l \in Seq(S), NEW i \in 1..Len(l)
    PROVE  /\ MovedLast(l, i) \in Seq(S) /\ RemoveAt(l, i) \in Seq(S)
           /\ Len(MovedLast(l, i)) = Len(l)
           /\ MovedLast(l, i)[Len(l)] = l[i]
           /\ \A j \in 1..Len(l) :
                 MovedLast(l, i)[j] = l[IF j < i THEN j ELSE IF j < Len(l) THEN j + 1 ELSE i]
  <1> DEFINE a == SubSeq(l, 1, i - 1)
             b == SubSeq(l, i + 1, Len(l))
             m == MovedLast(l, i)
             n == Len(l)
  <1>1. n \in Nat /\ i \in 1..n /\ \A j \in 1..n : l[j] \in S
    OBVIOUS
  <1>2. a \in Seq(S) /\ Len(a) = i - 1 /\ \A j \in 1..i-1 : a[j] = l[j]
    BY <1>1, Prefix
  <1>3. b \in Seq(S) /\ Len(b) = n - i /\ \A j \in 1..n-i : b[j] = l[i + j]
    BY <1>1
  <1> HIDE DEF a, b
  <1>4. /\ a \o b \in Seq(S) /\ Len(a \o b) = n - 1
        /\ \A j \in 1..i-1 : (a \o b)[j] = a[j]
        /\ \A j \in i..n-1 : (a \o b)[j] = b[j - (i - 1)]
    BY <1>1, <1>2, <1>3
  <1>5. RemoveAt(l, i) = a \o b
    BY DEF RemoveAt, a, b
  <1> DEFINE c == a \o b
  <1> HIDE DEF c
  <1>6. /\ m \in Seq(S) /\ Len(m) = n /\ m[n] = l[i]
        /\ \A j \in 1..n-1 : m[j] = c[j]
    <2>1. m = Append(c, l[i]) /\ l[i] \in S /\ c \in Seq(S) /\ Len(c) = n - 1
      BY <1>1, <1>4, <1>5 DEF MovedLast, c
    <2> HIDE DEF m, n
    <2> QED BY <2>1, <1>1
  <1>7. ASSUME NEW j \in 1..n
        PROVE  m[j] = l[IF j < i THEN j ELSE IF j < n THEN j + 1 ELSE i]
    <2> HIDE DEF m, n
    <2>1. CASE j < i
      <3>1. j \in 1..i-1 /\ j \in 1..n-1
        BY <2>1, <1>1
      <3> QED BY <2>1, <3>1, <1>2, <1>4, <1>6 DEF c
    <2>2. CASE ~(j < i) /\ j < n
      <3>1. j \in i..n-1 /\ j \in 1..n-1 /\ j - (i - 1) \in 1..n-i /\ i + (j - (i - 1)) = j + 1
        BY <2>2, <1>1
      <3>2. m[j] = b[j - (i - 1)]
        BY <3>1, <1>4, <1>6 DEF c
      <3>3. b[j - (i - 1)] = l[i + (j - (i - 1))]
        BY <3>1, <1>3
      <3>4. m[j] = l[j + 1]
        BY <3>1, <3>2, <3>3
      <3> QED BY <2>2, <3>4
    <2>3. CASE ~(j < i) /\ ~(j < n)
      <3>1. j = n
        BY <2>3, <1>1
      <3> QED BY <2>3, <3>1, <1>6
    <2> QED BY <2>1, <2>2, <2>3
  <1> QED BY <1>4, <1>5, <1>6, <1>7

\* Only the list of sources has changed.
Relisted(d, e, l) ==
    /\ Good(d) /\ d.ctx = e.ctx /\ Live(d) = Live(e)
    /\ d.count = e.count /\ d.resident = l

\* Assigning the list changes nothing else.
LEMMA RelistedIs ==
    ASSUME NEW e, Good(e), NEW l \in Seq([entry : Nat, id : Int])
    PROVE  Relisted([e EXCEPT !.resident = l], e, l)
  <1> DEFINE d == [e EXCEPT !.resident = l]
  <1>1. e \in Engines /\ e.count \in Nat
    BY DEF Good, Layout, Engines
  <1>2. e = [ctx |-> e.ctx, cell |-> e.cell, count |-> e.count, resident |-> e.resident]
    BY <1>1, EngineRecord
  <1>3. d = [ctx |-> e.ctx, cell |-> e.cell, count |-> e.count, resident |-> l]
    BY <1>2
  <1> HIDE DEF d
  <1>4. /\ Good(d) /\ d.ctx = e.ctx /\ Live(d) = Live(e) /\ d.count = e.count
        /\ d.resident = l
    BY <1>1, <1>3, GoodCounted
  <1> QED BY <1>4 DEF Relisted, d

\* Sources and words are a matter of the contexts.
LEMMA RelistedSame ==
    ASSUME NEW e, NEW d, NEW l, Relisted(d, e, l)
    PROVE  /\ \A r : IsSource(r, e) <=> IsSource(r, d)
           /\ \A k : IsCache(k, e) <=> IsCache(k, d)
           /\ Words(d) = Words(e) /\ Owned(d) = Owned(e) /\ OwnIds(d) = OwnIds(e)
  <1>1. d.ctx = e.ctx /\ Live(d) = Live(e) /\ d.count = e.count
    BY DEF Relisted
  <1>2. \A r : IsSource(r, e) <=> IsSource(r, d)
    BY <1>1 DEF IsSource
  <1>3. \A k : IsCache(k, e) <=> IsCache(k, d)
    BY <1>1, <1>2 DEF IsCache
  <1>4. Words(d) = Words(e) /\ Owned(d) = Owned(e) /\ OwnIds(d) = OwnIds(e)
    BY <1>1 DEF Words, Owned, OwnIds
  <1> QED BY <1>2, <1>3, <1>4

\* A source that is used again becomes the one used last.
LEMMA ReorderedSane ==
    ASSUME NEW e, Sane(e), NEW i \in 1..Len(e.resident)
    PROVE  LET l == MovedLast(e.resident, i)
               d == [e EXCEPT !.resident = l]
           IN  /\ Sane(d) /\ Words(d) = Words(e) /\ d.count = e.count
               /\ Last(d.resident) = e.resident[i] /\ IsSource(e.resident[i], d)
               /\ Live(d) = Live(e)
  <1> DEFINE k == e.resident
             l == MovedLast(k, i)
             d == [e EXCEPT !.resident = l]
             S == [entry : Nat, id : Int]
             at(j) == IF j < i THEN j ELSE IF j < Len(k) THEN j + 1 ELSE i
             back(j) == IF j < i THEN j ELSE IF j = i THEN Len(k) ELSE j - 1
  <1>1. Good(e) /\ k \in Seq(S) /\ IsCache(k, e) /\ Len(k) <= ResidentMax
    BY DEF Sane, Good, Layout, Engines, Orderly
  <1>2. Len(k) \in Nat /\ i \in 1..Len(k)
    BY <1>1
  <1>3. /\ l \in Seq(S) /\ Len(l) = Len(k) /\ l[Len(k)] = k[i]
        /\ \A j \in 1..Len(k) : l[j] = k[at(j)]
    BY <1>1, MovedLastFacts
  <1>4. \A j \in 1..Len(k) : at(j) \in 1..Len(k) /\ back(j) \in 1..Len(k) /\ at(back(j)) = j
    BY <1>2
  <1>5. \A j, m \in 1..Len(k) : at(j) = at(m) => j = m
    BY <1>2
  <1> HIDE DEF l, at, back
  <1>6. Relisted(d, e, l)
    BY <1>1, <1>3, RelistedIs
  <1> HIDE DEF d
  <1>7. IsCache(l, e)
    <2>1. \A j \in 1..Len(l) : IsSource(l[j], e)
      BY <1>1, <1>3, <1>4 DEF IsCache
    <2>2. ASSUME NEW j \in 1..Len(l), NEW m \in 1..Len(l), l[j].id = l[m].id
          PROVE  j = m
      <3>1. j \in 1..Len(k) /\ m \in 1..Len(k)
        BY <1>3
      <3>2. k[at(j)].id = k[at(m)].id
        BY <2>2, <3>1, <1>3
      <3>3. at(j) = at(m)
        BY <3>1, <3>2, <1>1, <1>4 DEF IsCache
      <3> QED BY <3>1, <3>3, <1>5
    <2>3. \A t \in Live(e) : t \in ResidentIds => \E j \in 1..Len(l) : l[j].id = t
      <3> TAKE t \in Live(e)
      <3> HAVE t \in ResidentIds
      <3>1. PICK j \in 1..Len(k) : k[j].id = t
        BY <1>1 DEF IsCache
      <3>2. back(j) \in 1..Len(l) /\ l[back(j)] = k[j]
        BY <1>3, <1>4
      <3> QED BY <3>1, <3>2
    <2> QED BY <2>1, <2>2, <2>3 DEF IsCache
  <1>8. IsCache(d.resident, d) /\ Words(d) = Words(e) /\ OwnIds(d) = OwnIds(e)
        /\ Len(d.resident) <= ResidentMax
    BY <1>1, <1>3, <1>6, <1>7, RelistedSame DEF Relisted
  <1>9. Sane(d)
    BY <1>6, <1>8 DEF Sane, Orderly, Relisted
  <1>10. Last(d.resident) = k[i]
    BY <1>2, <1>3, <1>6 DEF Last, Relisted
  <1>11. IsSource(k[i], d)
    BY <1>1, <1>2, <1>6, RelistedSame DEF IsCache
  <1> QED BY <1>6, <1>8, <1>9, <1>10, <1>11 DEF Relisted, d, l

\* A new source is listed last, and the one used longest ago goes when there
\* are too many.
LEMMA AddedSane ==
    ASSUME NEW e, Sane(e), NEW f, Good(f), NEW id \in ResidentIds, id \notin Live(e),
           NEW x \in Listed, IsSnap(SnapOf(x)), x \in Nat,
           Holds(f, e, id, SnapOf(x).hist, SnapOf(x).pend)
    PROVE  LET r == [entry |-> x, id |-> id]
               d == Pruned([f EXCEPT !.resident = Append(f.resident, r)])
           IN  /\ Sane(d) /\ Words(d) = Words(e) /\ d.count = e.count
               /\ Last(d.resident) = r /\ IsSource(r, d)
  <1> DEFINE S == [entry : Nat, id : Int]
             r == [entry |-> x, id |-> id]
             k == e.resident
             n == Len(k)
             l == Append(k, r)
             g == [f EXCEPT !.resident = l]
             d == Pruned(g)
  <1>1. /\ k \in Seq(S) /\ IsCache(k, e) /\ n <= ResidentMax /\ n \in Nat /\ e.count \in Nat
        /\ \A t \in Live(e) : Grown(e.ctx[t].hist)
        /\ Live(e) \subseteq OwnIds(e) \cup ResidentIds
    BY DEF Sane, Good, Layout, Engines, Orderly
  <1>2. id \in Int /\ ResidentMax \in Nat \ {0}
    BY <1>1, IdsFacts, ProphetAssumption
  <1>3. r \in S /\ r.entry = x /\ r.id = id
    BY <1>2
  <1>4. /\ Live(f) = Live(e) \cup {id} /\ f.ctx[id].hist = SnapOf(x).hist
        /\ f.ctx[id].pend = SnapOf(x).pend
        /\ \A t \in Live(e) : f.ctx[t].hist = e.ctx[t].hist /\ f.ctx[t].pend = e.ctx[t].pend
        /\ f.count = e.count /\ f.resident = k
    BY DEF Holds, Kept
  <1> HIDE DEF r
  <1>5. /\ l \in Seq(S) /\ Len(l) = n + 1 /\ l[n + 1] = r
        /\ \A j \in 1..n : l[j] = k[j]
    <2> HIDE DEF S
    <2> QED BY <1>1, <1>3, AppendProperties
  <1> HIDE DEF l, k, n
  <1>6. Relisted(g, f, l)
    BY <1>5, RelistedIs
  <1>7. d = Pruned([f EXCEPT !.resident = Append(f.resident, r)])
    BY <1>4 DEF l
  <1> HIDE DEF g
  <1>8. /\ Good(g) /\ g.ctx = f.ctx /\ Live(g) = Live(f) /\ g.count = e.count /\ g.resident = l
    BY <1>4, <1>6 DEF Relisted
  <1>9. IsCache(l, g)
    <2>1. ASSUME NEW j \in 1..Len(l)
          PROVE  IsSource(l[j], g)
      <3>1. CASE j \in 1..n
        <4>1. IsSource(k[j], e)
          BY <1>1, <3>1 DEF IsCache, n
        <4> QED BY <4>1, <1>4, <1>5, <1>8, <3>1 DEF IsSource
      <3>2. CASE j = n + 1
        BY <3>2, <1>3, <1>4, <1>5, <1>8 DEF IsSource
      <3> QED BY <3>1, <3>2, <1>1, <1>5
    <2>2. \A j \in 1..n : k[j].id \in Live(e)
      BY <1>1 DEF IsCache, IsSource, n
    <2>3. \A j, m \in 1..Len(l) : l[j].id = l[m].id => j = m
      <3> TAKE j, m \in 1..Len(l)
      <3> HAVE l[j].id = l[m].id
      <3>1. CASE j \in 1..n /\ m \in 1..n
        BY <3>1, <1>1, <1>5 DEF IsCache, n
      <3>2. CASE j = n + 1 /\ m = n + 1
        BY <3>2
      <3>3. CASE j \in 1..n /\ m = n + 1
        BY <3>3, <2>2, <1>3, <1>5
      <3>4. CASE j = n + 1 /\ m \in 1..n
        BY <3>4, <2>2, <1>3, <1>5
      <3>5. (j \in 1..n \/ j = n + 1) /\ (m \in 1..n \/ m = n + 1)
        BY <1>1, <1>5
      <3> QED BY <3>1, <3>2, <3>3, <3>4, <3>5
    <2>4. ASSUME NEW t \in Live(g), t \in ResidentIds
          PROVE  \E j \in 1..Len(l) : l[j].id = t
      <3>1. CASE t = id
        BY <3>1, <1>1, <1>3, <1>5
      <3>2. CASE t # id
        <4>1. t \in Live(e)
          BY <3>2, <1>4, <1>8
        <4>2. PICK j \in 1..n : k[j].id = t
          BY <4>1, <2>4, <1>1 DEF IsCache, n
        <4>3. j \in 1..Len(l)
          BY <1>1, <1>5
        <4>4. l[j] = k[j]
          BY <1>5
        <4> QED BY <4>2, <4>3, <4>4
      <3> QED BY <3>1, <3>2
    <2> QED BY <2>1, <2>3, <2>4 DEF IsCache
  <1>10. /\ \A t \in Live(g) : Grown(g.ctx[t].hist)
         /\ Live(g) \subseteq OwnIds(g) \cup ResidentIds
         /\ Words(g) = Words(e)
    <2>1. \A t \in Live(g) : Grown(g.ctx[t].hist)
      BY <1>1, <1>4, <1>8 DEF IsSnap
    <2>2. Live(g) \subseteq OwnIds(g) \cup ResidentIds
      BY <1>1, <1>4, <1>8 DEF OwnIds
    <2>3. Owned(g) = Owned(e) /\ \A t \in Owned(e) : g.ctx[t].hist = e.ctx[t].hist
      BY <1>4, <1>8 DEF Owned
    <2> QED BY <2>1, <2>2, <2>3 DEF Words
  <1>11. CASE Len(l) <= ResidentMax
    <2>1. d = g
      BY <1>8, <1>11 DEF Pruned
    <2>2. Sane(g)
      BY <1>8, <1>9, <1>10, <1>11 DEF Sane, Orderly
    <2>3. Last(l) = r /\ IsSource(r, g)
      BY <1>1, <1>5, <1>9 DEF Last, IsCache
    <2> HIDE DEF d
    <2> QED BY <1>7, <1>8, <1>10, <2>1, <2>2, <2>3 DEF r
  <1>12. CASE ~(Len(l) <= ResidentMax)
    <2> DEFINE m == Tail(l)
               v == Head(l).id
               h == [g EXCEPT !.resident = m]
    <2>1. n = ResidentMax /\ Len(l) = n + 1 /\ Len(l) > 1
      BY <1>1, <1>2, <1>5, <1>12
    <2>2. m \in Seq(S) /\ Len(m) = n /\ \A j \in 1..n : m[j] = l[j + 1]
      <3> HIDE DEF S
      <3> QED BY <2>1, <1>1, <1>5
    <2>3. v = l[1].id /\ 1 \in 1..Len(l)
      BY <2>1, <1>1
    <2>4. d = FreeSequence(h, v)
      BY <1>8, <1>12 DEF Pruned
    <2>5. d = FreeAll(h, {v})
      BY <2>4, FreeIsFreeAll
    <2> HIDE DEF m, v
    <2>6. Relisted(h, g, m)
      BY <1>8, <2>2, RelistedIs
    <2> HIDE DEF h
    <2>7. /\ Good(h) /\ h.ctx = g.ctx /\ Live(h) = Live(g) /\ h.count = g.count /\ h.resident = m
      BY <2>6 DEF Relisted
    <2>8. GoodBut(h, {v})
      BY <2>7, GoodGoodBut
    <2> HIDE DEF d
    <2>9. /\ Good(d) /\ Live(d) = Live(g) \ {v} /\ \A t \in Live(d) : d.ctx[t] = g.ctx[t]
          /\ d.count = g.count /\ d.resident = m
      <3>1. /\ Good(d) /\ Live(d) = Live(h) \ {v} /\ \A t \in Live(d) : d.ctx[t] = h.ctx[t]
            /\ d.count = h.count /\ d.resident = h.resident
        <4> DEFINE w == FreeAll(h, {v})
        <4>1. /\ Good(w) /\ Live(w) = Live(h) \ {v} /\ \A t \in Live(w) : w.ctx[t] = h.ctx[t]
              /\ w.count = h.count /\ w.resident = h.resident
          BY <2>8, FreeAllMakes
        <4> HIDE DEF w
        <4>2. d = w
          BY <2>5 DEF w
        <4> QED BY <4>1, <4>2
      <3> QED BY <3>1, <2>7
    <2>10. v \in ResidentIds
      BY <1>9, <2>3 DEF IsCache, IsSource
    <2>11. IsCache(m, d)
      <3>1. ASSUME NEW j \in 1..Len(m)
            PROVE  IsSource(m[j], d)
        <4>1. j \in 1..n /\ j + 1 \in 1..Len(l) /\ j + 1 # 1
          BY <2>1, <2>2, <1>1
        <4>2. IsSource(l[j + 1], g) /\ l[j + 1].id # v
          BY <4>1, <1>9, <2>3 DEF IsCache
        <4>3. IsSource(m[j], g) /\ m[j].id # v
          BY <4>1, <4>2, <2>2
        <4> QED BY <4>3, <2>9 DEF IsSource
      <3>2. \A j, q \in 1..Len(m) : m[j].id = m[q].id => j = q
        <4> TAKE j, q \in 1..Len(m)
        <4> HAVE m[j].id = m[q].id
        <4>1. j + 1 \in 1..Len(l) /\ q + 1 \in 1..Len(l) /\ j \in 1..n /\ q \in 1..n
          BY <2>1, <2>2, <1>1
        <4>2. l[j + 1].id = l[q + 1].id
          BY <4>1, <2>2
        <4>3. j + 1 = q + 1
          BY <4>1, <4>2, <1>9 DEF IsCache
        <4> QED BY <4>1, <4>3
      <3>3. ASSUME NEW t \in Live(d), t \in ResidentIds
            PROVE  \E j \in 1..Len(m) : m[j].id = t
        <4>1. t \in Live(g) /\ t # v
          BY <2>9
        <4>2. PICK j \in 1..Len(l) : l[j].id = t
          BY <4>1, <3>3, <1>9 DEF IsCache
        <4>3. j # 1
          BY <4>1, <4>2, <2>3
        <4>4. j - 1 \in 1..n /\ (j - 1) + 1 = j
          BY <4>3, <2>1, <1>1
        <4>5. m[j - 1] = l[j]
          BY <4>4, <2>2
        <4> QED BY <4>2, <4>4, <4>5, <2>2
      <3> QED BY <3>1, <3>2, <3>3 DEF IsCache
    <2>12. Words(d) = Words(e)
      <3>1. Owned(d) = Owned(g) /\ \A t \in Owned(g) : d.ctx[t].hist = g.ctx[t].hist
        BY <2>9, <2>10 DEF Owned
      <3>2. Words(d) = Words(g)
        BY <3>1 DEF Words
      <3> QED BY <3>2, <1>10
    <2>13. Sane(d)
      <3>1. \A t \in Live(d) : Grown(d.ctx[t].hist)
        BY <1>10, <2>9
      <3>2. Live(d) \subseteq OwnIds(d) \cup ResidentIds
        BY <1>10, <2>9 DEF OwnIds
      <3> QED BY <3>1, <3>2, <2>1, <2>2, <2>9, <2>11, <1>1 DEF Sane, Orderly
    <2>14. Last(m) = r /\ IsSource(r, d)
      <3>1. Last(m) = m[n] /\ m[n] = l[n + 1] /\ n \in 1..Len(m)
        <4>1. n \in Nat /\ ResidentMax \in Nat \ {0}
          BY <1>1, <1>2
        <4>2. n \in Nat \ {0} /\ Len(m) = n
          BY <4>1, <2>1, <2>2
        <4>3. n \in 1..n
          BY <4>2
        <4>4. m[n] = l[n + 1]
          BY <4>3, <2>2
        <4> QED BY <4>2, <4>3, <4>4 DEF Last
      <3> QED BY <3>1, <1>5, <2>11 DEF IsCache
    <2> QED BY <1>7, <1>8, <2>9, <2>12, <2>13, <2>14 DEF r
  <1> QED BY <1>11, <1>12

-------------------------------------------------------------------------------
(* The calls, as the callers see them. *)

\* What a listed entry's file holds.
LEMMA ListedSnap ==
    ASSUME Library, NEW x \in Listed
    PROVE  /\ IsSnap(SnapOf(x)) /\ x \in Nat /\ x \in DOMAIN files
           /\ SnapOf(x).hist \in Seq(Nat) /\ Grown(SnapOf(x).hist)
           /\ SnapOf(x).pend \in {SnapOf(x).hist, NoLogits}
           /\ SnapOf(x) = [rows |-> RowsOf(SnapOf(x).hist), hist |-> SnapOf(x).hist,
                           pend |-> SnapOf(x).pend]
  <1>1. x \in DOMAIN files /\ \E n \in Nat : DOMAIN files = 1..n
    BY DEF Library
  <1>2. IsSnap(SnapOf(x))
    BY <1>1 DEF Library
  <1> HIDE DEF SnapOf
  <1> QED BY <1>1, <1>2 DEF IsSnap

\* A context s that holds h is there after a call that returned, and nothing
\* else; nothing is when it raised.
IsAdded(r, e, s, h) ==
    /\ r.ok \in BOOLEAN /\ Sane(r.e) /\ r.e.count = e.count
    /\ ~r.ok => Words(r.e) = Words(e)
    /\ r.ok => s \notin Owned(e) /\ s \in Owned(r.e) /\ Words(r.e) = Put(Words(e), s, h)

\* A source of the cache is ready when the call returned.
SourceReady(r, e, x) ==
    /\ r.ok \in BOOLEAN /\ Sane(r.e) /\ Words(r.e) = Words(e) /\ r.e.count = e.count
    /\ r.ok => LET id == Last(r.e.resident).id
               IN  id \in Live(r.e) /\ r.e.ctx[id].hist = SnapOf(x).hist

\* The source is found, or restored, or the call raises and tells nobody.
LEMMA ResidentSourceReady ==
    ASSUME Library, NEW e, Sane(e), NEW x \in Listed, NEW room \in Nat
    PROVE  SourceReady(ResidentSource(e, x, room), e, x)
  <1> DEFINE at == {i \in DOMAIN e.resident : e.resident[i].entry = x}
             i == CHOOSE k \in at : TRUE
             id == ResidentId(e)
             r == ResidentSource(e, x, room)
             snap == SnapOf(x)
  <1>1. /\ e \in Engines /\ Good(e) /\ e.resident \in Seq([entry : Nat, id : Int])
        /\ DOMAIN e.resident = 1..Len(e.resident) /\ IsCache(e.resident, e)
    BY DEF Sane, Good, Layout, Engines, Orderly
  <1>2. CASE at # {}
    <2>1. i \in 1..Len(e.resident) /\ e.resident[i].entry = x
      BY <1>1, <1>2
    <2>2. IsSource(e.resident[i], e)
      BY <1>1, <2>1 DEF IsCache
    <2>3. r = Done([e EXCEPT !.resident = MovedLast(e.resident, i)])
      BY <1>2, <2>2 DEF ResidentSource, MovedLast, IsSource
    <2> HIDE DEF i
    <2> DEFINE d == [e EXCEPT !.resident = MovedLast(e.resident, i)]
    <2>4. /\ Sane(d) /\ Words(d) = Words(e) /\ d.count = e.count
          /\ Last(d.resident) = e.resident[i] /\ IsSource(e.resident[i], d)
      BY <2>1, ReorderedSane
    <2> HIDE DEF d, r
    <2>5. r.ok = TRUE /\ r.e = d
      BY <2>3 DEF Done, d
    <2>6. SourceReady(r, e, x)
      BY <2>1, <2>4, <2>5 DEF SourceReady, IsSource
    <2> QED BY <2>6 DEF r
  <1>3. CASE at = {}
    <2> DEFINE a == RestoreContext(e, id, snap, room)
               l == Append(a.e.resident, [entry |-> x, id |-> id])
               d == Pruned([a.e EXCEPT !.resident = l])
    <2>1. [e EXCEPT !.resident = e.resident] = e
      BY <1>1, EngineRecord
    <2>2. r = IF a.ok THEN Done(d) ELSE a
      BY <1>3, <2>1 DEF ResidentSource, Then
    <2>3. id \in ResidentIds /\ id \notin Live(e) /\ id \in Int
      BY ResidentIdFree
    <2>4. /\ IsSnap(snap) /\ x \in Nat /\ snap.hist \in Seq(Nat)
          /\ snap.pend \in {snap.hist, NoLogits}
          /\ snap = [rows |-> RowsOf(snap.hist), hist |-> snap.hist, pend |-> snap.pend]
      BY ListedSnap
    <2> HIDE DEF id, snap, r, d
    <2>5. /\ a.ok \in BOOLEAN
          /\ ~a.ok => a.e = e
          /\ a.ok => Good(a.e) /\ Holds(a.e, e, id, snap.hist, snap.pend)
      BY <1>1, <2>3, <2>4, RestoreMakes
    <2> HIDE DEF a
    <2>6. CASE ~a.ok
      <3>1. r.ok = FALSE /\ r.e = e
        BY <2>2, <2>5, <2>6
      <3> QED BY <3>1 DEF SourceReady, r
    <2>7. CASE a.ok
      <3> DEFINE s == [entry |-> x, id |-> id]
      <3>1. /\ Sane(d) /\ Words(d) = Words(e) /\ d.count = e.count
            /\ Last(d.resident) = s /\ IsSource(s, d)
        <4>1. Holds(a.e, e, id, SnapOf(x).hist, SnapOf(x).pend) /\ IsSnap(SnapOf(x)) /\ Good(a.e)
          BY <2>4, <2>5, <2>7 DEF snap
        <4> QED BY <4>1, <2>3, <2>4, AddedSane DEF d
      <3>2. s.id = id /\ s.entry = x
        OBVIOUS
      <3> HIDE DEF s
      <3>3. r.ok = TRUE /\ r.e = d
        BY <2>2, <2>7 DEF Done
      <3>4. SourceReady(r, e, x)
        BY <3>1, <3>2, <3>3 DEF SourceReady, IsSource
      <3> QED BY <3>4 DEF r
    <2> QED BY <2>5, <2>6, <2>7
  <1> QED BY <1>2, <1>3

\* A fork of a context that is there.
LEMMA ForkAdds ==
    ASSUME NEW e, Sane(e), NEW src \in Live(e), NEW s \in OwnIds(e), NEW room \in Nat
    PROVE  IsAdded(ForkContextPrefix(e, src, s, room), e, s, e.ctx[src].hist)
  <1> DEFINE r == ForkContextPrefix(e, src, s, room)
             h == e.ctx[src].hist
  <1>1. Good(e) /\ e.count \in Nat /\ Grown(h)
    BY DEF Sane, Good, Layout, Engines, Orderly
  <1>2. h # <<>> /\ s \in Int
    BY <1>1, GrownFacts, IdsFacts
  <1>3. /\ r.ok \in BOOLEAN
        /\ ~r.ok => r.e = e
        /\ r.ok => s \notin Live(e) /\ Good(r.e) /\ Holds(r.e, e, s, h, e.ctx[src].pend)
    BY <1>1, <1>2, ForkHolds
  <1> HIDE DEF r, h
  <1>4. r.ok => /\ Sane(r.e) /\ Words(r.e) = Put(Words(e), s, h)
                /\ r.e.count = e.count /\ s \in Owned(r.e)
    BY <1>1, <1>3, Gained
  <1>5. IsAdded(r, e, s, h)
    BY <1>3, <1>4 DEF IsAdded, Owned
  <1> QED BY <1>5 DEF r, h

\* A prompt that is prefilled.
LEMMA PrefillAdds ==
    ASSUME NEW e, Sane(e), NEW s \in OwnIds(e), NEW q \in Prompts, NEW room \in Nat
    PROVE  IsAdded(PrefillContext(e, s, q, room), e, s, q)
  <1> DEFINE r == PrefillContext(e, s, q, room)
  <1>1. Good(e) /\ e.count \in Nat /\ Grown(q) /\ q \in Seq(Nat)
    BY PromptGrown DEF Sane, Good, Layout, Engines
  <1>2. s \in Int
    BY <1>1, IdsFacts
  <1>3. /\ r.ok \in BOOLEAN
        /\ ~r.ok => r.e = e
        /\ r.ok => s \notin Live(e) /\ Good(r.e) /\ Holds(r.e, e, s, q, q)
    BY <1>1, <1>2, PrefillMakes
  <1> HIDE DEF r
  <1>4. r.ok => /\ Sane(r.e) /\ Words(r.e) = Put(Words(e), s, q)
                /\ r.e.count = e.count /\ s \in Owned(r.e)
    BY <1>1, <1>3, Gained
  <1>5. IsAdded(r, e, s, q)
    BY <1>3, <1>4 DEF IsAdded, Owned
  <1> QED BY <1>5 DEF r

\* A snapshot that is restored.
LEMMA RestoreAdds ==
    ASSUME Library, NEW e, Sane(e), NEW s \in OwnIds(e), NEW x \in Listed, NEW room \in Nat
    PROVE  IsAdded(RestoreContext(e, s, SnapOf(x), room), e, s, SnapOf(x).hist)
  <1> DEFINE snap == SnapOf(x)
             r == RestoreContext(e, s, snap, room)
  <1>1. Good(e) /\ e.count \in Nat
    BY DEF Sane, Good, Layout, Engines
  <1>2. s \in Int
    BY <1>1, IdsFacts
  <1>3. /\ snap.hist \in Seq(Nat) /\ Grown(snap.hist) /\ snap.pend \in {snap.hist, NoLogits}
        /\ snap = [rows |-> RowsOf(snap.hist), hist |-> snap.hist, pend |-> snap.pend]
    BY ListedSnap
  <1> HIDE DEF snap
  <1>4. /\ r.ok \in BOOLEAN
        /\ ~r.ok => r.e = e
        /\ r.ok => s \notin Live(e) /\ Good(r.e) /\ Holds(r.e, e, s, snap.hist, snap.pend)
    BY <1>1, <1>2, <1>3, RestoreMakes
  <1> HIDE DEF r
  <1>5. r.ok => /\ Sane(r.e) /\ Words(r.e) = Put(Words(e), s, snap.hist)
                /\ r.e.count = e.count /\ s \in Owned(r.e)
    BY <1>1, <1>3, <1>4, Gained
  <1>6. IsAdded(r, e, s, snap.hist)
    BY <1>4, <1>5 DEF IsAdded, Owned
  <1> QED BY <1>6 DEF r, snap

\* The same under the names the library's routes use.
LEMMA CopyAdds ==
    ASSUME Library, NEW e, Sane(e), NEW s \in OwnIds(e), NEW x \in Listed, NEW room \in Nat
    PROVE  IsAdded(Copy(e, x, s, room), e, s, SnapOf(x).hist) /\ Copy(e, x, s, room).id = s
  <1> DEFINE a == RestoreContext(e, s, SnapOf(x), room)
             r == Copy(e, x, s, room)
  <1>1. s # NoId
    BY IdsFacts DEF Sane, Good, Layout, Engines
  <1>2. r.e = a.e /\ r.ok = a.ok /\ r.id = s
    BY <1>1 DEF Copy, Named, RestoreId
  <1>3. IsAdded(a, e, s, SnapOf(x).hist)
    BY RestoreAdds
  <1> HIDE DEF a, r
  <1>4. IsAdded(r, e, s, SnapOf(x).hist)
    BY <1>2, <1>3 DEF IsAdded
  <1> QED BY <1>2, <1>4 DEF r

\* A fork of the resident source.
LEMMA ForkSourceAdds ==
    ASSUME Library, NEW e, Sane(e), NEW s \in OwnIds(e), NEW x \in Listed, NEW room \in Nat
    PROVE  LET r == ForkResidentSource(e, x, s, room)
           IN  IsAdded(r, e, s, SnapOf(x).hist) /\ (r.ok => r.id = s)
  <1> DEFINE a == ResidentSource(e, x, room)
             src == Last(a.e.resident).id
             b == ForkContextPrefix(a.e, src, s, room)
             r == ForkResidentSource(e, x, s, room)
             h == SnapOf(x).hist
  <1>1. s # NoId
    BY IdsFacts DEF Sane, Good, Layout, Engines
  <1>2. r = IF a.ok THEN [e |-> b.e, ok |-> b.ok, id |-> s] ELSE a
    BY <1>1 DEF ForkResidentSource, Then, Named, Asked, IdFor
  <1>3. SourceReady(a, e, x)
    BY ResidentSourceReady
  <1> HIDE DEF a, r
  <1>4. CASE ~a.ok
    <2>1. r = a
      BY <1>2, <1>4
    <2>2. IsAdded(r, e, s, h) /\ ~r.ok
      BY <2>1, <1>3, <1>4 DEF IsAdded, SourceReady
    <2> QED BY <2>2 DEF r
  <1>5. CASE a.ok
    <2>1. /\ Sane(a.e) /\ src \in Live(a.e) /\ a.e.ctx[src].hist = h
          /\ Words(a.e) = Words(e) /\ a.e.count = e.count
      BY <1>3, <1>5 DEF SourceReady
    <2>2. s \in OwnIds(a.e)
      BY <2>1 DEF OwnIds
    <2> HIDE DEF src, h
    <2>3. IsAdded(b, a.e, s, a.e.ctx[src].hist)
      BY <2>1, <2>2, ForkAdds
    <2> HIDE DEF b
    <2>4. r.e = b.e /\ r.ok = b.ok /\ r.id = s
      BY <1>2, <1>5
    <2>5. Owned(a.e) = Owned(e)
      <3>1. DOMAIN Words(a.e) = Owned(a.e) /\ DOMAIN Words(e) = Owned(e)
        BY DEF Words
      <3> QED BY <3>1, <2>1
    <2>6. IsAdded(r, e, s, h)
      BY <2>1, <2>3, <2>4, <2>5 DEF IsAdded
    <2> QED BY <2>4, <2>6 DEF r, h
  <1>6. a.ok \in BOOLEAN
    BY <1>3 DEF SourceReady
  <1> QED BY <1>4, <1>5, <1>6

\* What a match is restored from, a fork or a copy.
LEMMA RestoredAdds ==
    ASSUME Library, NEW e, Sane(e), NEW s \in OwnIds(e), NEW x \in Listed, NEW room \in Nat,
           NEW resident \in BOOLEAN
    PROVE  LET r == Restored(e, x, s, resident, room)
           IN  IsAdded(r, e, s, SnapOf(x).hist) /\ (r.ok => r.id = s)
  <1> DEFINE f == ForkResidentSource(e, x, s, room)
             c == Copy(f.e, x, s, room)
             r == Restored(e, x, s, resident, room)
             h == SnapOf(x).hist
  <1>1. CASE ~resident
    <2>1. r = Copy(e, x, s, room)
      BY <1>1 DEF Restored
    <2> HIDE DEF r
    <2> QED BY <2>1, CopyAdds DEF r
  <1>2. CASE resident
    <2>1. r = IF f.ok THEN f ELSE c
      BY <1>2 DEF Restored, ForkOrCopy
    <2>2. IsAdded(f, e, s, h) /\ (f.ok => f.id = s)
      BY ForkSourceAdds
    <2> HIDE DEF f, r
    <2>3. CASE f.ok
      BY <2>1, <2>2, <2>3 DEF r
    <2>4. CASE ~f.ok
      <3>1. Sane(f.e) /\ Words(f.e) = Words(e) /\ f.e.count = e.count
        BY <2>2, <2>4 DEF IsAdded
      <3>2. s \in OwnIds(f.e)
        BY <3>1 DEF OwnIds
      <3>3. IsAdded(c, f.e, s, h) /\ c.id = s
        BY <3>1, <3>2, CopyAdds
      <3> HIDE DEF c, h
      <3>4. Owned(f.e) = Owned(e)
        <4>1. DOMAIN Words(f.e) = Owned(f.e) /\ DOMAIN Words(e) = Owned(e)
          BY DEF Words
        <4> QED BY <4>1, <3>1
      <3>5. IsAdded(c, e, s, h)
        BY <3>1, <3>3, <3>4 DEF IsAdded
      <3>6. r = c
        BY <2>1, <2>4
      <3> QED BY <3>3, <3>5, <3>6 DEF r, h
    <2> QED BY <2>3, <2>4
  <1> QED BY <1>1, <1>2

\* A context that says more, or says nothing.
IsToldMore(r, e, s) ==
    /\ r.ok \in BOOLEAN /\ Sane(r.e) /\ r.e.count = e.count
    /\ ~r.ok => Words(r.e) = Words(e)
    /\ r.ok => Words(r.e) = Put(Words(e), s, Words(e)[s] \o r.said)

\* Generating tells one context more, by what it said; tokens are drawn into a
\* block of nobody else.
LEMMA GenerateTells ==
    ASSUME NEW e, Sane(e), NEW s \in Owned(e), NEW n \in Nat,
           NEW draws \in {<<>>} \cup [1..n -> Tokens], draws = <<>> \/ ~EndShared(e, s)
    PROVE  IsToldMore(GenerateFromContext(e, s, n, draws), e, s)
  <1> DEFINE r == GenerateFromContext(e, s, n, draws)
             h == e.ctx[s].hist
             k == h \o r.said
  <1>1. /\ Good(e) /\ Grown(h) /\ s \in Live(e) /\ s \in OwnIds(e) /\ Words(e)[s] = h
    BY DEF Sane, Orderly, Owned, Words
  <1>2. IsSaid(Tokens, r, e, s)
    <2>1. Tokens \in SUBSET Nat
      BY ProphetAssumption
    <2> QED BY <1>1, <2>1, GenerateMakes
  <1> HIDE DEF r
  <1>3. CASE ~r.ok
    <2>1. Holds(r.e, e, s, h, e.ctx[s].pend) /\ Good(r.e)
      BY <1>2, <1>3 DEF IsSaid
    <2> HIDE DEF h
    <2>2. Sane(r.e) /\ Words(r.e) = Put(Words(e), s, h) /\ r.e.count = e.count
      BY <1>1, <2>1, Gained
    <2>3. Put(Words(e), s, h) = Words(e)
      <3> DEFINE w == Words(e)
      <3>1. w = [t \in DOMAIN w |-> w[t]] /\ s \in DOMAIN w /\ w[s] = h
        BY <1>1 DEF Words
      <3> HIDE DEF w
      <3>2. DOMAIN w \cup {s} = DOMAIN w
        BY <3>1
      <3>3. Put(w, s, h) = [t \in DOMAIN w |-> IF t = s THEN h ELSE w[t]]
        BY <3>2 DEF Put
      <3>4. \A t \in DOMAIN w : (IF t = s THEN h ELSE w[t]) = w[t]
        BY <3>1
      <3>5. Put(w, s, h) = [t \in DOMAIN w |-> w[t]]
        BY <3>3, <3>4
      <3> QED BY <3>1, <3>5 DEF w
    <2> QED BY <1>2, <1>3, <2>2, <2>3 DEF IsToldMore, r, IsSaid
  <1>4. CASE r.ok
    <2>1. /\ Good(r.e) /\ GoesOn(Tokens, h, k)
          /\ \E p \in {k, NoLogits} : Holds(r.e, e, s, k, p)
      BY <1>2, <1>4 DEF IsSaid
    <2>2. Grown(k)
      BY <1>1, <2>1, GrownFurther
    <2> HIDE DEF h, k
    <2>3. PICK p \in {k, NoLogits} : Holds(r.e, e, s, k, p)
      BY <2>1
    <2>4. Sane(r.e) /\ Words(r.e) = Put(Words(e), s, k) /\ r.e.count = e.count
      BY <1>1, <2>1, <2>2, <2>3, Gained
    <2>5. IsToldMore(r, e, s)
      BY <1>1, <1>4, <2>4 DEF IsToldMore, k
    <2> QED BY <2>5 DEF r
  <1>5. r.ok \in BOOLEAN
    BY <1>2 DEF IsSaid
  <1> QED BY <1>3, <1>4, <1>5

-------------------------------------------------------------------------------
(* The routes of restore_speculative. *)

\* The callers' ids are not ids the engine's counter hands out.
IdsApart == CallerIds # {} /\ CallerIds \cap (1..MaxCount) = {}

\* No prompt is reached from a context by replaying one token: that goes through
\* decode_step, which writes into blocks the context may share.
NoTailOfOne ==
    \A q \in Prompts, h \in Seq(Nat) :
        Grown(h) /\ Acceptable(Len(q), CommonPrefix(q, h), Len(h), Len(h))
            => CommonPrefix(q, h) + 1 # Len(q)

\* What a route promises: the caller's new context holds what it is told, and
\* everything else is as it was.
Right(o, e) ==
    /\ Sane(o.e) /\ o.e.count \in {e.count, e.count + 1}
    /\ Words(o.e) = IF o.id = NoId THEN Words(e) ELSE Put(Words(e), o.id, o.told)

\* A route that gives nothing.
LEMMA NothingRight ==
    ASSUME NEW e, NEW d, Sane(d), d.count \in {e.count, e.count + 1}, Words(d) = Words(e)
    PROVE  Right(Nothing(d), e)
  BY DEF Right, Nothing, Outcome

\* A route that gives a context.
LEMMA OutcomeRight ==
    ASSUME NEW e, NEW d, NEW s, s # NoId, NEW h, Sane(d), d.count \in {e.count, e.count + 1},
           Words(d) = Put(Words(e), s, h)
    PROVE  Right(Outcome(d, s, h), e)
  BY DEF Right, Outcome

\* The words of an engine are a function of its contexts' ids.
LEMMA WordsFun ==
    ASSUME NEW e
    PROVE  Words(e) = [t \in Owned(e) |-> Words(e)[t]] /\ DOMAIN Words(e) = Owned(e)
  BY DEF Words

\* A function on W's ids and two more.
Both(w, W, s, v, a, b) ==
    /\ w = [t \in DOMAIN W \cup {s, v} |-> w[t]]
    /\ w[s] = a /\ w[v] = b
    /\ \A t \in DOMAIN W : w[t] = W[t]

\* Putting two new ids makes such a function.
LEMMA BothPut ==
    ASSUME NEW W, NEW s, s \notin DOMAIN W, NEW v, v \notin DOMAIN W, s # v, NEW a, NEW b
    PROVE  Both(Put(Put(W, s, a), v, b), W, s, v, a, b)
  <1> DEFINE f == Put(W, s, a)
             g == Put(f, v, b)
  <1>1. DOMAIN f = DOMAIN W \cup {s} /\ f[s] = a /\ \A t \in DOMAIN W : f[t] = W[t]
    BY DEF Put
  <1> HIDE DEF f
  <1>2. /\ g = [t \in DOMAIN f \cup {v} |-> g[t]]
        /\ g[v] = b /\ \A t \in DOMAIN f \ {v} : g[t] = f[t]
    BY DEF Put
  <1>3. DOMAIN f \cup {v} = DOMAIN W \cup {s, v}
    BY <1>1
  <1> HIDE DEF g
  <1>4. Both(g, W, s, v, a, b)
    BY <1>1, <1>2, <1>3 DEF Both
  <1> QED BY <1>4 DEF f, g

\* What is left of it when either of the two is taken out, or put anew.
Parts(w, W, s, v, a, b) ==
    /\ DOMAIN w = DOMAIN W \cup {s, v} /\ w[s] = a /\ w[v] = b
    /\ Restrict(w, DOMAIN w \ {s, v}) = W
    /\ Restrict(w, DOMAIN w \ {v}) = Put(W, s, a)
    /\ Restrict(w, DOMAIN w \ {s}) = Put(W, v, b)
    /\ \A x : /\ Both(Put(w, s, x), W, s, v, x, b)
              /\ Both(Put(w, v, x), W, s, v, a, x)

\* Taking one of the two out leaves the other.
LEMMA BothFacts ==
    ASSUME NEW W, W = [t \in DOMAIN W |-> W[t]], NEW s, s \notin DOMAIN W,
           NEW v, v \notin DOMAIN W, s # v, NEW a, NEW b, NEW w, Both(w, W, s, v, a, b)
    PROVE  Parts(w, W, s, v, a, b)
  <1>1. DOMAIN w = DOMAIN W \cup {s, v} /\ w[s] = a /\ w[v] = b
        /\ \A t \in DOMAIN W : w[t] = W[t]
    BY DEF Both
  <1>2. Restrict(w, DOMAIN w \ {s, v}) = W
    <2>1. DOMAIN w \ {s, v} = DOMAIN W
      BY <1>1
    <2>2. Restrict(w, DOMAIN W) = [t \in DOMAIN W |-> w[t]]
      BY DEF Restrict
    <2>3. [t \in DOMAIN W |-> w[t]] = [t \in DOMAIN W |-> W[t]]
      BY <1>1
    <2> QED BY <2>1, <2>2, <2>3
  <1>3. Restrict(w, DOMAIN w \ {v}) = Put(W, s, a)
    <2>1. DOMAIN w \ {v} = DOMAIN W \cup {s}
      BY <1>1
    <2>2. Restrict(w, DOMAIN W \cup {s}) = [t \in DOMAIN W \cup {s} |-> w[t]]
      BY DEF Restrict
    <2>3. [t \in DOMAIN W \cup {s} |-> w[t]]
          = [t \in DOMAIN W \cup {s} |-> IF t = s THEN a ELSE W[t]]
      BY <1>1
    <2> QED BY <2>1, <2>2, <2>3 DEF Put
  <1>4. Restrict(w, DOMAIN w \ {s}) = Put(W, v, b)
    <2>1. DOMAIN w \ {s} = DOMAIN W \cup {v}
      BY <1>1
    <2>2. Restrict(w, DOMAIN W \cup {v}) = [t \in DOMAIN W \cup {v} |-> w[t]]
      BY DEF Restrict
    <2>3. [t \in DOMAIN W \cup {v} |-> w[t]]
          = [t \in DOMAIN W \cup {v} |-> IF t = v THEN b ELSE W[t]]
      BY <1>1
    <2> QED BY <2>1, <2>2, <2>3 DEF Put
  <1>5. ASSUME NEW x
        PROVE  Both(Put(w, s, x), W, s, v, x, b)
    <2> DEFINE g == Put(w, s, x)
    <2>1. /\ g = [t \in DOMAIN w \cup {s} |-> g[t]]
          /\ g[s] = x /\ \A t \in DOMAIN w \ {s} : g[t] = w[t]
      BY DEF Put
    <2>2. DOMAIN w \cup {s} = DOMAIN W \cup {s, v}
      BY <1>1
    <2> HIDE DEF g
    <2>3. Both(g, W, s, v, x, b)
      BY <1>1, <2>1, <2>2 DEF Both
    <2> QED BY <2>3 DEF g
  <1>6. ASSUME NEW x
        PROVE  Both(Put(w, v, x), W, s, v, a, x)
    <2> DEFINE g == Put(w, v, x)
    <2>1. /\ g = [t \in DOMAIN w \cup {v} |-> g[t]]
          /\ g[v] = x /\ \A t \in DOMAIN w \ {v} : g[t] = w[t]
      BY DEF Put
    <2>2. DOMAIN w \cup {v} = DOMAIN W \cup {s, v}
      BY <1>1
    <2> HIDE DEF g
    <2>3. Both(g, W, s, v, a, x)
      BY <1>1, <2>1, <2>2 DEF Both
    <2> QED BY <2>3 DEF g
  <1> QED BY <1>1, <1>2, <1>3, <1>4, <1>5, <1>6 DEF Parts

\* An added context that is freed again leaves what was there.
LEMMA AddedFreed ==
    ASSUME NEW e, NEW r, NEW s \in Nat, NEW h, IsAdded(r, e, s, h), r.ok
    PROVE  LET d == FreeAll(r.e, {s})
           IN  Sane(d) /\ Words(d) = Words(e) /\ d.count = e.count
  <1> DEFINE d == FreeAll(r.e, {s})
             w == Words(r.e)
  <1>1. /\ Sane(r.e) /\ s \notin Owned(e) /\ w = Put(Words(e), s, h) /\ r.e.count = e.count
    BY DEF IsAdded
  <1>2. {s} \subseteq Nat
    OBVIOUS
  <1>3. Sane(d) /\ Words(d) = Restrict(w, DOMAIN w \ {s}) /\ d.count = r.e.count
    BY <1>1, <1>2, FreedSane
  <1>4. Restrict(w, DOMAIN w \ {s}) = Words(e)
    <2> HIDE DEF w
    <2> QED BY <1>1, WordsFun, TakenOut
  <1> HIDE DEF d, w
  <1> QED BY <1>1, <1>3, <1>4 DEF d

\* An exact match is restored, or nothing is.
LEMMA ExactRight ==
    ASSUME Library, NEW e, Sane(e), NEW s \in OwnIds(e), NEW x \in Listed,
           NEW resident \in BOOLEAN
    PROVE  Right(ExactRoute(e, x, s, resident), e)
  <1> DEFINE r == Restored(e, x, s, resident, Room)
             h == SnapOf(x).hist
  <1>1. e.count \in Nat
    BY DEF Sane, Good, Layout, Engines
  <1>2. s # NoId /\ Room \in Nat
    BY <1>1, IdsFacts
  <1>3. ExactRoute(e, x, s, resident) = IF r.ok THEN Outcome(r.e, r.id, h) ELSE Nothing(r.e)
    BY DEF ExactRoute, OrNothing
  <1>4. IsAdded(r, e, s, h) /\ (r.ok => r.id = s)
    BY <1>2, RestoredAdds
  <1> HIDE DEF r, h
  <1>5. CASE r.ok
    <2>1. Sane(r.e) /\ r.e.count = e.count /\ Words(r.e) = Put(Words(e), s, h) /\ r.id = s
      BY <1>4, <1>5 DEF IsAdded
    <2>2. Right(Outcome(r.e, s, h), e)
      BY <1>2, <2>1, OutcomeRight
    <2> QED BY <1>3, <1>5, <2>1, <2>2
  <1>6. CASE ~r.ok
    <2>1. Sane(r.e) /\ r.e.count = e.count /\ Words(r.e) = Words(e)
      BY <1>4, <1>6 DEF IsAdded
    <2>2. Right(Nothing(r.e), e)
      BY <2>1, NothingRight
    <2> QED BY <1>3, <1>6, <2>2
  <1> QED BY <1>5, <1>6

\* A common prefix is one of both.
LEMMA CommonFacts ==
    ASSUME NEW q \in Seq(Nat), NEW h \in Seq(Nat)
    PROVE  /\ CommonPrefix(q, h) \in 0..Len(q) /\ CommonPrefix(q, h) \in 0..Len(h)
           /\ SubSeq(q, 1, CommonPrefix(q, h)) = SubSeq(h, 1, CommonPrefix(q, h))
  <1> DEFINE S == {n \in 0..Len(q) : n <= Len(h) /\ SubSeq(q, 1, n) = SubSeq(h, 1, n)}
  <1>1. Len(q) \in Nat /\ Len(h) \in Nat
    OBVIOUS
  <1>2. SubSeq(q, 1, 0) = SubSeq(h, 1, 0)
    OBVIOUS
  <1>3. 0 \in S
    BY <1>1, <1>2
  <1>4. S \in SUBSET Int /\ \A n \in S : n <= Len(q)
    BY <1>1
  <1>5. \A n \in S : n \in 0..Len(q) /\ n \in 0..Len(h) /\ SubSeq(q, 1, n) = SubSeq(h, 1, n)
    BY <1>1
  <1>6. CommonPrefix(q, h) = Max(S)
    BY DEF CommonPrefix
  <1> HIDE DEF S
  <1>7. Max(S) \in S
    <2> DEFINE b == Len(q)
    <2>1. b \in Int /\ S # {} /\ S \in SUBSET Int /\ \A n \in S : n <= b
      BY <1>1, <1>3, <1>4
    <2> HIDE DEF b
    <2> QED BY <2>1, MaxFacts
  <1> QED BY <1>5, <1>6, <1>7

\* What is left of a context that is rolled back to the common prefix.
LEMMA RolledBackHolds ==
    ASSUME Library, NEW e, Sane(e), NEW s \in Live(e), NEW q \in Prompts, NEW x \in Listed,
           e.ctx[s].hist = SnapOf(x).hist, Common(q, x) >= 1
    PROVE  LET g == RolledBack(e, s, q, x)
           IN  /\ GoodBut(g, {s})
               /\ \E p : Holds(g, e, s, SubSeq(q, 1, Common(q, x)), p)
  <1> DEFINE h == SnapOf(x).hist
             n == Common(q, x)
             g == RolledBack(e, s, q, x)
             y == SubSeq(q, 1, n)
  <1>1. q \in Seq(Nat) /\ h \in Seq(Nat) /\ Good(e) /\ SnapOf(x).rows = RowsOf(h)
    <2>1. IsSnap(SnapOf(x))
      BY ListedSnap
    <2> HIDE DEF SnapOf
    <2> QED BY <2>1, PromptGrown DEF Sane, IsSnap
  <1>2. Len(SnapOf(x).rows) = Len(h) /\ Len(h) \in Nat
    BY <1>1, RowsOfFacts
  <1>3. n = CommonPrefix(q, h)
    BY DEF Common
  <1>4. n \in 0..Len(h) /\ y = SubSeq(h, 1, n)
    BY <1>1, <1>3, CommonFacts
  <1>5. Rollback(q, x) = Len(h) - n
    BY <1>2 DEF Rollback
  <1> HIDE DEF n, y, h, g
  <1>6. CASE Rollback(q, x) > 0
    <2>1. g = TruncateContext(e, s, n)
      BY <1>6 DEF g, RolledBack, n
    <2>2. n \in 1..Len(h) /\ h = e.ctx[s].hist
      BY <1>4, <1>2 DEF n, h
    <2>3. LET d == TruncateContext(e, s, n)
          IN  GoodBut(d, {s}) /\ Holds(d, e, s, SubSeq(e.ctx[s].hist, 1, n), NoLogits)
      BY <1>1, <2>2, TruncateMakes
    <2> HIDE DEF n
    <2> QED BY <2>1, <2>2, <2>3, <1>4 DEF g, y, n
  <1>7. CASE ~(Rollback(q, x) > 0)
    <2>1. g = e
      BY <1>7 DEF g, RolledBack
    <2>2. n = Len(h)
      BY <1>2, <1>4, <1>5, <1>7
    <2>3. y = h
      BY <1>1, <1>4, <2>2, PrefixAll
    <2>4. Holds(e, e, s, y, e.ctx[s].pend)
      BY <2>3 DEF Holds, Kept, h
    <2>5. GoodBut(e, {s})
      BY <1>1, GoodGoodBut
    <2> QED BY <2>1, <2>4, <2>5 DEF g, y, n
  <1> QED BY <1>6, <1>7

\* A prefix is rolled back and the rest of the prompt is replayed, or nothing
\* is left of it.
LEMMA PrefixRight ==
    ASSUME Library, NEW e, Sane(e), NEW s \in OwnIds(e), NEW q \in Prompts, NEW x \in Listed,
           NEW resident \in BOOLEAN, NEW fault, SuffixPrefill = TRUE,
           Common(q, x) >= 1, Common(q, x) + 1 < Len(q)
    PROVE  Right(PrefixRoute(e, q, x, s, resident, fault), e)
  <1> DEFINE n == Common(q, x)
             tail == SubSeq(q, n + 1, Len(q))
             room == Room + Len(tail)
             h == SnapOf(x).hist
             r == Restored(e, x, s, resident, room)
             g == RolledBack(r.e, r.id, q, x)
             t == ReplayTokens(g, r.id, tail)
             u == RaisesIf(t, fault = "replay")
             o == PrefixRoute(e, q, x, s, resident, fault)
  <1>1. e.count \in Nat
    BY DEF Sane, Good, Layout, Engines
  <1>2. s # NoId /\ Room \in Nat /\ s \in Nat
    BY <1>1, IdsFacts
  <1>3. /\ q \in Seq(Nat) /\ Len(q) \in Nat /\ n \in 0..Len(q)
        /\ Grown(q) /\ n >= 1 /\ n + 1 < Len(q)
    <2>1. q \in Seq(Nat) /\ h \in Seq(Nat) /\ Grown(q)
      BY PromptGrown, ListedSnap
    <2>2. n = CommonPrefix(q, h)
      BY DEF Common
    <2> HIDE DEF n, h
    <2>3. n \in 0..Len(q) /\ Len(q) \in Nat
      BY <2>1, <2>2, CommonFacts
    <2> QED BY <2>1, <2>3 DEF n
  <1>4. o = IF r.ok THEN IF u.ok THEN Outcome(u.e, r.id, q) ELSE Nothing(FreeAll(u.e, {r.id}))
            ELSE Nothing(r.e)
    BY DEF PrefixRoute, OrNothing, OrFreeing
  <1> HIDE DEF n, o
  <1>5. /\ tail \in Seq(Nat) /\ Len(tail) = Len(q) - n
        /\ SubSeq(q, 1, n) \o tail = q
    BY <1>3, Rejoined
  <1> HIDE DEF tail
  <1>6. Len(tail) > 1 /\ room \in Nat
    BY <1>2, <1>3, <1>5
  <1> HIDE DEF room
  <1>7. IsAdded(r, e, s, h) /\ (r.ok => r.id = s)
    BY <1>6, RestoredAdds
  <1> HIDE DEF r
  <1>8. CASE ~r.ok
    <2>1. Sane(r.e) /\ r.e.count = e.count /\ Words(r.e) = Words(e)
      BY <1>7, <1>8 DEF IsAdded
    <2>2. Right(Nothing(r.e), e)
      BY <2>1, NothingRight
    <2> QED BY <1>4, <1>8, <2>2 DEF o
  <1>9. CASE r.ok
    <2> DEFINE f == r.e
    <2>1. /\ Sane(f) /\ f.count = e.count /\ Words(f) = Put(Words(e), s, h) /\ r.id = s
          /\ s \in Owned(f) /\ s \notin Owned(e)
      BY <1>7, <1>9 DEF IsAdded
    <2> HIDE DEF h
    <2>2. /\ s \in Live(f) /\ f.ctx[s].hist = h /\ s \in OwnIds(f)
      <3>1. s \in Live(f) /\ s \in OwnIds(f)
        BY <2>1 DEF Owned, OwnIds
      <3>2. Words(f)[s] = h
        BY <2>1 DEF Put
      <3>3. Words(f)[s] = f.ctx[s].hist
        BY <2>1 DEF Words
      <3> QED BY <3>1, <3>2, <3>3
    <2>3. g = RolledBack(f, s, q, x)
      BY <2>1
    <2>4. t = ReplayTokens(g, s, tail)
      BY <2>1
    <2> HIDE DEF f, g
    <2>5. GoodBut(g, {s}) /\ \E p : Holds(g, f, s, SubSeq(q, 1, n), p)
      BY <2>1, <2>2, <2>3, RolledBackHolds DEF n, h
    <2> DEFINE y == SubSeq(q, 1, n)
    <2>6. PICK p : Holds(g, f, s, y, p)
      BY <2>5
    <2>7. s \in Live(g) /\ g.ctx[s].hist = y
      BY <2>6 DEF Holds
    <2> HIDE DEF y, t
    <2>8. /\ t.ok \in BOOLEAN
          /\ t.ok => Good(t.e) /\ Holds(t.e, g, s, y \o tail, y \o tail)
          /\ ~t.ok => GoodBut(t.e, {s}) /\ Holds(t.e, g, s, y, g.ctx[s].pend)
      <3> DEFINE w == ReplayTokens(g, s, tail)
      <3>1. /\ w.ok \in BOOLEAN
            /\ w.ok => Good(w.e) /\ Holds(w.e, g, s, g.ctx[s].hist \o tail, g.ctx[s].hist \o tail)
            /\ ~w.ok => GoodBut(w.e, {s}) /\ Holds(w.e, g, s, g.ctx[s].hist, g.ctx[s].pend)
        BY <2>5, <2>7, <1>5, <1>6, ReplayMakes
      <3> HIDE DEF w
      <3>2. w = t
        BY <2>4 DEF w
      <3> QED BY <3>1, <3>2, <2>7
    <2>9. y \o tail = q
      BY <1>5 DEF y
    <2>10. CASE u.ok
      <3>1. t.ok /\ u = t
        BY <2>8, <2>10 DEF RaisesIf, Raised
      <3>2. Good(t.e) /\ Holds(t.e, f, s, q, q)
        BY <2>6, <2>8, <2>9, <3>1, HoldsTwice
      <3>3. Sane(t.e) /\ Words(t.e) = Put(Words(f), s, q) /\ t.e.count = f.count
        BY <2>1, <2>2, <3>2, <1>3, Gained
      <3>4. Words(t.e) = Put(Words(e), s, q)
        BY <3>3, <2>1, PutTwice
      <3>5. Right(Outcome(t.e, s, q), e)
        BY <1>2, <2>1, <3>3, <3>4, OutcomeRight
      <3>6. o = Outcome(t.e, s, q)
        BY <1>4, <1>9, <2>1, <2>10, <3>1
      <3> QED BY <3>5, <3>6 DEF o
    <2>11. CASE ~u.ok
      <3>1. u.e = t.e
        BY DEF RaisesIf, Raised
      <3>2. GoodBut(t.e, {s}) /\ \E k, m : Holds(t.e, f, s, k, m)
        <4>1. CASE t.ok
          BY <4>1, <2>6, <2>8, HoldsTwice, GoodGoodBut
        <4>2. CASE ~t.ok
          BY <4>2, <2>6, <2>8, HoldsTwice
        <4> QED BY <4>1, <4>2, <2>8
      <3>3. PICK k, m : Holds(t.e, f, s, k, m)
        BY <3>2
      <3> DEFINE d == FreeAll(t.e, {s})
                 w == Words(f)
      <3>4. Sane(d) /\ Words(d) = Restrict(w, DOMAIN w \ {s}) /\ d.count = f.count
        BY <1>2, <2>1, <2>2, <3>2, <3>3, FreedBehind
      <3>5. Restrict(w, DOMAIN w \ {s}) = Words(e)
        <4>1. w = Put(Words(e), s, h)
          BY <2>1
        <4> HIDE DEF w
        <4> QED BY <4>1, <2>1, WordsFun, TakenOut
      <3>6. o = Nothing(d)
        BY <1>4, <1>9, <2>1, <2>11, <3>1
      <3> HIDE DEF d, w
      <3>7. Right(Nothing(d), e)
        BY <2>1, <3>4, <3>5, NothingRight
      <3> QED BY <3>6, <3>7 DEF o
    <2>12. u.ok \in BOOLEAN
      BY <2>8 DEF RaisesIf, Raised
    <2> QED BY <2>10, <2>11, <2>12
  <1>10. r.ok \in BOOLEAN
    BY <1>7 DEF IsAdded
  <1> QED BY <1>8, <1>9, <1>10

\* What a context says when it is asked, or need not be.
LEMMA SaysTells ==
    ASSUME NEW e, Sane(e), NEW s \in Owned(e), NEW asks \in BOOLEAN
    PROVE  IsToldMore(Says(e, s, asks), e, s)
  <1>1. CASE asks
    <2>1. Says(e, s, asks) = GenerateFromContext(e, s, ValidationTokens, <<>>)
      BY <1>1 DEF Says
    <2>2. ValidationTokens \in Nat
      BY ProphetAssumption
    <2> DEFINE draws == <<>>
    <2>4. draws \in {<<>>} \cup [1..ValidationTokens -> Tokens] /\ draws = <<>>
      OBVIOUS
    <2> HIDE DEF draws
    <2>3. IsToldMore(GenerateFromContext(e, s, ValidationTokens, draws), e, s)
      BY <2>2, <2>4, GenerateTells
    <2> QED BY <2>1, <2>3 DEF draws
  <1>2. CASE ~asks
    <2> DEFINE r == Says(e, s, asks)
               w == Words(e)
               h == w[s]
    <2>1. r.e = e /\ r.ok = TRUE /\ r.said = <<>>
      BY <1>2 DEF Says
    <2>2. h \in Seq(Nat)
      <3>1. Grown(e.ctx[s].hist)
        BY DEF Sane, Orderly, Owned
      <3> QED BY <3>1, GrownFacts DEF Words
    <2>3. w = [t \in DOMAIN w |-> w[t]] /\ s \in DOMAIN w
      BY WordsFun
    <2> HIDE DEF w, r
    <2>4. Put(w, s, h) = w
      <3>1. DOMAIN w \cup {s} = DOMAIN w
        BY <2>3
      <3>2. Put(w, s, h) = [t \in DOMAIN w |-> IF t = s THEN h ELSE w[t]]
        BY <3>1 DEF Put
      <3>3. \A t \in DOMAIN w : (IF t = s THEN h ELSE w[t]) = w[t]
        OBVIOUS
      <3>4. Put(w, s, h) = [t \in DOMAIN w |-> w[t]]
        BY <3>2, <3>3
      <3> QED BY <2>3, <3>4
    <2>5. h \o r.said = h
      <3> HIDE DEF h
      <3> QED BY <2>1, <2>2
    <2>6. IsToldMore(r, e, s)
      BY <2>1, <2>4, <2>5 DEF IsToldMore, w
    <2> QED BY <2>6 DEF r
  <1> QED BY <1>1, <1>2

\* A candidate s that says a and a validator v that says b, next to the words of
\* the engine e.
Compared(f, e, s, v, a, b) ==
    /\ Sane(f) /\ f.count = e.count + 1
    /\ Both(Words(f), Words(e), s, v, a, b)

\* Either of them says more.
LEMMA ComparedSays ==
    ASSUME NEW e, NEW f, NEW s, NEW v, NEW a, NEW b, Compared(f, e, s, v, a, b),
           s \notin Owned(e), v \notin Owned(e), s # v, NEW asks \in BOOLEAN
    PROVE  /\ LET r == Says(f, s, asks)
              IN  /\ r.ok \in BOOLEAN
                  /\ r.ok => Compared(r.e, e, s, v, a \o r.said, b)
                  /\ ~r.ok => Compared(r.e, e, s, v, a, b)
           /\ LET r == Says(f, v, asks)
              IN  /\ r.ok \in BOOLEAN
                  /\ r.ok => Compared(r.e, e, s, v, a, b \o r.said)
                  /\ ~r.ok => Compared(r.e, e, s, v, a, b)
  <1> DEFINE W == Words(e)
             w == Words(f)
  <1>1. /\ W = [t \in DOMAIN W |-> W[t]] /\ s \notin DOMAIN W /\ v \notin DOMAIN W
        /\ DOMAIN w = Owned(f)
    BY WordsFun
  <1>2. Sane(f) /\ f.count = e.count + 1 /\ Both(w, W, s, v, a, b)
    BY DEF Compared
  <1> HIDE DEF W, w
  <1>3. /\ DOMAIN w = DOMAIN W \cup {s, v} /\ w[s] = a /\ w[v] = b
        /\ \A x : /\ Both(Put(w, s, x), W, s, v, x, b)
                  /\ Both(Put(w, v, x), W, s, v, a, x)
    <2>1. Parts(w, W, s, v, a, b)
      BY <1>1, <1>2, BothFacts
    <2> QED BY <2>1 DEF Parts
  <1>4. s \in Owned(f) /\ v \in Owned(f)
    BY <1>1, <1>3
  <1>5. ASSUME NEW r, IsToldMore(r, f, s)
        PROVE  /\ r.ok \in BOOLEAN
               /\ r.ok => Compared(r.e, e, s, v, a \o r.said, b)
               /\ ~r.ok => Compared(r.e, e, s, v, a, b)
    <2>1. /\ r.ok \in BOOLEAN /\ Sane(r.e) /\ r.e.count = e.count + 1
          /\ ~r.ok => Words(r.e) = w
          /\ r.ok => Words(r.e) = Put(w, s, a \o r.said)
      BY <1>2, <1>3, <1>5 DEF IsToldMore, w
    <2>2. r.ok => Both(Words(r.e), W, s, v, a \o r.said, b)
      BY <2>1, <1>3
    <2>3. ~r.ok => Both(Words(r.e), W, s, v, a, b)
      BY <2>1, <1>2
    <2> QED BY <2>1, <2>2, <2>3 DEF Compared, W
  <1>6. ASSUME NEW r, IsToldMore(r, f, v)
        PROVE  /\ r.ok \in BOOLEAN
               /\ r.ok => Compared(r.e, e, s, v, a, b \o r.said)
               /\ ~r.ok => Compared(r.e, e, s, v, a, b)
    <2>1. /\ r.ok \in BOOLEAN /\ Sane(r.e) /\ r.e.count = e.count + 1
          /\ ~r.ok => Words(r.e) = w
          /\ r.ok => Words(r.e) = Put(w, v, b \o r.said)
      BY <1>2, <1>3, <1>6 DEF IsToldMore, w
    <2>2. r.ok => Both(Words(r.e), W, s, v, a, b \o r.said)
      BY <2>1, <1>3
    <2>3. ~r.ok => Both(Words(r.e), W, s, v, a, b)
      BY <2>1, <1>2
    <2> QED BY <2>1, <2>2, <2>3 DEF Compared, W
  <1>7. IsToldMore(Says(f, s, asks), f, s) /\ IsToldMore(Says(f, v, asks), f, v)
    BY <1>2, <1>4, SaysTells
  <1> QED BY <1>5, <1>6, <1>7

\* One of them is kept, or neither.
LEMMA ComparedFreed ==
    ASSUME NEW e, NEW f, NEW s \in Nat, NEW v \in Nat, NEW a, NEW b,
           Compared(f, e, s, v, a, b), s \notin Owned(e), v \notin Owned(e), s # v,
           s # NoId, v # NoId, e.count \in Nat
    PROVE  /\ Right(Nothing(FreeAll(f, {s, v})), e)
           /\ Right(Outcome(FreeSequence(f, v), s, a), e)
           /\ Right(Outcome(FreeSequence(f, s), v, b), e)
  <1> DEFINE W == Words(e)
             w == Words(f)
             both == FreeAll(f, {s, v})
             one == FreeAll(f, {v})
             other == FreeAll(f, {s})
  <1>1. W = [t \in DOMAIN W |-> W[t]] /\ s \notin DOMAIN W /\ v \notin DOMAIN W
    BY WordsFun
  <1>2. Sane(f) /\ f.count = e.count + 1 /\ Both(w, W, s, v, a, b)
    BY DEF Compared
  <1>3. {s, v} \subseteq Nat /\ {v} \subseteq Nat /\ {s} \subseteq Nat
    OBVIOUS
  <1>4. Sane(both) /\ Words(both) = Restrict(w, DOMAIN w \ {s, v}) /\ both.count = f.count
    BY <1>2, <1>3, FreedSane
  <1>5. Sane(one) /\ Words(one) = Restrict(w, DOMAIN w \ {v}) /\ one.count = f.count
    BY <1>2, <1>3, FreedSane
  <1>6. Sane(other) /\ Words(other) = Restrict(w, DOMAIN w \ {s}) /\ other.count = f.count
    BY <1>2, <1>3, FreedSane
  <1>7. one = FreeSequence(f, v) /\ other = FreeSequence(f, s)
    BY FreeIsFreeAll
  <1> HIDE DEF W, w, both, one, other
  <1>8. /\ Words(both) = W /\ Words(one) = Put(W, s, a) /\ Words(other) = Put(W, v, b)
        /\ both.count \in {e.count, e.count + 1} /\ one.count \in {e.count, e.count + 1}
        /\ other.count \in {e.count, e.count + 1}
    <2>1. Parts(w, W, s, v, a, b)
      BY <1>1, <1>2, BothFacts
    <2> QED BY <1>2, <1>4, <1>5, <1>6, <2>1 DEF Parts
  <1>9. Right(Nothing(both), e)
    BY <1>4, <1>8, NothingRight DEF W
  <1>10. Right(Outcome(one, s, a), e)
    BY <1>5, <1>8, OutcomeRight DEF W
  <1>11. Right(Outcome(other, v, b), e)
    BY <1>6, <1>8, OutcomeRight DEF W
  <1> QED BY <1>7, <1>9, <1>10, <1>11 DEF both

\* The id the counter hands out next is nobody's.
LEMMA CounterFresh ==
    ASSUME IdsApart, NEW e, Sane(e), e.count < MaxCount
    PROVE  e.count + 1 \notin Live(e) /\ e.count + 1 \in Nat /\ e.count \in Nat
  <1> DEFINE n == e.count
             v == n + 1
  <1>1. n \in Nat /\ MaxCount \in Nat /\ n < MaxCount
    BY ProphetAssumption DEF Sane, Good, Layout, Engines
  <1>2. Live(e) \subseteq (CallerIds \cup 1..n) \cup ResidentIds
    BY DEF Sane, Orderly, OwnIds
  <1>3. \A t \in Nat : t \notin ResidentIds
    BY <1>1, IdsFacts
  <1> HIDE DEF n
  <1>4. v \in Nat /\ v \in 1..MaxCount /\ v \notin 1..n
    BY <1>1
  <1>5. v \notin CallerIds
    BY <1>4 DEF IdsApart
  <1>6. v \notin ResidentIds
    BY <1>3, <1>4
  <1>7. v \notin Live(e)
    BY <1>2, <1>4, <1>5, <1>6
  <1> QED BY <1>1, <1>4, <1>7 DEF n

\* A candidate is compared with a validator, and at most one of them is kept.
LEMMA ValidatedRight ==
    ASSUME Library, IdsApart, NEW e, e.count \in Nat, e.count < MaxCount,
           NEW s \in Nat, NEW q \in Prompts, NEW x \in Listed,
           NEW f, Sane(f), f.count = e.count, s \notin Owned(e), s \in Owned(f),
           Words(f) = Put(Words(e), s, SnapOf(x).hist),
           NEW fallback \in BOOLEAN, NEW fault
    PROVE  Right(Validated(f, q, x, s, fallback, fault), e)
  <1> DEFINE W == Words(e)
             a == SnapOf(x).hist
             v == f.count + 1
             asks == HasLogits(x) /\ ValidationTokens > 0
             p == PrefillContext(Counted(f), v, q, Room)
             g == RaisesIf(p, fault = "prefill")
             c0 == Says(g.e, s, asks)
             c == RaisesIf(c0, fault = "generate")
             w == Says(c.e, v, asks)
             o == Validated(f, q, x, s, fallback, fault)
             last == Decided(w.e, q, x, s, v, c, w, fallback)
  <1>1. o = IF g.ok THEN IF c.ok THEN IF w.ok THEN last ELSE Nothing(FreeAll(w.e, {s, v}))
                               ELSE Nothing(FreeAll(c.e, {s, v}))
            ELSE Nothing(FreeAll(g.e, {s, v}))
    BY DEF Validated, OrFreeing
  <1> HIDE DEF o, last, asks
  <1>2. v \notin Live(f) /\ v \in Nat /\ f.count \in Nat
    BY CounterFresh
  <1>3. /\ W = [t \in DOMAIN W |-> W[t]] /\ DOMAIN W = Owned(e)
        /\ DOMAIN Words(f) = Owned(f) /\ Words(f) = Put(W, s, a)
    BY WordsFun
  <1>4. s # v /\ v \notin Owned(e) /\ s # NoId /\ v # NoId /\ Room \in Nat
        /\ v \notin Owned(f)
    <2>1. v \notin Owned(f)
      BY <1>2 DEF Owned
    <2>2. DOMAIN Words(f) = DOMAIN W \cup {s}
      <3> DEFINE u == Words(f)
      <3>1. u = Put(W, s, a)
        BY <1>3
      <3> HIDE DEF u, W, a
      <3>2. DOMAIN u = DOMAIN W \cup {s}
        BY <3>1, PutFacts
      <3> QED BY <3>2 DEF u
    <2>3. s # NoId /\ v # NoId /\ Room \in Nat
      BY <1>2, IdsFacts
    <2> HIDE DEF v, W
    <2> QED BY <2>1, <2>2, <2>3, <1>3
  <1>5. asks \in BOOLEAN
    BY DEF asks
  <1> DEFINE d == Counted(f)
  <1>6. Sane(d) /\ Words(d) = Words(f) /\ d.count = f.count + 1 /\ Live(d) = Live(f)
    BY CountedSane
  <1>7. v \in OwnIds(d)
    BY <1>2, <1>6 DEF OwnIds
  <1> HIDE DEF d
  <1>8. IsAdded(p, d, v, q)
    <2>1. IsAdded(PrefillContext(d, v, q, Room), d, v, q)
      BY <1>4, <1>6, <1>7, PrefillAdds
    <2> QED BY <2>1 DEF d
  <1> HIDE DEF v, p, W, a
  <1>9. p.ok => Compared(p.e, e, s, v, a, q)
    <2> SUFFICES ASSUME p.ok PROVE Compared(p.e, e, s, v, a, q)
      OBVIOUS
    <2>1. Sane(p.e) /\ p.e.count = e.count + 1 /\ Words(p.e) = Put(Put(W, s, a), v, q)
      BY <1>3, <1>6, <1>8 DEF IsAdded
    <2>2. Both(Put(Put(W, s, a), v, q), W, s, v, a, q)
      BY <1>3, <1>4, BothPut
    <2> QED BY <2>1, <2>2 DEF Compared, W
  <1>10. g.e = p.e /\ g.ok \in BOOLEAN /\ (g.ok => p.ok) /\ p.ok \in BOOLEAN
    BY <1>8 DEF RaisesIf, Raised, IsAdded
  <1>11. CASE ~g.ok
    <2>1. CASE p.ok
      <3>1. Right(Nothing(FreeAll(p.e, {s, v})), e)
        BY <1>2, <1>4, <1>9, <2>1, ComparedFreed
      <3> QED BY <1>1, <1>10, <1>11, <3>1 DEF o
    <2>2. CASE ~p.ok
      <3> DEFINE k == FreeAll(p.e, {s, v})
                 u == Words(p.e)
      <3>1. Sane(p.e) /\ p.e.count = e.count + 1 /\ u = Put(W, s, a)
        BY <1>3, <1>6, <1>8, <2>2 DEF IsAdded
      <3>2. {s, v} \subseteq Nat
        BY <1>2
      <3>3. Sane(k) /\ Words(k) = Restrict(u, DOMAIN u \ {s, v}) /\ k.count = p.e.count
        BY <3>1, <3>2, FreedSane
      <3>4. Restrict(u, DOMAIN u \ {s, v}) = W
        <4> HIDE DEF u
        <4>1. DOMAIN u = DOMAIN W \cup {s}
          BY <3>1, PutFacts
        <4>2. DOMAIN u \ {s, v} = DOMAIN u \ {s}
          BY <4>1, <1>3, <1>4
        <4>3. Restrict(u, DOMAIN u \ {s}) = W
          BY <3>1, <1>3, TakenOut
        <4> QED BY <4>2, <4>3
      <3> HIDE DEF k, u
      <3>5. Right(Nothing(k), e)
        BY <3>1, <3>3, <3>4, NothingRight DEF W
      <3> QED BY <1>1, <1>10, <1>11, <3>5 DEF o, k
    <2> QED BY <2>1, <2>2, <1>10
  <1>12. CASE g.ok
    <2>1. Compared(g.e, e, s, v, a, q)
      BY <1>9, <1>10, <1>12
    <2> HIDE DEF g
    <2>2. /\ c0.ok \in BOOLEAN
          /\ c0.ok => Compared(c0.e, e, s, v, a \o c0.said, q)
          /\ ~c0.ok => Compared(c0.e, e, s, v, a, q)
      BY <1>4, <1>5, <2>1, ComparedSays
    <2> HIDE DEF c0
    <2>3. c.e = c0.e /\ c.ok \in BOOLEAN /\ (c.ok => c0.ok /\ c = c0)
      BY <2>2 DEF RaisesIf, Raised
    <2> HIDE DEF c
    <2>4. CASE ~c.ok
      <3>1. \E b : Compared(c.e, e, s, v, b, q)
        BY <2>2, <2>3
      <3>2. PICK b : Compared(c.e, e, s, v, b, q)
        BY <3>1
      <3>3. Right(Nothing(FreeAll(c.e, {s, v})), e)
        BY <1>2, <1>4, <3>2, ComparedFreed
      <3> QED BY <1>1, <1>12, <2>4, <3>3 DEF o
    <2>5. CASE c.ok
      <3>1. Compared(c.e, e, s, v, a \o c.said, q)
        BY <2>2, <2>3, <2>5
      <3>2. /\ w.ok \in BOOLEAN
            /\ w.ok => Compared(w.e, e, s, v, a \o c.said, q \o w.said)
            /\ ~w.ok => Compared(w.e, e, s, v, a \o c.said, q)
        BY <1>4, <1>5, <3>1, ComparedSays
      <3> HIDE DEF w
      <3>3. CASE ~w.ok
        <4>1. Right(Nothing(FreeAll(w.e, {s, v})), e)
          BY <1>2, <1>4, <3>2, <3>3, ComparedFreed
        <4> QED BY <1>1, <1>12, <2>5, <3>3, <4>1 DEF o
      <3>4. CASE w.ok
        <4>1. /\ Right(Nothing(FreeAll(w.e, {s, v})), e)
              /\ Right(Outcome(FreeSequence(w.e, v), s, a \o c.said), e)
              /\ Right(Outcome(FreeSequence(w.e, s), v, q \o w.said), e)
          BY <1>2, <1>4, <3>2, <3>4, ComparedFreed
        <4>2. last \in {Nothing(FreeAll(w.e, {s, v})),
                        Outcome(FreeSequence(w.e, v), s, a \o c.said),
                        Outcome(FreeSequence(w.e, s), v, q \o w.said)}
          BY DEF last, Decided, a
        <4>3. Right(last, e)
          BY <4>1, <4>2
        <4>4. o = last
          BY <1>1, <1>12, <2>5, <3>4
        <4> QED BY <4>3, <4>4 DEF o
      <3> QED BY <3>2, <3>3, <3>4
    <2> QED BY <2>3, <2>4, <2>5
  <1> QED BY <1>10, <1>11, <1>12

\* A match that need not be alike is restored and compared, or is not.
LEMMA SemanticRight ==
    ASSUME Library, IdsApart, NEW e, Sane(e), e.count < MaxCount,
           NEW s \in CallerIds, NEW q \in Prompts, NEW x \in Listed, NEW mode, NEW fault
    PROVE  Right(SemanticRoute(e, q, x, s, mode, fault), e)
  <1> DEFINE a == SnapOf(x).hist
             r == Copy(e, x, s, Room)
             o == SemanticRoute(e, q, x, s, mode, fault)
             val == Validated(r.e, q, x, r.id, mode = "fallback", fault)
  <1>1. o = IF r.ok THEN IF mode # "none" THEN val
                         ELSE IF HasLogits(x) THEN Outcome(r.e, r.id, a)
                         ELSE Nothing(FreeSequence(r.e, r.id))
            ELSE Nothing(r.e)
    BY DEF SemanticRoute, OrNothing
  <1>2. e.count \in Nat
    BY DEF Sane, Good, Layout, Engines
  <1>3. s \in Nat /\ s \in OwnIds(e) /\ s # NoId /\ Room \in Nat
    BY <1>2, IdsFacts
  <1>4. IsAdded(r, e, s, a) /\ r.id = s
    BY <1>3, CopyAdds
  <1> HIDE DEF r, o
  <1>5. CASE ~r.ok
    <2>1. Sane(r.e) /\ r.e.count = e.count /\ Words(r.e) = Words(e)
      BY <1>4, <1>5 DEF IsAdded
    <2>2. Right(Nothing(r.e), e)
      BY <2>1, NothingRight
    <2> QED BY <1>1, <1>5, <2>2 DEF o
  <1>6. CASE r.ok
    <2> DEFINE f == r.e
    <2>1. /\ Sane(f) /\ f.count = e.count /\ Words(f) = Put(Words(e), s, a)
          /\ s \in Owned(f) /\ s \notin Owned(e)
      BY <1>4, <1>6 DEF IsAdded
    <2> DEFINE fallback == mode = "fallback"
    <2>2. fallback \in BOOLEAN
      OBVIOUS
    <2>3. Right(val, e)
      <3> HIDE DEF fallback
      <3>1. Right(Validated(f, q, x, s, fallback, fault), e)
        <4> HIDE DEF f
        <4> QED BY <1>2, <1>3, <2>1, <2>2, ValidatedRight DEF a
      <3> QED BY <3>1, <1>4 DEF fallback
    <2> HIDE DEF a, val
    <2>4. Right(Outcome(f, s, a), e)
      BY <1>3, <2>1, OutcomeRight
    <2>5. Right(Nothing(FreeSequence(f, s)), e)
      <3> DEFINE d == FreeAll(f, {s})
      <3>1. Sane(d) /\ Words(d) = Words(e) /\ d.count = e.count
        BY <1>3, <1>4, <1>6, AddedFreed
      <3>2. FreeSequence(f, s) = d
        BY FreeIsFreeAll
      <3> HIDE DEF d
      <3>3. Right(Nothing(d), e)
        BY <3>1, NothingRight
      <3> QED BY <3>2, <3>3
    <2> QED BY <1>1, <1>4, <1>6, <2>3, <2>4, <2>5 DEF o
  <1>7. r.ok \in BOOLEAN
    BY <1>4 DEF IsAdded
  <1> QED BY <1>5, <1>6, <1>7

\* Whichever entry similarity chooses, the outcome is right.
LEMMA SemanticOutcomesRight ==
    ASSUME Library, IdsApart, NEW e, Sane(e), e.count < MaxCount,
           NEW s \in CallerIds, NEW q \in Prompts, NEW mode, NEW fault,
           NEW matches \in SUBSET (Listed \cup {NoEntry}),
           NEW o \in SemanticOutcomes(e, q, s, mode, fault, matches)
    PROVE  Right(o, e)
  <1>1. PICK x \in matches :
            o = IF x = NoEntry THEN Nothing(e) ELSE SemanticRoute(e, q, x, s, mode, fault)
    BY DEF SemanticOutcomes
  <1>2. x = NoEntry \/ x \in Listed
    OBVIOUS
  <1>3. CASE x = NoEntry
    <2>1. e.count \in Nat
      BY DEF Sane, Good, Layout, Engines
    <2>2. Right(Nothing(e), e)
      BY <2>1, NothingRight
    <2> QED BY <1>1, <1>3, <2>2
  <1>4. CASE x # NoEntry
    <2>1. Right(SemanticRoute(e, q, x, s, mode, fault), e)
      BY <1>2, <1>4, SemanticRight
    <2> QED BY <1>1, <1>4, <2>1
  <1> QED BY <1>3, <1>4

\* The matches are of the index, or there is none.
LEMMA BestFacts ==
    ASSUME NEW q, NEW rejected
    PROVE  Best(q, rejected) \subseteq Listed \cup {NoEntry}
  BY DEF Best, Exact, Texts

\* A prefix worth reusing is not empty, and the prompt goes on behind it.
LEMMA CandidateFacts ==
    ASSUME Library, NEW q \in Prompts, NEW x \in PrefixCandidates(q)
    PROVE  x \in Listed /\ Common(q, x) >= 1 /\ Common(q, x) < Len(q)
  <1> DEFINE half == Len(q) \div 2
             k == Max({1, half})
             m == Min({PrefixTokens, k})
             least == Max({1, m})
  <1>1. q \in Seq(Nat) /\ PrefixTokens \in Nat
    BY ProphetAssumption
  <1>2. half \in Nat
    BY <1>1
  <1> HIDE DEF half
  <1>3. k \in Nat
    <2> DEFINE S == {1, half}
    <2>1. S \in SUBSET Int /\ S # {} /\ half + 1 \in Int /\ \A y \in S : y <= half + 1
      BY <1>2
    <2>2. S \subseteq Nat /\ k = Max(S)
      BY <1>2
    <2> DEFINE b == half + 1
    <2> HIDE DEF S, b, k
    <2>3. Max(S) \in S
      BY <2>1, MaxFacts DEF b
    <2> QED BY <2>2, <2>3
  <1> HIDE DEF k
  <1>4. m \in Nat
    <2> DEFINE S == {PrefixTokens, k}
    <2>1. S \in SUBSET Nat /\ S # {} /\ m = Min(S)
      BY <1>1, <1>3
    <2> HIDE DEF S, m
    <2>2. Min(S) \in S
      BY <2>1, MinFacts
    <2> QED BY <2>1, <2>2
  <1> HIDE DEF m
  <1>5. least \in Int /\ least >= 1
    <2> DEFINE S == {1, m}
               b == m + 1
    <2>1. S \in SUBSET Int /\ S # {} /\ b \in Int /\ \A y \in S : y <= b
      BY <1>4
    <2>2. least = Max(S) /\ 1 \in S
      OBVIOUS
    <2> HIDE DEF S, b, least
    <2>3. Max(S) \in S /\ \A y \in S : Max(S) >= y
      BY <2>1, MaxFacts
    <2> QED BY <2>1, <2>2, <2>3
  <1>6. x \in Listed /\ Common(q, x) >= least /\ Common(q, x) < Len(q)
    <2> HIDE DEF least
    <2> QED BY DEF PrefixCandidates, least, m, k, half
  <1>7. Common(q, x) \in Int
    <2>1. SnapOf(x).hist \in Seq(Nat)
      BY <1>6, ListedSnap
    <2>2. CommonPrefix(q, SnapOf(x).hist) \in 0..Len(q)
      BY <1>1, <2>1, CommonFacts
    <2> QED BY <2>2 DEF Common
  <1> DEFINE n == Common(q, x)
  <1> HIDE DEF n, least
  <1>8. n >= 1
    BY <1>5, <1>6, <1>7 DEF n
  <1> QED BY <1>6, <1>8 DEF n

\* Whatever route restore_speculative takes is right.
LEMMA SpeculatedRight ==
    ASSUME Library, IdsApart, NoTailOfOne, SuffixPrefill = TRUE,
           NEW e, Sane(e), e.count < MaxCount, NEW s \in CallerIds, NEW q \in Prompts,
           NEW mode, NEW resident \in BOOLEAN, NEW fault,
           NEW o \in Speculated(e, q, s, mode, resident, fault)
    PROVE  Right(o, e)
  <1>1. e.count \in Nat
    BY DEF Sane, Good, Layout, Engines
  <1>2. s \in OwnIds(e)
    BY <1>1, IdsFacts
  <1>3. PICK x \in Best(q, {}) : o \in Routed(e, q, x, s, mode, resident, fault)
    BY DEF Speculated
  <1>4. {x} \subseteq Listed \cup {NoEntry}
    BY <1>3, BestFacts
  <1>5. ASSUME NEW y
        PROVE  Remaining(q, x, y) \subseteq Listed \cup {NoEntry}
    BY <1>4, BestFacts DEF Remaining
  <1>6. CASE x \in Exact(q) /\ HasLogits(x)
    <2>1. o = ExactRoute(e, x, s, resident)
      BY <1>3, <1>6 DEF Routed
    <2>2. x \in Listed
      BY <1>6 DEF Exact
    <2> QED BY <1>2, <2>1, <2>2, ExactRight
  <1>7. CASE o \in SemanticOutcomes(e, q, s, mode, fault, {x})
    BY <1>4, <1>7, SemanticOutcomesRight
  <1>8. CASE \E y : o \in SemanticOutcomes(e, q, s, mode, fault, Remaining(q, x, y))
    BY <1>5, <1>8, SemanticOutcomesRight
  <1>9. CASE \E y \in PrefixCandidates(q) :
                Accepted(q, y) /\ o = PrefixRoute(e, q, y, s, resident, fault)
    <2>1. PICK y \in PrefixCandidates(q) :
              Accepted(q, y) /\ o = PrefixRoute(e, q, y, s, resident, fault)
      BY <1>9
    <2> DEFINE h == SnapOf(y).hist
               n == Common(q, y)
    <2>2. y \in Listed /\ n >= 1 /\ n < Len(q)
      BY CandidateFacts
    <2>3. h \in Seq(Nat) /\ Grown(h) /\ SnapOf(y).rows = RowsOf(h) /\ q \in Seq(Nat)
      <3>1. IsSnap(SnapOf(y))
        BY <2>2, ListedSnap
      <3> HIDE DEF SnapOf
      <3> QED BY <3>1, PromptGrown DEF IsSnap
    <2>4. Len(SnapOf(y).rows) = Len(h)
      BY <2>3, RowsOfFacts
    <2>5. n = CommonPrefix(q, h)
      BY DEF Common
    <2>6. n \in 0..Len(q) /\ Len(q) \in Nat
      BY <2>3, <2>5, CommonFacts
    <2>7. n + 1 # Len(q)
      <3>1. Acceptable(Len(q), CommonPrefix(q, h), Len(h), Len(h))
        BY <2>1, <2>4, <2>5 DEF Accepted
      <3> HIDE DEF h
      <3>2. CommonPrefix(q, h) + 1 # Len(q)
        BY <2>3, <3>1 DEF NoTailOfOne
      <3> HIDE DEF n
      <3> QED BY <3>2, <2>5
    <2>8. n + 1 < Len(q)
      <3> HIDE DEF n
      <3> QED BY <2>2, <2>6, <2>7
    <2>9. Right(PrefixRoute(e, q, y, s, resident, fault), e)
      BY <1>2, <2>2, <2>8, PrefixRight
    <2> QED BY <2>1, <2>9
  <1> QED BY <1>3, <1>6, <1>7, <1>8, <1>9 DEF Routed

-------------------------------------------------------------------------------
(* The invariant. *)

Snaps == [rows : Seq(Seq(Nat)), hist : Seq(Nat), pend : Seq(Int)]
Files == [text : Seq(Nat), snap : Snaps]

\* Until a call samples into a shared block: the engine is sane and the callers
\* were told what it holds; the library is whole, and a capture that goes on has
\* written its file.
Inv ==
    /\ Sane(eng) /\ eng.count <= MaxCount
    /\ held = Words(eng)
    /\ Library
    /\ files \in Seq(Files) /\ index \in Seq(Nat)
    /\ writing => files # <<>>

\* An engine with no context is sane and has told nobody anything.
LEMMA BootSane ==
    /\ Sane(Boot) /\ Words(Boot) = <<>> /\ Boot.count = 0
  <1> DEFINE b == Boot
  <1>1. b.ctx = <<>> /\ b.count = 0 /\ b.resident = <<>>
    BY DEF Boot
  <1>2. Live(b) = {}
    BY <1>1 DEF Live
  <1>3. b \in Engines
    <2>1. Blank \in [1..BlockSize -> Seq(Int)]
      BY DEF Blank, Junk
    <2>2. [k \in 1..NumBlocks |-> Blank] \in [1..NumBlocks -> [1..BlockSize -> Seq(Int)]]
      BY <2>1
    <2>3. <<>> \in UNION {[S -> Context] : S \in SUBSET Int}
      <3>1. <<>> \in [{} -> Context] /\ {} \in SUBSET Int
        OBVIOUS
      <3> QED BY <3>1
    <2>4. <<>> \in Seq([entry : Nat, id : Int])
      OBVIOUS
    <2> QED BY <2>2, <2>3, <2>4 DEF Boot, Engines
  <1>4. Hists(b) \in [Live(b) -> Seq(Nat)]
    BY <1>2 DEF Hists
  <1> HIDE DEF b
  <1>5. Good(b)
    BY <1>2, <1>3, <1>4 DEF Good, Layout, Settled
  <1>6. IsCache(b.resident, b)
    BY <1>1, <1>2 DEF IsCache
  <1>7. Len(b.resident) <= ResidentMax
    BY <1>1, ProphetAssumption
  <1>8. Sane(b)
    BY <1>2, <1>5, <1>6, <1>7 DEF Sane, Orderly
  <1>9. Words(b) = <<>>
    <2>1. Owned(b) = {}
      BY <1>2 DEF Owned
    <2> QED BY <2>1 DEF Words
  <1> QED BY <1>1, <1>8, <1>9 DEF b

\* The first state.
LEMMA InitInv ==
    ASSUME Init
    PROVE  Inv
  <1>1. eng = Boot /\ held = <<>> /\ files = <<>> /\ index = <<>> /\ writing = FALSE
    BY DEF Init
  <1>2. Sane(eng) /\ eng.count <= MaxCount /\ held = Words(eng)
    BY <1>1, BootSane, ProphetAssumption
  <1>3. Listed = {}
    BY <1>1 DEF Listed, Range
  <1>4. DOMAIN files = {}
    BY <1>1
  <1>5. 1..0 = {} /\ 0 \in Nat
    OBVIOUS
  <1>6. Library
    BY <1>3, <1>4, <1>5 DEF Library
  <1>7. files \in Seq(Files) /\ index \in Seq(Nat)
    BY <1>1
  <1> QED BY <1>1, <1>2, <1>6, <1>7 DEF Inv

\* A sane engine is so after a step that keeps the snapshots listed.
LEMMA SaneStays ==
    ASSUME NEW d, Sane(d), eng' = d,
           \A x \in Listed : x \in Listed' /\ SnapOf(x)' = SnapOf(x)
    PROVE  Sane(eng)'
  <1>1. Good(eng')
    BY DEF Sane
  <1>2. /\ \A s \in Live(eng') : Grown(eng'.ctx[s].hist)
        /\ Live(eng') \subseteq OwnIds(eng') \cup ResidentIds
        /\ IsCache(d.resident, d)
        /\ Len(eng'.resident) <= ResidentMax
    BY DEF Sane, Orderly
  <1>3. ASSUME NEW r, IsSource(r, d)
        PROVE  IsSource(r, eng)'
    BY <1>3 DEF IsSource
  <1>4. IsCache(eng.resident, eng)'
    BY <1>2, <1>3 DEF IsCache
  <1> QED BY <1>1, <1>2, <1>4 DEF Sane, Orderly

\* A step that leaves the library alone keeps it.
LEMMA LibraryStays ==
    ASSUME Inv, UNCHANGED <<files, index>>
    PROVE  /\ Library' /\ files' \in Seq(Files) /\ index' \in Seq(Nat)
           /\ \A x \in Listed : x \in Listed' /\ SnapOf(x)' = SnapOf(x)
  <1>1. Library'
    BY DEF Inv, Library, Listed, SnapOf
  <1>2. \A x \in Listed : x \in Listed' /\ SnapOf(x)' = SnapOf(x)
    BY DEF Listed, SnapOf
  <1> QED BY <1>1, <1>2 DEF Inv

\* A call that keeps the engine sane, and tells what it holds.
LEMMA CallKeeps ==
    ASSUME Inv, NEW d, Sane(d), d.count <= MaxCount, eng' = d, held' = Words(d),
           UNCHANGED <<files, index, writing>>
    PROVE  Inv'
  <1>1. /\ Library' /\ files' \in Seq(Files) /\ index' \in Seq(Nat)
        /\ \A x \in Listed : x \in Listed' /\ SnapOf(x)' = SnapOf(x)
    BY LibraryStays
  <1>2. Sane(eng)'
    BY <1>1, SaneStays
  <1>3. Words(eng)' = Words(d)
    BY DEF Words, Owned
  <1>4. writing' => files' # <<>>
    BY DEF Inv
  <1> QED BY <1>1, <1>2, <1>3, <1>4 DEF Inv

\* A call with an outcome that is right.
LEMMA TookKeeps ==
    ASSUME Inv, NEW o, Right(o, eng), o.e.count <= MaxCount, Took(o)
    PROVE  Inv'
  <1>1. /\ eng' = o.e /\ held' = IF o.id = NoId THEN held ELSE Put(held, o.id, o.told)
        /\ UNCHANGED <<files, index, writing>>
    BY DEF Took
  <1>2. Sane(o.e) /\ Words(o.e) = IF o.id = NoId THEN Words(eng) ELSE Put(Words(eng), o.id, o.told)
    BY DEF Right
  <1>3. held = Words(eng)
    BY DEF Inv
  <1>4. held' = Words(o.e)
    BY <1>1, <1>2, <1>3
  <1> QED BY <1>1, <1>2, <1>4, CallKeeps

-------------------------------------------------------------------------------
(* The calls of one context. *)

\* The id a caller passes.
LEMMA AskedFacts ==
    ASSUME IdsApart
    PROVE  /\ AskedId \in CallerIds /\ AskedIds \subseteq CallerIds
           /\ \A s \in CallerIds : s \in Nat /\ s # NoId
           /\ \A e : CallerIds \subseteq OwnIds(e)
  <1>1. CallerIds # {} /\ CallerIds \subseteq Nat
    BY ProphetAssumption DEF IdsApart
  <1>2. AskedIds \subseteq CallerIds
    BY <1>1 DEF AskedIds
  <1>3. AskedId \in CallerIds
    <2>1. CASE CallerIds \subseteq Live(eng)
      <3>1. AskedId = Min(CallerIds)
        BY <1>1, <2>1 DEF AskedId
      <3> QED BY <1>1, <3>1, MinFacts
    <2>2. CASE ~(CallerIds \subseteq Live(eng))
      <3> DEFINE S == CallerIds \ Live(eng)
      <3>1. AskedId = Min(S)
        BY <1>1, <2>2 DEF AskedId
      <3>2. S \in SUBSET Nat /\ S # {} /\ S \subseteq CallerIds
        BY <1>1, <2>2
      <3> HIDE DEF S
      <3> QED BY <3>1, <3>2, MinFacts
    <2> QED BY <2>1, <2>2
  <1>4. \A s \in CallerIds : s \in Nat /\ s # NoId
    BY <1>1 DEF NoId
  <1> QED BY <1>2, <1>3, <1>4 DEF OwnIds

\* What is told of an added context is right.
LEMMA ToldRight ==
    ASSUME NEW e, e.count \in Nat, NEW r, NEW s, s # NoId, NEW h, IsAdded(r, e, s, h)
    PROVE  LET o == Told(r, s, h)
           IN  Right(o, e) /\ o.e.count = e.count
  <1> DEFINE o == Told(r, s, h)
  <1>1. o = IF r.ok THEN Outcome(r.e, s, h) ELSE Nothing(r.e)
    BY DEF Told, OrNothing
  <1>2. /\ r.ok \in BOOLEAN /\ Sane(r.e) /\ r.e.count = e.count
        /\ ~r.ok => Words(r.e) = Words(e)
        /\ r.ok => Words(r.e) = Put(Words(e), s, h)
    BY DEF IsAdded
  <1>3. o.e = r.e
    BY <1>1 DEF Outcome, Nothing
  <1>4. Right(o, e)
    <2>1. CASE r.ok
      <3>1. Right(Outcome(r.e, s, h), e)
        BY <1>2, <2>1, OutcomeRight
      <3> QED BY <1>1, <2>1, <3>1
    <2>2. CASE ~r.ok
      <3>1. Right(Nothing(r.e), e)
        BY <1>2, <2>2, NothingRight
      <3> QED BY <1>1, <2>2, <3>1
    <2> QED BY <2>1, <2>2
  <1> HIDE DEF o
  <1> QED BY <1>2, <1>3, <1>4 DEF o

\* What the invariant says of the engine.
LEMMA InvFacts ==
    ASSUME Inv
    PROVE  /\ Sane(eng) /\ Good(eng) /\ eng.count \in Nat /\ eng.count <= MaxCount
           /\ MaxCount \in Nat /\ held = Words(eng) /\ DOMAIN held = Owned(eng) /\ Library
  <1>1. Sane(eng) /\ held = Words(eng) /\ eng.count <= MaxCount /\ Library
    BY DEF Inv
  <1>2. Good(eng) /\ eng.count \in Nat
    BY <1>1 DEF Sane, Good, Layout, Engines
  <1> QED BY <1>1, <1>2, WordsFun, ProphetAssumption

\* A prefill.
LEMMA PrefillKeeps ==
    ASSUME Inv, IdsApart, NEW q \in Prompts, NEW s \in CallerIds, Prefill(q, s)
    PROVE  Inv'
  <1> DEFINE r == PrefillContext(eng, s, q, Room)
             o == Told(r, s, q)
  <1>1. s # NoId /\ s \in OwnIds(eng) /\ Room \in Nat /\ eng.count \in Nat /\ Sane(eng)
    BY AskedFacts, InvFacts, IdsFacts
  <1>2. IsAdded(r, eng, s, q)
    BY <1>1, PrefillAdds
  <1>3. IdFor(eng, s) = s /\ Asked(eng, s) = eng
    BY <1>1 DEF IdFor, Asked
  <1>4. Took(o)
    BY <1>3 DEF Prefill
  <1> HIDE DEF r
  <1>5. Right(o, eng) /\ o.e.count = eng.count
    BY <1>1, <1>2, ToldRight
  <1> HIDE DEF o
  <1>6. o.e.count <= MaxCount
    BY <1>5, InvFacts
  <1> QED BY <1>4, <1>5, <1>6, TookKeeps

\* A prefill that raises frees what it allocated.
LEMMA PrefillRaisesKeeps ==
    ASSUME Inv, IdsApart, NEW q \in Prompts, NEW s \in CallerIds, PrefillRaises(q, s)
    PROVE  Inv'
  <1> DEFINE r == PrefillContext(eng, s, q, Room)
             d == FreeAll(r.e, {s})
             o == Nothing(d)
  <1>1. /\ s # NoId /\ s \in OwnIds(eng) /\ Room \in Nat /\ eng.count \in Nat /\ Sane(eng)
        /\ s \in Nat
    BY AskedFacts, InvFacts, IdsFacts
  <1>2. IsAdded(r, eng, s, q)
    BY <1>1, PrefillAdds
  <1>3. IdFor(eng, s) = s /\ Asked(eng, s) = eng
    BY <1>1 DEF IdFor, Asked
  <1>4. Took(Nothing(FreeSequence(r.e, s))) /\ r.ok
    BY <1>3 DEF PrefillRaises
  <1>5. FreeSequence(r.e, s) = d
    BY FreeIsFreeAll
  <1> HIDE DEF r
  <1>6. Sane(d) /\ Words(d) = Words(eng) /\ d.count = eng.count
    BY <1>1, <1>2, <1>4, AddedFreed
  <1>7. Took(o)
    BY <1>4, <1>5
  <1> HIDE DEF d
  <1>8. Right(o, eng)
    BY <1>1, <1>6, NothingRight
  <1>9. o.e = d
    BY DEF Nothing, Outcome
  <1> HIDE DEF o
  <1>10. o.e.count <= MaxCount
    BY <1>6, <1>9, InvFacts
  <1> QED BY <1>7, <1>8, <1>10, TookKeeps

\* The first match, as it is.
LEMMA RestoreBestKeeps ==
    ASSUME Inv, IdsApart, NEW q \in Prompts, NEW s \in CallerIds, RestoreBest(q, s)
    PROVE  Inv'
  <1>1. PICK x \in Best(q, {}) \ {NoEntry} :
            Took(Told(Copy(eng, x, s, Room), RestoreId(eng, s), SnapOf(x).hist))
    BY DEF RestoreBest
  <1> DEFINE r == Copy(eng, x, s, Room)
             h == SnapOf(x).hist
             o == Told(r, s, h)
  <1>2. /\ s # NoId /\ s \in OwnIds(eng) /\ Room \in Nat /\ eng.count \in Nat /\ Sane(eng)
        /\ Library
    BY AskedFacts, InvFacts, IdsFacts
  <1>3. x \in Listed
    BY <1>1 DEF Best, Exact, Texts
  <1>4. IsAdded(r, eng, s, h)
    BY <1>2, <1>3, CopyAdds
  <1>5. RestoreId(eng, s) = s
    BY <1>2 DEF RestoreId
  <1>6. Took(o)
    BY <1>1, <1>5
  <1> HIDE DEF r, h
  <1>7. Right(o, eng) /\ o.e.count = eng.count
    BY <1>2, <1>4, ToldRight
  <1> HIDE DEF o
  <1>8. o.e.count <= MaxCount
    BY <1>7, InvFacts
  <1> QED BY <1>6, <1>7, <1>8, TookKeeps

\* The best use of the library that the thresholds allow.
LEMMA RestoreSpeculativeKeeps ==
    ASSUME Inv, IdsApart, NoTailOfOne, SuffixPrefill = TRUE,
           NEW q \in Prompts, NEW s \in CallerIds, NEW mode, NEW resident \in BOOLEAN, NEW fault,
           RestoreSpeculative(q, s, mode, resident, fault)
    PROVE  Inv'
  <1>1. PICK o \in Speculated(eng, q, s, mode, resident, fault) : Took(o)
    BY DEF RestoreSpeculative
  <1>2. eng.count < MaxCount
    BY DEF RestoreSpeculative
  <1>3. Sane(eng) /\ Library /\ eng.count \in Nat /\ MaxCount \in Nat
    BY InvFacts
  <1>4. Right(o, eng)
    BY <1>2, <1>3, SpeculatedRight
  <1>5. o.e.count <= MaxCount
    BY <1>2, <1>3, <1>4 DEF Right
  <1> QED BY <1>1, <1>4, <1>5, TookKeeps

\* A context goes on by what it says.
LEMMA GenerateKeeps ==
    ASSUME Inv, NEW s \in DOMAIN held, NEW n \in Nat,
           NEW draws \in {<<>>} \cup [1..n -> Tokens], Generate(s, n, draws), ~mixed'
    PROVE  Inv'
  <1> DEFINE r == GenerateFromContext(eng, s, n, draws)
             w == Words(eng)
  <1>1. Sane(eng) /\ held = w /\ s \in Owned(eng) /\ DOMAIN w = Owned(eng)
    BY InvFacts
  <1>2. IsToldMore(r, eng, s)
    <2>1. draws = <<>> \/ ~EndShared(eng, s)
      BY DEF Generate
    <2> QED BY <1>1, <2>1, GenerateTells
  <1>3. /\ eng' = r.e /\ held' = IF r.ok THEN [held EXCEPT ![s] = @ \o r.said] ELSE held
        /\ UNCHANGED <<files, index, writing>>
    BY DEF Generate, Spoke
  <1> HIDE DEF r
  <1>4. /\ r.ok \in BOOLEAN /\ Sane(r.e) /\ r.e.count = eng.count
        /\ ~r.ok => Words(r.e) = w
        /\ r.ok => Words(r.e) = Put(w, s, w[s] \o r.said)
    BY <1>2 DEF IsToldMore
  <1>5. w = [t \in DOMAIN w |-> w[t]]
    BY WordsFun
  <1> HIDE DEF w
  <1>6. [w EXCEPT ![s] = @ \o r.said] = Put(w, s, w[s] \o r.said)
    <2>1. DOMAIN w \cup {s} = DOMAIN w
      BY <1>1
    <2> QED BY <1>5, <2>1 DEF Put
  <1>7. held' = Words(r.e)
    BY <1>1, <1>3, <1>4, <1>6
  <1>8. r.e.count <= MaxCount
    BY <1>4, InvFacts
  <1> QED BY <1>3, <1>4, <1>7, <1>8, CallKeeps

\* A caller gives a context back.
LEMMA FreeKeeps ==
    ASSUME Inv, NEW s \in DOMAIN held, Free(s)
    PROVE  Inv'
  <1> DEFINE d == FreeAll(eng, {s})
  <1>1. Sane(eng) /\ held = Words(eng) /\ s \in Owned(eng) /\ eng.count \in Nat
    BY InvFacts
  <1>2. {s} \subseteq Nat
    <2>1. s \in OwnIds(eng)
      BY <1>1 DEF Sane, Orderly, Owned
    <2> QED BY <1>1, <2>1, IdsFacts
  <1>3. Sane(d) /\ Words(d) = Restrict(Words(eng), DOMAIN Words(eng) \ {s}) /\ d.count = eng.count
    BY <1>1, <1>2, FreedSane
  <1>4. eng' = d /\ held' = Restrict(held, DOMAIN held \ {s}) /\ UNCHANGED <<files, index, writing>>
    BY FreeIsFreeAll DEF Free
  <1> HIDE DEF d
  <1>5. held' = Words(d)
    BY <1>1, <1>3, <1>4
  <1>6. d.count <= MaxCount
    BY <1>3, InvFacts
  <1> QED BY <1>3, <1>4, <1>5, <1>6, CallKeeps

\* A caller forks a context it holds.
LEMMA ForkKeeps ==
    ASSUME Inv, IdsApart, NEW src \in DOMAIN held, NEW s \in CallerIds, Fork(src, s)
    PROVE  Inv'
  <1> DEFINE r == ForkContextPrefix(eng, src, s, Room)
             h == eng.ctx[src].hist
             o == Told(r, s, h)
  <1>1. /\ s # NoId /\ s \in OwnIds(eng) /\ Room \in Nat /\ eng.count \in Nat /\ Sane(eng)
        /\ src \in Owned(eng) /\ held = Words(eng)
    BY AskedFacts, InvFacts, IdsFacts
  <1>2. src \in Live(eng) /\ held[src] = h
    BY <1>1 DEF Owned, Words
  <1>3. IsAdded(r, eng, s, h)
    BY <1>1, <1>2, ForkAdds
  <1>4. IdFor(eng, s) = s /\ Asked(eng, s) = eng
    BY <1>1 DEF IdFor, Asked
  <1>5. Took(o)
    BY <1>2, <1>4 DEF Fork
  <1> HIDE DEF r, h
  <1>6. Right(o, eng) /\ o.e.count = eng.count
    BY <1>1, <1>3, ToldRight
  <1> HIDE DEF o
  <1>7. o.e.count <= MaxCount
    BY <1>6, InvFacts
  <1> QED BY <1>5, <1>6, <1>7, TookKeeps

-------------------------------------------------------------------------------
(* A batch of two. *)

\* Both contexts are added, or neither is.
BothAdded(r, e, s1, h1, s2, h2) ==
    /\ r.ok \in BOOLEAN /\ Sane(r.e) /\ r.e.count = e.count
    /\ ~r.ok => Words(r.e) = Words(e)
    /\ r.ok => Words(r.e) = Put(Put(Words(e), s1, h1), s2, h2)

\* Two copies.
LEMMA CopiesAdd ==
    ASSUME Library, NEW e, Sane(e), NEW s1 \in CallerIds, NEW s2 \in CallerIds,
           NEW x1 \in Listed, NEW x2 \in Listed
    PROVE  BothAdded(BatchCopies(e, <<x1, x2>>, <<s1, s2>>), e,
                     s1, SnapOf(x1).hist, s2, SnapOf(x2).hist)
  <1> DEFINE h1 == SnapOf(x1).hist
             h2 == SnapOf(x2).hist
             a == RestoreContext(e, s1, SnapOf(x1), Room)
             b == RestoreContext(a.e, s2, SnapOf(x2), Room)
             r == BatchCopies(e, <<x1, x2>>, <<s1, s2>>)
  <1>1. Room \in Nat /\ s1 \in OwnIds(e)
    BY ProphetAssumption DEF OwnIds
  <1>2. IsAdded(a, e, s1, h1)
    BY <1>1, RestoreAdds
  <1>3. IsAdded(a, e, s1, h1) => IsAdded(b, a.e, s2, h2)
    <2>1. s2 \in OwnIds(a.e)
      BY DEF OwnIds
    <2> HIDE DEF a
    <2> QED BY <1>1, <2>1, RestoreAdds DEF IsAdded
  <1>4. r = IF a.ok THEN IF b.ok THEN b ELSE Raised(e) ELSE Raised(e)
    BY DEF BatchCopies, RestoreContexts, Then
  <1> HIDE DEF h1, h2, b, a, r
  <1>5. a.ok \in BOOLEAN /\ b.ok \in BOOLEAN
    BY <1>2, <1>3 DEF IsAdded
  <1>6. BothAdded(r, e, s1, h1, s2, h2)
    <2>1. CASE a.ok /\ b.ok
      <3>1. r = b
        BY <1>4, <2>1
      <3>2. Sane(b.e) /\ b.e.count = e.count /\ Words(b.e) = Put(Put(Words(e), s1, h1), s2, h2)
        BY <1>2, <1>3, <2>1 DEF IsAdded
      <3> QED BY <2>1, <3>1, <3>2 DEF BothAdded
    <2>2. CASE ~(a.ok /\ b.ok)
      <3>1. r = Raised(e)
        BY <1>4, <2>2
      <3>2. r.ok = FALSE /\ r.e = e
        BY <3>1 DEF Raised
      <3> QED BY <3>2 DEF BothAdded
    <2> QED BY <2>1, <2>2
  <1> QED BY <1>6 DEF h1, h2, r

\* An engine that has the contexts e has.
LikeBefore(d, e) == Sane(d) /\ Words(d) = Words(e) /\ d.count = e.count

\* Two forks; or those that were made, freed again, leave what was there.
LEMMA ForksAdd ==
    ASSUME Library, NEW e, Sane(e), NEW s1 \in CallerIds, NEW s2 \in CallerIds,
           NEW x1 \in Listed, NEW x2 \in Listed
    PROVE  LET r == BatchForks(e, <<x1, x2>>, <<s1, s2>>)
           IN  /\ r.ok \in BOOLEAN
               /\ r.ok => BothAdded(r, e, s1, SnapOf(x1).hist, s2, SnapOf(x2).hist)
               /\ ~r.ok => LikeBefore(FreeAll(r.e, r.forked), e)
  <1> DEFINE h1 == SnapOf(x1).hist
             h2 == SnapOf(x2).hist
             f == ForkResidentSource(e, x1, s1, Room)
             g == ForkResidentSource(f.e, x2, s2, Room)
             xs == <<x1, x2>>
             ids == <<s1, s2>>
             r == BatchForks(e, xs, ids)
  <1>1. Room \in Nat /\ s1 \in OwnIds(e) /\ s1 \in Nat
    BY ProphetAssumption DEF OwnIds
  <1>2. IsAdded(f, e, s1, h1)
    BY <1>1, ForkSourceAdds
  <1> HIDE DEF h1
  <1>3. /\ f.ok \in BOOLEAN /\ Sane(f.e) /\ f.e.count = e.count
        /\ ~f.ok => Words(f.e) = Words(e)
        /\ f.ok => s1 \notin Owned(e) /\ Words(f.e) = Put(Words(e), s1, h1)
    <2> HIDE DEF f
    <2> QED BY <1>2 DEF IsAdded
  <1>4. xs[1] = x1 /\ xs[2] = x2 /\ ids[1] = s1 /\ ids[2] = s2
    OBVIOUS
  <1> HIDE DEF xs, ids
  <1>5. r = IF f.ok THEN Forked(Forked([e |-> e, ok |-> TRUE, forked |-> {}], f, s1), g, s2)
            ELSE Forked([e |-> e, ok |-> TRUE, forked |-> {}], f, s1)
    <2>1. Forked([e |-> e, ok |-> TRUE, forked |-> {}], f, s1).e = f.e
          /\ Forked([e |-> e, ok |-> TRUE, forked |-> {}], f, s1).ok = f.ok
      <3> HIDE DEF f
      <3> QED BY DEF Forked
    <2>2. r = Then(Forked([e |-> e, ok |-> TRUE, forked |-> {}], f, s1),
                   LAMBDA t : Forked(t, ForkResidentSource(t.e, x2, s2, Room), s2))
      BY <1>4 DEF BatchForks
    <2> HIDE DEF f
    <2> QED BY <2>1, <2>2 DEF Then
  <1>6. g.ok \in BOOLEAN /\ IsAdded(g, f.e, s2, h2)
    <2>1. s2 \in OwnIds(f.e)
      BY DEF OwnIds
    <2> HIDE DEF f
    <2>2. IsAdded(g, f.e, s2, h2)
      BY <1>1, <1>3, <2>1, ForkSourceAdds
    <2> HIDE DEF g, h2
    <2> QED BY <2>2 DEF IsAdded
  <1> HIDE DEF r, g, f, h2
  <1> SUFFICES /\ r.ok \in BOOLEAN
               /\ r.ok => BothAdded(r, e, s1, h1, s2, h2)
               /\ ~r.ok => LikeBefore(FreeAll(r.e, r.forked), e)
    BY DEF r, h1, h2, xs, ids
  <1>7. CASE ~f.ok
    <2>1. r.e = f.e /\ r.ok = f.ok /\ r.forked = {}
      BY <1>5, <1>7 DEF Forked
    <2> DEFINE d == FreeAll(f.e, {})
    <2>2. {} \subseteq Nat
      OBVIOUS
    <2>3. Sane(d) /\ Words(d) = Restrict(Words(f.e), DOMAIN Words(f.e) \ {}) /\ d.count = f.e.count
      BY <1>3, <2>2, FreedSane
    <2> HIDE DEF d
    <2>4. Restrict(Words(f.e), DOMAIN Words(f.e) \ {}) = Words(f.e)
      <3> DEFINE w == Words(f.e)
      <3>1. w = [t \in DOMAIN w |-> w[t]]
        BY WordsFun
      <3> HIDE DEF w
      <3>2. DOMAIN w \ {} = DOMAIN w
        OBVIOUS
      <3> QED BY <3>1, <3>2 DEF Restrict, w
    <2>5. LikeBefore(d, e)
      BY <1>3, <1>7, <2>3, <2>4 DEF LikeBefore
    <2>6. FreeAll(r.e, r.forked) = d
      BY <2>1 DEF d
    <2> QED BY <1>3, <1>7, <2>1, <2>5, <2>6
  <1>8. CASE f.ok /\ ~g.ok
    <2>1. r.e = g.e /\ r.ok = g.ok /\ r.forked = {s1}
      BY <1>5, <1>8 DEF Forked
    <2> DEFINE d == FreeAll(g.e, {s1})
    <2>2. {s1} \subseteq Nat
      BY <1>1
    <2>3. Sane(g.e) /\ g.e.count = e.count /\ Words(g.e) = Put(Words(e), s1, h1)
      BY <1>3, <1>6, <1>8 DEF IsAdded
    <2>4. Sane(d) /\ Words(d) = Restrict(Words(g.e), DOMAIN Words(g.e) \ {s1})
          /\ d.count = g.e.count
      BY <2>2, <2>3, FreedSane
    <2> HIDE DEF d
    <2>5. Restrict(Words(g.e), DOMAIN Words(g.e) \ {s1}) = Words(e)
      BY <1>3, <1>8, <2>3, WordsFun, TakenOut
    <2>6. LikeBefore(d, e)
      BY <2>3, <2>4, <2>5 DEF LikeBefore
    <2>7. FreeAll(r.e, r.forked) = d
      BY <2>1 DEF d
    <2> QED BY <1>6, <1>8, <2>1, <2>6, <2>7
  <1>9. CASE f.ok /\ g.ok
    <2>1. r.e = g.e /\ r.ok = g.ok
      BY <1>5, <1>9 DEF Forked
    <2>2. Sane(g.e) /\ g.e.count = e.count /\ Words(g.e) = Put(Put(Words(e), s1, h1), s2, h2)
      BY <1>3, <1>6, <1>9 DEF IsAdded
    <2>3. BothAdded(r, e, s1, h1, s2, h2)
      BY <1>9, <2>1, <2>2 DEF BothAdded
    <2> QED BY <1>9, <2>1, <2>3
  <1> QED BY <1>3, <1>6, <1>7, <1>8, <1>9

\* The batch, of forks or of copies.
LEMMA BatchAdds ==
    ASSUME Library, NEW e, Sane(e), NEW s1 \in CallerIds, NEW s2 \in CallerIds,
           NEW x1 \in Listed, NEW x2 \in Listed
    PROVE  LET forks == BatchForks(e, <<x1, x2>>, <<s1, s2>>)
           IN  BothAdded(ForksOrCopies(forks, <<x1, x2>>, <<s1, s2>>), e,
                         s1, SnapOf(x1).hist, s2, SnapOf(x2).hist)
  <1> DEFINE h1 == SnapOf(x1).hist
             h2 == SnapOf(x2).hist
             xs == <<x1, x2>>
             ids == <<s1, s2>>
             r == BatchForks(e, xs, ids)
             d == FreeAll(r.e, r.forked)
  <1>1. /\ r.ok \in BOOLEAN
        /\ r.ok => BothAdded(r, e, s1, h1, s2, h2)
        /\ ~r.ok => LikeBefore(d, e)
    BY ForksAdd
  <1>2. ForksOrCopies(r, xs, ids) = IF r.ok THEN r ELSE BatchCopies(d, xs, ids)
    BY DEF ForksOrCopies
  <1>3. CASE r.ok
    <2> QED BY <1>1, <1>2, <1>3
  <1>4. CASE ~r.ok
    <2> DEFINE c == BatchCopies(d, xs, ids)
    <2>1. LikeBefore(d, e)
      BY <1>1, <1>4
    <2> HIDE DEF r, d
    <2>2. Sane(d) /\ Words(d) = Words(e) /\ d.count = e.count
      BY <2>1 DEF LikeBefore
    <2>3. BothAdded(c, d, s1, h1, s2, h2)
      BY <2>2, CopiesAdd
    <2> HIDE DEF c, h1, h2
    <2>4. BothAdded(c, e, s1, h1, s2, h2)
      BY <2>2, <2>3 DEF BothAdded
    <2> QED BY <1>2, <1>4, <2>4 DEF c, d, r, h1, h2
  <1> QED BY <1>1, <1>3, <1>4

\* The callers of a batch are told what it has put into the cache.
LEMMA RestoreExactBatchKeeps ==
    ASSUME Inv, IdsApart, NEW q1 \in Prompts, NEW q2 \in Prompts,
           NEW s1 \in CallerIds, NEW s2 \in CallerIds, NEW resident \in BOOLEAN,
           RestoreExactBatch(q1, q2, s1, s2, resident)
    PROVE  Inv'
  <1>1. s1 # NoId
    BY AskedFacts
  <1> DEFINE b(x1, x2) == IF resident THEN ForksOrCopies(BatchForks(eng, <<x1, x2>>, <<s1, s2>>),
                                                       <<x1, x2>>, <<s1, s2>>)
                          ELSE BatchCopies(eng, <<x1, x2>>, <<s1, s2>>)
  <1>2. PICK x1 \in Exact(q1), x2 \in Exact(q2) :
            TookBoth(b(x1, x2), <<x1, x2>>, <<s1, s2>>)
    BY <1>1 DEF RestoreExactBatch
  <1> DEFINE r == b(x1, x2)
             h1 == SnapOf(x1).hist
             h2 == SnapOf(x2).hist
  <1>3. x1 \in Listed /\ x2 \in Listed
    BY <1>2 DEF Exact
  <1>4. Sane(eng) /\ Library /\ held = Words(eng)
    BY InvFacts
  <1>5. BothAdded(r, eng, s1, h1, s2, h2)
    BY <1>3, <1>4, BatchAdds, CopiesAdd
  <1>6. /\ eng' = r.e
        /\ held' = IF r.ok THEN Put(Put(held, s1, h1), s2, h2) ELSE held
        /\ UNCHANGED <<files, index, writing>>
    <2> HIDE DEF b
    <2> QED BY <1>2 DEF TookBoth
  <1> HIDE DEF r, h1, h2
  <1>7. Sane(r.e) /\ r.e.count = eng.count /\ held' = Words(r.e)
    BY <1>4, <1>5, <1>6 DEF BothAdded
  <1>8. r.e.count <= MaxCount
    BY <1>7, InvFacts
  <1> QED BY <1>6, <1>7, <1>8, CallKeeps

-------------------------------------------------------------------------------
(* The library, and the process that ends. *)

\* A snapshot is written of a context the caller knows.
LEMMA CaptureSnapshotKeeps ==
    ASSUME Inv, NEW s \in DOMAIN held, CaptureSnapshot(s)
    PROVE  Inv'
  <1> DEFINE h == eng.ctx[s].hist
             c == Snapshot(eng, s)
             t == IF held[s] \in Prompts THEN held[s] ELSE NoText
             v == [text |-> t, snap |-> c]
             n == Len(files)
  <1>1. /\ Sane(eng) /\ Good(eng) /\ held = Words(eng) /\ s \in Owned(eng) /\ Library
    BY InvFacts
  <1>2. s \in Live(eng) /\ held[s] = h
    BY <1>1 DEF Owned, Words
  <1>3. /\ c = [rows |-> RowsOf(h), hist |-> h, pend |-> eng.ctx[s].pend]
        /\ h \in Seq(Nat) /\ eng.ctx[s].pend \in {h, NoLogits} /\ Grown(h)
    BY <1>1, <1>2, SnapshotRead DEF Sane, Orderly
  <1>4. /\ files' = Append(files, v) /\ writing' = TRUE /\ UNCHANGED <<eng, held, index>>
    BY DEF CaptureSnapshot
  <1> HIDE DEF c
  <1>5. IsSnap(c) /\ t \in {NoText, c.hist} /\ t \in Seq(Nat) /\ c \in Snaps
    <2>1. c.hist = h /\ c.pend = eng.ctx[s].pend
      BY <1>3
    <2>2. IsSnap(c)
      BY <1>3, <2>1 DEF IsSnap
    <2>3. t \in {NoText, c.hist} /\ t \in Seq(Nat)
      BY <1>2, <1>3, <2>1 DEF NoText
    <2>4. RowsOf(h) \in Seq(Seq(Nat))
      <3>1. ASSUME NEW p \in 1..Len(h)
            PROVE  SubSeq(h, 1, p) \in Seq(Nat)
        <4>1. h \in Seq(Nat)
          BY <1>3
        <4> HIDE DEF h
        <4>2. p \in 0..Len(h)
          BY <4>1
        <4> QED BY <4>1, <4>2, Prefix
      <3> QED BY <1>3, <3>1 DEF RowsOf
    <2>5. eng.ctx[s].pend \in Seq(Int)
      <3>1. h \in Seq(Int)
        BY <1>3
      <3>2. NoLogits \in Seq(Int)
        BY DEF NoLogits
      <3> QED BY <1>3, <3>1, <3>2
    <2>6. c \in Snaps
      BY <1>3, <2>4, <2>5 DEF Snaps
    <2> QED BY <2>2, <2>3, <2>6
  <1> HIDE DEF h, t
  <1>6. v \in Files
    BY <1>5 DEF Files
  <1>7. files \in Seq(Files) /\ index \in Seq(Nat)
    BY DEF Inv
  <1>8. v.text = t /\ v.snap = c
    OBVIOUS
  <1> HIDE DEF v
  <1>9. /\ files' \in Seq(Files) /\ DOMAIN files' = 1..n+1 /\ DOMAIN files = 1..n
        /\ n \in Nat /\ files'[n+1] = v /\ \A x \in 1..n : files'[x] = files[x]
    BY <1>4, <1>6, <1>7
  <1> HIDE DEF n
  <1>10. Listed' = Listed
    BY <1>4 DEF Listed
  <1>11. Listed \subseteq 1..n
    BY <1>1, <1>9 DEF Library
  <1>12. \A x \in 1..n : SnapOf(x)' = SnapOf(x)
    BY <1>9 DEF SnapOf
  <1>13. Sane(eng)'
    BY <1>1, <1>4, <1>10, <1>11, <1>12, SaneStays
  <1>14. Library'
    <2>1. ASSUME NEW x \in DOMAIN files'
          PROVE  IsSnap(SnapOf(x)') /\ files'[x].text \in {NoText, SnapOf(x)'.hist}
      <3>1. CASE x \in 1..n
        <4>1. IsSnap(SnapOf(x)) /\ files[x].text \in {NoText, SnapOf(x).hist}
          BY <1>1, <1>9, <3>1 DEF Library
        <4> QED BY <4>1, <3>1, <1>9, <1>12
      <3>2. CASE x = n + 1
        <4>1. SnapOf(x)' = c
          BY <1>8, <1>9, <3>2 DEF SnapOf
        <4>2. files'[x].text = t
          BY <1>8, <1>9, <3>2
        <4> QED BY <1>5, <4>1, <4>2
      <3> QED BY <1>9, <3>1, <3>2
    <2>2. n + 1 \in Nat /\ Listed' \subseteq DOMAIN files'
      BY <1>9, <1>10, <1>11
    <2>3. \E m \in Nat : DOMAIN files' = 1..m
      BY <1>9, <2>2
    <2> QED BY <2>1, <2>2, <2>3 DEF Library
  <1>15. held' = Words(eng)' /\ eng'.count <= MaxCount
    BY <1>1, <1>4, InvFacts DEF Words, Owned
  <1>16. files' # <<>>
    BY <1>9
  <1> QED BY <1>4, <1>7, <1>9, <1>13, <1>14, <1>15, <1>16 DEF Inv

\* The snapshot written last is listed.
LEMMA CaptureEntryKeeps ==
    ASSUME Inv, CaptureEntry
    PROVE  Inv'
  <1> DEFINE n == Len(files)
             m == Len(index)
  <1>1. /\ writing /\ index' = Append(index, n) /\ writing' = FALSE
        /\ UNCHANGED <<eng, held, files>>
    BY DEF CaptureEntry
  <1>2. /\ Sane(eng) /\ held = Words(eng) /\ Library /\ eng.count <= MaxCount
        /\ files \in Seq(Files) /\ index \in Seq(Nat) /\ files # <<>>
    BY <1>1 DEF Inv
  <1>3. n \in Nat /\ n # 0 /\ DOMAIN files = 1..n
    BY <1>2
  <1> HIDE DEF n
  <1>4. /\ index' \in Seq(Nat) /\ DOMAIN index' = 1..m+1 /\ DOMAIN index = 1..m /\ m \in Nat
        /\ index'[m+1] = n /\ \A i \in 1..m : index'[i] = index[i]
    BY <1>1, <1>2, <1>3
  <1> HIDE DEF m
  <1>5. Listed' = Listed \cup {n}
    <2>1. ASSUME NEW x \in Listed'
          PROVE  x \in Listed \cup {n}
      <3>1. PICK i \in 1..m+1 : x = index'[i]
        BY <1>4 DEF Listed, Range
      <3>2. CASE i \in 1..m
        BY <3>1, <3>2, <1>4 DEF Listed, Range
      <3>3. CASE i = m + 1
        BY <3>1, <3>3, <1>4
      <3> QED BY <1>4, <3>2, <3>3
    <2>2. ASSUME NEW x \in Listed
          PROVE  x \in Listed'
      <3>1. PICK i \in 1..m : x = index[i]
        BY <1>4 DEF Listed, Range
      <3>2. i \in 1..m+1 /\ index'[i] = x
        BY <3>1, <1>4
      <3> QED BY <3>2, <1>4 DEF Listed, Range
    <2>3. n \in Listed'
      <3>1. m + 1 \in 1..m+1
        BY <1>4
      <3> QED BY <3>1, <1>4 DEF Listed, Range
    <2> QED BY <2>1, <2>2, <2>3
  <1>6. \A x \in Listed : x \in Listed' /\ SnapOf(x)' = SnapOf(x)
    BY <1>1, <1>5 DEF SnapOf
  <1>7. Sane(eng)'
    BY <1>1, <1>2, <1>6, SaneStays
  <1>8. Library'
    <2>1. Listed' \subseteq DOMAIN files'
      BY <1>1, <1>2, <1>3, <1>5 DEF Library
    <2>2. \A x \in DOMAIN files' : IsSnap(SnapOf(x)') /\ files'[x].text \in {NoText, SnapOf(x)'.hist}
      BY <1>1, <1>2 DEF Library, SnapOf
    <2>3. \E k \in Nat : DOMAIN files' = 1..k
      BY <1>1, <1>3
    <2> QED BY <2>1, <2>2, <2>3 DEF Library
  <1>9. held' = Words(eng)'
    BY <1>1, <1>2 DEF Words, Owned
  <1> QED BY <1>1, <1>2, <1>4, <1>7, <1>8, <1>9 DEF Inv

\* Another process starts on what is on disk.
LEMMA RestartKeeps ==
    ASSUME Inv, Restart
    PROVE  Inv'
  <1>1. eng' = Boot /\ held' = <<>> /\ writing' = FALSE /\ UNCHANGED <<files, index>>
    BY DEF Restart
  <1>2. /\ Library' /\ files' \in Seq(Files) /\ index' \in Seq(Nat)
        /\ \A x \in Listed : x \in Listed' /\ SnapOf(x)' = SnapOf(x)
    BY <1>1, LibraryStays
  <1>3. Sane(eng)'
    BY <1>1, <1>2, BootSane, SaneStays
  <1>4. Words(eng)' = Words(Boot)
    BY <1>1 DEF Words, Owned
  <1>5. eng'.count <= MaxCount
    BY <1>1, BootSane, ProphetAssumption
  <1> QED BY <1>1, <1>2, <1>3, <1>4, <1>5, BootSane DEF Inv

-------------------------------------------------------------------------------
(* Every step, and what the callers are promised. *)

\* No step takes back that a call has sampled into a shared block.
LEMMA MixedStays ==
    ASSUME [Next]_vars, mixed \in BOOLEAN
    PROVE  mixed' \in BOOLEAN /\ (mixed => mixed')
  <1> DEFINE Stays == mixed' \in BOOLEAN /\ (mixed => mixed')
  <1>1. UNCHANGED mixed => Stays
    OBVIOUS
  <1>2. \A o : Took(o) => UNCHANGED mixed
    BY DEF Took
  <1>3. \A r, xs, ids : TookBoth(r, xs, ids) => UNCHANGED mixed
    BY DEF TookBoth
  <1>4. ASSUME NEW q, NEW s, Prefill(q, s) \/ PrefillRaises(q, s) \/ RestoreBest(q, s)
        PROVE  UNCHANGED mixed
    BY <1>2, <1>4 DEF Prefill, PrefillRaises, RestoreBest
  <1>5. ASSUME NEW q, NEW s, NEW mode, NEW resident, NEW fault,
               RestoreSpeculative(q, s, mode, resident, fault)
        PROVE  UNCHANGED mixed
    BY <1>2, <1>5 DEF RestoreSpeculative
  <1>6. ASSUME NEW q1, NEW q2, NEW s1, NEW s2, NEW resident,
               RestoreExactBatch(q1, q2, s1, s2, resident)
        PROVE  UNCHANGED mixed
    BY <1>3, <1>6 DEF RestoreExactBatch
  <1>7. ASSUME NEW s, NEW t, Free(s) \/ CaptureSnapshot(s) \/ Fork(s, t)
        PROVE  UNCHANGED mixed
    BY <1>2, <1>7 DEF Free, CaptureSnapshot, Fork
  <1>8. ASSUME NEW s, NEW n, NEW draws, Generate(s, n, draws)
        PROVE  Stays
    <2>1. mixed' = (mixed \/ (draws # <<>> /\ EndShared(eng, s)))
      BY <1>8 DEF Generate
    <2> QED BY <2>1
  <1>9. CaptureEntry \/ Restart => UNCHANGED mixed
    BY DEF CaptureEntry, Restart
  <1> SUFFICES Stays
    OBVIOUS
  <1> HIDE DEF Stays
  <1>10. CASE \E q \in Prompts : LET s == AskedId IN
               \/ Prefill(q, s)
               \/ PrefillRaises(q, s)
               \/ RestoreBest(q, s)
               \/ \E mode \in {"none", "fallback", "refuse"}, resident \in BOOLEAN,
                     fault \in Faults \cup {"no"} :
                     /\ fault # "no" => mode = "fallback"
                     /\ RestoreSpeculative(q, s, mode, resident, fault)
    BY <1>10, <1>1, <1>4, <1>5
  <1>11. CASE \E q1, q2 \in Prompts, s1, s2 \in AskedIds, resident \in BOOLEAN :
               RestoreExactBatch(q1, q2, s1, s2, resident)
    BY <1>11, <1>1, <1>6
  <1>12. CASE \E s \in DOMAIN held :
               \/ Free(s) \/ CaptureSnapshot(s)
               \/ \E n \in {ValidationTokens} :
                     \E draws \in {<<>>} \cup [1..n -> Tokens] : Generate(s, n, draws)
               \/ Fork(s, AskedId)
    BY <1>12, <1>1, <1>7, <1>8
  <1>13. CASE CaptureEntry \/ Restart
    BY <1>13, <1>1, <1>9
  <1>14. CASE UNCHANGED vars
    BY <1>14, <1>1 DEF vars
  <1> QED BY <1>10, <1>11, <1>12, <1>13, <1>14 DEF Next

\* Every call keeps the invariant, but one that samples into a shared block.
LEMMA StepKeeps ==
    ASSUME Inv, IdsApart, NoTailOfOne, SuffixPrefill = TRUE, [Next]_vars, ~mixed'
    PROVE  Inv'
  <1>1. AskedId \in CallerIds /\ AskedIds \subseteq CallerIds
    BY AskedFacts
  <1>2. CASE \E q \in Prompts : LET s == AskedId IN
               \/ Prefill(q, s)
               \/ PrefillRaises(q, s)
               \/ RestoreBest(q, s)
               \/ \E mode \in {"none", "fallback", "refuse"}, resident \in BOOLEAN,
                     fault \in Faults \cup {"no"} :
                     /\ fault # "no" => mode = "fallback"
                     /\ RestoreSpeculative(q, s, mode, resident, fault)
    <2> DEFINE s == AskedId
    <2> HIDE DEF s
    <2>1. s \in CallerIds
      BY <1>1 DEF s
    <2>2. PICK q \in Prompts :
               \/ Prefill(q, s)
               \/ PrefillRaises(q, s)
               \/ RestoreBest(q, s)
               \/ \E mode \in {"none", "fallback", "refuse"}, resident \in BOOLEAN,
                     fault \in Faults \cup {"no"} :
                     RestoreSpeculative(q, s, mode, resident, fault)
      BY <1>2 DEF s
    <2>3. CASE Prefill(q, s)
      BY <2>1, <2>3, PrefillKeeps
    <2>4. CASE PrefillRaises(q, s)
      BY <2>1, <2>4, PrefillRaisesKeeps
    <2>5. CASE RestoreBest(q, s)
      BY <2>1, <2>5, RestoreBestKeeps
    <2>6. CASE \E mode \in {"none", "fallback", "refuse"}, resident \in BOOLEAN,
                  fault \in Faults \cup {"no"} :
                  RestoreSpeculative(q, s, mode, resident, fault)
      BY <2>1, <2>6, RestoreSpeculativeKeeps
    <2> QED BY <2>2, <2>3, <2>4, <2>5, <2>6
  <1>3. CASE \E q1, q2 \in Prompts, s1, s2 \in AskedIds, resident \in BOOLEAN :
               RestoreExactBatch(q1, q2, s1, s2, resident)
    BY <1>1, <1>3, RestoreExactBatchKeeps
  <1>4. CASE \E s \in DOMAIN held :
               \/ Free(s) \/ CaptureSnapshot(s)
               \/ \E n \in {ValidationTokens} :
                     \E draws \in {<<>>} \cup [1..n -> Tokens] : Generate(s, n, draws)
               \/ Fork(s, AskedId)
    <2>1. PICK s \in DOMAIN held :
               \/ Free(s) \/ CaptureSnapshot(s)
               \/ \E draws \in {<<>>} \cup [1..ValidationTokens -> Tokens] :
                     Generate(s, ValidationTokens, draws)
               \/ Fork(s, AskedId)
      BY <1>4
    <2>2. ValidationTokens \in Nat
      BY ProphetAssumption
    <2> QED BY <1>1, <2>1, <2>2, FreeKeeps, CaptureSnapshotKeeps, GenerateKeeps, ForkKeeps
  <1>5. CASE CaptureEntry
    BY <1>5, CaptureEntryKeeps
  <1>6. CASE Restart
    BY <1>6, RestartKeeps
  <1>7. CASE UNCHANGED vars
    <2>1. UNCHANGED <<eng, held, files, index, writing>>
      BY <1>7 DEF vars
    <2>2. /\ Sane(eng) /\ eng.count <= MaxCount /\ held = Words(eng)
      BY DEF Inv
    <2> QED BY <2>1, <2>2, CallKeeps
  <1> QED BY <1>2, <1>3, <1>4, <1>5, <1>6, <1>7 DEF Next

\* A context holds the text whose rows it has.
LEMMA SaneCoherent ==
    ASSUME NEW e, Good(e), NEW s \in Live(e)
    PROVE  Coherent(e.ctx[s], Rows(e, s), e.ctx[s].hist)
  BY SnapshotRead DEF Coherent

\* A caller's contexts are those that are not the cache's, and hold their words.
LEMMA InvToldContexts ==
    ASSUME Inv
    PROVE  ContextsHoldWhatWasTold
  <1>1. Good(eng) /\ held = Words(eng) /\ DOMAIN held = Owned(eng)
    BY InvFacts
  <1>2. ASSUME NEW s \in DOMAIN held
        PROVE  /\ s \in Live(eng)
               /\ eng.ctx[s].hist = held[s] /\ eng.ctx[s].len = Len(held[s])
               /\ Coherent(eng.ctx[s], Rows(eng, s), held[s])
    <2>1. s \in Live(eng) /\ held[s] = eng.ctx[s].hist
      BY <1>1 DEF Owned, Words
    <2>2. eng.ctx[s].len = Len(eng.ctx[s].hist)
      BY <1>1, <2>1 DEF Good, Layout, Hists
    <2> QED BY <1>1, <2>1, <2>2, SaneCoherent
  <1> QED BY <1>2 DEF ContextsHoldWhatWasTold

\* What is not the cache's is a caller's, and the cache lists what is its.
LEMMA InvNothingStranded ==
    ASSUME Inv
    PROVE  NothingStranded
  <1> DEFINE l == eng.resident
             ids == {l[i].id : i \in DOMAIN l}
  <1>1. Sane(eng) /\ DOMAIN held = Owned(eng)
    BY InvFacts
  <1>2. IsCache(l, eng)
    BY <1>1 DEF Sane, Orderly
  <1>3. DOMAIN l = 1..Len(l)
    BY InvFacts DEF Good, Layout, Engines
  <1> HIDE DEF l
  <1>4. ids \subseteq Live(eng)
    BY <1>2, <1>3 DEF IsCache, IsSource
  <1>5. \A t \in Live(eng) : t \in ResidentIds => t \in ids
    BY <1>2, <1>3 DEF IsCache
  <1> HIDE DEF ids
  <1>6. Live(eng) = DOMAIN held \cup ids
    BY <1>1, <1>4, <1>5 DEF Owned
  <1> QED BY <1>6 DEF NothingStranded, ids, l

\* A source holds its entry's text, and its rows are that text's.
LEMMA InvResidents ==
    ASSUME Inv
    PROVE  ResidentsAreSnapshots
  <1> DEFINE l == eng.resident
  <1>1. Sane(eng) /\ Good(eng) /\ Library
    BY InvFacts
  <1>2. IsCache(l, eng) /\ Len(l) <= ResidentMax
    BY <1>1 DEF Sane, Orderly
  <1>3. DOMAIN l = 1..Len(l)
    BY <1>1 DEF Good, Layout, Engines
  <1>4. ASSUME NEW i \in DOMAIN l
        PROVE  l[i].id \in Live(eng) /\ Snapshot(eng, l[i].id) = SnapOf(l[i].entry)
    <2> DEFINE x == l[i].entry
               s == l[i].id
    <2>1. IsSource(l[i], eng)
      BY <1>2, <1>3, <1>4 DEF IsCache
    <2>2. /\ x \in Listed /\ s \in Live(eng)
          /\ eng.ctx[s].hist = SnapOf(x).hist /\ eng.ctx[s].pend = SnapOf(x).pend
      BY <2>1 DEF IsSource
    <2> HIDE DEF x, s
    <2>3. Snapshot(eng, s) = [rows |-> RowsOf(eng.ctx[s].hist), hist |-> eng.ctx[s].hist,
                              pend |-> eng.ctx[s].pend]
      BY <1>1, <2>2, SnapshotRead
    <2>4. SnapOf(x) = [rows |-> RowsOf(SnapOf(x).hist), hist |-> SnapOf(x).hist,
                       pend |-> SnapOf(x).pend]
      BY <1>1, <2>2, ListedSnap
    <2>5. s \in Live(eng) /\ Snapshot(eng, s) = SnapOf(x)
      BY <2>2, <2>3, <2>4
    <2> QED BY <2>5 DEF x, s
  <1> QED BY <1>2, <1>4 DEF ResidentsAreSnapshots

\* Every file is a whole snapshot, and what is listed is there.
LEMMA InvLibrary ==
    ASSUME Inv
    PROVE  LibrarySound
  <1>1. Library
    BY InvFacts
  <1>2. ASSUME NEW x \in Listed
        PROVE  /\ x \in DOMAIN files
               /\ Len(SnapOf(x).rows) = Len(SnapOf(x).hist)
               /\ Coherent(SnapOf(x), SnapOf(x).rows, SnapOf(x).hist)
               /\ files[x].text \in {NoText, SnapOf(x).hist}
    <2> DEFINE c == SnapOf(x)
    <2>1. /\ x \in DOMAIN files /\ files[x].text \in {NoText, c.hist}
          /\ c = [rows |-> RowsOf(c.hist), hist |-> c.hist, pend |-> c.pend]
          /\ c.pend \in {c.hist, NoLogits}
      BY <1>1, ListedSnap DEF Library
    <2> HIDE DEF c
    <2>2. c.rows = RowsOf(c.hist)
      BY <2>1
    <2>3. Coherent(c, c.rows, c.hist)
      BY <2>1, <2>2 DEF Coherent
    <2>4. Len(c.rows) = Len(c.hist)
      <3>1. IsSnap(SnapOf(x))
        BY <1>1, ListedSnap
      <3>2. c.hist \in Seq(Nat)
        BY <3>1 DEF IsSnap, c
      <3> QED BY <2>2, <3>2, RowsOfFacts
    <2> QED BY <2>1, <2>3, <2>4 DEF c
  <1> QED BY <1>2 DEF LibrarySound

\* The invariant holds until a call samples into a shared block.
THEOREM ProphetInvariant ==
    ASSUME IdsApart, NoTailOfOne, SuffixPrefill = TRUE
    PROVE  Spec => [](~mixed => Inv)
  <1> DEFINE Kind == mixed \in BOOLEAN
             Unmixed == Kind /\ (~mixed => Inv)
  <1>1. Init => Unmixed
    BY InitInv DEF Init
  <1>2. Unmixed /\ [Next]_vars => Unmixed'
    <2> SUFFICES ASSUME Unmixed, [Next]_vars PROVE Kind' /\ (~mixed' => Inv')
      OBVIOUS
    <2>1. Kind'
      BY MixedStays
    <2>2. ASSUME ~mixed' PROVE Inv'
      <3>1. ~mixed
        BY <2>2, MixedStays
      <3> QED BY <2>2, <3>1, StepKeeps
    <2> QED BY <2>1, <2>2
  <1>3. Unmixed => (~mixed => Inv)
    OBVIOUS
  <1> HIDE DEF Unmixed
  <1> QED BY <1>1, <1>2, <1>3, PTL DEF Spec

\* Until a call samples into a block that two contexts share, every context a
\* caller holds is alive and holds, row by row, the tokens the caller was told,
\* greedy or drawn, for any prompts, thresholds and sizes: whatever was forked,
\* rolled back, replayed, evicted, validated or given up beside it.
THEOREM ContextsAreTold ==
    ASSUME IdsApart, NoTailOfOne, SuffixPrefill = TRUE
    PROVE  Spec => [](~mixed => ContextsHoldWhatWasTold)
  <1>1. Inv => ContextsHoldWhatWasTold
    BY InvToldContexts
  <1> QED BY <1>1, ProphetInvariant, PTL

\* Until then every sequence of the engine is a caller's context or a source the
\* resident cache lists: no route of a restore and no call that raises strands
\* one.
THEOREM NothingIsStranded ==
    ASSUME IdsApart, NoTailOfOne, SuffixPrefill = TRUE
    PROVE  Spec => [](~mixed => NothingStranded)
  <1>1. Inv => NothingStranded
    BY InvNothingStranded
  <1> QED BY <1>1, ProphetInvariant, PTL

\* Until then a resident source is its entry's snapshot, however its forks went
\* on in the blocks they share with it, and the cache stays within its size.
THEOREM ResidentsStaySnapshots ==
    ASSUME IdsApart, NoTailOfOne, SuffixPrefill = TRUE
    PROVE  Spec => [](~mixed => ResidentsAreSnapshots)
  <1>1. Inv => ResidentsAreSnapshots
    BY InvResidents
  <1> QED BY <1>1, ProphetInvariant, PTL

\* Until then what the index lists is a whole snapshot of one text, wherever the
\* process ended.
THEOREM LibraryIsSound ==
    ASSUME IdsApart, NoTailOfOne, SuffixPrefill = TRUE
    PROVE  Spec => [](~mixed => LibrarySound)
  <1>1. Inv => LibrarySound
    BY InvLibrary
  <1> QED BY <1>1, ProphetInvariant, PTL
=============================================================================
