---------------------------- MODULE MeshRouter_proofs ----------------------------
(***************************************************************************)
(* Theorems about MeshRouter: what dealing does to the prompts of a round, *)
(* and where each prompt of a call is while replicas fail.                 *)
(***************************************************************************)
EXTENDS MeshRouter, FiniteSetTheorems, WellFoundedInduction, TLAPS

-------------------------------------------------------------------------------
(* Sequences, and least numbers. *)

\* A set of natural numbers that is not empty has a least element.
LEMMA LeastExists ==
    ASSUME NEW S \in SUBSET Nat, S # {}
    PROVE  \E m \in S : \A x \in S : m <= x
<1>1. PICK m \in S : \A y \in S : ~(<<y, m>> \in OpToRel(<, Nat))
  BY NatLessThanWellFounded, WFMin
<1>2. \A y \in S : m <= y
  <2>. TAKE y \in S
  <2>1. ~(y < m)
    BY <1>1 DEF OpToRel
  <2>. QED BY <2>1
<1>. QED BY <1>2

LEMMA ToSetIn ==
    ASSUME NEW S, NEW s \in Seq(S)
    PROVE  ToSet(s) \subseteq S
BY DEF ToSet

LEMMA AppendFacts ==
    ASSUME NEW S, NEW s \in Seq(S), NEW x \in S
    PROVE  /\ Append(s, x) \in Seq(S) /\ Len(Append(s, x)) = Len(s) + 1
           /\ ToSet(Append(s, x)) = ToSet(s) \cup {x}
           /\ IsInjective(s) /\ x \notin ToSet(s) => IsInjective(Append(s, x))
<1>1. /\ Append(s, x) \in Seq(S) /\ Len(Append(s, x)) = Len(s) + 1 /\ Len(s) \in Nat
      /\ DOMAIN s = 1..Len(s) /\ DOMAIN Append(s, x) = 1..(Len(s) + 1)
      /\ \A i \in 1..Len(s) : Append(s, x)[i] = s[i]
      /\ Append(s, x)[Len(s) + 1] = x
  OBVIOUS
<1>2. \A i \in 1..(Len(s) + 1) : i \in 1..Len(s) \/ i = Len(s) + 1
  BY <1>1
<1>3. \A y : y \in ToSet(Append(s, x)) <=> y \in ToSet(s) \/ y = x
  <2>. SUFFICES ASSUME NEW y
                PROVE  (\E i \in 1..(Len(s) + 1) : Append(s, x)[i] = y)
                          <=> (\E i \in 1..Len(s) : s[i] = y) \/ y = x
    BY <1>1 DEF ToSet
  <2>1. Len(s) + 1 \in 1..(Len(s) + 1) /\ \A i \in 1..Len(s) : i \in 1..(Len(s) + 1)
    BY <1>1
  <2>. QED BY <1>1, <1>2, <2>1
<1>4. ASSUME IsInjective(s), x \notin ToSet(s) PROVE IsInjective(Append(s, x))
  <2>1. \A i, j \in 1..Len(s) : s[i] = s[j] => i = j
    BY <1>1, <1>4 DEF IsInjective
  <2>2. \A i \in 1..Len(s) : s[i] # x
    BY <1>1, <1>4 DEF ToSet
  <2>3. \A i, j \in 1..(Len(s) + 1) : Append(s, x)[i] = Append(s, x)[j] => i = j
    BY <1>1, <1>2, <2>1, <2>2
  <2>. QED BY <1>1, <2>3 DEF IsInjective
<1>. QED BY <1>1, <1>3, <1>4

LEMMA ConcatFacts ==
    ASSUME NEW S, NEW s \in Seq(S), NEW t \in Seq(S)
    PROVE  /\ s \o t \in Seq(S)
           /\ ToSet(s \o t) = ToSet(s) \cup ToSet(t)
           /\ s \o t = <<>> => s = <<>> /\ t = <<>>
           /\ IsInjective(s) /\ IsInjective(t) /\ ToSet(s) \cap ToSet(t) = {}
                 => IsInjective(s \o t)
<1>1. s \o t \in Seq(S)
  OBVIOUS
<1>2. PICK m \in Nat, n \in Nat : m = Len(s) /\ n = Len(t)
  OBVIOUS
<1>3. /\ DOMAIN s = 1..m /\ DOMAIN t = 1..n
      /\ Len(s \o t) = m + n /\ DOMAIN (s \o t) = 1..(m + n)
      /\ \A i \in 1..m : (s \o t)[i] = s[i]
  BY <1>2
<1>4. \A i \in 1..n : m + i \in 1..(m + n) /\ (s \o t)[m + i] = t[i]
  BY <1>2
<1>5. \A i \in 1..(m + n) : i \in 1..m \/ \E j \in 1..n : i = m + j
  <2>. TAKE i \in 1..(m + n)
  <2>1. i \in 1..m \/ (i - m \in 1..n /\ i = m + (i - m))
    OBVIOUS
  <2>. QED BY <2>1
<1>6. \A y : y \in ToSet(s \o t) <=> y \in ToSet(s) \/ y \in ToSet(t)
  <2>. SUFFICES ASSUME NEW y
                PROVE  (\E i \in 1..(m + n) : (s \o t)[i] = y)
                          <=> (\E i \in 1..m : s[i] = y) \/ (\E i \in 1..n : t[i] = y)
    BY <1>3 DEF ToSet
  <2>1. \A i \in 1..m : i \in 1..(m + n)
    OBVIOUS
  <2>. QED BY <1>3, <1>4, <1>5, <2>1
<1>7. s \o t = <<>> => s = <<>> /\ t = <<>>
  <2>1. s \o t = <<>> => m + n = 0
    BY <1>3
  <2>2. m + n = 0 => m = 0 /\ n = 0
    OBVIOUS
  <2>. QED BY <1>2, <2>1, <2>2
<1>8. ASSUME IsInjective(s), IsInjective(t), ToSet(s) \cap ToSet(t) = {}
      PROVE  IsInjective(s \o t)
  <2>1. /\ \A i, j \in 1..m : s[i] = s[j] => i = j
        /\ \A i, j \in 1..n : t[i] = t[j] => i = j
        /\ \A i \in 1..m : \A j \in 1..n : s[i] # t[j]
    <3>1. \A i, j \in 1..m : s[i] = s[j] => i = j
      BY <1>3, <1>8 DEF IsInjective
    <3>2. \A i, j \in 1..n : t[i] = t[j] => i = j
      BY <1>3, <1>8 DEF IsInjective
    <3>3. (\A i \in 1..m : s[i] \in ToSet(s)) /\ \A j \in 1..n : t[j] \in ToSet(t)
      BY <1>3 DEF ToSet
    <3>. QED BY <1>8, <3>1, <3>2, <3>3
  <2>2. ASSUME NEW i \in 1..(m + n), NEW j \in 1..(m + n), (s \o t)[i] = (s \o t)[j]
        PROVE  i = j
    <3>1. CASE i \in 1..m
      <4>1. j \in 1..m
        BY <1>3, <1>4, <1>5, <2>1, <2>2, <3>1
      <4>. QED BY <1>3, <2>1, <2>2, <3>1, <4>1
    <3>2. CASE i \notin 1..m
      <4>1. PICK a \in 1..n : i = m + a
        BY <1>5, <3>2
      <4>2. PICK b \in 1..n : j = m + b
        BY <1>3, <1>4, <1>5, <2>1, <2>2, <4>1
      <4>3. t[a] = t[b]
        BY <1>4, <2>2, <4>1, <4>2
      <4>. QED BY <2>1, <4>1, <4>2, <4>3
    <3>. QED BY <3>1, <3>2
  <2>. QED BY <1>3, <2>2 DEF IsInjective
<1>. QED BY <1>1, <1>6, <1>7, <1>8

-------------------------------------------------------------------------------
(* The best bucket: fractions compared by products. *)

LEMMA MulNat ==
    ASSUME NEW a \in Nat, NEW b \in Nat
    PROVE  a * b \in Nat
OBVIOUS

LEMMA MulMono ==
    ASSUME NEW a \in Nat, NEW b \in Nat, NEW r \in Nat, a <= b
    PROVE  a * r <= b * r
<1>1. PICK d \in Nat : b = a + d
  <2>1. b - a \in Nat /\ b = a + (b - a)
    OBVIOUS
  <2>. QED BY <2>1
<1>2. b * r = a * r + d * r /\ d * r \in Nat /\ a * r \in Nat
  BY <1>1
<1>. QED BY <1>2

LEMMA CrossTransitive ==
    ASSUME NEW a \in Nat, NEW p \in Nat \ {0}, NEW b \in Nat, NEW q \in Nat \ {0},
           NEW c \in Nat, NEW r \in Nat \ {0}, a * q <= b * p, b * r <= c * q
    PROVE  a * r <= c * p
<1>1. (a * q) * r <= (b * p) * r
  BY MulMono
<1>2. (b * r) * p <= (c * q) * p
  BY MulMono
<1>3. (b * p) * r = (b * r) * p
  OBVIOUS
<1>4. (a * q) * r = q * (a * r) /\ (c * q) * p = q * (c * p)
  OBVIOUS
<1>5. q * (a * r) <= q * (c * p)
  BY <1>1, <1>2, <1>3, <1>4
<1>. QED BY <1>5

\* Among N loads with positive weights one is least for its weight.
LEMMA LeastLoad ==
    ASSUME NEW N \in Nat \ {0}, NEW load \in [1..N -> Nat], NEW w \in [1..N -> Nat \ {0}]
    PROVE  \E k \in 1..N : \A l \in 1..N : load[k] * w[l] <= load[l] * w[k]
<1>. DEFINE Least(k, m) == \A l \in 1..m : load[k] * w[l] <= load[l] * w[k]
            bad == {m \in 1..N : ~\E k \in 1..m : Least(k, m)}
<1>1. bad \in SUBSET Nat
  OBVIOUS
<1>2. \A m \in 1..N : m \in bad <=> ~\E k \in 1..m : Least(k, m)
  OBVIOUS
<1>3. bad \subseteq 1..N
  OBVIOUS
<1>. HIDE DEF bad
<1>4. bad = {}
  <2>. SUFFICES ASSUME bad # {} PROVE FALSE
    OBVIOUS
  <2>1. PICK m \in bad : \A x \in bad : m <= x
    BY <1>1, LeastExists
  <2>2. m \in 1..N /\ ~\E k \in 1..m : Least(k, m)
    BY <1>2, <1>3, <2>1
  <2>3. m # 1
    <3>. SUFFICES ASSUME m = 1 PROVE FALSE
      OBVIOUS
    <3>1. 1 \in 1..1 /\ Least(1, 1)
      OBVIOUS
    <3>. QED BY <2>2, <3>1
  <2>4. m - 1 \in 1..N /\ m - 1 \notin bad
    BY <2>1, <2>2, <2>3
  <2>5. PICK k \in 1..(m-1) : Least(k, m - 1)
    BY <1>2, <2>4
  <2>6. /\ load[k] \in Nat /\ w[k] \in Nat \ {0} /\ load[m] \in Nat /\ w[m] \in Nat \ {0}
        /\ k \in 1..m /\ m \in 1..m
    BY <2>2, <2>4, <2>5
  <2>7. \A l \in 1..m : l \in 1..(m-1) \/ l = m
    BY <2>2
  <2>8. load[k] * w[m] \in Nat /\ load[m] * w[k] \in Nat
    BY <2>6, MulNat
  <2>9. CASE load[k] * w[m] <= load[m] * w[k]
    <3>1. Least(k, m)
      BY <2>5, <2>7, <2>9
    <3>. QED BY <2>2, <2>6, <3>1
  <2>10. CASE load[m] * w[k] <= load[k] * w[m]
    <3>1. ASSUME NEW l \in 1..(m-1) PROVE load[m] * w[l] <= load[l] * w[m]
      <4>1. load[l] \in Nat /\ w[l] \in Nat \ {0}
        BY <2>2
      <4>2. load[k] * w[l] <= load[l] * w[k]
        BY <2>5
      <4>. QED BY <2>6, <2>10, <4>1, <4>2, CrossTransitive
    <3>2. load[m] * w[m] <= load[m] * w[m]
      BY <2>6
    <3>3. Least(m, m)
      BY <2>7, <3>1, <3>2
    <3>. QED BY <2>2, <2>6, <3>3
  <2>. QED BY <2>8, <2>9, <2>10
<1>5. N \in 1..N /\ N \notin bad
  BY <1>4
<1>. QED BY <1>2, <1>5

\* Endpoints of some list of the configuration, in an order of their own.
Weighed(list) == /\ list \in Seq(ToSet(list)) \ {<<>>}
                 /\ \A e \in ToSet(list) : Weight[e] \in Nat \ {0}

LEMMA BestIs ==
    ASSUME NEW list, Weighed(list), NEW S, NEW b \in [DOMAIN list -> Seq(S)]
    PROVE  /\ Best(b, list) \in DOMAIN list
           /\ \A l \in DOMAIN list :
                 Len(b[Best(b, list)]) * Weight[list[l]] <= Len(b[l]) * Weight[list[Best(b, list)]]
<1>. DEFINE N == Len(list)
            least == {k \in DOMAIN list : \A l \in DOMAIN list :
                         Len(b[k]) * Weight[list[l]] <= Len(b[l]) * Weight[list[k]]}
            load == [k \in 1..N |-> Len(b[k])]
            w == [k \in 1..N |-> Weight[list[k]]]
<1>1. N \in Nat \ {0} /\ DOMAIN list = 1..N
  BY DEF Weighed
<1>2. load \in [1..N -> Nat]
  BY <1>1
<1>3. w \in [1..N -> Nat \ {0}]
  BY <1>1 DEF Weighed, ToSet
<1>4. \E k \in 1..N : \A l \in 1..N : load[k] * w[l] <= load[l] * w[k]
  <2>. HIDE DEF N, load, w
  <2>. QED BY <1>1, <1>2, <1>3, LeastLoad
<1>5. least # {} /\ least \in SUBSET Nat
  <2>1. PICK k \in 1..N : \A l \in 1..N : load[k] * w[l] <= load[l] * w[k]
    BY <1>4
  <2>2. \A l \in 1..N : load[l] = Len(b[l]) /\ w[l] = Weight[list[l]]
    OBVIOUS
  <2>3. k \in least
    <3>. HIDE DEF N, load, w
    <3>. QED BY <1>1, <2>1, <2>2
  <2>4. least \subseteq DOMAIN list
    OBVIOUS
  <2>. HIDE DEF least
  <2>. QED BY <1>1, <2>3, <2>4
<1>6. Best(b, list) = CHOOSE k \in least : \A l \in least : k <= l
  BY Zenon DEF Best
<1>7. Best(b, list) \in least
  <2>. HIDE DEF least
  <2>1. \E k \in least : \A l \in least : k <= l
    BY <1>5, LeastExists
  <2>. QED BY <1>6, <2>1
<1>. QED BY <1>7
-------------------------------------------------------------------------------
(* Dealing. The two loops are recursive functions; each is unfolded once. *)

Step(f, n, items, list) ==
    IF n = 0 THEN [k \in DOMAIN list |-> <<>>]
    ELSE [f[n-1] EXCEPT ![Best(f[n-1], list)] = Append(@, items[n])]

LEMMA StepSame ==
    ASSUME NEW f, NEW g, NEW n \in Nat, NEW items, NEW list, n # 0 => f[n-1] = g[n-1]
    PROVE  Step(f, n, items, list) = Step(g, n, items, list)
BY Zenon DEF Step

LEMMA DealtUnfolds ==
    ASSUME NEW items, NEW list, Len(items) \in Nat
    PROVE  \E f : /\ \A n \in 0..Len(items) : f[n] = Step(f, n, items, list)
                  /\ AssignIndexed(items, list) = f[Len(items)]
<1>. DEFINE Solves(f, m) == f = [n \in 0..m |-> Step(f, n, items, list)]
            bad == {m \in Nat : ~\E f : Solves(f, m)}
<1>1. bad \in SUBSET Nat /\ \A m \in Nat : m \in bad <=> ~\E f : Solves(f, m)
  OBVIOUS
<1>. HIDE DEF bad
<1>2. bad = {}
  <2>. SUFFICES ASSUME bad # {} PROVE FALSE
    OBVIOUS
  <2>1. PICK m \in bad : \A x \in bad : m <= x
    BY <1>1, LeastExists
  <2>2. m \in Nat /\ ~\E f : Solves(f, m)
    BY <1>1, <2>1
  <2>3. CASE m = 0
    <3>. DEFINE f == [n \in 0..0 |-> Step(<<>>, n, items, list)]
    <3>1. \A n \in 0..0 : Step(f, n, items, list) = Step(<<>>, n, items, list)
      <4>. SUFFICES ASSUME NEW n \in 0..0
                    PROVE  Step(f, n, items, list) = Step(<<>>, n, items, list)
        OBVIOUS
      <4>1. n \in Nat /\ n = 0
        OBVIOUS
      <4>. HIDE DEF f
      <4>. QED BY <4>1, StepSame
    <3>2. Solves(f, 0)
      <4>1. f = [n \in 0..0 |-> Step(<<>>, n, items, list)]
        OBVIOUS
      <4>. HIDE DEF f
      <4>. QED BY <3>1, <4>1
    <3>. QED BY <2>2, <2>3, <3>2
  <2>4. CASE m # 0
    <3>1. m - 1 \in Nat /\ m - 1 \notin bad
      BY <2>1, <2>2, <2>4
    <3>2. PICK g : Solves(g, m - 1)
      BY <1>1, <3>1
    <3>. DEFINE f == [n \in 0..m |-> IF n = m THEN Step(g, m, items, list) ELSE g[n]]
    <3>3. \A n \in 0..m : n # m => n \in 0..(m-1) /\ f[n] = g[n]
      BY <2>2, <2>4
    <3>4. f[m] = Step(g, m, items, list) /\ m \in 0..m
      BY <2>2
    <3>5. \A n \in 0..(m-1) : g[n] = Step(g, n, items, list)
      BY <3>2
    <3>6. f = [n \in 0..m |-> f[n]]
      OBVIOUS
    <3>. HIDE DEF f
    <3>7. ASSUME NEW n \in 0..m PROVE f[n] = Step(f, n, items, list)
      <4>1. n # 0 => n - 1 \in 0..m /\ n - 1 # m
        BY <2>2
      <4>2. n # 0 => f[n-1] = g[n-1]
        BY <3>3, <4>1
      <4>3. Step(f, n, items, list) = Step(g, n, items, list)
        BY <2>2, <4>2, StepSame
      <4>4. CASE n = m
        BY <3>4, <4>3, <4>4
      <4>5. CASE n # m
        BY <3>3, <3>5, <4>3, <4>5
      <4>. QED BY <4>4, <4>5
    <3>8. Solves(f, m)
      BY <3>6, <3>7
    <3>. QED BY <2>2, <3>8
  <2>. QED BY <2>3, <2>4
<1>3. \E f : Solves(f, Len(items))
  BY <1>1, <1>2
<1>. DEFINE dealt == CHOOSE f : Solves(f, Len(items))
<1>4. AssignIndexed(items, list) = dealt[Len(items)]
  BY Zenon DEF AssignIndexed, Step
<1>5. Solves(dealt, Len(items))
  BY <1>3
<1>. HIDE DEF dealt
<1>6. \A n \in 0..Len(items) : dealt[n] = Step(dealt, n, items, list)
  BY <1>5
<1>. QED BY <1>4, <1>6

\* No bucket of b would have been loaded less by its last prompt than another.
Balanced(b, list) ==
    \A k, l \in DOMAIN list :
        b[k] # <<>> => (Len(b[k]) - 1) * Weight[list[l]] <= Len(b[l]) * Weight[list[k]]

\* The first n items are each in one bucket, once.
Dealt(b, n, items, list) ==
    /\ b \in [DOMAIN list -> Seq(ToSet(items))]
    /\ \A k \in DOMAIN list : IsInjective(b[k])
    /\ \A k, l \in DOMAIN list : \A x : x \in ToSet(b[k]) /\ x \in ToSet(b[l]) => k = l
    /\ \A x : (\E k \in DOMAIN list : x \in ToSet(b[k])) <=> (\E j \in 1..n : items[j] = x)
    /\ Balanced(b, list)

LEMMA DealtNone ==
    ASSUME NEW items, NEW list, Weighed(list)
    PROVE  Dealt([k \in DOMAIN list |-> <<>>], 0, items, list)
<1>1. ToSet(<<>>) = {} /\ IsInjective(<<>>)
  BY DEF ToSet, IsInjective
<1>. QED BY <1>1 DEF Dealt, Balanced

LEMMA DealtOne ==
    ASSUME NEW items, Len(items) \in Nat, IsInjective(items), DOMAIN items = 1..Len(items),
           NEW list, Weighed(list),
           NEW n \in 1..Len(items), NEW b, Dealt(b, n - 1, items, list)
    PROVE  Dealt([b EXCEPT ![Best(b, list)] = Append(@, items[n])], n, items, list)
<1>. DEFINE S == ToSet(items)
            best == Best(b, list)
            x0 == items[n]
            c == [b EXCEPT ![best] = Append(@, x0)]
<1>1. b \in [DOMAIN list -> Seq(S)] /\ x0 \in S
  BY DEF Dealt, ToSet
<1>2. /\ best \in DOMAIN list
      /\ \A l \in DOMAIN list : Len(b[best]) * Weight[list[l]] <= Len(b[l]) * Weight[list[best]]
  BY <1>1, BestIs
<1>3. \A k \in DOMAIN list : x0 \notin ToSet(b[k])
  <2>. SUFFICES ASSUME \E k \in DOMAIN list : x0 \in ToSet(b[k]) PROVE FALSE
    OBVIOUS
  <2>1. PICK j \in 1..(n-1) : items[j] = items[n]
    BY DEF Dealt
  <2>2. j \in 1..Len(items) /\ j # n
    OBVIOUS
  <2>. QED BY <2>1, <2>2 DEF IsInjective
<1>. HIDE DEF S, best, x0
<1>4. /\ Append(b[best], x0) \in Seq(S) /\ Len(Append(b[best], x0)) = Len(b[best]) + 1
      /\ ToSet(Append(b[best], x0)) = ToSet(b[best]) \cup {x0}
      /\ IsInjective(b[best]) /\ x0 \notin ToSet(b[best]) => IsInjective(Append(b[best], x0))
  BY <1>1, <1>2, AppendFacts
<1>5. /\ c[best] = Append(b[best], x0)
      /\ \A k \in DOMAIN list : k # best => c[k] = b[k]
      /\ c \in [DOMAIN list -> Seq(S)]
  BY <1>1, <1>2, <1>4
<1>. HIDE DEF c
<1>6. \A k \in DOMAIN list : IsInjective(c[k])
  BY <1>2, <1>3, <1>4, <1>5 DEF Dealt
<1>7. \A k \in DOMAIN list : \A x : x \in ToSet(c[k]) <=> x \in ToSet(b[k]) \/ (k = best /\ x = x0)
  BY <1>4, <1>5
<1>8. \A k, l \in DOMAIN list : \A x : x \in ToSet(c[k]) /\ x \in ToSet(c[l]) => k = l
  <2>1. \A k, l \in DOMAIN list : \A x : x \in ToSet(b[k]) /\ x \in ToSet(b[l]) => k = l
    BY Zenon DEF Dealt
  <2>. SUFFICES ASSUME NEW k \in DOMAIN list, NEW l \in DOMAIN list, NEW x,
                       x \in ToSet(c[k]), x \in ToSet(c[l])
                PROVE  k = l
    OBVIOUS
  <2>2. /\ x \in ToSet(b[k]) \/ (k = best /\ x = x0)
        /\ x \in ToSet(b[l]) \/ (l = best /\ x = x0)
    BY <1>7
  <2>. QED BY <1>3, <2>1, <2>2
<1>9. ASSUME NEW x
      PROVE  (\E k \in DOMAIN list : x \in ToSet(c[k])) <=> (\E j \in 1..n : items[j] = x)
  <2>1. (\E k \in DOMAIN list : x \in ToSet(b[k])) <=> (\E j \in 1..(n-1) : items[j] = x)
    BY DEF Dealt
  <2>2. (\E k \in DOMAIN list : x \in ToSet(c[k]))
           <=> (\E k \in DOMAIN list : x \in ToSet(b[k])) \/ x = x0
    BY <1>2, <1>7
  <2>3. (\E j \in 1..n : items[j] = x) <=> (\E j \in 1..(n-1) : items[j] = x) \/ items[n] = x
    <3>1. \A j \in 1..n : j \in 1..(n-1) \/ j = n
      OBVIOUS
    <3>2. n \in 1..n /\ \A j \in 1..(n-1) : j \in 1..n
      OBVIOUS
    <3>. QED BY <3>1, <3>2
  <2>. QED BY <2>1, <2>2, <2>3 DEF x0
<1>10. Balanced(c, list)
  <2>. SUFFICES ASSUME NEW k \in DOMAIN list, NEW l \in DOMAIN list, c[k] # <<>>
                PROVE  (Len(c[k]) - 1) * Weight[list[l]] <= Len(c[l]) * Weight[list[k]]
    BY DEF Balanced
  <2>1. /\ Weight[list[k]] \in Nat \ {0} /\ Weight[list[l]] \in Nat \ {0}
        /\ Len(b[k]) \in Nat /\ Len(b[l]) \in Nat /\ Len(c[l]) \in Nat
    <3>1. list[k] \in ToSet(list) /\ list[l] \in ToSet(list)
      BY DEF ToSet
    <3>2. b[k] \in Seq(S) /\ b[l] \in Seq(S) /\ c[l] \in Seq(S)
      BY <1>1, <1>5
    <3>. QED BY <3>1, <3>2 DEF Weighed
  <2>2. Len(c[l]) = Len(b[l]) \/ Len(c[l]) = Len(b[l]) + 1
    BY <1>4, <1>5
  <2>3. Len(b[l]) * Weight[list[k]] <= Len(c[l]) * Weight[list[k]]
    <3>1. Len(b[l]) <= Len(c[l])
      BY <2>1, <2>2
    <3>. QED BY <2>1, <3>1, MulMono
  <2>4. (Len(c[k]) - 1) * Weight[list[l]] <= Len(b[l]) * Weight[list[k]]
    <3>1. CASE k = best
      <4>1. Len(c[k]) - 1 = Len(b[k])
        BY <1>4, <1>5, <2>1, <3>1
      <4>. QED BY <1>2, <3>1, <4>1
    <3>2. CASE k # best
      <4>1. c[k] = b[k]
        BY <1>5, <3>2
      <4>. QED BY <4>1 DEF Dealt, Balanced
    <3>. QED BY <3>1, <3>2
  <2>5. PICK a \in Int : a = (Len(c[k]) - 1) * Weight[list[l]]
    <3>1. Len(c[k]) \in Nat
      BY <1>5
    <3>. QED BY <2>1, <3>1
  <2>6. Len(b[l]) * Weight[list[k]] \in Nat /\ Len(c[l]) * Weight[list[k]] \in Nat
    BY <2>1, MulNat
  <2>. QED BY <2>3, <2>4, <2>5, <2>6
<1>11. Dealt(c, n, items, list)
  BY <1>5, <1>6, <1>8, <1>9, <1>10 DEF Dealt, S
<1>. QED BY <1>11 DEF c, best, x0

\* Dealing puts each item into one bucket, once, and respects the weights.
LEMMA Dealing ==
    ASSUME NEW S, NEW items \in Seq(S), IsInjective(items), NEW list, Weighed(list)
    PROVE  Dealt(AssignIndexed(items, list), Len(items), items, list)
<1>. DEFINE N == Len(items)
<1>1. N \in Nat /\ DOMAIN items = 1..N
  OBVIOUS
<1>2. PICK f : /\ \A n \in 0..N : f[n] = Step(f, n, items, list)
               /\ AssignIndexed(items, list) = f[N]
  BY <1>1, DealtUnfolds
<1>. DEFINE bad == {n \in 0..N : ~Dealt(f[n], n, items, list)}
<1>3. /\ bad \in SUBSET Nat
      /\ \A n : n \in bad <=> n \in 0..N /\ ~Dealt(f[n], n, items, list)
  OBVIOUS
<1>. HIDE DEF bad
<1>4. bad = {}
  <2>. SUFFICES ASSUME bad # {} PROVE FALSE
    OBVIOUS
  <2>1. PICK n \in bad : \A x \in bad : n <= x
    BY <1>3, LeastExists
  <2>2. n \in 0..N /\ ~Dealt(f[n], n, items, list)
    BY <1>3, <2>1
  <2>3. CASE n = 0
    <3>1. f[0] = [k \in DOMAIN list |-> <<>>]
      BY <1>2, <2>2, <2>3 DEF Step
    <3>. QED BY <2>2, <2>3, <3>1, DealtNone
  <2>4. CASE n # 0
    <3>1. n - 1 \in 0..N /\ n - 1 \notin bad /\ n \in 1..N
      BY <1>1, <2>1, <2>2, <2>4
    <3>2. Dealt(f[n-1], n - 1, items, list)
      BY <1>3, <3>1
    <3>3. f[n] = [f[n-1] EXCEPT ![Best(f[n-1], list)] = Append(@, items[n])]
      BY <1>2, <2>2, <2>4 DEF Step
    <3>4. Dealt([f[n-1] EXCEPT ![Best(f[n-1], list)] = Append(@, items[n])], n, items, list)
      <4>. DEFINE g == f[n-1]
      <4>1. Dealt(g, n - 1, items, list)
        BY <3>2
      <4>. HIDE DEF g
      <4>2. Dealt([g EXCEPT ![Best(g, list)] = Append(@, items[n])], n, items, list)
        BY <1>1, <3>1, <4>1, DealtOne
      <4>. QED BY <4>2 DEF g
    <3>. QED BY <2>2, <3>3, <3>4
  <2>. QED BY <2>3, <2>4
<1>5. N \in 0..N
  BY <1>1
<1>. QED BY <1>2, <1>3, <1>4, <1>5
-------------------------------------------------------------------------------
(* The endpoints that are left. *)

KeepStep(f, n, list, failed) ==
    IF n = 0 THEN <<>>
    ELSE IF list[n] \in failed THEN f[n-1] ELSE Append(f[n-1], list[n])

LEMMA KeepSame ==
    ASSUME NEW f, NEW g, NEW n \in Nat, NEW list, NEW failed, n # 0 => f[n-1] = g[n-1]
    PROVE  KeepStep(f, n, list, failed) = KeepStep(g, n, list, failed)
BY Zenon DEF KeepStep

LEMMA KeptUnfolds ==
    ASSUME NEW list, NEW failed, Len(list) \in Nat
    PROVE  \E f : /\ \A n \in 0..Len(list) : f[n] = KeepStep(f, n, list, failed)
                  /\ Without(list, failed) = f[Len(list)]
<1>. DEFINE Solves(f, m) == f = [n \in 0..m |-> KeepStep(f, n, list, failed)]
            bad == {m \in Nat : ~\E f : Solves(f, m)}
<1>1. bad \in SUBSET Nat /\ \A m \in Nat : m \in bad <=> ~\E f : Solves(f, m)
  OBVIOUS
<1>. HIDE DEF bad
<1>2. bad = {}
  <2>. SUFFICES ASSUME bad # {} PROVE FALSE
    OBVIOUS
  <2>1. PICK m \in bad : \A x \in bad : m <= x
    BY <1>1, LeastExists
  <2>2. m \in Nat /\ ~\E f : Solves(f, m)
    BY <1>1, <2>1
  <2>3. CASE m = 0
    <3>. DEFINE f == [n \in 0..0 |-> KeepStep(<<>>, n, list, failed)]
    <3>1. \A n \in 0..0 : KeepStep(f, n, list, failed) = KeepStep(<<>>, n, list, failed)
      <4>. SUFFICES ASSUME NEW n \in 0..0
                    PROVE  KeepStep(f, n, list, failed) = KeepStep(<<>>, n, list, failed)
        OBVIOUS
      <4>1. n \in Nat /\ n = 0
        OBVIOUS
      <4>. HIDE DEF f
      <4>. QED BY <4>1, KeepSame
    <3>2. Solves(f, 0)
      <4>1. f = [n \in 0..0 |-> KeepStep(<<>>, n, list, failed)]
        OBVIOUS
      <4>. HIDE DEF f
      <4>. QED BY <3>1, <4>1
    <3>. QED BY <2>2, <2>3, <3>2
  <2>4. CASE m # 0
    <3>1. m - 1 \in Nat /\ m - 1 \notin bad
      BY <2>1, <2>2, <2>4
    <3>2. PICK g : Solves(g, m - 1)
      BY <1>1, <3>1
    <3>. DEFINE f == [n \in 0..m |-> IF n = m THEN KeepStep(g, m, list, failed) ELSE g[n]]
    <3>3. \A n \in 0..m : n # m => n \in 0..(m-1) /\ f[n] = g[n]
      BY <2>2, <2>4
    <3>4. f[m] = KeepStep(g, m, list, failed) /\ m \in 0..m
      BY <2>2
    <3>5. \A n \in 0..(m-1) : g[n] = KeepStep(g, n, list, failed)
      BY <3>2
    <3>6. f = [n \in 0..m |-> f[n]]
      OBVIOUS
    <3>. HIDE DEF f
    <3>7. ASSUME NEW n \in 0..m PROVE f[n] = KeepStep(f, n, list, failed)
      <4>1. n # 0 => n - 1 \in 0..m /\ n - 1 # m
        BY <2>2
      <4>2. n # 0 => f[n-1] = g[n-1]
        BY <3>3, <4>1
      <4>3. KeepStep(f, n, list, failed) = KeepStep(g, n, list, failed)
        BY <2>2, <4>2, KeepSame
      <4>4. CASE n = m
        BY <3>4, <4>3, <4>4
      <4>5. CASE n # m
        BY <3>3, <3>5, <4>3, <4>5
      <4>. QED BY <4>4, <4>5
    <3>8. Solves(f, m)
      BY <3>6, <3>7
    <3>. QED BY <2>2, <3>8
  <2>. QED BY <2>3, <2>4
<1>3. \E f : Solves(f, Len(list))
  BY <1>1, <1>2
<1>. DEFINE kept == CHOOSE f : Solves(f, Len(list))
<1>4. Without(list, failed) = kept[Len(list)]
  BY Zenon DEF Without, KeepStep
<1>5. Solves(kept, Len(list))
  BY <1>3
<1>. HIDE DEF kept
<1>6. \A n \in 0..Len(list) : kept[n] = KeepStep(kept, n, list, failed)
  BY <1>5
<1>. QED BY <1>4, <1>6

LEMMA WithoutIs ==
    ASSUME NEW S, NEW list \in Seq(S), NEW failed
    PROVE  /\ Without(list, failed) \in Seq(S)
           /\ ToSet(Without(list, failed)) = ToSet(list) \ failed
<1>. DEFINE N == Len(list)
            Kept(s, n) == /\ s \in Seq(S)
                          /\ \A e : e \in ToSet(s) <=> e \notin failed /\ \E j \in 1..n : list[j] = e
<1>1. N \in Nat /\ DOMAIN list = 1..N
  OBVIOUS
<1>2. PICK f : /\ \A n \in 0..N : f[n] = KeepStep(f, n, list, failed)
               /\ Without(list, failed) = f[N]
  BY <1>1, KeptUnfolds
<1>. DEFINE bad == {n \in 0..N : ~Kept(f[n], n)}
<1>3. bad \in SUBSET Nat /\ \A n : n \in bad <=> n \in 0..N /\ ~Kept(f[n], n)
  OBVIOUS
<1>. HIDE DEF bad
<1>4. bad = {}
  <2>. SUFFICES ASSUME bad # {} PROVE FALSE
    OBVIOUS
  <2>1. PICK n \in bad : \A x \in bad : n <= x
    BY <1>3, LeastExists
  <2>2. n \in 0..N /\ ~Kept(f[n], n)
    BY <1>3, <2>1
  <2>3. CASE n = 0
    <3>1. f[0] = <<>>
      BY <1>2, <2>2, <2>3 DEF KeepStep
    <3>2. Kept(<<>>, 0)
      BY DEF ToSet
    <3>. QED BY <2>2, <2>3, <3>1, <3>2
  <2>4. CASE n # 0
    <3>1. n - 1 \in 0..N /\ n - 1 \notin bad /\ n \in 1..N
      BY <1>1, <2>1, <2>2, <2>4
    <3>2. Kept(f[n-1], n - 1)
      BY <1>3, <3>1
    <3>3. f[n] = IF list[n] \in failed THEN f[n-1] ELSE Append(f[n-1], list[n])
      BY <1>2, <2>2, <2>4 DEF KeepStep
    <3>4. \A e : (\E j \in 1..n : list[j] = e) <=> (\E j \in 1..(n-1) : list[j] = e) \/ list[n] = e
      <4>1. \A j \in 1..n : j \in 1..(n-1) \/ j = n
        BY <3>1
      <4>2. n \in 1..n /\ \A j \in 1..(n-1) : j \in 1..n
        BY <3>1
      <4>. QED BY <4>1, <4>2
    <3>5. list[n] \in S
      BY <1>1, <3>1
    <3>6. CASE list[n] \in failed
      <4>1. f[n] = f[n-1]
        BY <3>3, <3>6
      <4>2. Kept(f[n-1], n)
        BY <3>2, <3>4, <3>6
      <4>. QED BY <2>2, <4>1, <4>2
    <3>7. CASE list[n] \notin failed
      <4>1. f[n] = Append(f[n-1], list[n])
        BY <3>3, <3>7
      <4>2. f[n] \in Seq(S) /\ ToSet(f[n]) = ToSet(f[n-1]) \cup {list[n]}
        BY <3>2, <3>5, <4>1, AppendFacts
      <4>3. Kept(f[n], n)
        BY <3>2, <3>4, <3>7, <4>2
      <4>. QED BY <2>2, <4>3
    <3>. QED BY <3>6, <3>7
  <2>. QED BY <2>3, <2>4
<1>5. N \in 0..N
  BY <1>1
<1>6. Kept(f[N], N)
  BY <1>3, <1>4, <1>5
<1>7. \A e : e \in ToSet(list) <=> \E j \in 1..N : list[j] = e
  BY <1>1 DEF ToSet
<1>8. ToSet(f[N]) = ToSet(list) \ failed
  BY <1>6, <1>7
<1>. QED BY <1>2, <1>6, <1>8

-------------------------------------------------------------------------------
(* Where a prompt is. *)

Out(i) == \E k \in asked : i \in ToSet(buckets[k])
Failed(i) == i \in ToSet(failed_items)
Done(i) == outputs[i] # None

Types ==
    /\ endpoints \in EndpointLists /\ failover \in BOOLEAN /\ prompts \in Nat
    /\ Weighed(eligible) /\ ToSet(eligible) \subseteq ToSet(endpoints)
    /\ buckets \in [DOMAIN eligible -> Seq(1..prompts)]
    /\ asked \subseteq DOMAIN eligible
    /\ outputs \in [1..prompts -> Nat]
    /\ failed_items \in Seq(1..prompts)
    /\ unavailable \subseteq ToSet(endpoints)
    /\ state \in {"running", "returned", "raised"}

\* Each prompt is in one of three places, and there once.
Where ==
    /\ \A k \in asked : IsInjective(buckets[k])
    /\ \A k, l \in asked : \A i : i \in ToSet(buckets[k]) /\ i \in ToSet(buckets[l]) => k = l
    /\ IsInjective(failed_items)
    /\ \A i \in 1..prompts : /\ Out(i) \/ Failed(i) \/ Done(i)
                             /\ ~(Out(i) /\ Failed(i))
                             /\ ~(Out(i) /\ Done(i))
                             /\ ~(Failed(i) /\ Done(i))

Ends ==
    /\ failed_items # <<>> => unavailable # {}
    /\ state # "running" => asked = {}
    /\ RaisesOnlyWhenExhausted

Inv == Types /\ Where /\ AnswersAtOwnIndex /\ Ends /\ DealtByWeight

\* What a round of dealing makes of the prompts it deals.
IsRound(b, places, n, items, list) ==
    /\ b \in [DOMAIN list -> Seq(1..n)] /\ places \subseteq DOMAIN list
    /\ \A k \in places : IsInjective(b[k])
    /\ \A k, l \in places : \A i : i \in ToSet(b[k]) /\ i \in ToSet(b[l]) => k = l
    /\ \A i : (\E k \in places : i \in ToSet(b[k])) <=> i \in ToSet(items)
    /\ Balanced(b, list)

LEMMA RoundIs ==
    ASSUME NEW n \in Nat, NEW items \in Seq(1..n), IsInjective(items), NEW list, Weighed(list),
           NEW b, b = AssignIndexed(items, list), NEW places, places = Submitted(b)
    PROVE  IsRound(b, places, n, items, list)
<1>1. Dealt(b, Len(items), items, list)
  BY Dealing
<1>2. /\ b \in [DOMAIN list -> Seq(ToSet(items))] /\ Balanced(b, list)
      /\ \A k \in DOMAIN list : IsInjective(b[k])
  BY <1>1 DEF Dealt
<1>3. \A k, l \in DOMAIN list : \A x : x \in ToSet(b[k]) /\ x \in ToSet(b[l]) => k = l
  BY <1>1, Zenon DEF Dealt
<1>4. \A x : (\E k \in DOMAIN list : x \in ToSet(b[k])) <=> (\E j \in 1..Len(items) : items[j] = x)
  BY <1>1, Zenon DEF Dealt
<1>5. ToSet(items) \subseteq 1..n
  BY DEF ToSet
<1>6. b \in [DOMAIN list -> Seq(1..n)]
  <2>1. \A k \in DOMAIN list : b[k] \in Seq(1..n)
    <3>. TAKE k \in DOMAIN list
    <3>1. b[k] \in Seq(ToSet(items))
      BY <1>2
    <3>. QED BY <1>5, <3>1
  <2>. QED BY <1>2, <2>1
<1>7. Submitted(b) = {k \in DOMAIN list : b[k] # <<>>}
  BY <1>2 DEF Submitted
<1>8. \A i : (\E k \in Submitted(b) : i \in ToSet(b[k])) <=> i \in ToSet(items)
  <2>1. \A k \in DOMAIN list : \A i : i \in ToSet(b[k]) => k \in Submitted(b)
    <3>1. ToSet(<<>>) = {}
      BY DEF ToSet
    <3>. QED BY <1>7, <3>1
  <2>2. \A i : i \in ToSet(items) <=> \E j \in 1..Len(items) : items[j] = i
    BY DEF ToSet
  <2>. QED BY <1>4, <1>7, <2>1, <2>2
<1>9. \A k, l \in Submitted(b) : \A i : i \in ToSet(b[k]) /\ i \in ToSet(b[l]) => k = l
  BY <1>3, <1>7
<1>. QED BY <1>2, <1>6, <1>7, <1>8, <1>9 DEF IsRound

LEMMA InitInv == Init => Inv
<1>. SUFFICES ASSUME Init PROVE Inv
  OBVIOUS
<1>. DEFINE items == [i \in 1..prompts |-> i]
<1>1. prompts \in Nat /\ Weighed(endpoints) /\ endpoints \in EndpointLists
  BY MeshRouterAssumption DEF Init, Weighed
<1>2. /\ items \in Seq(1..prompts) /\ IsInjective(items) /\ ToSet(items) = 1..prompts
  BY <1>1 DEF IsInjective, ToSet
<1>3. /\ eligible = endpoints /\ buckets = AssignIndexed(items, endpoints)
      /\ asked = Submitted(buckets) /\ outputs = [i \in 1..prompts |-> None]
      /\ failed_items = <<>> /\ unavailable = {} /\ state = "running" /\ failover \in BOOLEAN
  BY DEF Init
<1>. HIDE DEF items
<1>4. /\ buckets \in [DOMAIN eligible -> Seq(1..prompts)] /\ asked \subseteq DOMAIN eligible
      /\ \A k \in asked : IsInjective(buckets[k])
      /\ \A k, l \in asked : \A i : i \in ToSet(buckets[k]) /\ i \in ToSet(buckets[l]) => k = l
      /\ \A i : Out(i) <=> i \in 1..prompts
      /\ Balanced(buckets, eligible)
  <2>1. IsRound(buckets, asked, prompts, items, endpoints)
    BY <1>1, <1>2, <1>3, RoundIs
  <2>. QED BY <1>2, <1>3, <2>1 DEF IsRound, Out
<1>5. Types
  BY <1>1, <1>3, <1>4 DEF Types, None
<1>6. Where
  <2>1. ToSet(<<>>) = {} /\ IsInjective(<<>>)
    BY DEF ToSet, IsInjective
  <2>2. \A i \in 1..prompts : ~Failed(i) /\ ~Done(i)
    BY <1>3, <2>1 DEF Failed, Done
  <2>. QED BY <1>3, <1>4, <2>1, <2>2 DEF Where
<1>7. AnswersAtOwnIndex
  BY <1>3 DEF AnswersAtOwnIndex
<1>8. Ends
  BY <1>3 DEF Ends, RaisesOnlyWhenExhausted
<1>9. DealtByWeight
  BY <1>4 DEF DealtByWeight, Balanced
<1>. QED BY <1>5, <1>6, <1>7, <1>8, <1>9 DEF Inv

-------------------------------------------------------------------------------
(* An answer is taken. *)

LEMMA StoredIs ==
    ASSUME NEW items \in Seq(1..prompts), IsInjective(items),
           NEW i \in DOMAIN outputs
    PROVE  Stored(items, items)[i] = IF i \in ToSet(items) THEN i ELSE outputs[i]
<1>1. CASE i \in ToSet(items)
  <2>1. \E j \in DOMAIN items : items[j] = i
    BY <1>1 DEF ToSet
  <2>2. PlaceOf(i, items) \in DOMAIN items /\ items[PlaceOf(i, items)] = i
    BY <2>1 DEF PlaceOf
  <2>. QED BY <1>1, <2>2 DEF Stored
<1>2. CASE i \notin ToSet(items)
  BY <1>2 DEF Stored
<1>. QED BY <1>1, <1>2

\* An answer of the right length is the bucket, text for text.
LEMMA WholeAnswer ==
    ASSUME NEW S, NEW items \in Seq(S), NEW n \in 0..Len(items),
           Len(SubSeq(Answers(items), 1, n)) = Len(items)
    PROVE  SubSeq(Answers(items), 1, n) = items
<1>1. n \in Nat /\ n <= Len(items) /\ Len(items) \in Nat
  OBVIOUS
<1>2. Len(SubSeq(items, 1, n)) = n
  BY <1>1
<1>3. n = Len(items)
  BY <1>2 DEF Answers
<1>. QED BY <1>1, <1>3 DEF Answers

\* The texts of the taken bucket are stored, the rest stays.
LEMMA AnswerIs ==
    ASSUME Types, Where, NEW k \in asked, NEW n \in 0..Len(buckets[k]),
           TakeAnswer(k, SubSeq(Answers(buckets[k]), 1, n))
    PROVE  /\ outputs' \in [1..prompts -> Nat]
           /\ \A i \in 1..prompts :
                 outputs'[i] = IF i \in ToSet(buckets[k]) THEN i ELSE outputs[i]
<1>1. /\ buckets[k] \in Seq(1..prompts) /\ IsInjective(buckets[k])
      /\ DOMAIN outputs = 1..prompts /\ outputs \in [1..prompts -> Nat] /\ prompts \in Nat
  BY DEF Types, Where
<1>2. outputs' = Stored(buckets[k], buckets[k])
  <2>1. Len(SubSeq(Answers(buckets[k]), 1, n)) = Len(buckets[k])
    BY DEF TakeAnswer
  <2>2. SubSeq(Answers(buckets[k]), 1, n) = buckets[k]
    BY <1>1, <2>1, WholeAnswer
  <2>. QED BY <2>2 DEF TakeAnswer
<1>3. \A i \in 1..prompts : outputs'[i] = IF i \in ToSet(buckets[k]) THEN i ELSE outputs[i]
  BY <1>1, <1>2, StoredIs
<1>4. outputs' = [i \in 1..prompts |-> outputs'[i]]
  BY <1>1, <1>2 DEF Stored
<1>5. \A i \in 1..prompts : outputs'[i] \in Nat
  BY <1>1, <1>3
<1>. QED BY <1>3, <1>4, <1>5

\* Who is out once the request of place k is taken.
LEMMA TakenOut ==
    ASSUME Types, Where, NEW k \in asked, asked' = asked \ {k}, buckets' = buckets
    PROVE  \A i : Out(i)' <=> Out(i) /\ i \notin ToSet(buckets[k])
<1>1. \A l \in asked : \A i : i \in ToSet(buckets[k]) /\ i \in ToSet(buckets[l]) => k = l
  BY DEF Where
<1>. QED BY <1>1 DEF Out

LEMMA AnswerInv ==
    ASSUME Inv, NEW k \in asked, NEW n \in 0..Len(buckets[k]),
           TakeAnswer(k, SubSeq(Answers(buckets[k]), 1, n))
    PROVE  Inv'
<1>1. /\ asked' = asked \ {k}
      /\ UNCHANGED <<endpoints, failover, prompts, eligible, buckets,
                     failed_items, unavailable, state>>
  BY DEF TakeAnswer
<1>2. /\ outputs' \in [1..prompts -> Nat]
      /\ \A i \in 1..prompts :
            outputs'[i] = IF i \in ToSet(buckets[k]) THEN i ELSE outputs[i]
  BY AnswerIs DEF Inv
<1>3. \A i : Out(i)' <=> Out(i) /\ i \notin ToSet(buckets[k])
  BY <1>1, TakenOut DEF Inv
<1>4. Types'
  BY <1>1, <1>2 DEF Inv, Types, Weighed
<1>5. Where'
  <2>1. ASSUME NEW i \in 1..prompts
        PROVE  Done(i)' <=> Done(i) \/ i \in ToSet(buckets[k])
    BY <1>2 DEF Done, None
  <2>2. \A i : Failed(i)' <=> Failed(i)
    BY <1>1 DEF Failed
  <2>3. \A i : i \in ToSet(buckets[k]) => Out(i)
    BY DEF Out
  <2>4. /\ \A l \in asked' : IsInjective(buckets'[l])
        /\ \A l, m \in asked' : \A i : i \in ToSet(buckets'[l]) /\ i \in ToSet(buckets'[m]) => l = m
        /\ IsInjective(failed_items')
    BY <1>1 DEF Inv, Where
  <2>5. \A i \in 1..prompts : /\ Out(i) \/ Failed(i) \/ Done(i)
                              /\ ~(Out(i) /\ Failed(i))
                              /\ ~(Out(i) /\ Done(i))
                              /\ ~(Failed(i) /\ Done(i))
    BY DEF Inv, Where
  <2>6. \A i \in 1..prompts : /\ Out(i)' \/ Failed(i)' \/ Done(i)'
                              /\ ~(Out(i)' /\ Failed(i)')
                              /\ ~(Out(i)' /\ Done(i)')
                              /\ ~(Failed(i)' /\ Done(i)')
    BY <1>3, <2>1, <2>2, <2>3, <2>5
  <2>. QED BY <1>1, <2>4, <2>6 DEF Where
<1>6. AnswersAtOwnIndex'
  BY <1>1, <1>2 DEF Inv, AnswersAtOwnIndex
<1>7. Ends'
  <2>1. state = "running"
    BY DEF Inv, Ends
  <2>. QED BY <1>1, <2>1 DEF Inv, Ends, RaisesOnlyWhenExhausted
<1>8. DealtByWeight'
  BY <1>1 DEF Inv, DealtByWeight
<1>. QED BY <1>4, <1>5, <1>6, <1>7, <1>8 DEF Inv

LEMMA FailureInv ==
    ASSUME Inv, NEW k \in asked, TakeFailure(k)
    PROVE  Inv'
<1>1. /\ asked' = asked \ {k} /\ failed_items' = failed_items \o buckets[k]
      /\ unavailable' = unavailable \cup {eligible[k]}
      /\ UNCHANGED <<endpoints, failover, prompts, eligible, buckets, outputs, state>>
  BY DEF TakeFailure
<1>2. /\ k \in DOMAIN eligible /\ buckets[k] \in Seq(1..prompts) /\ IsInjective(buckets[k])
      /\ failed_items \in Seq(1..prompts) /\ IsInjective(failed_items)
      /\ eligible[k] \in ToSet(endpoints)
  BY DEF Inv, Types, Where, ToSet
<1>3. ToSet(failed_items) \cap ToSet(buckets[k]) = {}
  <2>1. ToSet(failed_items) \subseteq 1..prompts
    BY <1>2, ToSetIn
  <2>2. \A i \in 1..prompts : ~(Out(i) /\ Failed(i))
    BY DEF Inv, Where
  <2>. QED BY <2>1, <2>2 DEF Out, Failed
<1>4. /\ failed_items' \in Seq(1..prompts) /\ IsInjective(failed_items')
      /\ ToSet(failed_items') = ToSet(failed_items) \cup ToSet(buckets[k])
  BY <1>1, <1>2, <1>3, ConcatFacts
<1>5. \A i : Out(i)' <=> Out(i) /\ i \notin ToSet(buckets[k])
  BY <1>1, TakenOut DEF Inv
<1>6. Types'
  BY <1>1, <1>2, <1>4 DEF Inv, Types, Weighed
<1>7. Where'
  <2>1. \A i : Done(i)' <=> Done(i)
    BY <1>1 DEF Done, None
  <2>2. \A i : Failed(i)' <=> Failed(i) \/ i \in ToSet(buckets[k])
    BY <1>4 DEF Failed
  <2>3. \A i : i \in ToSet(buckets[k]) => Out(i)
    BY DEF Out
  <2>4. /\ \A l \in asked' : IsInjective(buckets'[l])
        /\ \A l, m \in asked' : \A i : i \in ToSet(buckets'[l]) /\ i \in ToSet(buckets'[m]) => l = m
    BY <1>1 DEF Inv, Where
  <2>5. \A i \in 1..prompts : /\ Out(i) \/ Failed(i) \/ Done(i)
                              /\ ~(Out(i) /\ Failed(i))
                              /\ ~(Out(i) /\ Done(i))
                              /\ ~(Failed(i) /\ Done(i))
    BY DEF Inv, Where
  <2>6. \A i \in 1..prompts : /\ Out(i)' \/ Failed(i)' \/ Done(i)'
                              /\ ~(Out(i)' /\ Failed(i)')
                              /\ ~(Out(i)' /\ Done(i)')
                              /\ ~(Failed(i)' /\ Done(i)')
    BY <1>5, <2>1, <2>2, <2>3, <2>5
  <2>. QED BY <1>1, <1>4, <2>4, <2>6 DEF Where
<1>8. AnswersAtOwnIndex'
  BY <1>1 DEF Inv, AnswersAtOwnIndex
<1>9. Ends'
  <2>1. state = "running"
    BY DEF Inv, Ends
  <2>. QED BY <1>1, <2>1 DEF Inv, Ends, RaisesOnlyWhenExhausted
<1>10. DealtByWeight'
  BY <1>1 DEF Inv, DealtByWeight
<1>. QED BY <1>6, <1>7, <1>8, <1>9, <1>10 DEF Inv

-------------------------------------------------------------------------------
(* The end of a round. *)

LEMMA FallbackIs ==
    ASSUME Types
    PROVE  /\ ToSet(Fallback) = ToSet(endpoints) \ unavailable
           /\ Fallback # <<>> => Weighed(Fallback)
           /\ Fallback = <<>> => ToSet(endpoints) \subseteq unavailable
<1>1. endpoints \in Seq(ToSet(endpoints)) /\ \A e \in ToSet(endpoints) : Weight[e] \in Nat \ {0}
  BY MeshRouterAssumption DEF Types
<1>2. /\ Fallback \in Seq(ToSet(endpoints))
      /\ ToSet(Fallback) = ToSet(endpoints) \ unavailable
  BY <1>1, WithoutIs DEF Fallback
<1>3. Fallback \in Seq(ToSet(Fallback))
  <2>1. \A i \in 1..Len(Fallback) : Fallback[i] \in ToSet(Fallback)
    BY <1>2 DEF ToSet
  <2>2. Len(Fallback) \in Nat /\ Fallback = [i \in 1..Len(Fallback) |-> Fallback[i]]
    BY <1>2
  <2>. QED BY <2>1, <2>2
<1>4. ToSet(<<>>) = {}
  BY DEF ToSet
<1>. QED BY <1>1, <1>2, <1>3, <1>4 DEF Weighed

LEMMA NextRoundInv == ASSUME Inv, NextRound PROVE Inv'
<1>1. /\ state = "running" /\ asked = {} /\ Fallback # <<>>
      /\ eligible' = Fallback /\ buckets' = AssignIndexed(failed_items, Fallback)
      /\ asked' = Submitted(buckets') /\ failed_items' = <<>>
      /\ UNCHANGED <<endpoints, failover, prompts, outputs, unavailable, state>>
  BY DEF NextRound
<1>2. /\ Weighed(Fallback) /\ ToSet(Fallback) \subseteq ToSet(endpoints)
      /\ failed_items \in Seq(1..prompts) /\ IsInjective(failed_items) /\ prompts \in Nat
  BY <1>1, FallbackIs DEF Inv, Types, Where
<1>3. /\ buckets' \in [DOMAIN Fallback -> Seq(1..prompts)] /\ asked' \subseteq DOMAIN Fallback
      /\ \A k \in asked' : IsInjective(buckets'[k])
      /\ \A k, l \in asked' : \A i : i \in ToSet(buckets'[k]) /\ i \in ToSet(buckets'[l]) => k = l
      /\ \A i : (\E k \in asked' : i \in ToSet(buckets'[k])) <=> i \in ToSet(failed_items)
      /\ Balanced(buckets', Fallback)
  <2>1. IsRound(buckets', asked', prompts, failed_items, Fallback)
    BY <1>1, <1>2, RoundIs
  <2>. QED BY <2>1, Zenon DEF IsRound
<1>4. Types'
  <2>1. <<>> \in Seq(1..prompts)
    OBVIOUS
  <2>. QED BY <1>1, <1>2, <1>3, <2>1 DEF Inv, Types, Weighed
<1>5. Where'
  <2>1. ToSet(<<>>) = {} /\ IsInjective(<<>>)
    BY DEF ToSet, IsInjective
  <2>2. \A i : Out(i)' <=> Failed(i)
    BY <1>3 DEF Out, Failed
  <2>3. \A i : ~Failed(i)' /\ ~Out(i)
    BY <1>1, <2>1 DEF Out, Failed
  <2>4. \A i : Done(i)' <=> Done(i)
    BY <1>1 DEF Done, None
  <2>5. \A i \in 1..prompts : (Out(i) \/ Failed(i) \/ Done(i)) /\ ~(Failed(i) /\ Done(i))
    BY DEF Inv, Where
  <2>6. \A i \in 1..prompts : /\ Out(i)' \/ Failed(i)' \/ Done(i)'
                              /\ ~(Out(i)' /\ Failed(i)')
                              /\ ~(Out(i)' /\ Done(i)')
                              /\ ~(Failed(i)' /\ Done(i)')
    BY <2>2, <2>3, <2>4, <2>5
  <2>. QED BY <1>1, <1>3, <2>1, <2>6 DEF Where
<1>6. AnswersAtOwnIndex'
  BY <1>1 DEF Inv, AnswersAtOwnIndex
<1>7. Ends'
  BY <1>1 DEF Inv, Ends, RaisesOnlyWhenExhausted
<1>8. DealtByWeight'
  BY <1>1, <1>3 DEF DealtByWeight, Balanced
<1>. QED BY <1>4, <1>5, <1>6, <1>7, <1>8 DEF Inv

\* A prompt without a text at the end has failed, and nobody was left for it.
LEMMA FinishInv == ASSUME Inv, Finish PROVE Inv'
<1>1. /\ asked = {}
      /\ failed_items = <<>> \/ ~failover \/ Fallback = <<>>
      /\ state' = IF \E i \in DOMAIN outputs : outputs[i] = None THEN "raised" ELSE "returned"
      /\ UNCHANGED <<endpoints, failover, prompts, eligible, buckets, asked, outputs,
                     failed_items, unavailable>>
  BY DEF Finish
<1>2. DOMAIN outputs = 1..prompts
  BY DEF Inv, Types
<1>3. (\E i \in 1..prompts : outputs[i] = None) => failed_items # <<>>
  <2>. SUFFICES ASSUME NEW i \in 1..prompts, outputs[i] = None PROVE failed_items # <<>>
    OBVIOUS
  <2>1. ~Out(i) /\ ~Done(i)
    BY <1>1 DEF Out, Done
  <2>2. Out(i) \/ Failed(i) \/ Done(i)
    BY DEF Inv, Where
  <2>3. ToSet(<<>>) = {}
    BY DEF ToSet
  <2>. QED BY <2>1, <2>2, <2>3 DEF Failed
<1>4. Fallback = <<>> => ToSet(endpoints) \subseteq unavailable
  BY FallbackIs DEF Inv
<1>5. Types'
  BY <1>1 DEF Inv, Types, Weighed
<1>6. Where'
  BY <1>1 DEF Inv, Where, Out, Failed, Done
<1>7. AnswersAtOwnIndex'
  BY <1>1 DEF Inv, AnswersAtOwnIndex
<1>8. Ends'
  <2>1. (failed_items # <<>> => unavailable # {}) /\ asked' = {}
    BY <1>1 DEF Inv, Ends
  <2>2. state' = "raised" =>
           failed_items # <<>> /\ (failover => ToSet(endpoints) \subseteq unavailable)
    BY <1>1, <1>2, <1>3, <1>4
  <2>3. state' = "returned" => \A i \in 1..prompts : outputs[i] # None
    BY <1>1, <1>2
  <2>4. RaisesOnlyWhenExhausted'
    BY <1>1, <2>1, <2>2, <2>3 DEF RaisesOnlyWhenExhausted
  <2>. QED BY <1>1, <2>1, <2>4 DEF Ends
<1>9. DealtByWeight'
  BY <1>1 DEF Inv, DealtByWeight
<1>. QED BY <1>5, <1>6, <1>7, <1>8, <1>9 DEF Inv
-------------------------------------------------------------------------------
(* The theorems. *)

LEMMA NextInv == ASSUME Inv, [Next]_vars PROVE Inv'
<1>1. ASSUME NEW k \in asked, Take(k) PROVE Inv'
  BY <1>1, AnswerInv, FailureInv DEF Take
<1>2. CASE NextRound \/ Finish
  BY <1>2, NextRoundInv, FinishInv
<1>3. CASE UNCHANGED vars
  BY <1>3 DEF vars, Inv, Types, Where, Ends, AnswersAtOwnIndex, RaisesOnlyWhenExhausted,
              DealtByWeight, Weighed, Out, Failed, Done
<1>. QED BY <1>1, <1>2, <1>3 DEF Next

LEMMA AlwaysInv == Spec => []Inv
BY InitInv, NextInv, PTL DEF Spec

\* The variables of the call have the shape the code gives them, for every list of
\* endpoints, all weights and any number of prompts.
THEOREM TypeCorrect == Spec => []TypeOK
<1>1. Inv => TypeOK
  <2>. SUFFICES ASSUME Inv PROVE TypeOK
    OBVIOUS
  <2>1. \A k \in DOMAIN buckets : ToSet(buckets[k]) \subseteq 1..prompts
    <3>. TAKE k \in DOMAIN buckets
    <3>1. buckets[k] \in Seq(1..prompts)
      BY DEF Inv, Types
    <3>. QED BY <3>1, ToSetIn
  <2>2. ToSet(failed_items) \subseteq 1..prompts
    BY ToSetIn DEF Inv, Types
  <2>. QED BY <2>1, <2>2 DEF Inv, Types, TypeOK
<1>. QED BY <1>1, AlwaysInv, PTL

\* A set with at most one element, counted.
LEMMA AtMostOne ==
    ASSUME NEW A, \A x, y \in A : x = y
    PROVE  Cardinality(A) = IF A = {} THEN 0 ELSE 1
<1>1. CASE A = {}
  BY <1>1, FS_EmptySet
<1>2. CASE A # {}
  <2>1. PICK x : A = {x}
    BY <1>2
  <2>. QED BY <2>1, FS_Singleton
<1>. QED BY <1>1, <1>2

\* A prompt is out with one replica, or waits for the next round once, or has its
\* text: however replicas fail, none is lost and none is generated twice for one slot.
THEOREM PromptsOnce == Spec => []EveryPromptOnce
<1>1. Inv => EveryPromptOnce
  <2>. SUFFICES ASSUME Inv PROVE EveryPromptOnce
    OBVIOUS
  <2>. SUFFICES ASSUME NEW i \in 1..prompts PROVE Places(i) = 1
    BY DEF EveryPromptOnce, Inv, Where
  <2>. DEFINE A == {k \in asked : i \in ToSet(buckets[k])}
              F == {j \in DOMAIN failed_items : failed_items[j] = i}
  <2>1. Cardinality(A) = IF A = {} THEN 0 ELSE 1
    <3>1. \A k, l \in asked : \A x : x \in ToSet(buckets[k]) /\ x \in ToSet(buckets[l]) => k = l
      BY DEF Inv, Where
    <3>2. \A k, l \in A : k = l
      BY <3>1
    <3>. HIDE DEF A
    <3>. QED BY <3>2, AtMostOne
  <2>2. Cardinality(F) = IF F = {} THEN 0 ELSE 1
    <3>1. \A j, l \in F : j = l
      BY DEF Inv, Where, IsInjective
    <3>. HIDE DEF F
    <3>. QED BY <3>1, AtMostOne
  <2>3. A # {} <=> Out(i)
    BY DEF Out
  <2>4. F # {} <=> Failed(i)
    BY DEF Failed, ToSet
  <2>5. /\ Out(i) \/ Failed(i) \/ Done(i)
        /\ ~(Out(i) /\ Failed(i)) /\ ~(Out(i) /\ Done(i)) /\ ~(Failed(i) /\ Done(i))
    BY DEF Inv, Where
  <2>6. Places(i) = Cardinality(A) + Cardinality(F) + (IF outputs[i] = None THEN 0 ELSE 1)
    BY DEF Places
  <2>. HIDE DEF A, F
  <2>. QED BY <2>1, <2>2, <2>3, <2>4, <2>5, <2>6 DEF Done
<1>. QED BY <1>1, AlwaysInv, PTL

\* A text is stored at the index of the prompt it answers, after any number of rounds.
THEOREM TextsAtOwnIndex == Spec => []AnswersAtOwnIndex
<1>1. Inv => AnswersAtOwnIndex
  BY DEF Inv
<1>. QED BY <1>1, AlwaysInv, PTL

\* With failover a call raises only when every endpoint of the list has failed in it;
\* without, only when one has; and what it returns is complete.
THEOREM FailsOnlyWhenExhausted == Spec => []RaisesOnlyWhenExhausted
<1>1. Inv => RaisesOnlyWhenExhausted
  BY DEF Inv, Ends
<1>. QED BY <1>1, AlwaysInv, PTL

\* The greedy dealing respects the weights: no endpoint of a round would have been
\* loaded less by the last prompt of another's bucket.
THEOREM LoadsAreFair == Spec => []DealtByWeight
<1>1. Inv => DealtByWeight
  BY DEF Inv
<1>. QED BY <1>1, AlwaysInv, PTL

\* A round asks nobody who failed earlier in the call, and no text is overwritten.
THEOREM RoundsProgress == Spec => RoundsMakeProgress
<1>. DEFINE Progress ==
        /\ asked' \ asked # {} => ToSet(eligible') \cap unavailable = {}
        /\ \A i \in 1..prompts : outputs[i] # None => outputs'[i] = outputs[i]
<1>1. ASSUME Inv, [Next]_vars PROVE [Progress]_vars
  <2>1. ASSUME NEW k \in asked, NEW n \in 0..Len(buckets[k]),
               TakeAnswer(k, SubSeq(Answers(buckets[k]), 1, n))
        PROVE  Progress
    <3>1. asked' = asked \ {k}
      BY <2>1 DEF TakeAnswer
    <3>2. \A i \in 1..prompts : outputs'[i] = IF i \in ToSet(buckets[k]) THEN i ELSE outputs[i]
      BY <1>1, <2>1, AnswerIs DEF Inv
    <3>3. \A i \in 1..prompts : i \in ToSet(buckets[k]) => outputs[i] = None
      BY <1>1 DEF Inv, Where, Out, Done
    <3>. QED BY <3>1, <3>2, <3>3
  <2>2. ASSUME NEW k \in asked, TakeFailure(k) PROVE Progress
    BY <2>2 DEF TakeFailure
  <2>3. CASE NextRound
    <3>1. ToSet(Fallback) = ToSet(endpoints) \ unavailable
      BY <1>1, FallbackIs DEF Inv
    <3>. QED BY <2>3, <3>1 DEF NextRound
  <2>4. CASE Finish
    BY <2>4 DEF Finish
  <2>5. CASE UNCHANGED vars
    BY <2>5
  <2>. QED BY <1>1, <2>1, <2>2, <2>3, <2>4, <2>5 DEF Next, Take
<1>2. Inv /\ [Next]_vars => [Progress]_vars
  BY <1>1
<1>. QED BY <1>2, AlwaysInv, PTL DEF Spec, RoundsMakeProgress
===============================================================================
