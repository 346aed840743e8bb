-------------------------- MODULE DecodeGraph_proofs --------------------------
(***************************************************************************)
(* Theorems about the decode graphs that are cached by shape: whatever is  *)
(* captured, replayed, fed back or run in bursts, the tokens are those of  *)
(* eager greedy decoding, for any calls, prompts, pool and settings whose  *)
(* loop bounds suffice.                                                    *)
(***************************************************************************)
EXTENDS DecodeGraph, FiniteSetTheorems, SequenceTheorems, WellFoundedInduction, TLAPS

-------------------------------------------------------------------------------
(* Least and greatest numbers, and sequences. *)

\* A set of natural numbers that is not empty has a least element.
LEMMA LeastExists ==
    ASSUME NEW S \in SUBSET Nat, S # {}
    PROVE  \E m \in S : \A x \in S : m <= x
<1>1. PICK m \in S : \A y \in S : ~(<<y, m>> \in OpToRel(<, Nat))
  BY NatLessThanWellFounded, WFMin
<1>2. \A y \in S : m <= y
  <2>. TAKE y \in S
  <2>1. ~(y < m)
    BY <1>1 DEF OpToRel
  <2>. QED BY <2>1
<1>. QED BY <1>2

LEMMA MinIs ==
    ASSUME NEW S \in SUBSET Nat, S # {}
    PROVE  Min(S) \in S /\ \A x \in S : Min(S) <= x
<1>1. PICK m \in S : \A x \in S : m <= x
  BY LeastExists
<1>. QED BY <1>1 DEF Min

LEMMA MaxIs ==
    ASSUME NEW S \in SUBSET Nat, S # {}, NEW b \in Nat, \A x \in S : x <= b
    PROVE  Max(S) \in S /\ \A x \in S : x <= Max(S)
<1>. DEFINE bounds == {m \in Nat : \A x \in S : x <= m}
<1>1. PICK m \in bounds : \A y \in bounds : m <= y
  <2>1. bounds \in SUBSET Nat /\ b \in bounds
    OBVIOUS
  <2>. HIDE DEF bounds
  <2>. QED BY <2>1, LeastExists
<1>2. m \in Nat /\ \A x \in S : x <= m
  OBVIOUS
<1>3. m \in S
  <2>. SUFFICES ASSUME m \notin S PROVE FALSE
    OBVIOUS
  <2>1. \A x \in S : x <= m - 1
    BY <1>2
  <2>2. m - 1 \in Nat
    <3>1. PICK x \in S : TRUE
      OBVIOUS
    <3>2. x \in Nat /\ x <= m - 1
      BY <2>1
    <3>. QED BY <1>2, <3>2
  <2>3. m - 1 \in bounds
    BY <2>1, <2>2
  <2>4. m <= m - 1
    BY <1>1, <2>3
  <2>. QED BY <1>2, <2>4
<1>4. \E x \in S : \A y \in S : x >= y
  BY <1>2, <1>3
<1>5. Max(S) \in S /\ \A y \in S : Max(S) >= y
  BY <1>4 DEF Max
<1>. QED BY <1>5

LEMMA ToSetIn ==
    ASSUME NEW S, NEW s \in Seq(S)
    PROVE  ToSet(s) \subseteq S
BY DEF ToSet

LEMMA AppendFacts ==
    ASSUME NEW S, NEW s \in Seq(S), NEW x \in S
    PROVE  /\ Append(s, x) \in Seq(S) /\ Len(Append(s, x)) = Len(s) + 1
           /\ ToSet(Append(s, x)) = ToSet(s) \cup {x}
           /\ IsInjective(s) /\ x \notin ToSet(s) => IsInjective(Append(s, x))
<1>1. /\ Append(s, x) \in Seq(S) /\ Len(Append(s, x)) = Len(s) + 1 /\ Len(s) \in Nat
      /\ DOMAIN s = 1..Len(s) /\ DOMAIN Append(s, x) = 1..(Len(s) + 1)
      /\ \A i \in 1..Len(s) : Append(s, x)[i] = s[i]
      /\ Append(s, x)[Len(s) + 1] = x
  OBVIOUS
<1>2. \A i \in 1..(Len(s) + 1) : i \in 1..Len(s) \/ i = Len(s) + 1
  BY <1>1
<1>3. \A y : y \in ToSet(Append(s, x)) <=> y \in ToSet(s) \/ y = x
  <2>. SUFFICES ASSUME NEW y
                PROVE  (\E i \in 1..(Len(s) + 1) : Append(s, x)[i] = y)
                          <=> (\E i \in 1..Len(s) : s[i] = y) \/ y = x
    BY <1>1 DEF ToSet
  <2>1. Len(s) + 1 \in 1..(Len(s) + 1) /\ \A i \in 1..Len(s) : i \in 1..(Len(s) + 1)
    BY <1>1
  <2>. QED BY <1>1, <1>2, <2>1
<1>4. ASSUME IsInjective(s), x \notin ToSet(s) PROVE IsInjective(Append(s, x))
  <2>1. \A i, j \in 1..Len(s) : s[i] = s[j] => i = j
    BY <1>1, <1>4 DEF IsInjective
  <2>2. \A i \in 1..Len(s) : s[i] # x
    BY <1>1, <1>4 DEF ToSet
  <2>3. \A i, j \in 1..(Len(s) + 1) : Append(s, x)[i] = Append(s, x)[j] => i = j
    BY <1>1, <1>2, <2>1, <2>2
  <2>. QED BY <1>1, <2>3 DEF IsInjective
<1>. QED BY <1>1, <1>3, <1>4

LEMMA ConcatFacts ==
    ASSUME NEW S, NEW s \in Seq(S), NEW t \in Seq(S)
    PROVE  /\ s \o t \in Seq(S)
           /\ ToSet(s \o t) = ToSet(s) \cup ToSet(t)
           /\ s \o t = <<>> => s = <<>> /\ t = <<>>
           /\ IsInjective(s) /\ IsInjective(t) /\ ToSet(s) \cap ToSet(t) = {}
                 => IsInjective(s \o t)
<1>1. s \o t \in Seq(S)
  OBVIOUS
<1>2. PICK m \in Nat, n \in Nat : m = Len(s) /\ n = Len(t)
  OBVIOUS
<1>3. /\ DOMAIN s = 1..m /\ DOMAIN t = 1..n
      /\ Len(s \o t) = m + n /\ DOMAIN (s \o t) = 1..(m + n)
      /\ \A i \in 1..m : (s \o t)[i] = s[i]
  BY <1>2
<1>4. \A i \in 1..n : m + i \in 1..(m + n) /\ (s \o t)[m + i] = t[i]
  BY <1>2
<1>5. \A i \in 1..(m + n) : i \in 1..m \/ \E j \in 1..n : i = m + j
  <2>. TAKE i \in 1..(m + n)
  <2>1. i \in 1..m \/ (i - m \in 1..n /\ i = m + (i - m))
    OBVIOUS
  <2>. QED BY <2>1
<1>6. \A y : y \in ToSet(s \o t) <=> y \in ToSet(s) \/ y \in ToSet(t)
  <2>. SUFFICES ASSUME NEW y
                PROVE  (\E i \in 1..(m + n) : (s \o t)[i] = y)
                          <=> (\E i \in 1..m : s[i] = y) \/ (\E i \in 1..n : t[i] = y)
    BY <1>3 DEF ToSet
  <2>1. \A i \in 1..m : i \in 1..(m + n)
    OBVIOUS
  <2>. QED BY <1>3, <1>4, <1>5, <2>1
<1>7. s \o t = <<>> => s = <<>> /\ t = <<>>
  <2>1. s \o t = <<>> => m + n = 0
    BY <1>3
  <2>2. m + n = 0 => m = 0 /\ n = 0
    OBVIOUS
  <2>. QED BY <1>2, <2>1, <2>2
<1>8. ASSUME IsInjective(s), IsInjective(t), ToSet(s) \cap ToSet(t) = {}
      PROVE  IsInjective(s \o t)
  <2>1. /\ \A i, j \in 1..m : s[i] = s[j] => i = j
        /\ \A i, j \in 1..n : t[i] = t[j] => i = j
        /\ \A i \in 1..m : \A j \in 1..n : s[i] # t[j]
    <3>1. \A i, j \in 1..m : s[i] = s[j] => i = j
      BY <1>3, <1>8 DEF IsInjective
    <3>2. \A i, j \in 1..n : t[i] = t[j] => i = j
      BY <1>3, <1>8 DEF IsInjective
    <3>3. (\A i \in 1..m : s[i] \in ToSet(s)) /\ \A j \in 1..n : t[j] \in ToSet(t)
      BY <1>3 DEF ToSet
    <3>. QED BY <1>8, <3>1, <3>2, <3>3
  <2>2. ASSUME NEW i \in 1..(m + n), NEW j \in 1..(m + n), (s \o t)[i] = (s \o t)[j]
        PROVE  i = j
    <3>1. CASE i \in 1..m
      <4>1. j \in 1..m
        BY <1>3, <1>4, <1>5, <2>1, <2>2, <3>1
      <4>. QED BY <1>3, <2>1, <2>2, <3>1, <4>1
    <3>2. CASE i \notin 1..m
      <4>1. PICK a \in 1..n : i = m + a
        BY <1>5, <3>2
      <4>2. PICK b \in 1..n : j = m + b
        BY <1>3, <1>4, <1>5, <2>1, <2>2, <4>1
      <4>3. t[a] = t[b]
        BY <1>4, <2>2, <4>1, <4>2
      <4>. QED BY <2>1, <4>1, <4>2, <4>3
    <3>. QED BY <3>1, <3>2
  <2>. QED BY <1>3, <2>2 DEF IsInjective
<1>. QED BY <1>1, <1>6, <1>7, <1>8


\* Finitely many numbers have a bound.
LEMMA Bounded ==
    ASSUME NEW n \in Nat, NEW f, \A i \in 1..n : f[i] \in Nat
    PROVE  \E b \in Nat : \A i \in 1..n : f[i] <= b
<1>. DEFINE bad == {m \in 0..n : ~\E b \in Nat : \A i \in 1..m : f[i] <= b}
<1>1. /\ bad \in SUBSET Nat
      /\ \A m : m \in bad <=> m \in 0..n /\ ~\E b \in Nat : \A i \in 1..m : f[i] <= b
  OBVIOUS
<1>. HIDE DEF bad
<1>2. bad = {}
  <2>. SUFFICES ASSUME bad # {} PROVE FALSE
    OBVIOUS
  <2>1. PICK m \in bad : \A x \in bad : m <= x
    BY <1>1, LeastExists
  <2>2. m \in 0..n /\ ~\E b \in Nat : \A i \in 1..m : f[i] <= b
    BY <1>1, <2>1
  <2>3. CASE m = 0
    <3>1. \A i \in 1..0 : f[i] <= 0
      OBVIOUS
    <3>. QED BY <2>2, <2>3, <3>1
  <2>4. CASE m # 0
    <3>1. m - 1 \in 0..n /\ ~(m <= m - 1)
      BY <2>2, <2>4
    <3>2. m - 1 \notin bad
      BY <2>1, <3>1
    <3>3. PICK b \in Nat : \A i \in 1..(m-1) : f[i] <= b
      BY <1>1, <3>1, <3>2
    <3>4. f[m] \in Nat
      BY <2>2, <2>4
    <3>5. PICK c \in Nat : b <= c /\ f[m] <= c
      <4>1. b + f[m] \in Nat /\ b <= b + f[m] /\ f[m] <= b + f[m]
        BY <3>4
      <4>. QED BY <4>1
    <3>6. \A i \in 1..m : f[i] <= c
      <4>. TAKE i \in 1..m
      <4>1. i = m \/ i \in 1..(m-1)
        BY <2>2
      <4>2. CASE i \in 1..(m-1)
        <5>1. i \in 1..n
          BY <2>2, <4>2
        <5>2. f[i] \in Nat /\ f[i] <= b
          BY <3>3, <4>2, <5>1
        <5>. QED BY <3>5, <5>2
      <4>. QED BY <3>5, <4>1, <4>2
    <3>. QED BY <2>2, <3>6
  <2>. QED BY <2>3, <2>4
<1>3. n \in 0..n /\ n \notin bad
  BY <1>2
<1>. QED BY <1>1, <1>3

\* The greatest of finitely many numbers.
LEMMA MaxOf ==
    ASSUME NEW n \in Nat \ {0}, NEW f, \A i \in 1..n : f[i] \in Nat
    PROVE  /\ \A i \in 1..n : f[i] <= Max({f[j] : j \in 1..n})
           /\ \E i \in 1..n : Max({f[j] : j \in 1..n}) = f[i]
<1>. DEFINE S == {f[j] : j \in 1..n}
<1>1. PICK b \in Nat : \A i \in 1..n : f[i] <= b
  BY Bounded
<1>2. S \in SUBSET Nat /\ f[1] \in S /\ \A x \in S : x <= b
  BY <1>1
<1>3. \A x : x \in S <=> \E i \in 1..n : x = f[i]
  OBVIOUS
<1>. HIDE DEF S
<1>4. Max(S) \in S /\ \A x \in S : x <= Max(S)
  BY <1>2, MaxIs
<1>5. \A i \in 1..n : f[i] <= Max(S)
  BY <1>3, <1>4
<1>6. \E i \in 1..n : Max(S) = f[i]
  BY <1>3, <1>4
<1>. QED BY <1>5, <1>6 DEF S

-------------------------------------------------------------------------------
(* The sequences that stay. *)

KeepStep(f, n, ss, over) ==
    IF n = 0 THEN <<>>
    ELSE IF ss[n] \in over THEN f[n-1] ELSE Append(f[n-1], ss[n])

LEMMA KeepSame ==
    ASSUME NEW f, NEW g, NEW n \in Nat, NEW ss, NEW over, n # 0 => f[n-1] = g[n-1]
    PROVE  KeepStep(f, n, ss, over) = KeepStep(g, n, ss, over)
BY Zenon DEF KeepStep

LEMMA KeptUnfolds ==
    ASSUME NEW ss, NEW over, Len(ss) \in Nat
    PROVE  \E f : /\ \A n \in 0..Len(ss) : f[n] = KeepStep(f, n, ss, over)
                  /\ Staying(ss, over) = f[Len(ss)]
<1>. DEFINE Solves(f, m) == f = [n \in 0..m |-> KeepStep(f, n, ss, over)]
            bad == {m \in Nat : ~\E f : Solves(f, m)}
<1>1. bad \in SUBSET Nat /\ \A m \in Nat : m \in bad <=> ~\E f : Solves(f, m)
  OBVIOUS
<1>. HIDE DEF bad
<1>2. bad = {}
  <2>. SUFFICES ASSUME bad # {} PROVE FALSE
    OBVIOUS
  <2>1. PICK m \in bad : \A x \in bad : m <= x
    BY <1>1, LeastExists
  <2>2. m \in Nat /\ ~\E f : Solves(f, m)
    BY <1>1, <2>1
  <2>3. CASE m = 0
    <3>. DEFINE f == [n \in 0..0 |-> KeepStep(<<>>, n, ss, over)]
    <3>1. \A n \in 0..0 : KeepStep(f, n, ss, over) = KeepStep(<<>>, n, ss, over)
      <4>. SUFFICES ASSUME NEW n \in 0..0
                    PROVE  KeepStep(f, n, ss, over) = KeepStep(<<>>, n, ss, over)
        OBVIOUS
      <4>1. n \in Nat /\ n = 0
        OBVIOUS
      <4>. HIDE DEF f
      <4>. QED BY <4>1, KeepSame
    <3>2. Solves(f, 0)
      <4>1. f = [n \in 0..0 |-> KeepStep(<<>>, n, ss, over)]
        OBVIOUS
      <4>. HIDE DEF f
      <4>. QED BY <3>1, <4>1
    <3>. QED BY <2>2, <2>3, <3>2
  <2>4. CASE m # 0
    <3>1. m - 1 \in Nat /\ m - 1 \notin bad
      BY <2>1, <2>2, <2>4
    <3>2. PICK g : Solves(g, m - 1)
      BY <1>1, <3>1
    <3>. DEFINE f == [n \in 0..m |-> IF n = m THEN KeepStep(g, m, ss, over) ELSE g[n]]
    <3>3. \A n \in 0..m : n # m => n \in 0..(m-1) /\ f[n] = g[n]
      BY <2>2, <2>4
    <3>4. f[m] = KeepStep(g, m, ss, over) /\ m \in 0..m
      BY <2>2
    <3>5. \A n \in 0..(m-1) : g[n] = KeepStep(g, n, ss, over)
      BY <3>2
    <3>6. f = [n \in 0..m |-> f[n]]
      OBVIOUS
    <3>. HIDE DEF f
    <3>7. ASSUME NEW n \in 0..m PROVE f[n] = KeepStep(f, n, ss, over)
      <4>1. n # 0 => n - 1 \in 0..m /\ n - 1 # m
        BY <2>2
      <4>2. n # 0 => f[n-1] = g[n-1]
        BY <3>3, <4>1
      <4>3. KeepStep(f, n, ss, over) = KeepStep(g, n, ss, over)
        BY <2>2, <4>2, KeepSame
      <4>4. CASE n = m
        BY <3>4, <4>3, <4>4
      <4>5. CASE n # m
        BY <3>3, <3>5, <4>3, <4>5
      <4>. QED BY <4>4, <4>5
    <3>8. Solves(f, m)
      BY <3>6, <3>7
    <3>. QED BY <2>2, <3>8
  <2>. QED BY <2>3, <2>4
<1>3. \E f : Solves(f, Len(ss))
  BY <1>1, <1>2
<1>. DEFINE kept == CHOOSE f : Solves(f, Len(ss))
<1>4. Staying(ss, over) = kept[Len(ss)]
  BY Zenon DEF Staying, KeepStep
<1>5. Solves(kept, Len(ss))
  BY <1>3
<1>. HIDE DEF kept
<1>6. \A n \in 0..Len(ss) : kept[n] = KeepStep(kept, n, ss, over)
  BY <1>5
<1>. QED BY <1>4, <1>6

LEMMA StayingIs ==
    ASSUME NEW S, NEW ss \in Seq(S), NEW over
    PROVE  /\ Staying(ss, over) \in Seq(S)
           /\ ToSet(Staying(ss, over)) = ToSet(ss) \ over
           /\ Len(Staying(ss, over)) <= Len(ss)
           /\ IsInjective(ss) => IsInjective(Staying(ss, over))
           /\ ToSet(ss) \cap over = {} => Staying(ss, over) = ss
<1>. DEFINE N == Len(ss)
            Kept(s, n) == /\ s \in Seq(S)
                          /\ \A e : e \in ToSet(s) <=> e \notin over /\ \E j \in 1..n : ss[j] = e
                          /\ Len(s) <= n
                          /\ IsInjective(ss) => IsInjective(s)
                          /\ ToSet(ss) \cap over = {}
                               => Len(s) = n /\ \A j \in 1..n : s[j] = ss[j]
<1>1. N \in Nat /\ DOMAIN ss = 1..N
  OBVIOUS
<1>2. PICK f : /\ \A n \in 0..N : f[n] = KeepStep(f, n, ss, over)
               /\ Staying(ss, over) = f[N]
  BY <1>1, KeptUnfolds
<1>. DEFINE bad == {n \in 0..N : ~Kept(f[n], n)}
<1>3. bad \in SUBSET Nat /\ \A n : n \in bad <=> n \in 0..N /\ ~Kept(f[n], n)
  OBVIOUS
<1>. HIDE DEF bad
<1>4. bad = {}
  <2>. SUFFICES ASSUME bad # {} PROVE FALSE
    OBVIOUS
  <2>1. PICK n \in bad : \A x \in bad : n <= x
    BY <1>3, LeastExists
  <2>2. n \in 0..N /\ ~Kept(f[n], n)
    BY <1>3, <2>1
  <2>3. CASE n = 0
    <3>1. f[0] = <<>>
      BY <1>2, <2>2, <2>3 DEF KeepStep
    <3>2. Kept(<<>>, 0)
      <4>1. <<>> \in Seq(S) /\ Len(<<>>) = 0 /\ ToSet(<<>>) = {}
        BY DEF ToSet
      <4>2. IsInjective(<<>>)
        BY DEF IsInjective
      <4>. QED BY <4>1, <4>2
    <3>. QED BY <2>2, <2>3, <3>1, <3>2
  <2>4. CASE n # 0
    <3>1. n - 1 \in 0..N /\ n - 1 \notin bad /\ n \in 1..N
      BY <1>1, <2>1, <2>2, <2>4
    <3>2. Kept(f[n-1], n - 1)
      BY <1>3, <3>1
    <3>3. f[n] = IF ss[n] \in over THEN f[n-1] ELSE Append(f[n-1], ss[n])
      BY <1>2, <2>2, <2>4 DEF KeepStep
    <3>4. \A e : (\E j \in 1..n : ss[j] = e) <=> (\E j \in 1..(n-1) : ss[j] = e) \/ ss[n] = e
      <4>1. \A j \in 1..n : j \in 1..(n-1) \/ j = n
        BY <3>1
      <4>2. n \in 1..n /\ \A j \in 1..(n-1) : j \in 1..n
        BY <3>1
      <4>. QED BY <4>1, <4>2
    <3>5. ss[n] \in S /\ ss[n] \in ToSet(ss)
      BY <1>1, <3>1 DEF ToSet
    <3>6. CASE ss[n] \in over
      <4>1. f[n] = f[n-1]
        BY <3>3, <3>6
      <4>2. Kept(f[n-1], n)
        <5>1. Len(f[n-1]) <= n
          BY <3>1, <3>2
        <5>2. ~(ToSet(ss) \cap over = {})
          BY <3>5, <3>6
        <5>. QED BY <3>2, <3>4, <3>6, <5>1, <5>2
      <4>. QED BY <2>2, <4>1, <4>2
    <3>7. CASE ss[n] \notin over
      <4>. DEFINE s == f[n-1]
      <4>1. f[n] = Append(s, ss[n]) /\ s \in Seq(S) /\ Len(s) <= n - 1
        BY <3>2, <3>3, <3>7
      <4>2. /\ f[n] \in Seq(S) /\ ToSet(f[n]) = ToSet(s) \cup {ss[n]}
            /\ Len(f[n]) = Len(s) + 1
            /\ IsInjective(s) /\ ss[n] \notin ToSet(s) => IsInjective(f[n])
        BY <3>5, <4>1, AppendFacts
      <4>3. IsInjective(ss) => ss[n] \notin ToSet(s)
        <5>1. IsInjective(ss) => \A j \in 1..(n-1) : ss[j] # ss[n]
          BY <1>1, <3>1 DEF IsInjective
        <5>. QED BY <3>2, <5>1
      <4>4. Len(f[n]) <= n
        BY <3>1, <4>1, <4>2
      <4>5. ASSUME ToSet(ss) \cap over = {}
            PROVE  Len(f[n]) = n /\ \A j \in 1..n : f[n][j] = ss[j]
        <5>1. Len(s) = n - 1 /\ \A j \in 1..(n-1) : s[j] = ss[j]
          BY <3>2, <4>5
        <5>2. \A j \in 1..n : j \in 1..Len(s) \/ j = Len(s) + 1
          BY <3>1, <5>1
        <5>3. /\ \A j \in 1..Len(s) : f[n][j] = s[j]
              /\ f[n][Len(s) + 1] = ss[n]
          BY <4>1
        <5>. HIDE DEF s
        <5>. QED BY <3>1, <4>2, <5>1, <5>2, <5>3
      <4>6. \A e : e \in ToSet(f[n]) <=> e \notin over /\ \E j \in 1..n : ss[j] = e
        BY <3>2, <3>4, <3>7, <4>2
      <4>7. IsInjective(ss) => IsInjective(f[n])
        BY <3>2, <4>2, <4>3
      <4>8. Kept(f[n], n)
        BY <4>2, <4>4, <4>5, <4>6, <4>7
      <4>. QED BY <2>2, <4>8
    <3>. QED BY <3>6, <3>7
  <2>. QED BY <2>3, <2>4
<1>5. N \in 0..N
  BY <1>1
<1>6. Kept(f[N], N)
  BY <1>3, <1>4, <1>5
<1>7. \A e : e \in ToSet(ss) <=> \E j \in 1..N : ss[j] = e
  BY <1>1 DEF ToSet
<1>8. ToSet(f[N]) = ToSet(ss) \ over
  BY <1>6, <1>7
<1>9. ToSet(ss) \cap over = {} => f[N] = ss
  BY <1>1, <1>6
<1>. QED BY <1>2, <1>6, <1>8, <1>9

-------------------------------------------------------------------------------
(* The invariant. *)

\* A burst in one launch visits the blocks it was captured for, and a graph that
\* feeds itself in buffers of its shape passes nothing on to another shape: both
\* need a loop bound that no step of the burst outgrows.
LoopBoundsSuffice ==
    \A c \in Configs : c.native \/ c.unrolled \/ (c.shared /\ c.feedback) => c.stable

Ids == DOMAIN prompt

\* The first n tokens of s.
Right(s, n) == [j \in 1..n |-> Token(s, prompt[s] + j - 1)]

Types ==
    /\ calls \in Nat /\ pc \in {"idle", "step", "admitted", "decode"}
    /\ prompt \in [Ids -> PromptLens]
    /\ text = [s \in Ids |-> Right(s, Len(text[s]))] /\ \A s \in Ids : Len(text[s]) \in Nat
    /\ blocks = [s \in Ids |-> blocks[s]]
    /\ seqLen \in [Ids -> Nat] /\ kv \in [Ids -> Nat]
    /\ buf = [i \in 1..MaxBatch |-> buf[i]]
    /\ waiting \in Seq(Ids) /\ running \in Seq(Ids)

Queues ==
    /\ IsInjective(waiting) /\ IsInjective(running)
    /\ ToSet(waiting) \cap ToSet(running) = {}
    /\ Len(running) <= MaxBatch
    /\ pc = "idle" => running = <<>> /\ waiting = <<>>

\* Tokens that the device has and the host does not.
Ahead == IF pc = "decode" THEN Len(burst) ELSE 0

InBatch(s) ==
    /\ Len(blocks[s]) = Need(s)
    /\ Len(text[s]) \in 1..(MaxNew - 1)
    /\ kv[s] = prompt[s] + Len(text[s]) - 1 + Ahead
    /\ seqLen[s] = kv[s]

InBurst(s) == Len(text[s]) + Len(burst) + left <= MaxNew

BurstRight ==
    \A j \in DOMAIN burst : \A i \in DOMAIN running :
        burst[j][i] = Token(running[i], prompt[running[i]] + Len(text[running[i]]) - 1 + j)

Dispatched ==
    pc = "decode" =>
        /\ running # <<>> /\ ~changed
        /\ left \in Nat /\ (burst = <<>> => left > 0)
        /\ burst \in Seq([DOMAIN running -> Ids \X Nat])
        /\ BurstRight
        /\ \A s \in ToSet(running) : InBurst(s)
        /\ resumed /\ burst = <<>> => Key(running) \in started

StateOk(k) ==
    LET st == states[k]
    IN /\ st = [seqs |-> st.seqs, layout |-> st.layout, lens |-> st.lens, known |-> st.known,
                graph |-> st.graph, rows |-> st.rows, unrolled |-> st.unrolled]
       /\ st.lens = st.known
       /\ st.graph # None => st.graph = st.layout
       /\ k \in failed => st.graph = None

RowsRight(rows) ==
    \A i \in DOMAIN running : rows[i] = Row(Token(running[i], kv[running[i]]), kv[running[i]])

\* The state of a chain that the running batch may go on with.
Intact(k) ==
    /\ k = Key(running)
    /\ k \in DOMAIN states
    /\ states[k].graph # None
    /\ states[k].seqs = running
    /\ states[k].layout = Layout(running)
    /\ states[k].known = Lens(running)
    /\ cfg.shared => DOMAIN states[k].rows = DOMAIN running /\ RowsRight(states[k].rows)

Past(k) == k[1] < Len(running) \/ LoopOf(k) < LoopOf(Key(running))

Going == pc # "idle" /\ ~changed

Chains ==
    Going => \A k \in started :
        /\ cfg.feedback
        /\ k[1] \in 1..Len(running)
        /\ LoopOf(k) \in Nat
        /\ Past(k) \/ Intact(k)

Staged ==
    /\ pc = "decode" /\ left > 0 /\ ~(cfg.shared /\ Key(running) \in started) => RowsRight(buf)
    /\ Going /\ ~cfg.shared /\ running # <<>> /\ Key(running) \in started => RowsRight(buf)

Good ==
    /\ Types /\ Queues
    /\ pc # "idle" => \A s \in ToSet(running) : InBatch(s)
    /\ Dispatched
    /\ \A k \in DOMAIN states : StateOk(k)
    /\ Chains
    /\ Staged

Inv == cfg \in Configs /\ (cfg.shape => Good)

-------------------------------------------------------------------------------
(* Keys. *)

LEMMA BlocksFacts ==
    ASSUME NEW a \in Nat, NEW b \in Nat, a <= b
    PROVE  /\ Blocks(a) \in Nat /\ Blocks(a) <= Blocks(b)
           /\ a <= Blocks(a) * BlockSize
<1>1. BlockSize \in Nat \ {0}
  BY DecodeGraphAssumption
<1>2. \A n \in Nat : (n + BlockSize - 1) \div BlockSize \in Nat
  BY <1>1
<1>3. \A n \in Nat : n <= ((n + BlockSize - 1) \div BlockSize) * BlockSize
  BY <1>1
<1>4. (a + BlockSize - 1) \div BlockSize <= (b + BlockSize - 1) \div BlockSize
  BY <1>1
<1>. QED BY <1>2, <1>3, <1>4 DEF Blocks

\* The key of the sequences ss for given tables and lengths.
KeyWith(tables, lens, stable, ss) ==
    LET table == Max({Len(tables[s]) : s \in ToSet(ss)})
    IN <<Len(ss), table, IF stable THEN table
                         ELSE Blocks(Max({lens[s] : s \in ToSet(ss)}) + 1)>>

LEMMA KeyIsWith == Key(running) = KeyWith(blocks, seqLen, cfg.stable, running)
<1>1. ToSet(Lens(running)) = {seqLen[s] : s \in ToSet(running)}
  BY DEF ToSet, Lens
<1>. QED BY <1>1 DEF Key, KeyWith

LEMMA KeyIsWithNext == Key(running)' = KeyWith(blocks', seqLen', cfg'.stable, running')
<1>1. ToSet(Lens(running))' = {seqLen'[s] : s \in ToSet(running')}
  BY DEF ToSet, Lens
<1>. QED BY <1>1 DEF Key, KeyWith

LEMMA MaxOver ==
    ASSUME NEW S, NEW ss \in Seq(S), ss # <<>>, NEW f, \A s \in ToSet(ss) : f[s] \in Nat
    PROVE  /\ Max({f[s] : s \in ToSet(ss)}) \in Nat
           /\ \A s \in ToSet(ss) : f[s] <= Max({f[t] : t \in ToSet(ss)})
           /\ \E s \in ToSet(ss) : Max({f[t] : t \in ToSet(ss)}) = f[s]
<1>. DEFINE n == Len(ss)
            g == [j \in 1..n |-> f[ss[j]]]
            m == Max({f[s] : s \in ToSet(ss)})
<1>1. n \in Nat \ {0} /\ DOMAIN ss = 1..n /\ \A j \in 1..n : ss[j] \in ToSet(ss)
  BY DEF ToSet
<1>2. \A j \in 1..n : g[j] \in Nat /\ g[j] = f[ss[j]]
  BY <1>1
<1>3. {f[s] : s \in ToSet(ss)} = {g[j] : j \in 1..n}
  BY <1>1 DEF ToSet
<1>4. \A s \in ToSet(ss) : \E j \in 1..n : s = ss[j]
  BY <1>1 DEF ToSet
<1>5. m = Max({g[j] : j \in 1..n})
  BY <1>3
<1>. HIDE DEF g, n, m
<1>6. (\A j \in 1..n : g[j] <= m) /\ \E j \in 1..n : m = g[j]
  BY <1>1, <1>2, <1>5, MaxOf
<1>7. /\ m \in Nat /\ \A s \in ToSet(ss) : f[s] <= m
      /\ \E s \in ToSet(ss) : m = f[s]
  BY <1>1, <1>2, <1>4, <1>6
<1>. QED BY <1>7 DEF m

LEMMA KeyIs ==
    ASSUME NEW S, NEW ss \in Seq(S), ss # <<>>, NEW tables, NEW lens, NEW stable \in BOOLEAN,
           \A s \in ToSet(ss) : Len(tables[s]) \in Nat /\ lens[s] \in Nat,
           NEW k, k = KeyWith(tables, lens, stable, ss)
    PROVE  /\ k = <<Len(ss), k[2], k[3]>> /\ k[1] = Len(ss) /\ k[2] \in Nat /\ k[3] \in Nat
           /\ \A s \in ToSet(ss) : Len(tables[s]) <= k[2]
           /\ stable => k[3] = k[2]
           /\ ~stable => \A s \in ToSet(ss) : lens[s] + 1 <= k[3] * BlockSize
<1>. DEFINE f == [s \in ToSet(ss) |-> Len(tables[s])]
            g == [s \in ToSet(ss) |-> lens[s]]
            a == Max({f[s] : s \in ToSet(ss)})
            b == Max({g[s] : s \in ToSet(ss)})
<1>1. a \in Nat /\ \A s \in ToSet(ss) : Len(tables[s]) <= a
  <2>1. \A s \in ToSet(ss) : f[s] \in Nat /\ f[s] = Len(tables[s])
    OBVIOUS
  <2>. HIDE DEF f
  <2>2. a \in Nat /\ \A s \in ToSet(ss) : f[s] <= a
    BY <2>1, MaxOver
  <2>. QED BY <2>1, <2>2
<1>2. b \in Nat /\ \A s \in ToSet(ss) : lens[s] <= b
  <2>1. \A s \in ToSet(ss) : g[s] \in Nat /\ g[s] = lens[s]
    OBVIOUS
  <2>. HIDE DEF g
  <2>2. b \in Nat /\ \A s \in ToSet(ss) : g[s] <= b
    BY <2>1, MaxOver
  <2>. QED BY <2>1, <2>2
<1>3. {f[s] : s \in ToSet(ss)} = {Len(tables[s]) : s \in ToSet(ss)}
  OBVIOUS
<1>4. {g[s] : s \in ToSet(ss)} = {lens[s] : s \in ToSet(ss)}
  OBVIOUS
<1>5. k = <<Len(ss), a, IF stable THEN a ELSE Blocks(b + 1)>>
  BY <1>3, <1>4 DEF KeyWith
<1>. HIDE DEF a, b
<1>6. b + 1 \in Nat /\ \A s \in ToSet(ss) : lens[s] + 1 <= b + 1
  BY <1>2
<1>7. /\ Blocks(b + 1) \in Nat
      /\ \A s \in ToSet(ss) : lens[s] + 1 <= Blocks(b + 1) * BlockSize
  <2>1. Blocks(b + 1) \in Nat /\ b + 1 <= Blocks(b + 1) * BlockSize
    BY <1>6, BlocksFacts
  <2>2. Blocks(b + 1) * BlockSize \in Nat
    BY <2>1, DecodeGraphAssumption
  <2>. DEFINE m == Blocks(b + 1) * BlockSize
  <2>. HIDE DEF m
  <2>3. \A s \in ToSet(ss) : lens[s] + 1 <= m
    BY <1>2, <2>1, <2>2 DEF m
  <2>. QED BY <2>1, <2>3 DEF m
<1>. QED BY <1>1, <1>5, <1>7

LEMMA KeyGrows ==
    ASSUME NEW S, NEW ss \in Seq(S), ss # <<>>, NEW tables, NEW lens, NEW stable \in BOOLEAN,
           NEW more, \A s \in ToSet(ss) : /\ Len(tables[s]) \in Nat
                                          /\ lens[s] \in Nat /\ more[s] \in Nat /\ lens[s] <= more[s],
           NEW k, k = KeyWith(tables, lens, stable, ss),
           NEW l, l = KeyWith(tables, more, stable, ss)
    PROVE  /\ k[3] <= l[3] /\ l[1] = k[1]
           /\ stable => l = k
           /\ l[3] = k[3] => l = k
<1>1. /\ k = <<Len(ss), k[2], k[3]>> /\ k[2] \in Nat /\ k[3] \in Nat
      /\ l = <<Len(ss), l[2], l[3]>> /\ l[2] \in Nat /\ l[3] \in Nat
      /\ stable => k[3] = k[2] /\ l[3] = l[2]
  <2>1. \A s \in ToSet(ss) : Len(tables[s]) \in Nat /\ lens[s] \in Nat
    OBVIOUS
  <2>2. \A s \in ToSet(ss) : Len(tables[s]) \in Nat /\ more[s] \in Nat
    OBVIOUS
  <2>3. k = <<Len(ss), k[2], k[3]>> /\ k[2] \in Nat /\ k[3] \in Nat /\ (stable => k[3] = k[2])
    BY <2>1, KeyIs
  <2>4. l = <<Len(ss), l[2], l[3]>> /\ l[2] \in Nat /\ l[3] \in Nat /\ (stable => l[3] = l[2])
    BY <2>2, KeyIs
  <2>. QED BY <2>3, <2>4
<1>2. l[2] = k[2]
  BY DEF KeyWith
<1>3. ~stable => k[3] <= l[3]
  <2>. DEFINE f == [s \in ToSet(ss) |-> lens[s]]
              g == [s \in ToSet(ss) |-> more[s]]
              a == Max({f[s] : s \in ToSet(ss)})
              b == Max({g[s] : s \in ToSet(ss)})
  <2>1. \A s \in ToSet(ss) : f[s] \in Nat /\ g[s] \in Nat /\ f[s] <= g[s]
    OBVIOUS
  <2>2. {f[s] : s \in ToSet(ss)} = {lens[s] : s \in ToSet(ss)}
    OBVIOUS
  <2>3. {g[s] : s \in ToSet(ss)} = {more[s] : s \in ToSet(ss)}
    OBVIOUS
  <2>4. ~stable => k[3] = Blocks(a + 1) /\ l[3] = Blocks(b + 1)
    BY <2>2, <2>3 DEF KeyWith
  <2>. HIDE DEF f, g
  <2>5. a \in Nat /\ \E s \in ToSet(ss) : a = f[s]
    BY <2>1, MaxOver
  <2>6. b \in Nat /\ \A s \in ToSet(ss) : g[s] <= b
    BY <2>1, MaxOver
  <2>. HIDE DEF a, b
  <2>7. a <= b
    BY <2>1, <2>5, <2>6
  <2>8. a + 1 \in Nat /\ b + 1 \in Nat /\ a + 1 <= b + 1
    BY <2>5, <2>6, <2>7
  <2>9. Blocks(a + 1) <= Blocks(b + 1)
    BY <2>8, BlocksFacts
  <2>. QED BY <2>4, <2>9
<1>. QED BY <1>1, <1>2, <1>3

-------------------------------------------------------------------------------
(* What holds of a running batch. *)

LEMMA BatchFacts ==
    ASSUME Good, pc # "idle"
    PROVE  /\ Len(running) \in Nat /\ Len(running) <= MaxBatch /\ DOMAIN running = 1..Len(running)
           /\ \A i \in DOMAIN running : running[i] \in ToSet(running)
           /\ \A s \in ToSet(running) :
                /\ s \in Ids /\ \E i \in DOMAIN running : running[i] = s
                /\ prompt[s] \in Nat /\ prompt[s] >= 1
                /\ Len(text[s]) \in Nat /\ 1 <= Len(text[s]) /\ Len(text[s]) <= MaxNew - 1
                /\ Len(blocks[s]) = Need(s) /\ Need(s) \in Nat
                /\ prompt[s] + MaxNew <= Need(s) * BlockSize
                /\ kv[s] \in Nat /\ seqLen[s] = kv[s]
                /\ kv[s] = prompt[s] + Len(text[s]) - 1 + Ahead
<1>1. running \in Seq(Ids) /\ Len(running) <= MaxBatch /\ \A s \in ToSet(running) : InBatch(s)
  BY DEF Good, Types, Queues
<1>2. Len(running) \in Nat /\ DOMAIN running = 1..Len(running)
  BY <1>1
<1>3. \A i \in DOMAIN running : running[i] \in ToSet(running)
  BY DEF ToSet
<1>4. ASSUME NEW s \in ToSet(running)
      PROVE  /\ s \in Ids /\ \E i \in DOMAIN running : running[i] = s
             /\ prompt[s] \in Nat /\ prompt[s] >= 1
             /\ Len(text[s]) \in Nat /\ 1 <= Len(text[s]) /\ Len(text[s]) <= MaxNew - 1
             /\ Len(blocks[s]) = Need(s) /\ Need(s) \in Nat
             /\ prompt[s] + MaxNew <= Need(s) * BlockSize
             /\ kv[s] \in Nat /\ seqLen[s] = kv[s]
             /\ kv[s] = prompt[s] + Len(text[s]) - 1 + Ahead
  <2>1. s \in Ids /\ \E i \in DOMAIN running : running[i] = s
    BY <1>1 DEF ToSet
  <2>2. prompt[s] \in Nat /\ prompt[s] >= 1 /\ MaxNew \in Nat /\ kv[s] \in Nat
    <3>1. prompt[s] \in PromptLens /\ kv[s] \in Nat
      BY <2>1 DEF Good, Types
    <3>2. MaxNew \in Nat /\ \A n \in PromptLens : n \in Nat /\ n >= 1
      BY DecodeGraphAssumption
    <3>. QED BY <3>1, <3>2
  <2>3. InBatch(s)
    BY <1>1
  <2>4. Need(s) \in Nat /\ prompt[s] + MaxNew <= Need(s) * BlockSize
    <3>1. prompt[s] + MaxNew \in Nat
      BY <2>2
    <3>. QED BY <3>1, BlocksFacts DEF Need
  <2>. QED BY <2>1, <2>2, <2>3, <2>4 DEF InBatch
<1>. QED BY <1>1, <1>2, <1>3, <1>4

LEMMA SettingsAre ==
    ASSUME cfg \in Configs
    PROVE  /\ cfg.shape \in BOOLEAN /\ cfg.shared \in BOOLEAN /\ cfg.stable \in BOOLEAN
           /\ cfg.feedback \in BOOLEAN /\ cfg.native \in BOOLEAN /\ cfg.unrolled \in BOOLEAN
BY DecodeGraphAssumption DEF Config

LEMMA KeyNow ==
    ASSUME cfg \in Configs, Good, pc # "idle", running # <<>>
    PROVE  /\ Key(running)[1] = Len(running) /\ Len(running) \in Nat /\ Len(running) >= 1
           /\ LoopOf(Key(running)) \in Nat
           /\ cfg.stable => \A s \in ToSet(running) : Need(s) <= LoopOf(Key(running))
           /\ ~cfg.stable => \A s \in ToSet(running) : kv[s] + 1 <= LoopOf(Key(running)) * BlockSize
<1>1. running \in Seq(Ids) /\ cfg.stable \in BOOLEAN
  BY SettingsAre DEF Good, Types
<1>2. \A s \in ToSet(running) : /\ Len(blocks[s]) \in Nat /\ seqLen[s] \in Nat
                                /\ Len(blocks[s]) = Need(s) /\ seqLen[s] = kv[s]
  BY BatchFacts
<1>3. PICK k : k = KeyWith(blocks, seqLen, cfg.stable, running)
  OBVIOUS
<1>4. /\ k[1] = Len(running) /\ k[3] \in Nat
      /\ cfg.stable => \A s \in ToSet(running) : Len(blocks[s]) <= k[3]
      /\ ~cfg.stable => \A s \in ToSet(running) : seqLen[s] + 1 <= k[3] * BlockSize
  BY <1>1, <1>2, <1>3, KeyIs
<1>5. Len(running) \in Nat /\ Len(running) >= 1
  BY <1>1
<1>. QED BY <1>2, <1>3, <1>4, <1>5, KeyIsWith DEF LoopOf

\* A chain with the key of the batch is the chain of the batch.
LEMMA OwnChain ==
    ASSUME cfg \in Configs, Good, Going, Key(running) \in started
    PROVE  Intact(Key(running)) /\ cfg.feedback /\ running # <<>>
<1>. DEFINE K == Key(running)
<1>1. /\ cfg.feedback /\ K[1] \in 1..Len(running) /\ (Past(K) \/ Intact(K))
  BY DEF Good, Chains
<1>2. running # <<>>
  <2>1. Len(running) \in Nat
    BY BatchFacts DEF Going
  <2>2. Len(running) # 0
    BY <1>1, <2>1
  <2>. QED BY <2>2
<1>3. K[1] = Len(running) /\ Len(running) \in Nat /\ LoopOf(K) \in Nat
  BY <1>2, KeyNow DEF Going
<1>4. ~Past(K)
  <2>1. ~(Len(running) < Len(running)) /\ ~(LoopOf(K) < LoopOf(K))
    BY <1>3
  <2>. QED BY <1>3, <2>1 DEF Past
<1>. QED BY <1>1, <1>2, <1>4

\* The inputs of the next step are the tokens it is to go on from.
LEMMA InputsRight ==
    ASSUME cfg \in Configs, Good, pc = "decode", left > 0, NEW st,
           Key(running) \in started => st.graph # None /\ st.rows = states[Key(running)].rows
    PROVE  /\ RowsRight(Inputs(Key(running), st, running))
           /\ DOMAIN Inputs(Key(running), st, running) = DOMAIN running
           /\ ~cfg.shared \/ Key(running) \notin started
                => Inputs(Key(running), st, running) = SubSeq(buf, 1, Len(running))
           /\ ~cfg.shared \/ Key(running) \notin started => RowsRight(buf)
<1>. DEFINE K == Key(running)
<1>1. Going /\ running # <<>>
  BY DEF Good, Dispatched, Going
<1>2. CASE cfg.shared /\ K \in started
  <2>1. Intact(K) /\ cfg.feedback
    BY <1>1, <1>2, OwnChain
  <2>2. Inputs(K, st, running) = states[K].rows
    BY <1>2, <2>1 DEF Inputs, GoesOn
  <2>3. RowsRight(states[K].rows) /\ DOMAIN states[K].rows = DOMAIN running
    BY <1>2, <2>1 DEF Intact
  <2>. QED BY <1>2, <2>2, <2>3
<1>3. CASE ~(cfg.shared /\ K \in started)
  <2>1. RowsRight(buf)
    BY <1>3 DEF Good, Staged
  <2>2. Inputs(K, st, running) = SubSeq(buf, 1, Len(running))
    BY <1>3 DEF Inputs, GoesOn
  <2>3. /\ Len(running) \in Nat /\ Len(running) <= MaxBatch /\ DOMAIN running = 1..Len(running)
    BY BatchFacts
  <2>4. /\ DOMAIN SubSeq(buf, 1, Len(running)) = DOMAIN running
        /\ \A i \in DOMAIN running : SubSeq(buf, 1, Len(running))[i] = buf[i]
    <3>1. buf = [i \in 1..MaxBatch |-> buf[i]] /\ MaxBatch \in Nat
      BY DecodeGraphAssumption DEF Good, Types
    <3>2. buf \in [1..MaxBatch -> {buf[i] : i \in 1..MaxBatch}]
      BY <3>1
    <3>3. buf \in Seq({buf[i] : i \in 1..MaxBatch}) /\ Len(buf) = MaxBatch
      BY <3>1, <3>2
    <3>. QED BY <2>3, <3>3
  <2>. QED BY <2>1, <2>2, <2>4 DEF RowsRight
<1>. QED BY <1>2, <1>3

-------------------------------------------------------------------------------
(* Steps. *)

LEMMA ConcatAt ==
    ASSUME NEW S, NEW s \in Seq(S), NEW t \in Seq(S)
    PROVE  /\ Len(s \o t) = Len(s) + Len(t)
           /\ \A j \in 1..Len(s) : (s \o t)[j] = s[j]
           /\ \A j \in 1..Len(t) : (s \o t)[Len(s) + j] = t[j]
OBVIOUS

LEMMA LoopSuffices ==
    ASSUME cfg \in Configs, Good, pc = "decode", NEW n \in Nat, n <= left, n > 1 => cfg.stable,
           NEW s \in ToSet(running), NEW j \in 1..n
    PROVE  kv[s] + j <= LoopOf(Key(running)) * BlockSize
<1>. DEFINE loop == LoopOf(Key(running))
<1>1. /\ kv[s] \in Nat /\ prompt[s] \in Nat /\ Len(text[s]) \in Nat /\ Need(s) \in Nat
      /\ prompt[s] + MaxNew <= Need(s) * BlockSize
      /\ kv[s] = prompt[s] + Len(text[s]) - 1 + Len(burst)
  BY BatchFacts DEF Ahead
<1>2. /\ running # <<>> /\ left \in Nat /\ Len(burst) \in Nat
      /\ Len(text[s]) + Len(burst) + left <= MaxNew
  <2>1. running # <<>> /\ left \in Nat /\ InBurst(s)
        /\ burst \in Seq([DOMAIN running -> Ids \X Nat])
    BY DEF Good, Dispatched
  <2>. QED BY <2>1 DEF InBurst
<1>3. /\ loop \in Nat /\ (cfg.stable => Need(s) <= loop)
      /\ ~cfg.stable => kv[s] + 1 <= loop * BlockSize
  BY <1>2, KeyNow
<1>. HIDE DEF loop
<1>4. BlockSize \in Nat /\ MaxNew \in Nat
  BY DecodeGraphAssumption
<1>5. CASE cfg.stable
  <2>1. kv[s] + j <= prompt[s] + MaxNew
    <3>1. \A p, t, b, l, m, i \in Nat : t + b + l <= m /\ i <= l => (p + t - 1 + b) + i <= p + m
      OBVIOUS
    <3>2. j \in Nat /\ j <= left
      BY <1>2
    <3>. QED BY <1>1, <1>2, <1>4, <3>1, <3>2
  <2>2. Need(s) * BlockSize <= loop * BlockSize
    BY <1>1, <1>3, <1>4, <1>5
  <2>3. Need(s) * BlockSize \in Nat /\ loop * BlockSize \in Nat
    BY <1>1, <1>3, <1>4
  <2>. QED BY <1>1, <1>4, <2>1, <2>2, <2>3 DEF loop
<1>6. CASE ~cfg.stable
  <2>1. j = 1
    BY <1>6
  <2>. QED BY <1>3, <1>6, <2>1 DEF loop
<1>. QED BY <1>5, <1>6

\* The tokens of the next n steps, if everything the device reads is right.
LEMMA DecodedRight ==
    ASSUME cfg \in Configs, Good, pc = "decode",
           NEW rows, RowsRight(rows),
           NEW n \in Nat, 1 <= n, n <= left, n > 1 => cfg.stable,
           NEW toks, toks = Decoded(running, rows, Lens(running), Layout(running),
                                    LoopOf(Key(running)), n)
    PROVE  /\ toks \in Seq([DOMAIN running -> Ids \X Nat]) /\ Len(toks) = n
           /\ \A j \in 1..n : \A i \in DOMAIN running :
                toks[j][i] = Token(running[i], kv[running[i]] + j)
<1>1. \A i \in DOMAIN running : /\ running[i] \in ToSet(running) /\ running[i] \in Ids
                                /\ kv[running[i]] \in Nat /\ seqLen[running[i]] = kv[running[i]]
  BY BatchFacts
<1>2. \A i \in DOMAIN running : \A j \in 1..n :
        kv[running[i]] + j <= LoopOf(Key(running)) * BlockSize
  BY <1>1, LoopSuffices
<1>3. \A i \in DOMAIN running : /\ Lens(running)[i] = kv[running[i]]
                                /\ Layout(running)[i] = blocks[running[i]]
                                /\ rows[i] = Row(Token(running[i], kv[running[i]]), kv[running[i]])
  BY <1>1 DEF Lens, Layout, RowsRight
<1>. DEFINE row(j) == [i \in DOMAIN running |-> Token(running[i], kv[running[i]] + j)]
<1>4. toks = [j \in 1..n |-> row(j)]
  <2>1. ASSUME NEW j \in 1..n, NEW i \in DOMAIN running
        PROVE  LET s == running[i]
               IN IF /\ rows[i] = Row(Token(s, kv[s]), kv[s])
                     /\ Lens(running)[i] = kv[s]
                     /\ Layout(running)[i] = blocks[s]
                     /\ kv[s] + j <= LoopOf(Key(running)) * BlockSize
                  THEN TRUE ELSE FALSE
    BY <1>2, <1>3
  <2>2. toks = [j \in 1..n |-> [i \in DOMAIN running |->
                  LET s == running[i]
                  IN IF /\ rows[i] = Row(Token(s, kv[s]), kv[s])
                        /\ Lens(running)[i] = kv[s]
                        /\ Layout(running)[i] = blocks[s]
                        /\ kv[s] + j <= LoopOf(Key(running)) * BlockSize
                     THEN Token(s, kv[s] + j) ELSE Junk]]
    BY Zenon DEF Decoded
  <2>. QED BY <2>1, <2>2
<1>5. \A j \in 1..n : row(j) \in [DOMAIN running -> Ids \X Nat]
  BY <1>1 DEF Token
<1>6. \A j \in 1..n : \A i \in DOMAIN running :
        row(j)[i] = Token(running[i], kv[running[i]] + j)
  OBVIOUS
<1>. HIDE DEF row
<1>7. toks \in [1..n -> [DOMAIN running -> Ids \X Nat]]
  BY <1>4, <1>5
<1>8. toks \in Seq([DOMAIN running -> Ids \X Nat]) /\ Len(toks) = n
  BY <1>7
<1>. QED BY <1>4, <1>6, <1>8

\* What is fed back after n steps.
LEMMA FedRight ==
    ASSUME Good, pc = "decode", NEW n \in Nat,
           NEW rows, RowsRight(rows),
           NEW tok, DOMAIN tok = DOMAIN running,
           \A i \in DOMAIN running : tok[i] = Token(running[i], kv[running[i]] + n)
    PROVE  /\ DOMAIN Fed(rows, tok, n) = DOMAIN running
           /\ \A i \in DOMAIN running :
                Fed(rows, tok, n)[i] = Row(Token(running[i], kv[running[i]] + n), kv[running[i]] + n)
<1>1. \A i \in DOMAIN running : rows[i].pos = kv[running[i]]
  <2>1. \A t, p : Row(t, p).pos = p
    BY DEF Row
  <2>. QED BY <2>1 DEF RowsRight
<1>. QED BY <1>1 DEF Fed

\* A state that fits the batch as it is, and goes on with a chain of its key.
Steady(st) ==
    /\ st = [seqs |-> st.seqs, layout |-> st.layout, lens |-> st.lens, known |-> st.known,
             graph |-> st.graph, rows |-> st.rows, unrolled |-> st.unrolled]
    /\ st.seqs = running /\ st.layout = Layout(running) /\ st.lens = Lens(running)
    /\ st.graph # None => st.graph = st.layout
    /\ Key(running) \in started => st.graph # None /\ st.rows = states[Key(running)].rows

\* n steps with such a state.
StepsOf(st, n, feeds) ==
    /\ pc = "decode" /\ n \in Nat /\ 1 <= n /\ n <= left /\ (n > 1 => cfg.stable)
    /\ feeds \in BOOLEAN
    /\ feeds => cfg.feedback /\ st.graph # None
    /\ ~feeds => Key(running) \notin started
    /\ Stepped(Key(running), st, running, Layout(running), n, feeds)
    /\ failed' \subseteq failed \cup {Key(running)}
    /\ Key(running) \in failed' => st.graph = None
    /\ UNCHANGED <<cfg, requests, blocks, changed, pc, resumed>>

\* What such steps do: toks are their tokens.
Outcome(st, n, feeds, toks) ==
    LET K == Key(running)
    IN /\ burst' = burst \o toks
       /\ toks \in Seq([DOMAIN running -> Ids \X Nat]) /\ Len(toks) = n
       /\ \A j \in 1..n : \A i \in DOMAIN running :
            toks[j][i] = Token(running[i], kv[running[i]] + j)
       /\ left' = left - n
       /\ seqLen' = Advanced(seqLen, running, n) /\ kv' = Advanced(kv, running, n)
       /\ started' = IF feeds THEN started \cup {K} ELSE started
       /\ DOMAIN states' = DOMAIN states \cup {K}
       /\ \A k \in DOMAIN states : k # K => states'[k] = states[k]
       /\ states'[K].graph = st.graph
       /\ states'[K] = [st EXCEPT !.lens = Plus(Lens(running), n), !.known = Plus(Lens(running), n),
                                  !.rows = states'[K].rows]
       /\ cfg.shared /\ feeds =>
            /\ DOMAIN states'[K].rows = DOMAIN running
            /\ \A i \in DOMAIN running : states'[K].rows[i] =
                  Row(Token(running[i], kv[running[i]] + n), kv[running[i]] + n)
       /\ buf' = [i \in 1..MaxBatch |-> buf'[i]]
       /\ (IF feeds THEN ~cfg.shared ELSE left > n) => \A i \in DOMAIN running :
             buf'[i] = Row(Token(running[i], kv[running[i]] + n), kv[running[i]] + n)

LEMMA StepFacts ==
    ASSUME cfg \in Configs, Good, NEW st, Steady(st), NEW n, NEW feeds, StepsOf(st, n, feeds)
    PROVE  \E toks : Outcome(st, n, feeds, toks)
<1>. DEFINE K == Key(running)
            rows == Inputs(K, st, running)
            toks == Decoded(running, rows, st.lens, Layout(running), LoopOf(K), n)
            next == Fed(rows, toks[n], n)
            common == SubSeq(buf, 1, Len(running))
<1>1. /\ pc = "decode" /\ n \in Nat /\ 1 <= n /\ n <= left /\ (n > 1 => cfg.stable)
      /\ feeds \in BOOLEAN /\ (~feeds => K \notin started)
      /\ Stepped(K, st, running, Layout(running), n, feeds)
  BY DEF StepsOf
<1>2. left > 0
  BY <1>1 DEF Good, Dispatched
<1>3. /\ RowsRight(rows) /\ DOMAIN rows = DOMAIN running
      /\ ~cfg.shared \/ K \notin started => rows = common
  BY <1>1, <1>2, InputsRight DEF Steady
<1>4. /\ toks \in Seq([DOMAIN running -> Ids \X Nat]) /\ Len(toks) = n
      /\ \A j \in 1..n : \A i \in DOMAIN running :
           toks[j][i] = Token(running[i], kv[running[i]] + j)
  <2>1. st.lens = Lens(running)
    BY DEF Steady
  <2>2. toks = Decoded(running, rows, Lens(running), Layout(running), LoopOf(K), n)
    BY <2>1
  <2>. HIDE DEF toks, rows
  <2>. QED BY <1>1, <1>3, <2>2, DecodedRight
<1>5. /\ DOMAIN toks[n] = DOMAIN running
      /\ \A i \in DOMAIN running : toks[n][i] = Token(running[i], kv[running[i]] + n)
  <2>. HIDE DEF toks, rows
  <2>. QED BY <1>1, <1>4
<1>6. /\ DOMAIN next = DOMAIN running
      /\ \A i \in DOMAIN running :
           next[i] = Row(Token(running[i], kv[running[i]] + n), kv[running[i]] + n)
  <2>. HIDE DEF toks, rows
  <2>. QED BY <1>1, <1>3, <1>5, FedRight
<1>7. /\ states' = [k \in DOMAIN states \cup {K} |->
                      IF k = K
                      THEN [st EXCEPT !.lens = Plus(@, n), !.known = Plus(Lens(running), n),
                                      !.rows = IF ~cfg.shared THEN @ ELSE IF feeds THEN next ELSE rows]
                      ELSE states[k]]
      /\ burst' = burst \o toks
      /\ seqLen' = Advanced(seqLen, running, n) /\ kv' = Advanced(kv, running, n)
      /\ left' = left - n
      /\ started' = IF feeds THEN started \cup {K} ELSE started
      /\ buf' = IF feeds
                THEN IF cfg.shared THEN buf ELSE Overlay(next)
                ELSE IF left > n THEN Overlay(Fed(common, toks[n], n)) ELSE buf
  <2>. HIDE DEF K
  <2>. QED BY <1>1, Zenon DEF Stepped
<1>. HIDE DEF toks, rows, next, common, K
<1>8. ~feeds => rows = common
  BY <1>1, <1>3
<1>9. ~feeds => next = Fed(common, toks[n], n)
  BY <1>8 DEF next
<1>10. /\ DOMAIN states' = DOMAIN states \cup {K}
       /\ \A k \in DOMAIN states : k # K => states'[k] = states[k]
       /\ states'[K] = [st EXCEPT !.lens = Plus(@, n), !.known = Plus(Lens(running), n),
                                  !.rows = IF ~cfg.shared THEN @ ELSE IF feeds THEN next ELSE rows]
  BY <1>7
<1>11. /\ states'[K].graph = st.graph
       /\ states'[K] = [st EXCEPT !.lens = Plus(Lens(running), n), !.known = Plus(Lens(running), n),
                                  !.rows = states'[K].rows]
       /\ cfg.shared /\ feeds => states'[K].rows = next
  BY <1>10 DEF Steady
<1>12. Overlay(next) = [i \in 1..MaxBatch |-> IF i \in DOMAIN running THEN next[i] ELSE buf[i]]
  BY <1>6 DEF Good, Types, Overlay
<1>13. buf = [i \in 1..MaxBatch |-> buf[i]] /\ DOMAIN running \subseteq 1..MaxBatch
  <2>1. Len(running) \in Nat /\ Len(running) <= MaxBatch /\ DOMAIN running = 1..Len(running)
    BY <1>1, BatchFacts
  <2>2. MaxBatch \in Nat
    BY DecodeGraphAssumption
  <2>. QED BY <2>1, <2>2 DEF Good, Types
<1>14. buf' = buf \/ buf' = Overlay(next)
  BY <1>7, <1>9
<1>15. buf' = [i \in 1..MaxBatch |-> buf'[i]]
  BY <1>12, <1>13, <1>14
<1>16. (IF feeds THEN ~cfg.shared ELSE left > n) => buf' = Overlay(next)
  BY <1>7, <1>9
<1>17. (IF feeds THEN ~cfg.shared ELSE left > n) => \A i \in DOMAIN running :
         buf'[i] = Row(Token(running[i], kv[running[i]] + n), kv[running[i]] + n)
  BY <1>6, <1>12, <1>13, <1>16
<1>18. cfg.shared /\ feeds =>
         /\ DOMAIN states'[K].rows = DOMAIN running
         /\ \A i \in DOMAIN running : states'[K].rows[i] =
               Row(Token(running[i], kv[running[i]] + n), kv[running[i]] + n)
  BY <1>6, <1>11
<1>19. /\ burst' = burst \o toks
       /\ left' = left - n
       /\ seqLen' = Advanced(seqLen, running, n) /\ kv' = Advanced(kv, running, n)
       /\ started' = IF feeds THEN started \cup {K} ELSE started
  BY <1>7
<1>. QED BY <1>4, <1>10, <1>11, <1>15, <1>17, <1>18, <1>19 DEF Outcome, K

LEMMA StepKeeps ==
    ASSUME LoopBoundsSuffice, cfg \in Configs, Good, NEW st, Steady(st), NEW n, NEW feeds,
           StepsOf(st, n, feeds)
    PROVE  Good'
<1>0. PICK K : K = Key(running)
  OBVIOUS
<1>. DEFINE base(s) == prompt[s] + Len(text[s]) - 1
<1>1. /\ pc = "decode" /\ n \in Nat /\ 1 <= n /\ n <= left /\ (n > 1 => cfg.stable)
      /\ feeds \in BOOLEAN /\ (feeds => cfg.feedback /\ st.graph # None) /\ (~feeds => K \notin started)
      /\ failed' \subseteq failed \cup {K} /\ (K \in failed' => st.graph = None)
      /\ UNCHANGED <<cfg, requests, blocks, changed, pc, resumed>>
  BY <1>0 DEF StepsOf
<1>2. UNCHANGED <<cfg, calls, stops, prompt, waiting, running, text, blocks, changed, pc, resumed>>
  BY <1>1 DEF requests
<1>3. PICK toks : Outcome(st, n, feeds, toks)
  BY StepFacts
<1>4. /\ burst' = burst \o toks
      /\ toks \in Seq([DOMAIN running -> Ids \X Nat]) /\ Len(toks) = n
      /\ \A j \in 1..n : \A i \in DOMAIN running :
           toks[j][i] = Token(running[i], kv[running[i]] + j)
      /\ left' = left - n
      /\ seqLen' = Advanced(seqLen, running, n) /\ kv' = Advanced(kv, running, n)
      /\ started' = IF feeds THEN started \cup {K} ELSE started
      /\ DOMAIN states' = DOMAIN states \cup {K}
      /\ \A k \in DOMAIN states : k # K => states'[k] = states[k]
      /\ states'[K].graph = st.graph
      /\ states'[K] = [st EXCEPT !.lens = Plus(Lens(running), n), !.known = Plus(Lens(running), n),
                                 !.rows = states'[K].rows]
      /\ cfg.shared /\ feeds =>
           /\ DOMAIN states'[K].rows = DOMAIN running
           /\ \A i \in DOMAIN running : states'[K].rows[i] =
                 Row(Token(running[i], kv[running[i]] + n), kv[running[i]] + n)
      /\ buf' = [i \in 1..MaxBatch |-> buf'[i]]
      /\ (IF feeds THEN ~cfg.shared ELSE left > n) => \A i \in DOMAIN running :
            buf'[i] = Row(Token(running[i], kv[running[i]] + n), kv[running[i]] + n)
  BY <1>0, <1>3 DEF Outcome
<1>5. /\ running # <<>> /\ ~changed /\ left \in Nat
      /\ burst \in Seq([DOMAIN running -> Ids \X Nat]) /\ Len(burst) \in Nat
      /\ BurstRight
      /\ \A s \in ToSet(running) : InBurst(s)
  BY <1>1 DEF Good, Dispatched
<1>6. \A s \in ToSet(running) :
        /\ s \in Ids /\ prompt[s] \in Nat /\ Len(text[s]) \in Nat /\ base(s) \in Nat
        /\ kv[s] \in Nat /\ seqLen[s] = kv[s]
        /\ kv[s] = base(s) + Len(burst)
        /\ kv'[s] = kv[s] + n /\ seqLen'[s] = kv'[s]
        /\ Len(text[s]) + Len(burst) + left <= MaxNew
        /\ Len(blocks[s]) = Need(s) /\ Need(s) \in Nat
  <2>. TAKE s \in ToSet(running)
  <2>1. /\ s \in Ids /\ prompt[s] \in Nat /\ prompt[s] >= 1 /\ Len(text[s]) \in Nat
        /\ kv[s] \in Nat /\ seqLen[s] = kv[s]
        /\ kv[s] = base(s) + Len(burst)
        /\ Len(blocks[s]) = Need(s) /\ Need(s) \in Nat
    BY <1>1, BatchFacts DEF Ahead
  <2>2. base(s) \in Nat
    BY <2>1
  <2>3. DOMAIN kv = Ids /\ DOMAIN seqLen = Ids
    BY DEF Good, Types
  <2>4. kv'[s] = kv[s] + n /\ seqLen'[s] = seqLen[s] + n
    BY <1>4, <2>1, <2>3 DEF Advanced
  <2>5. InBurst(s)
    BY <1>5
  <2>. QED BY <2>1, <2>2, <2>4, <2>5 DEF InBurst
<1>7. /\ DOMAIN running = 1..Len(running) /\ Len(running) \in Nat
      /\ \A i \in DOMAIN running : running[i] \in ToSet(running)
  BY <1>1, BatchFacts
<1>8. seqLen' \in [Ids -> Nat] /\ kv' \in [Ids -> Nat]
  BY <1>1, <1>4 DEF Good, Types, Advanced
<1>9. Types'
  BY <1>2, <1>4, <1>8 DEF Good, Types, Ids, Right
<1>10. Queues'
  BY <1>2 DEF Good, Queues
<1>11. /\ Len(burst') = Len(burst) + n /\ burst' \in Seq([DOMAIN running -> Ids \X Nat])
       /\ \A j \in 1..Len(burst) : burst'[j] = burst[j]
       /\ \A j \in 1..n : burst'[Len(burst) + j] = toks[j]
  <2>0. PICK S : S = [DOMAIN running -> Ids \X Nat]
    OBVIOUS
  <2>1. /\ burst \in Seq(S) /\ toks \in Seq(S) /\ Len(toks) = n /\ burst' = burst \o toks
    BY <1>4, <1>5, <2>0
  <2>2. burst' \in Seq(S)
    BY <2>1
  <2>3. /\ Len(burst') = Len(burst) + Len(toks)
        /\ \A j \in 1..Len(burst) : burst'[j] = burst[j]
        /\ \A j \in 1..Len(toks) : burst'[Len(burst) + j] = toks[j]
    <3>1. burst \in Seq(S) /\ toks \in Seq(S)
      BY <2>1
    <3>2. PICK s, t : s = burst /\ t = toks
      OBVIOUS
    <3>3. s \in Seq(S) /\ t \in Seq(S)
      BY <3>1, <3>2
    <3>4. /\ Len(s \o t) = Len(s) + Len(t)
          /\ \A i \in 1..Len(s) : (s \o t)[i] = s[i]
          /\ \A i \in 1..Len(t) : (s \o t)[Len(s) + i] = t[i]
      BY ONLY <3>3, ConcatAt
    <3>. QED BY <2>1, <3>2, <3>4
  <2>. QED BY <2>0, <2>1, <2>2, <2>3
<1>12. ASSUME NEW s \in ToSet(running) PROVE InBatch(s)'
  <2>1. InBatch(s)
    BY <1>1 DEF Good
  <2>2. Ahead' = Len(burst) + n
    BY <1>1, <1>2, <1>11 DEF Ahead
  <2>3. kv'[s] = base(s) + (Len(burst) + n)
    <3>1. \A a, b, c \in Nat : (a + b) + c = a + (b + c)
      OBVIOUS
    <3>2. base(s) \in Nat /\ kv'[s] = (base(s) + Len(burst)) + n
      BY <1>6
    <3>. HIDE DEF base
    <3>. QED BY <1>1, <1>5, <3>1, <3>2
  <2>4. Need(s)' = Need(s)
    BY <1>2 DEF Need
  <2>. QED BY <1>2, <1>6, <2>1, <2>2, <2>3, <2>4 DEF InBatch
<1>13. BurstRight'
  <2>1. ASSUME NEW j \in 1..Len(burst'), NEW i \in DOMAIN running
        PROVE  burst'[j][i] = Token(running[i], base(running[i]) + j)
    <3>1. CASE j \in 1..Len(burst)
      <4>1. burst[j][i] = Token(running[i], base(running[i]) + j)
        BY <1>5, <3>1 DEF BurstRight
      <4>. QED BY <1>11, <3>1, <4>1
    <3>2. CASE j \notin 1..Len(burst)
      <4>1. j - Len(burst) \in 1..n /\ j = Len(burst) + (j - Len(burst))
        BY <1>1, <1>5, <1>11, <3>2
      <4>. DEFINE m == j - Len(burst)
      <4>2. burst'[j] = toks[m]
        BY <1>11, <4>1
      <4>3. toks[m][i] = Token(running[i], kv[running[i]] + m)
        BY <1>4, <4>1
      <4>4. kv[running[i]] + m = base(running[i]) + j
        <5>1. kv[running[i]] = base(running[i]) + Len(burst) /\ base(running[i]) \in Nat
          BY <1>6, <1>7
        <5>. HIDE DEF base
        <5>. QED BY <1>5, <4>1, <5>1
      <4>. QED BY <4>2, <4>3, <4>4
    <3>. QED BY <3>1, <3>2
  <2>2. DOMAIN burst' = 1..Len(burst')
    BY <1>11
  <2>. QED BY <1>2, <2>1, <2>2 DEF BurstRight
<1>14. Dispatched'
  <2>1. left' \in Nat /\ burst' # <<>>
    <3>1. left' \in Nat
      BY <1>1, <1>4, <1>5
    <3>2. Len(burst') # 0
      BY <1>1, <1>5, <1>11
    <3>. QED BY <3>1, <3>2
  <2>2. ASSUME NEW s \in ToSet(running) PROVE InBurst(s)'
    <3>1. Len(text[s]) + (Len(burst) + n) + (left - n) <= MaxNew
      <4>1. \A a, b, c, d, m \in Nat : c <= d /\ a + b + d <= m => a + (b + c) + (d - c) <= m
        OBVIOUS
      <4>2. Len(text[s]) \in Nat /\ Len(text[s]) + Len(burst) + left <= MaxNew /\ MaxNew \in Nat
        BY <1>6, DecodeGraphAssumption
      <4>. QED BY <1>1, <1>5, <4>1, <4>2
    <3>. QED BY <1>2, <1>4, <1>11, <3>1 DEF InBurst
  <2>. QED BY <1>2, <1>5, <1>11, <1>13, <2>1, <2>2 DEF Dispatched, Ids
<1>15. ASSUME NEW k \in DOMAIN states' PROVE StateOk(k)'
  <2>1. CASE k = K
    <3>. DEFINE after == states'[K]
    <3>1. /\ after = [seqs |-> running, layout |-> Layout(running),
                      lens |-> Plus(Lens(running), n), known |-> Plus(Lens(running), n),
                      graph |-> st.graph, rows |-> after.rows, unrolled |-> st.unrolled]
      BY <1>4 DEF Steady
    <3>2. st.graph # None => st.graph = Layout(running)
      BY DEF Steady
    <3>3. K \in failed' => st.graph = None
      BY <1>1
    <3>. HIDE DEF after
    <3>4. /\ after = [seqs |-> after.seqs, layout |-> after.layout, lens |-> after.lens,
                      known |-> after.known, graph |-> after.graph, rows |-> after.rows,
                      unrolled |-> after.unrolled]
          /\ after.lens = after.known
          /\ after.graph # None => after.graph = after.layout
          /\ K \in failed' => after.graph = None
      BY <3>1, <3>2, <3>3
    <3>. QED BY <2>1, <3>4 DEF StateOk, after
  <2>2. CASE k # K
    <3>1. k \in DOMAIN states /\ states'[k] = states[k]
      BY <1>4, <2>2
    <3>2. StateOk(k) /\ (k \in failed' => k \in failed)
      BY <1>1, <2>2, <3>1 DEF Good
    <3>. QED BY <3>1, <3>2 DEF StateOk
  <2>. QED BY <2>1, <2>2

<1>16. PICK L : /\ L = Key(running)'
                /\ K[1] = Len(running) /\ L[1] = Len(running) /\ K[3] \in Nat /\ L[3] \in Nat
                /\ K[3] <= L[3] /\ (L[3] = K[3] => L = K)
                /\ cfg.stable => L = K
  <2>1. PICK L : L = Key(running)'
    OBVIOUS
  <2>2. K = KeyWith(blocks, seqLen, cfg.stable, running)
    BY <1>0, KeyIsWith
  <2>3. L = KeyWith(blocks, seqLen', cfg.stable, running)
    BY <1>2, <2>1, KeyIsWithNext
  <2>4. running \in Seq(Ids) /\ cfg.stable \in BOOLEAN
    BY SettingsAre DEF Good, Types
  <2>5. \A s \in ToSet(running) : /\ Len(blocks[s]) \in Nat /\ seqLen[s] \in Nat
                                  /\ seqLen'[s] \in Nat /\ seqLen[s] <= seqLen'[s]
    BY <1>1, <1>6
  <2>6. K[1] = Len(running) /\ K[3] \in Nat
    BY <1>5, <2>2, <2>4, <2>5, KeyIs
  <2>7. L[1] = Len(running) /\ L[3] \in Nat
    BY <1>5, <2>3, <2>4, <2>5, KeyIs
  <2>8. K[3] <= L[3] /\ (L[3] = K[3] => L = K) /\ (cfg.stable => L = K)
    BY <1>5, <2>2, <2>3, <2>4, <2>5, KeyGrows
  <2>. QED BY <2>1, <2>6, <2>7, <2>8
<1>17. K \in started' => feeds
  BY <1>1, <1>4
<1>18. ASSUME K \in started', L = K PROVE Intact(K)'
  <2>1. feeds /\ st.graph # None
    BY <1>1, <1>17, <1>18
  <2>2. /\ K \in DOMAIN states' /\ states'[K].graph # None
    BY <1>4, <2>1
  <2>3. /\ states'[K].seqs = running /\ states'[K].layout = Layout(running)
        /\ states'[K].known = Plus(Lens(running), n)
    BY <1>4 DEF Steady
  <2>4. Layout(running)' = Layout(running)
    BY <1>2 DEF Layout
  <2>5. Lens(running)' = Plus(Lens(running), n)
    BY <1>2, <1>6, <1>7 DEF Lens, Plus
  <2>6. cfg.shared => /\ DOMAIN states'[K].rows = DOMAIN running
                      /\ \A i \in DOMAIN running : states'[K].rows[i] =
                           Row(Token(running[i], kv'[running[i]]), kv'[running[i]])
    BY <1>4, <1>6, <1>7, <2>1
  <2>7. K = Key(running)' /\ DOMAIN running' = DOMAIN running
    BY <1>2, <1>16, <1>18
  <2>8. cfg'.shared => /\ DOMAIN states'[K].rows = DOMAIN running'
                       /\ \A i \in DOMAIN running' : states'[K].rows[i] =
                            Row(Token(running'[i], kv'[running'[i]]), kv'[running'[i]])
    BY <1>2, <2>6
  <2>9. /\ states'[K].seqs = running' /\ states'[K].layout = Layout(running)'
        /\ states'[K].known = Lens(running)'
    BY <1>2, <2>3, <2>4, <2>5
  <2>. QED BY <2>2, <2>7, <2>8, <2>9, Zenon DEF Intact, RowsRight
<1>19. Going
  BY <1>1, <1>5 DEF Going
<1>20. ASSUME NEW k \in started, k # K
       PROVE  /\ cfg.feedback /\ k[1] \in 1..Len(running) /\ k[3] \in Nat
              /\ k[1] < Len(running) \/ k[3] < K[3]
  <2>1. /\ cfg.feedback /\ k[1] \in 1..Len(running) /\ LoopOf(k) \in Nat
        /\ Past(k) \/ Intact(k)
    BY <1>19 DEF Good, Chains
  <2>2. Past(k)
    BY <1>0, <1>20, <2>1 DEF Intact
  <2>. QED BY <1>0, <2>1, <2>2 DEF Past, LoopOf
<1>21. Chains'
  <2>. SUFFICES ASSUME NEW k \in started'
                PROVE  /\ cfg.feedback /\ k[1] \in 1..Len(running) /\ LoopOf(k) \in Nat
                       /\ Past(k)' \/ Intact(k)'
    BY <1>2 DEF Chains
  <2>1. Past(k)' <=> k[1] < Len(running) \/ k[3] < L[3]
    BY <1>2, <1>16 DEF Past, LoopOf
  <2>2. CASE k = K
    <3>1. cfg.feedback
      BY <1>1, <1>17, <2>2
    <3>2. K[1] \in 1..Len(running)
      BY <1>5, <1>7, <1>16
    <3>3. K[3] < L[3] \/ L = K
      BY <1>16
    <3>4. Past(k)' \/ Intact(k)'
      <4>1. CASE K[3] < L[3]
        BY <2>1, <2>2, <4>1
      <4>2. CASE L = K
        <5>1. K \in started'
          BY <2>2
        <5>2. Intact(K)'
          BY <1>18, <4>2, <5>1
        <5>. QED BY <2>2, <5>2
      <4>. QED BY <3>3, <4>1, <4>2
    <3>5. K[3] \in Nat
      BY <1>16
    <3>. QED BY <2>2, <3>1, <3>2, <3>4, <3>5 DEF LoopOf
  <2>3. CASE k # K
    <3>1. k \in started
      BY <1>4, <2>3
    <3>2. /\ cfg.feedback /\ k[1] \in 1..Len(running) /\ k[3] \in Nat
          /\ k[1] < Len(running) \/ k[3] < K[3]
      BY <1>20, <2>3, <3>1
    <3>3. k[3] < K[3] => k[3] < L[3]
      BY <1>16, <3>2
    <3>. QED BY <2>1, <3>2, <3>3 DEF LoopOf
  <2>. QED BY <2>2, <2>3
<1>22. (IF feeds THEN ~cfg.shared ELSE left > n) => RowsRight(buf)'
  BY <1>2, <1>4, <1>6, <1>7 DEF RowsRight
<1>23. Staged'
  <2>1. ASSUME left' > 0, ~(cfg.shared /\ L \in started') PROVE RowsRight(buf)'
    <3>1. CASE feeds
      <4>1. cfg.shared => cfg.stable
        BY <1>1, <3>1 DEF LoopBoundsSuffice
      <4>2. cfg.shared => L \in started'
        BY <1>4, <1>16, <3>1, <4>1
      <4>. QED BY <1>22, <2>1, <3>1, <4>2
    <3>2. CASE ~feeds
      <4>1. left > n
        BY <1>1, <1>4, <1>5, <2>1
      <4>. QED BY <1>22, <3>2, <4>1
    <3>. QED BY <3>1, <3>2
  <2>2. ASSUME ~cfg.shared, L \in started' PROVE RowsRight(buf)'
    <3>1. CASE feeds
      BY <1>22, <2>2, <3>1
    <3>2. CASE ~feeds
      <4>1. L \in started /\ L # K
        BY <1>1, <1>4, <2>2, <3>2
      <4>2. L[1] < Len(running) \/ L[3] < K[3]
        BY <1>20, <4>1
      <4>. QED BY <1>7, <1>16, <4>2
    <3>. QED BY <3>1, <3>2
  <2>. QED BY <1>2, <1>16, <2>1, <2>2 DEF Staged
<1>24. \A s \in ToSet(running') : InBatch(s)'
  BY <1>2, <1>12
<1>. QED BY <1>9, <1>10, <1>14, <1>15, <1>21, <1>23, <1>24 DEF Good

-------------------------------------------------------------------------------
(* The decode actions. *)

IsState(st) ==
    st = [seqs |-> st.seqs, layout |-> st.layout, lens |-> st.lens, known |-> st.known,
          graph |-> st.graph, rows |-> st.rows, unrolled |-> st.unrolled]

LEMMA PreparedIs ==
    ASSUME NEW old, IsState(old), old.lens = old.known, NEW ss
    PROVE  LET st == Prepared(old, ss)
           IN /\ IsState(st) /\ st.seqs = ss /\ st.layout = Layout(ss)
              /\ st.known = Lens(ss) /\ st.lens = Lens(ss) /\ st.rows = old.rows
              /\ st.graph = IF Rebound(old, ss) THEN None ELSE old.graph
<1>. DEFINE same == old.seqs = ss /\ old.layout = Layout(ss) /\ old.known = Lens(ss)
            st == Prepared(old, ss)
            lens == IF same THEN old.lens ELSE Lens(ss)
            graph == IF Rebound(old, ss) THEN None ELSE old.graph
            unrolled == IF Rebound(old, ss) THEN <<>> ELSE old.unrolled
<1>1. lens = Lens(ss)
  OBVIOUS
<1>2. old = [seqs |-> old.seqs, layout |-> old.layout, lens |-> old.lens, known |-> old.known,
             graph |-> old.graph, rows |-> old.rows, unrolled |-> old.unrolled]
  BY DEF IsState
<1>3. st = [old EXCEPT !.seqs = ss, !.layout = Layout(ss), !.known = Lens(ss),
                       !.lens = lens, !.graph = graph, !.unrolled = unrolled]
  BY Zenon DEF Prepared
<1>. HIDE DEF st, lens, graph, unrolled
<1>4. st = [seqs |-> ss, layout |-> Layout(ss), lens |-> lens, known |-> Lens(ss),
            graph |-> graph, rows |-> old.rows, unrolled |-> unrolled]
  BY <1>2, <1>3
<1>5. /\ IsState(st) /\ st.seqs = ss /\ st.layout = Layout(ss)
      /\ st.known = Lens(ss) /\ st.lens = Lens(ss) /\ st.rows = old.rows
      /\ st.graph = graph
  BY <1>1, <1>4 DEF IsState
<1>. QED BY <1>5 DEF st, graph

LEMMA StateIs ==
    ASSUME Good, NEW k
    PROVE  /\ IsState(State(k)) /\ State(k).lens = State(k).known
           /\ State(k).graph # None => k \in DOMAIN states /\ State(k).graph = State(k).layout
           /\ k \in DOMAIN states => State(k) = states[k]
           /\ k \in failed => State(k).graph = None
<1>1. CASE k \in DOMAIN states
  <2>1. State(k) = states[k]
    BY <1>1 DEF State
  <2>2. StateOk(k)
    BY <1>1 DEF Good
  <2>. QED BY <1>1, <2>1, <2>2 DEF StateOk, IsState
<1>2. CASE k \notin DOMAIN states
  <2>1. State(k) = Fresh
    BY <1>2 DEF State
  <2>. QED BY <1>2, <2>1 DEF Fresh, IsState, None
<1>. QED BY <1>1, <1>2

LEMMA NowIs ==
    ASSUME cfg \in Configs, Good, pc = "decode", NEW K, K = Key(running)
    PROVE  /\ Steady(Now(K)) /\ Layout(running) # None
           /\ Now(K).graph # None => Now(K).graph = Layout(running)
           /\ K \in started => Now(K).graph # None
           /\ K \in failed => Now(K).graph = None
<1>. DEFINE old == State(K)
            st == Now(K)
<1>1. /\ IsState(old) /\ old.lens = old.known
      /\ old.graph # None => K \in DOMAIN states /\ old.graph = old.layout
      /\ K \in DOMAIN states => old = states[K]
      /\ K \in failed => old.graph = None
  BY StateIs
<1>2. /\ IsState(st) /\ st.seqs = running /\ st.layout = Layout(running)
      /\ st.lens = Lens(running) /\ st.rows = old.rows
      /\ st.graph = IF Rebound(old, running) THEN None ELSE old.graph
  BY <1>1, PreparedIs DEF Now
<1>. HIDE DEF old, st
<1>3. st.graph # None => st.graph = Layout(running)
  BY <1>1, <1>2 DEF Rebound
<1>4. K \in failed => st.graph = None
  BY <1>1, <1>2
<1>5. running # <<>> /\ Going
  BY DEF Good, Dispatched, Going
<1>6. Layout(running) # None
  <2>1. running \in Seq(Ids) /\ Len(running) \in Nat /\ Len(running) # 0
    BY <1>5 DEF Good, Types
  <2>2. DOMAIN Layout(running) = 1..Len(running) /\ 1 \in 1..Len(running)
    BY <2>1 DEF Layout
  <2>3. DOMAIN None = {}
    BY DEF None
  <2>. QED BY <2>2, <2>3
<1>7. ASSUME K \in started PROVE st.graph # None /\ st.rows = states[K].rows
  <2>1. Intact(K)
    BY <1>5, <1>7, OwnChain
  <2>2. K \in DOMAIN states /\ states[K].graph # None /\ states[K].layout = Layout(running)
    BY <2>1 DEF Intact
  <2>3. old = states[K]
    BY <1>1, <2>2
  <2>. QED BY <1>2, <2>2, <2>3 DEF Rebound
<1>8. Steady(st)
  BY <1>2, <1>3, <1>7 DEF Steady, IsState
<1>. QED BY <1>3, <1>4, <1>6, <1>7, <1>8 DEF st

LEMMA AbandonKeeps ==
    ASSUME Good, Abandoned, UNCHANGED <<cfg, calls>>, \A k \in DOMAIN states' : StateOk(k)'
    PROVE  Good'
<1>1. /\ blocks' = [s \in DOMAIN blocks |-> <<>>]
      /\ running' = <<>> /\ waiting' = <<>> /\ pc' = "idle"
      /\ UNCHANGED <<cfg, calls, stops, prompt, text, seqLen, kv, changed, resumed, buf>>
  BY DEF Abandoned
<1>2. /\ calls \in Nat
      /\ prompt \in [Ids -> PromptLens]
      /\ text = [s \in Ids |-> Right(s, Len(text[s]))] /\ \A s \in Ids : Len(text[s]) \in Nat
      /\ blocks = [s \in Ids |-> blocks[s]]
      /\ seqLen \in [Ids -> Nat] /\ kv \in [Ids -> Nat]
      /\ buf = [i \in 1..MaxBatch |-> buf[i]]
  BY DEF Good, Types
<1>3. blocks' = [s \in Ids |-> blocks'[s]]
  BY <1>1, <1>2
<1>4. Types'
  BY <1>1, <1>2, <1>3 DEF Types, Ids, Right
<1>5. ToSet(<<>>) = {} /\ IsInjective(<<>>) /\ Len(<<>>) = 0
  BY DEF ToSet, IsInjective
<1>6. Queues'
  BY <1>1, <1>5, DecodeGraphAssumption DEF Queues
<1>7. Dispatched' /\ Chains' /\ Staged' /\ (pc' # "idle" => \A s \in ToSet(running') : InBatch(s)')
  BY <1>1 DEF Dispatched, Chains, Staged, Going
<1>. QED BY <1>4, <1>6, <1>7 DEF Good

\* A step with the state of the key as it is now, which no chain of the batch is
\* waiting for: its inputs are the common ones.
LEMMA QuietStep ==
    ASSUME LoopBoundsSuffice, cfg \in Configs, Good, ShapeStep, NEW K, K = Key(running),
           Now(K).graph = None,
           Stepped(K, Now(K), running, Layout(running), 1, FALSE),
           failed' \subseteq failed \cup {K}, StepFrame
    PROVE  Good'
<1>1. pc = "decode" /\ left > 0 /\ left \in Nat
  BY DEF ShapeStep, Good, Dispatched
<1>2. Steady(Now(K)) /\ K \notin started
  BY <1>1, NowIs
<1>3. StepsOf(Now(K), 1, FALSE)
  <2>1. Stepped(Key(running), Now(K), running, Layout(running), 1, FALSE)
    OBVIOUS
  <2>2. UNCHANGED <<cfg, requests, blocks, changed, pc, resumed>>
    BY DEF StepFrame
  <2>3. 1 \in Nat /\ 1 <= 1 /\ 1 <= left /\ ~(1 > 1)
    BY <1>1
  <2>4. Key(running) \notin started /\ failed' \subseteq failed \cup {Key(running)}
    BY <1>2
  <2>. QED BY <1>1, <2>1, <2>2, <2>3, <2>4, Zenon DEF StepsOf
<1>. QED BY <1>2, <1>3, StepKeeps

LEMMA EagerAfterFailureKeeps ==
    ASSUME LoopBoundsSuffice, cfg \in Configs, Good, EagerAfterFailure PROVE Good'
<1>1. PICK K : K = Key(running)
  OBVIOUS
<1>2. /\ ShapeStep /\ K \in failed /\ failed' = failed /\ StepFrame
      /\ Stepped(K, Now(K), running, Layout(running), 1, FALSE)
  BY <1>1 DEF EagerAfterFailure
<1>3. pc = "decode"
  BY <1>2 DEF ShapeStep
<1>4. Now(K).graph = None
  BY <1>1, <1>2, <1>3, NowIs
<1>. QED BY <1>1, <1>2, <1>4, QuietStep

LEMMA WarmUpKeeps ==
    ASSUME LoopBoundsSuffice, cfg \in Configs, Good, WarmUp PROVE Good'
<1>1. PICK K : K = Key(running)
  OBVIOUS
<1>2. /\ ShapeStep /\ failed' = failed /\ StepFrame /\ Now(K).graph = None
      /\ Stepped(K, Now(K), running, Layout(running), 1, FALSE)
  BY <1>1 DEF WarmUp
<1>. QED BY <1>1, <1>2, QuietStep

LEMMA ReplayKeeps ==
    ASSUME LoopBoundsSuffice, cfg \in Configs, Good, Replay PROVE Good'
<1>1. PICK K : K = Key(running)
  OBVIOUS
<1>2. /\ ShapeStep /\ K \notin failed /\ failed' = failed /\ StepFrame /\ Now(K).graph # None
      /\ Stepped(K, Now(K), running, Now(K).graph, 1, cfg.feedback)
  BY <1>1 DEF Replay
<1>3. pc = "decode" /\ left > 0 /\ left \in Nat
  BY <1>2 DEF ShapeStep, Good, Dispatched
<1>4. Steady(Now(K)) /\ Now(K).graph = Layout(running)
  BY <1>1, <1>2, <1>3, NowIs
<1>5. cfg.feedback \in BOOLEAN /\ (K \in started => cfg.feedback)
  <2>1. Going
    BY <1>3 DEF Good, Dispatched, Going
  <2>. QED BY <1>1, <2>1, OwnChain, SettingsAre
<1>6. StepsOf(Now(K), 1, cfg.feedback)
  BY <1>1, <1>2, <1>3, <1>4, <1>5 DEF StepsOf, StepFrame
<1>. QED BY <1>4, <1>6, StepKeeps

LEMMA CaptureKeeps ==
    ASSUME LoopBoundsSuffice, cfg \in Configs, Good, Capture PROVE Good'
<1>1. PICK K : K = Key(running)
  OBVIOUS
<1>. DEFINE rows == SubSeq(buf, 1, Len(running))
            st == [Now(K) EXCEPT !.graph = Layout(running), !.rows = rows]
<1>2. /\ ShapeStep /\ K \notin failed /\ failed' = failed /\ StepFrame /\ Now(K).graph = None
      /\ Stepped(K, st, running, Layout(running), 1, cfg.feedback)
  BY <1>1 DEF Capture
<1>3. pc = "decode" /\ left > 0 /\ left \in Nat
  BY <1>2 DEF ShapeStep, Good, Dispatched
<1>4. Steady(Now(K)) /\ Layout(running) # None /\ K \notin started
  BY <1>1, <1>2, <1>3, NowIs
<1>. HIDE DEF rows
<1>5. Steady(st) /\ st.graph # None
  <2>1. PICK now : now = Now(K)
    OBVIOUS
  <2>2. /\ now = [seqs |-> now.seqs, layout |-> now.layout, lens |-> now.lens, known |-> now.known,
                  graph |-> now.graph, rows |-> now.rows, unrolled |-> now.unrolled]
        /\ now.seqs = running /\ now.layout = Layout(running) /\ now.lens = Lens(running)
    BY <1>4, <2>1 DEF Steady
  <2>3. st = [now EXCEPT !.graph = Layout(running), !.rows = rows]
    BY <2>1
  <2>. HIDE DEF st
  <2>4. st = [seqs |-> running, layout |-> Layout(running), lens |-> Lens(running),
              known |-> now.known, graph |-> Layout(running), rows |-> rows,
              unrolled |-> now.unrolled]
    BY <2>2, <2>3
  <2>. QED BY <1>1, <1>4, <2>4 DEF Steady
<1>6. cfg.feedback \in BOOLEAN
  BY SettingsAre
<1>. HIDE DEF st
<1>7. StepsOf(st, 1, cfg.feedback)
  <2>1. Stepped(Key(running), st, running, Layout(running), 1, cfg.feedback)
    BY <1>1, <1>2
  <2>2. UNCHANGED <<cfg, requests, blocks, changed, pc, resumed>>
    BY <1>2 DEF StepFrame
  <2>3. 1 \in Nat /\ 1 <= 1 /\ 1 <= left /\ ~(1 > 1)
    BY <1>3
  <2>4. /\ Key(running) \notin started /\ failed' \subseteq failed \cup {Key(running)}
        /\ Key(running) \notin failed'
    BY <1>1, <1>2, <1>4
  <2>. QED BY <1>3, <1>5, <1>6, <2>1, <2>2, <2>3, <2>4, Zenon DEF StepsOf
<1>. QED BY <1>5, <1>7, StepKeeps

LEMMA CaptureFailsKeeps ==
    ASSUME LoopBoundsSuffice, cfg \in Configs, Good, CaptureFails PROVE Good'
<1>1. PICK K : K = Key(running)
  OBVIOUS
<1>2. /\ ShapeStep /\ failed' = failed \cup {K} /\ Now(K).graph = None
      /\ IF cfg.strict
         THEN /\ Abandoned
              /\ states' = [k \in DOMAIN states \cup {K} |-> IF k = K THEN Now(K) ELSE states[k]]
              /\ UNCHANGED started
         ELSE Stepped(K, Now(K), running, Layout(running), 1, FALSE) /\ StepFrame
  BY <1>1 DEF CaptureFails
<1>3. CASE ~cfg.strict
  BY <1>1, <1>2, <1>3, QuietStep
<1>4. CASE cfg.strict
  <2>1. pc = "decode"
    BY <1>2 DEF ShapeStep
  <2>2. Steady(Now(K))
    BY <1>1, <2>1, NowIs
  <2>3. UNCHANGED <<cfg, calls>>
    BY <1>2, <1>4 DEF Abandoned
  <2>4. ASSUME NEW k \in DOMAIN states' PROVE StateOk(k)'
    <3>1. CASE k = K
      <4>1. states'[K] = Now(K) /\ Now(K).lens = Now(K).known
        <5>1. IsState(State(K)) /\ State(K).lens = State(K).known
          BY StateIs
        <5>2. Now(K).lens = Now(K).known
          BY <5>1, PreparedIs DEF Now
        <5>. QED BY <1>2, <1>4, <5>2
      <4>. QED BY <1>2, <2>2, <3>1, <4>1 DEF StateOk, Steady
    <3>2. CASE k # K
      <4>1. k \in DOMAIN states /\ states'[k] = states[k] /\ (k \in failed' => k \in failed)
        BY <1>2, <1>4, <3>2
      <4>2. StateOk(k)
        BY <4>1 DEF Good
      <4>. QED BY <4>1, <4>2 DEF StateOk
    <3>. QED BY <3>1, <3>2
  <2>. QED BY <1>2, <1>4, <2>3, <2>4, AbandonKeeps
<1>. QED BY <1>3, <1>4

\* A burst that resumes finds its chain as it left it.
LEMMA ResumedIs ==
    ASSUME cfg \in Configs, Good, WholeBurst, NEW K, K = Key(running)
    PROVE  /\ pc = "decode" /\ left \in Nat /\ 1 <= left
           /\ K \in started /\ cfg.feedback /\ K \in DOMAIN states
           /\ IsState(states[K]) /\ states[K].seqs = running
           /\ states[K].layout = Layout(running) /\ states[K].lens = Lens(running)
           /\ states[K].graph = Layout(running) /\ states[K].graph # None
           /\ K \notin failed
<1>1. /\ pc = "decode" /\ left \in Nat /\ 1 <= left /\ K \in started
  BY DEF Good, Dispatched, WholeBurst
<1>2. Going
  BY <1>1 DEF Good, Dispatched, Going
<1>3. Intact(K) /\ cfg.feedback
  BY <1>1, <1>2, OwnChain
<1>4. StateOk(K)
  BY <1>3 DEF Good, Intact
<1>. QED BY <1>1, <1>3, <1>4 DEF Intact, StateOk, IsState

LEMMA NativeBurstKeeps ==
    ASSUME LoopBoundsSuffice, cfg \in Configs, Good, NativeBurst PROVE Good'
<1>1. PICK K : K = Key(running)
  OBVIOUS
<1>. DEFINE st == states[K]
<1>2. /\ WholeBurst /\ cfg.native /\ failed' = failed /\ StepFrame
      /\ Stepped(K, st, running, st.graph, left, TRUE)
  BY <1>1 DEF NativeBurst
<1>3. /\ pc = "decode" /\ left \in Nat /\ 1 <= left
      /\ K \in started /\ cfg.feedback
      /\ IsState(st) /\ st.seqs = running /\ st.layout = Layout(running) /\ st.lens = Lens(running)
      /\ st.graph = Layout(running) /\ st.graph # None /\ K \notin failed
  BY <1>1, <1>2, ResumedIs
<1>4. cfg.stable
  BY <1>2 DEF LoopBoundsSuffice
<1>5. Steady(st)
  BY <1>1, <1>3 DEF Steady, IsState
<1>6. StepsOf(st, left, TRUE)
  <2>1. Stepped(Key(running), st, running, Layout(running), left, TRUE)
    BY <1>1, <1>2, <1>3
  <2>2. UNCHANGED <<cfg, requests, blocks, changed, pc, resumed>>
    BY <1>2 DEF StepFrame
  <2>3. left <= left
    BY <1>3
  <2>4. failed' \subseteq failed \cup {Key(running)} /\ Key(running) \notin failed'
    BY <1>1, <1>2, <1>3
  <2>. QED BY <1>3, <1>4, <2>1, <2>2, <2>3, <2>4, Zenon DEF StepsOf
<1>. QED BY <1>5, <1>6, StepKeeps

LEMMA UnrolledBurstKeeps ==
    ASSUME LoopBoundsSuffice, cfg \in Configs, Good, UnrolledBurst PROVE Good'
<1>1. PICK K : K = Key(running)
  OBVIOUS
<1>. DEFINE old == states[K]
            graphs_(n) == IF n = left THEN <<running, old.layout>> ELSE old.unrolled[n]
            more == [n \in DOMAIN old.unrolled \cup {left} |-> graphs_(n)]
            st == [old EXCEPT !.unrolled = more]
<1>2. /\ WholeBurst /\ cfg.unrolled /\ failed' = failed /\ StepFrame
      /\ Stepped(K, st, running, old.layout, left, TRUE)
  BY <1>1 DEF UnrolledBurst
<1>3. /\ pc = "decode" /\ left \in Nat /\ 1 <= left
      /\ K \in started /\ cfg.feedback
      /\ IsState(old) /\ old.seqs = running /\ old.layout = Layout(running)
      /\ old.lens = Lens(running)
      /\ old.graph = Layout(running) /\ old.graph # None /\ K \notin failed
  BY <1>1, <1>2, ResumedIs
<1>4. cfg.stable
  BY <1>2 DEF LoopBoundsSuffice
<1>. HIDE DEF more
<1>5. Steady(st) /\ st.graph # None
  BY <1>1, <1>3 DEF Steady, IsState
<1>. HIDE DEF st
<1>6. StepsOf(st, left, TRUE)
  <2>1. Stepped(Key(running), st, running, Layout(running), left, TRUE)
    BY <1>1, <1>2, <1>3
  <2>2. UNCHANGED <<cfg, requests, blocks, changed, pc, resumed>>
    BY <1>2 DEF StepFrame
  <2>3. left <= left
    BY <1>3
  <2>4. failed' \subseteq failed \cup {Key(running)} /\ Key(running) \notin failed'
    BY <1>1, <1>2, <1>3
  <2>. QED BY <1>3, <1>4, <1>5, <2>1, <2>2, <2>3, <2>4, Zenon DEF StepsOf
<1>. QED BY <1>5, <1>6, StepKeeps

LEMMA UnrolledRefusedKeeps ==
    ASSUME cfg \in Configs, Good, UnrolledRefused PROVE Good'
<1>1. Abandoned /\ UNCHANGED <<states, failed>>
  BY DEF UnrolledRefused
<1>2. UNCHANGED <<cfg, calls>>
  BY <1>1 DEF Abandoned
<1>3. \A k \in DOMAIN states' : StateOk(k)'
  BY <1>1 DEF Good, StateOk
<1>. QED BY <1>1, <1>2, <1>3, AbandonKeeps

LEMMA DecodeKeeps ==
    ASSUME LoopBoundsSuffice, cfg \in Configs, cfg.shape, Good, Decode PROVE Good'
<1>1. ~LegacyStep
  BY DEF LegacyStep
<1>2. CASE UnrolledBurst
  BY <1>2, UnrolledBurstKeeps
<1>3. CASE UnrolledRefused
  BY <1>3, UnrolledRefusedKeeps
<1>4. CASE NativeBurst
  BY <1>4, NativeBurstKeeps
<1>5. CASE EagerAfterFailure
  BY <1>5, EagerAfterFailureKeeps
<1>6. CASE Replay
  BY <1>6, ReplayKeeps
<1>7. CASE WarmUp
  BY <1>7, WarmUpKeeps
<1>8. CASE Capture
  BY <1>8, CaptureKeeps
<1>9. CASE CaptureFails
  BY <1>9, CaptureFailsKeeps
<1>10. ~LegacyReplay /\ ~LegacyEager /\ ~LegacyCapture /\ ~LegacyCaptureFails
  BY <1>1 DEF LegacyReplay, LegacyEager, LegacyCapture, LegacyCaptureFails
<1>. QED BY <1>2, <1>3, <1>4, <1>5, <1>6, <1>7, <1>8, <1>9, <1>10 DEF Decode


-------------------------------------------------------------------------------
(* Calls, admission, dispatch and the end of requests. *)

LEMMA KeyFirst == Key(running)[1] = Len(running) /\ Key(running)'[1] = Len(running')
<1>1. \A a, b, c : <<a, b, c>>[1] = a
  OBVIOUS
<1>. QED BY <1>1 DEF Key

\* A step that leaves the batch and what it has alone leaves its key alone.
SameBatch ==
    /\ UNCHANGED <<cfg, running>>
    /\ \A s \in ToSet(running) : blocks'[s] = blocks[s] /\ seqLen'[s] = seqLen[s] /\ kv'[s] = kv[s]

LEMMA SameKey ==
    ASSUME SameBatch, running \in Seq(Ids)
    PROVE  /\ Key(running)' = Key(running)
           /\ Lens(running)' = Lens(running) /\ Layout(running)' = Layout(running)
           /\ \A i \in DOMAIN running : kv'[running[i]] = kv[running[i]]
<1>1. \A i \in DOMAIN running : running[i] \in ToSet(running)
  BY DEF ToSet
<1>2. Lens(running)' = Lens(running) /\ Layout(running)' = Layout(running)
  BY <1>1 DEF Lens, Layout, SameBatch
<1>3. /\ {Len(blocks'[s]) : s \in ToSet(running)} = {Len(blocks[s]) : s \in ToSet(running)}
      /\ {seqLen'[s] : s \in ToSet(running)} = {seqLen[s] : s \in ToSet(running)}
  BY DEF SameBatch
<1>4. KeyWith(blocks', seqLen', cfg.stable, running) = KeyWith(blocks, seqLen, cfg.stable, running)
  BY <1>3 DEF KeyWith
<1>. QED BY <1>1, <1>2, <1>4, KeyIsWith, KeyIsWithNext DEF SameBatch

LEMMA ChainsStay ==
    ASSUME Good, Going, SameBatch, states' = states, started' \subseteq started
    PROVE  Chains'
<1>1. PICK K : K = Key(running)
  OBVIOUS
<1>2. /\ Key(running)' = K /\ UNCHANGED <<cfg, running>>
      /\ Lens(running)' = Lens(running) /\ Layout(running)' = Layout(running)
      /\ \A i \in DOMAIN running : kv'[running[i]] = kv[running[i]]
  BY <1>1, SameKey DEF Good, Types, SameBatch
<1>3. ASSUME NEW k \in started'
      PROVE  /\ cfg.feedback /\ k[1] \in 1..Len(running) /\ LoopOf(k) \in Nat
             /\ Past(k)' \/ Intact(k)'
  <2>1. /\ cfg.feedback /\ k[1] \in 1..Len(running) /\ LoopOf(k) \in Nat
        /\ Past(k) \/ Intact(k)
    BY <1>3 DEF Good, Chains
  <2>2. CASE Past(k)
    BY <1>1, <1>2, <2>1, <2>2 DEF Past, LoopOf
  <2>3. CASE Intact(k)
    <3>1. /\ k = K /\ k \in DOMAIN states /\ states[k].graph # None
          /\ states[k].seqs = running /\ states[k].layout = Layout(running)
          /\ states[k].known = Lens(running)
          /\ cfg.shared => DOMAIN states[k].rows = DOMAIN running /\ RowsRight(states[k].rows)
      BY <1>1, <2>3 DEF Intact
    <3>2. cfg.shared => RowsRight(states[k].rows)'
      BY <1>2, <3>1 DEF RowsRight
    <3>3. Intact(k)'
      BY <1>2, <3>1, <3>2 DEF Intact
    <3>. QED BY <2>1, <3>3
  <2>. QED BY <2>1, <2>2, <2>3
<1>. QED BY <1>2, <1>3 DEF Chains

LEMMA RowsStay ==
    ASSUME Good, SameBatch, RowsRight(buf), buf' = buf
    PROVE  RowsRight(buf)'
<1>1. /\ UNCHANGED <<cfg, running>>
      /\ \A i \in DOMAIN running : kv'[running[i]] = kv[running[i]]
  BY SameKey DEF Good, Types, SameBatch
<1>. QED BY <1>1 DEF RowsRight

LEMMA StatesStay ==
    ASSUME Good, states' = states, failed' = failed
    PROVE  \A k \in DOMAIN states' : StateOk(k)'
BY DEF Good, StateOk

LEMMA InitGood ==
    ASSUME Init PROVE Good
<1>1. /\ calls = 0 /\ prompt = <<>> /\ waiting = <<>> /\ running = <<>> /\ text = <<>>
      /\ blocks = <<>> /\ seqLen = <<>> /\ kv = <<>> /\ changed = TRUE /\ pc = "idle"
      /\ buf = [i \in 1..MaxBatch |-> Row(Junk, 0)] /\ states = <<>>
  BY DEF Init
<1>2. DOMAIN <<>> = {} /\ Len(<<>>) = 0 /\ ToSet(<<>>) = {} /\ IsInjective(<<>>)
  BY DEF ToSet, IsInjective
<1>3. \A F, S : /\ <<>> = [s \in {} |-> F[s]] /\ <<>> \in [{} -> S]
  OBVIOUS
<1>4. Ids = {}
  BY <1>1, <1>2 DEF Ids
<1>5. Types
  <2>1. text = [s \in Ids |-> Right(s, Len(text[s]))] /\ blocks = [s \in Ids |-> blocks[s]]
    BY <1>1, <1>4
  <2>2. /\ prompt \in [Ids -> PromptLens] /\ seqLen \in [Ids -> Nat] /\ kv \in [Ids -> Nat]
    BY <1>1, <1>3, <1>4
  <2>3. buf = [i \in 1..MaxBatch |-> buf[i]] /\ waiting \in Seq(Ids) /\ running \in Seq(Ids)
    BY <1>1
  <2>. QED BY <1>1, <1>4, <2>1, <2>2, <2>3 DEF Types
<1>6. Queues
  BY <1>1, <1>2, DecodeGraphAssumption DEF Queues
<1>7. Dispatched /\ Chains /\ Staged /\ \A k \in DOMAIN states : StateOk(k)
  BY <1>1, <1>2 DEF Dispatched, Chains, Staged, Going
<1>. QED BY <1>1, <1>5, <1>6, <1>7 DEF Good

LEMMA StartCallKeeps ==
    ASSUME Good, StartCall PROVE Good'
<1>1. /\ pc = "idle" /\ calls \in Nat /\ calls < Len(Calls) /\ calls' = calls + 1
      /\ running = <<>> /\ running' = running /\ buf' = buf
      /\ changed' = TRUE /\ started' = {} /\ pc' = "step"
  BY DEF StartCall, Good, Types, Queues
<1>2. PICK n : n = Calls[calls']
  OBVIOUS
<1>3. n \in Nat
  BY <1>1, <1>2, DecodeGraphAssumption
<1>4. /\ prompt' \in [1..n -> PromptLens]
      /\ waiting' = [i \in 1..n |-> i]
      /\ text' = [s \in 1..n |-> <<>>]
      /\ blocks' = [s \in 1..n |-> <<>>]
      /\ seqLen' = [s \in 1..n |-> 0]
      /\ kv' = [s \in 1..n |-> 0]
  BY <1>2 DEF StartCall
<1>5. Ids' = 1..n
  BY <1>4 DEF Ids
<1>6. Types'
  <2>1. \A s \in 1..n : text'[s] = <<>> /\ Len(text'[s]) = 0 /\ Right(s, 0)' = <<>>
    BY <1>4 DEF Right
  <2>2. text' = [s \in Ids' |-> Right(s, Len(text[s]))'] /\ \A s \in Ids' : Len(text'[s]) \in Nat
    BY <1>4, <1>5, <2>1
  <2>3. waiting' \in Seq(Ids') /\ running' \in Seq(Ids')
    BY <1>1, <1>3, <1>4, <1>5
  <2>4. buf' = [i \in 1..MaxBatch |-> buf'[i]]
    BY <1>1 DEF Good, Types
  <2>5. blocks' = [s \in Ids' |-> blocks'[s]] /\ seqLen' \in [Ids' -> Nat] /\ kv' \in [Ids' -> Nat]
    BY <1>4, <1>5
  <2>6. calls' \in Nat
    BY <1>1
  <2>. QED BY <1>1, <1>4, <1>5, <2>2, <2>3, <2>4, <2>5, <2>6 DEF Types
<1>7. Queues'
  <2>1. IsInjective(waiting')
    BY <1>4 DEF IsInjective
  <2>2. Len(<<>>) = 0 /\ ToSet(<<>>) = {} /\ IsInjective(<<>>)
    BY DEF ToSet, IsInjective
  <2>. QED BY <1>1, <2>1, <2>2, DecodeGraphAssumption DEF Queues
<1>8. ASSUME NEW k \in DOMAIN states' PROVE StateOk(k)'
  <2>1. \/ states' = states /\ failed' = failed
        \/ states' = <<>>
    BY DEF StartCall
  <2>2. k \notin DOMAIN <<>>
    OBVIOUS
  <2>. QED BY <1>8, <2>1, <2>2, StatesStay
<1>9. Dispatched' /\ Chains' /\ Staged'
  BY <1>1 DEF Dispatched, Chains, Staged, Going
<1>10. \A s \in ToSet(running') : InBatch(s)'
  BY <1>1 DEF ToSet
<1>. QED BY <1>6, <1>7, <1>8, <1>9, <1>10 DEF Good

LEMMA EndCallKeeps ==
    ASSUME Good, EndCall PROVE Good'
<1>1. /\ running' = <<>> /\ waiting' = <<>> /\ pc' = "idle"
      /\ prompt' = <<>> /\ text' = <<>> /\ blocks' = <<>> /\ seqLen' = <<>> /\ kv' = <<>>
      /\ UNCHANGED <<calls, buf, states, failed>>
  BY DEF EndCall, graphs
<1>2. DOMAIN <<>> = {} /\ Len(<<>>) = 0 /\ ToSet(<<>>) = {} /\ IsInjective(<<>>)
  BY DEF ToSet, IsInjective
<1>3. \A F, S : /\ <<>> = [s \in {} |-> F[s]] /\ <<>> \in [{} -> S]
  OBVIOUS
<1>4. Ids' = {}
  BY <1>1, <1>2 DEF Ids
<1>5. Types'
  <2>1. /\ text' = [s \in Ids' |-> Right(s, Len(text[s]))']
        /\ blocks' = [s \in Ids' |-> blocks'[s]]
    BY <1>1, <1>4
  <2>2. prompt' \in [Ids' -> PromptLens] /\ seqLen' \in [Ids' -> Nat] /\ kv' \in [Ids' -> Nat]
    BY <1>1, <1>3, <1>4
  <2>3. waiting' \in Seq(Ids') /\ running' \in Seq(Ids')
    BY <1>1
  <2>4. buf' = [i \in 1..MaxBatch |-> buf'[i]] /\ calls' \in Nat
    BY <1>1 DEF Good, Types
  <2>. QED BY <1>1, <1>4, <2>1, <2>2, <2>3, <2>4 DEF Types
<1>6. Queues'
  BY <1>1, <1>2, DecodeGraphAssumption DEF Queues
<1>7. Dispatched' /\ Chains' /\ Staged'
  BY <1>1 DEF Dispatched, Chains, Staged, Going
<1>8. \A k \in DOMAIN states' : StateOk(k)'
  BY <1>1, StatesStay
<1>. QED BY <1>1, <1>5, <1>6, <1>7, <1>8 DEF Good

LEMMA NothingToDecodeKeeps ==
    ASSUME Good, NothingToDecode PROVE Good'
<1>1. /\ pc = "admitted" /\ pc' = "step" /\ running = <<>>
      /\ UNCHANGED <<cfg, calls, stops, prompt, waiting, running, text, blocks, seqLen, kv,
                     changed, left, burst, resumed, buf, states, failed, started>>
  BY DEF NothingToDecode, requests, pool, graphs
<1>2. Types' /\ Queues'
  BY <1>1 DEF Good, Types, Queues, Ids, Right
<1>3. Dispatched' /\ \A k \in DOMAIN states' : StateOk(k)'
  BY <1>1, StatesStay DEF Dispatched
<1>4. \A s \in ToSet(running') : InBatch(s)'
  BY <1>1 DEF ToSet
<1>5. SameBatch
  BY <1>1 DEF SameBatch
<1>6. Chains'
  <2>1. CASE Going
    BY <1>1, <1>5, <2>1, ChainsStay
  <2>2. CASE ~Going
    BY <1>1, <2>2 DEF Going, Chains
  <2>. QED BY <2>1, <2>2
<1>7. Staged'
  BY <1>1 DEF Staged
<1>. QED BY <1>2, <1>3, <1>4, <1>6, <1>7 DEF Good

\* A dispatch has at least one step and no more than every request has room for.
LEMMA StepsFit ==
    ASSUME Good, pc # "idle", running # <<>>
    PROVE  Steps \in Nat /\ Steps >= 1 /\ \A s \in ToSet(running) : Len(text[s]) + Steps <= MaxNew
<1>. DEFINE rooms == {MaxNew - Len(text[s]) : s \in ToSet(running)}
<1>1. /\ MaxNew \in Nat /\ Burst \in Nat
      /\ \A s \in ToSet(running) : /\ Len(text[s]) \in Nat /\ Len(text[s]) <= MaxNew - 1
                                   /\ MaxNew - Len(text[s]) \in Nat
  <2>1. MaxNew \in Nat /\ Burst \in Nat
    BY DecodeGraphAssumption
  <2>2. \A s \in ToSet(running) : Len(text[s]) \in Nat /\ Len(text[s]) <= MaxNew - 1
    BY BatchFacts
  <2>. QED BY <2>1, <2>2
<1>2. rooms \in SUBSET Nat /\ rooms # {}
  <2>1. running \in Seq(Ids) /\ Len(running) \in Nat /\ Len(running) # 0
    BY DEF Good, Types
  <2>2. running[1] \in ToSet(running)
    BY <2>1 DEF ToSet
  <2>. QED BY <1>1, <2>2
<1>3. Room \in Nat /\ \A s \in ToSet(running) : Room <= MaxNew - Len(text[s])
  <2>1. \A s \in ToSet(running) : MaxNew - Len(text[s]) \in rooms
    OBVIOUS
  <2>2. Room = Min(rooms)
    BY DEF Room
  <2>. HIDE DEF rooms
  <2>3. Room \in rooms /\ \A x \in rooms : Room <= x
    BY <1>2, <2>2, MinIs
  <2>. QED BY <1>2, <2>1, <2>3
<1>4. CASE Steps = 1
  BY <1>1, <1>4
<1>5. CASE Steps # 1
  <2>1. Steps = Min({Burst, Room}) /\ Room > 1 /\ Burst > 1
    BY <1>5 DEF Steps
  <2>2. {Burst, Room} \in SUBSET Nat /\ {Burst, Room} # {}
    BY <1>1, <1>3
  <2>3. Steps \in {Burst, Room} /\ Steps <= Room
    BY <2>1, <2>2, MinIs
  <2>4. Steps \in Nat /\ Steps >= 1
    BY <1>1, <1>3, <2>1, <2>3
  <2>5. \A s \in ToSet(running) : Len(text[s]) + Steps <= MaxNew
    <3>1. \A a, m, r, n \in Nat : r <= m - a /\ n <= r => a + n <= m
      OBVIOUS
    <3>. QED BY <1>1, <1>3, <2>3, <2>4, <3>1
  <2>. QED BY <2>4, <2>5
<1>. QED BY <1>4, <1>5

LEMMA BeginDecodeKeeps ==
    ASSUME cfg \in Configs, Good, BeginDecode PROVE Good'
<1>1. /\ pc \in {"step", "admitted"} /\ pc' = "decode" /\ running # <<>>
      /\ left' = Steps /\ burst' = <<>> /\ changed' = FALSE
      /\ started' = StartedNow
      /\ resumed' = (Steps > 1 /\ ChainReady(running))
      /\ buf' = IF resumed' THEN buf
                ELSE Overlay([i \in DOMAIN running |-> Row(Last1(running[i]), Current(running[i]) - 1)])
      /\ UNCHANGED <<cfg, calls, stops, prompt, waiting, running, text, blocks, seqLen, kv,
                     states, failed>>
  BY DEF BeginDecode, requests, pool
<1>2. PICK K : K = Key(running)
  OBVIOUS
<1>3. SameBatch
  BY <1>1 DEF SameBatch
<1>4. Key(running)' = K
  BY <1>2, <1>3, SameKey DEF Good, Types
<1>5. StartedNow \subseteq started /\ (StartedNow # {} => ~changed)
  BY DEF StartedNow
<1>6. Steps \in Nat /\ Steps >= 1 /\ \A s \in ToSet(running) : Len(text[s]) + Steps <= MaxNew
  BY <1>1, StepsFit
<1>7. /\ Len(running) \in Nat /\ Len(running) <= MaxBatch /\ DOMAIN running = 1..Len(running)
      /\ \A i \in DOMAIN running : running[i] \in ToSet(running)
      /\ \A s \in ToSet(running) :
           /\ s \in Ids /\ prompt[s] \in Nat /\ Len(text[s]) \in Nat /\ 1 <= Len(text[s])
           /\ kv[s] = prompt[s] + Len(text[s]) - 1
  <2>1. Ahead = 0
    BY <1>1 DEF Ahead
  <2>2. \A s \in ToSet(running) : /\ s \in Ids /\ prompt[s] \in Nat
                                  /\ Len(text[s]) \in Nat /\ 1 <= Len(text[s])
                                  /\ kv[s] = prompt[s] + Len(text[s]) - 1 + Ahead
    BY <1>1, BatchFacts
  <2>3. \A s \in ToSet(running) : kv[s] = prompt[s] + Len(text[s]) - 1
    BY <2>1, <2>2
  <2>4. /\ Len(running) \in Nat /\ Len(running) <= MaxBatch /\ DOMAIN running = 1..Len(running)
        /\ \A i \in DOMAIN running : running[i] \in ToSet(running)
    BY <1>1, BatchFacts
  <2>. QED BY <2>2, <2>3, <2>4
<1>8. buf = [i \in 1..MaxBatch |-> buf[i]]
  BY DEF Good, Types
<1>9. /\ buf' = [i \in 1..MaxBatch |-> buf'[i]]
      /\ ~resumed' => RowsRight(buf)'
  <2>1. CASE resumed'
    BY <1>1, <1>8, <2>1
  <2>2. CASE ~resumed'
    <3>. DEFINE rows == [i \in DOMAIN running |-> Row(Last1(running[i]), Current(running[i]) - 1)]
    <3>1. buf' = [i \in 1..MaxBatch |-> IF i \in DOMAIN rows THEN rows[i] ELSE buf[i]]
      BY <1>1, <1>8, <2>2 DEF Overlay
    <3>2. ASSUME NEW i \in DOMAIN running
          PROVE  rows[i] = Row(Token(running[i], kv[running[i]]), kv[running[i]])
      <4>. DEFINE s == running[i]
      <4>1. s \in Ids /\ prompt[s] \in Nat /\ Len(text[s]) \in Nat /\ 1 <= Len(text[s])
            /\ kv[s] = prompt[s] + Len(text[s]) - 1
        BY <1>7
      <4>2. text[s] = Right(s, Len(text[s]))
        BY <4>1 DEF Good, Types
      <4>3. Last1(s) = Token(s, prompt[s] + Len(text[s]) - 1)
        <5>1. Len(text[s]) \in 1..Len(text[s])
          BY <4>1
        <5>. QED BY <4>2, <5>1 DEF Last1, Right
      <4>4. Current(s) - 1 = kv[s]
        BY <4>1 DEF Current
      <4>. QED BY <4>1, <4>3, <4>4
    <3>3. DOMAIN rows = DOMAIN running /\ \A i \in DOMAIN running : i \in 1..MaxBatch
      BY <1>7, DecodeGraphAssumption
    <3>. HIDE DEF rows
    <3>4. \A i \in DOMAIN running :
            buf'[i] = Row(Token(running[i], kv[running[i]]), kv[running[i]])
      BY <3>1, <3>2, <3>3
    <3>5. buf' = [i \in 1..MaxBatch |-> buf'[i]]
      BY <3>1
    <3>. QED BY <1>1, <3>4, <3>5 DEF RowsRight
  <2>. QED BY <2>1, <2>2
<1>10. resumed' => K \in started' /\ K \in started /\ ~changed
  BY <1>1, <1>2, <1>5 DEF ChainReady
<1>11. Types'
  BY <1>1, <1>9 DEF Good, Types, Ids, Right
<1>12. Queues'
  BY <1>1 DEF Good, Queues
<1>13. ASSUME NEW s \in ToSet(running') PROVE InBatch(s)'
  <2>1. InBatch(s)
    BY <1>1, <1>13 DEF Good
  <2>2. Ahead = 0 /\ Ahead' = 0
    BY <1>1 DEF Ahead
  <2>3. Need(s)' = Need(s)
    BY <1>1 DEF Need
  <2>. QED BY <1>1, <2>1, <2>2, <2>3 DEF InBatch
<1>14. Dispatched'
  <2>1. left' \in Nat /\ left' > 0
    BY <1>1, <1>6
  <2>2. burst' \in Seq([DOMAIN running' -> Ids' \X Nat]) /\ DOMAIN burst' = {} /\ Len(burst') = 0
    BY <1>1
  <2>3. BurstRight'
    BY <2>2 DEF BurstRight
  <2>4. \A s \in ToSet(running') : InBurst(s)'
    BY <1>1, <1>6, <1>7, <2>2 DEF InBurst
  <2>5. resumed' => Key(running)' \in started'
    BY <1>4, <1>10
  <2>. QED BY <1>1, <2>1, <2>2, <2>3, <2>4, <2>5, Zenon DEF Dispatched
<1>15. \A k \in DOMAIN states' : StateOk(k)'
  BY <1>1, StatesStay
<1>16. Chains'
  <2>1. CASE changed
    BY <1>1, <2>1 DEF StartedNow, Chains
  <2>2. CASE ~changed
    <3>1. Going
      BY <1>1, <2>2 DEF Going
    <3>. QED BY <1>1, <1>3, <1>5, <3>1, ChainsStay
  <2>. QED BY <2>1, <2>2
<1>17. Staged'
  <2>1. ASSUME ~cfg.shared \/ K \notin started' PROVE RowsRight(buf)'
    <3>1. CASE ~resumed'
      BY <1>9, <3>1
    <3>2. CASE resumed'
      <4>1. ~cfg.shared /\ K \in started /\ ~changed
        BY <1>10, <2>1, <3>2
      <4>2. RowsRight(buf)
        BY <1>1, <1>2, <4>1 DEF Good, Staged, Going
      <4>3. buf' = buf
        BY <1>1, <3>2
      <4>. QED BY <1>3, <4>2, <4>3, RowsStay
    <3>. QED BY <3>1, <3>2
  <2>. QED BY <1>1, <1>4, <2>1 DEF Staged
<1>. QED BY <1>11, <1>12, <1>13, <1>14, <1>15, <1>16, <1>17 DEF Good

LEMMA CollectKeeps ==
    ASSUME cfg \in Configs, Good, Collect PROVE Good'
<1>. DEFINE at(s) == CHOOSE i \in DOMAIN running : running[i] = s
            more(s) == [j \in DOMAIN burst |-> burst[j][at(s)]]
<1>1. PICK over : /\ over \subseteq ToSet(running)
                  /\ \A s \in ToSet(running) \ over : ~(Len(text'[s]) >= MaxNew)
                  /\ text' = [s \in DOMAIN text |-> IF s \in ToSet(running)
                                                    THEN text[s] \o more(s) ELSE text[s]]
                  /\ running' = Staying(running, over)
                  /\ blocks' = Without(blocks, over)
                  /\ changed' = (changed \/ over # {})
  <2>1. PICK stopped \in SUBSET {s \in ToSet(running) : stops} :
          LET grown == [s \in DOMAIN text |->
                         IF s \in ToSet(running) THEN text[s] \o more(s) ELSE text[s]]
              over == {s \in ToSet(running) : s \in stopped \/ Len(grown[s]) >= MaxNew}
         IN /\ text' = grown
            /\ running' = Staying(running, over)
            /\ blocks' = Without(blocks, over)
            /\ changed' = (changed \/ over # {})
    BY Zenon DEF Collect
  <2>2. PICK gone : gone = {s \in ToSet(running) : s \in stopped \/ Len(text'[s]) >= MaxNew}
    OBVIOUS
  <2>3. text' = [s \in DOMAIN text |-> IF s \in ToSet(running)
                                      THEN text[s] \o more(s) ELSE text[s]]
    BY <2>1, Zenon
  <2>4. /\ running' = Staying(running, gone)
        /\ blocks' = Without(blocks, gone)
        /\ changed' = (changed \/ gone # {})
    BY <2>1, <2>2, <2>3, Zenon
  <2>5. /\ gone \subseteq ToSet(running)
        /\ \A s \in ToSet(running) \ gone : ~(Len(text'[s]) >= MaxNew)
    BY <2>2
  <2>. QED BY <2>3, <2>4, <2>5, Zenon
<1>. HIDE DEF more
<1>2. /\ pc = "decode" /\ left = 0 /\ pc' = "step" /\ burst' = <<>>
      /\ UNCHANGED <<cfg, calls, stops, prompt, waiting, seqLen, kv, buf, states, failed, started>>
  BY DEF Collect
<1>3. /\ running \in Seq(Ids) /\ Len(running) <= MaxBatch /\ Len(running) \in Nat
      /\ IsInjective(running) /\ waiting \in Seq(Ids)
      /\ ~changed /\ running # <<>> /\ BurstRight
      /\ burst \in Seq([DOMAIN running -> Ids \X Nat])
  BY <1>2 DEF Good, Types, Queues, Dispatched
<1>4. Going
  BY <1>2, <1>3 DEF Going
<1>5. /\ running' \in Seq(Ids) /\ ToSet(running') = ToSet(running) \ over
      /\ Len(running') <= Len(running) /\ IsInjective(running') /\ Len(running') \in Nat
      /\ over = {} => running' = running
  <2>1. /\ running' \in Seq(Ids) /\ ToSet(running') = ToSet(running) \ over
        /\ Len(running') <= Len(running) /\ IsInjective(running')
        /\ over = {} => running' = running
    BY <1>1, <1>3, StayingIs
  <2>. QED BY <2>1
<1>6. \A s \in ToSet(running) :
        /\ s \in Ids /\ text[s] = Right(s, Len(text[s])) /\ Len(text[s]) \in Nat
        /\ 1 <= Len(text[s]) /\ prompt[s] \in Nat
        /\ kv[s] = prompt[s] + Len(text[s]) - 1 + Len(burst) /\ seqLen[s] = kv[s]
        /\ Len(blocks[s]) = Need(s)
  <2>. TAKE s \in ToSet(running)
  <2>1. /\ s \in Ids /\ Len(text[s]) \in Nat /\ 1 <= Len(text[s]) /\ prompt[s] \in Nat
        /\ kv[s] = prompt[s] + Len(text[s]) - 1 + Len(burst) /\ seqLen[s] = kv[s]
        /\ Len(blocks[s]) = Need(s)
    BY <1>2, BatchFacts DEF Ahead
  <2>2. text[s] = Right(s, Len(text[s]))
    BY <2>1 DEF Good, Types
  <2>. QED BY <2>1, <2>2
<1>7. Len(burst) \in Nat /\ DOMAIN burst = 1..Len(burst)
  BY <1>3
<1>8. \A s \in ToSet(running) :
        text[s] \o more(s) = Right(s, Len(text[s]) + Len(burst))
  <2>. TAKE s \in ToSet(running)
  <2>1. PICK a \in Nat, b \in Nat, p \in Nat : a = Len(text[s]) /\ b = Len(burst) /\ p = prompt[s]
    BY <1>6, <1>7
  <2>2. at(s) \in DOMAIN running /\ running[at(s)] = s
    <3>1. \E i \in DOMAIN running : running[i] = s
      BY DEF ToSet
    <3>. QED BY <3>1
  <2>. HIDE DEF at
  <2>3. text[s] = [j \in 1..a |-> Token(s, p + j - 1)]
    BY <1>6, <2>1 DEF Right
  <2>4. more(s) = [j \in 1..b |-> Token(s, p + a - 1 + j)]
    <3>1. \A j \in 1..b : burst[j][at(s)] = Token(s, p + a - 1 + j)
      BY <1>3, <1>7, <2>1, <2>2 DEF BurstRight
    <3>. QED BY <1>7, <2>1, <3>1 DEF more
  <2>5. PICK t, m : t = text[s] /\ m = more(s)
    OBVIOUS
  <2>6. t \o m = [j \in 1..(a + b) |-> Token(s, p + j - 1)]
    <3>. DEFINE tok(j) == Token(s, p + j - 1)
    <3>1. t = [j \in 1..a |-> tok(j)]
      BY <2>3, <2>5
    <3>2. m = [j \in 1..b |-> tok(a + j)]
      <4>1. \A j \in 1..b : p + a - 1 + j = p + (a + j) - 1
        OBVIOUS
      <4>. QED BY <2>4, <2>5, <4>1
    <3>. HIDE DEF tok
    <3>3. t \o m = [j \in 1..(a + b) |-> tok(j)]
      <4>. DEFINE S == {tok(j) : j \in 1..(a + b)}
      <4>1. /\ \A j \in 1..a : tok(j) \in S
            /\ \A j \in 1..b : tok(a + j) \in S
        OBVIOUS
      <4>. HIDE DEF S
      <4>2. t \in Seq(S) /\ m \in Seq(S) /\ Len(t) = a /\ Len(m) = b
        BY <3>1, <3>2, <4>1
      <4>3. /\ t \o m \in Seq(S) /\ Len(t \o m) = a + b
            /\ \A j \in 1..a : (t \o m)[j] = t[j]
            /\ \A j \in 1..b : (t \o m)[a + j] = m[j]
        <5>1. t \o m \in Seq(S)
          BY <4>2
        <5>2. t \in Seq(S) /\ m \in Seq(S)
          BY <4>2
        <5>3. /\ Len(t \o m) = Len(t) + Len(m)
              /\ \A j \in 1..Len(t) : (t \o m)[j] = t[j]
              /\ \A j \in 1..Len(m) : (t \o m)[Len(t) + j] = m[j]
          BY ONLY <5>2, ConcatAt
        <5>. QED BY <4>2, <5>1, <5>3
      <4>4. \A j \in 1..(a + b) : (t \o m)[j] = tok(j)
        <5>. TAKE j \in 1..(a + b)
        <5>1. CASE j \in 1..a
          BY <3>1, <4>3, <5>1
        <5>2. CASE j \notin 1..a
          <6>1. j - a \in 1..b /\ j = a + (j - a)
            BY <5>2
          <6>2. PICK i \in 1..b : j = a + i
            BY <6>1
          <6>. QED BY <3>2, <4>3, <6>2
        <5>. QED BY <5>1, <5>2
      <4>5. PICK u : u = t \o m
        OBVIOUS
      <4>6. u \in Seq(S) /\ Len(u) = a + b /\ a + b \in Nat
        BY <4>3, <4>5
      <4>7. u = [j \in 1..(a + b) |-> u[j]]
        BY <4>6
      <4>8. \A j \in 1..(a + b) : u[j] = tok(j)
        BY <4>4, <4>5
      <4>9. u = [j \in 1..(a + b) |-> tok(j)]
        BY <4>7, <4>8
      <4>. QED BY <4>5, <4>9
    <3>. QED BY <3>3 DEF tok
  <2>. QED BY <2>1, <2>5, <2>6 DEF Right
<1>9. DOMAIN text = Ids /\ \A s \in Ids : text[s] = Right(s, Len(text[s])) /\ Len(text[s]) \in Nat
  BY DEF Good, Types
<1>10. \A s \in ToSet(running) : /\ text'[s] = Right(s, Len(text'[s]))
                                 /\ Len(text'[s]) = Len(text[s]) + Len(burst)
  <2>. TAKE s \in ToSet(running)
  <2>1. text'[s] = Right(s, Len(text[s]) + Len(burst))
    BY <1>1, <1>6, <1>8, <1>9
  <2>2. Len(text[s]) + Len(burst) \in Nat
    BY <1>6, <1>7
  <2>3. \A n \in Nat : Len(Right(s, n)) = n
    BY DEF Right
  <2>. QED BY <2>1, <2>2, <2>3
<1>11. Types'
  <2>1. ASSUME NEW s \in Ids PROVE text'[s] = Right(s, Len(text'[s])) /\ Len(text'[s]) \in Nat
    <3>1. CASE s \in ToSet(running)
      BY <1>6, <1>7, <1>10, <3>1
    <3>2. CASE s \notin ToSet(running)
      BY <1>1, <1>9, <2>1, <3>2
    <3>. QED BY <3>1, <3>2
  <2>2. Ids' = Ids /\ \A s, n : Right(s, n)' = Right(s, n)
    BY <1>2 DEF Ids, Right
  <2>3. DOMAIN text' = Ids /\ text' = [s \in Ids |-> text'[s]]
    BY <1>1, <1>9
  <2>4. text' = [s \in Ids' |-> Right(s, Len(text[s]))']
    BY <1>2, <2>1, <2>2, <2>3 DEF Right
  <2>5. blocks' = [s \in Ids |-> blocks'[s]]
    <3>1. DOMAIN blocks = Ids
      BY DEF Good, Types
    <3>. QED BY <1>1, <3>1 DEF Without
  <2>. QED BY <1>2, <1>5, <2>1, <2>2, <2>4, <2>5 DEF Good, Types
<1>12. Queues'
  <2>1. MaxBatch \in Nat
    BY DecodeGraphAssumption
  <2>. QED BY <1>2, <1>3, <1>5, <2>1 DEF Good, Queues
<1>13. ASSUME NEW s \in ToSet(running') PROVE InBatch(s)'
  <2>1. s \in ToSet(running) /\ s \notin over
    BY <1>5, <1>13
  <2>2. Ahead' = 0
    BY <1>2 DEF Ahead
  <2>3. blocks'[s] = blocks[s]
    <3>1. DOMAIN blocks = Ids
      BY DEF Good, Types
    <3>. QED BY <1>1, <1>6, <2>1, <3>1 DEF Without
  <2>4. Need(s)' = Need(s)
    BY <1>2 DEF Need
  <2>5. Len(text'[s]) \in 1..(MaxNew - 1)
    <3>1. MaxNew \in Nat
      BY DecodeGraphAssumption
    <3>2. PICK a \in Nat, b \in Nat :
            a = Len(text[s]) /\ b = Len(burst) /\ 1 <= a /\ Len(text'[s]) = a + b
      BY <1>6, <1>7, <1>10, <2>1
    <3>3. ~(a + b >= MaxNew)
      BY <1>1, <2>1, <3>2
    <3>4. a + b \in 1..(MaxNew - 1)
      BY <3>1, <3>2, <3>3
    <3>. QED BY <3>2, <3>4
  <2>6. kv[s] = prompt[s] + Len(text'[s]) - 1 + 0
    <3>1. PICK a \in Nat, b \in Nat, p \in Nat :
            /\ a = Len(text[s]) /\ b = Len(burst) /\ p = prompt[s]
            /\ Len(text'[s]) = a + b /\ kv[s] = p + a - 1 + b
      BY <1>6, <1>7, <1>10, <2>1
    <3>2. p + a - 1 + b = p + (a + b) - 1 + 0
      OBVIOUS
    <3>. QED BY <3>1, <3>2
  <2>7. seqLen[s] = kv[s] /\ Len(blocks[s]) = Need(s)
    BY <1>6, <2>1
  <2>. QED BY <1>2, <2>2, <2>3, <2>4, <2>5, <2>6, <2>7 DEF InBatch
<1>14. Dispatched'
  BY <1>2 DEF Dispatched
<1>15. \A k \in DOMAIN states' : StateOk(k)'
  BY <1>2, StatesStay
<1>16. over = {} => SameBatch
  <2>1. DOMAIN blocks = Ids
    BY DEF Good, Types
  <2>. QED BY <1>1, <1>2, <1>5, <1>6, <2>1 DEF SameBatch, Without
<1>17. Chains'
  <2>1. CASE over = {}
    BY <1>2, <1>4, <1>16, <2>1, ChainsStay
  <2>2. CASE over # {}
    BY <1>1, <2>2 DEF Chains, Going
  <2>. QED BY <2>1, <2>2
<1>18. Staged'
  <2>1. ASSUME ~cfg.shared, Going', Key(running)' \in started' PROVE RowsRight(buf)'
    <3>1. over = {}
      BY <1>1, <2>1 DEF Going
    <3>2. Key(running)' = Key(running)
      BY <1>3, <1>16, <3>1, SameKey
    <3>3. RowsRight(buf)
      BY <1>2, <1>3, <1>4, <2>1, <3>2 DEF Good, Staged
    <3>. QED BY <1>2, <1>16, <3>1, <3>3, RowsStay
  <2>. QED BY <1>2, <2>1 DEF Staged
<1>. QED BY <1>11, <1>12, <1>13, <1>14, <1>15, <1>17, <1>18 DEF Good

\* How many requests a step admits: there is room for them in the batch.
LEMMA AdmittedFits ==
    ASSUME Good
    PROVE  /\ Admitted \in 0..Len(waiting)
           /\ Admitted > 0 => Admitted <= MaxBatch - Len(running)
<1>. DEFINE fits(n) == /\ n <= MaxBatch - Len(running)
                       /\ Claim(SubSeq(waiting, 1, n)) <= Len(free)
            S == {0} \cup {n \in 1..Len(waiting) : fits(n)}
<1>1. Len(waiting) \in Nat
  BY DEF Good, Types
<1>2. Admitted = Max(S)
  BY Zenon DEF Admitted
<1>3. S \in SUBSET Nat /\ S # {} /\ \A x \in S : x <= Len(waiting)
  <2>. HIDE DEF fits
  <2>. QED BY <1>1
<1>4. \A n \in S : n \in 0..Len(waiting) /\ (n > 0 => n <= MaxBatch - Len(running))
  <2>1. \A n \in S : n = 0 \/ (n \in 1..Len(waiting) /\ n <= MaxBatch - Len(running))
    OBVIOUS
  <2>. HIDE DEF S
  <2>2. ~(0 > 0) /\ 0 \in 0..Len(waiting) /\ \A n \in 1..Len(waiting) : n \in 0..Len(waiting)
    BY <1>1
  <2>. QED BY <2>1, <2>2
<1>. HIDE DEF S
<1>5. Max(S) \in S
  BY <1>1, <1>3, MaxIs
<1>. QED BY <1>2, <1>4, <1>5

\* The requests of a sequence of requests, cut in two.
LEMMA CutFacts ==
    ASSUME NEW S, NEW s \in Seq(S), NEW n \in 0..Len(s)
    PROVE  LET head == SubSeq(s, 1, n)
               tail == SubSeq(s, n + 1, Len(s))
           IN /\ head \in Seq(S) /\ Len(head) = n /\ tail \in Seq(S)
              /\ ToSet(head) \subseteq ToSet(s) /\ ToSet(tail) \subseteq ToSet(s)
              /\ \A i \in 1..n : head[i] \in ToSet(head)
              /\ IsInjective(s) => /\ IsInjective(head) /\ IsInjective(tail)
                                   /\ ToSet(head) \cap ToSet(tail) = {}
<1>. DEFINE m == Len(s)
            head == SubSeq(s, 1, n)
            tail == SubSeq(s, n + 1, m)
<1>1. m \in Nat /\ n \in Nat /\ n <= m /\ DOMAIN s = 1..m
  OBVIOUS
<1>2. /\ head \in Seq(S) /\ Len(head) = n /\ DOMAIN head = 1..n
      /\ \A i \in 1..n : head[i] = s[i]
  BY <1>1
<1>3. /\ tail \in Seq(S) /\ Len(tail) = m - n /\ DOMAIN tail = 1..(m - n)
      /\ \A i \in 1..(m - n) : tail[i] = s[n + i]
  <2>1. CASE n < m
    <3>1. \A i \in 1..(m - n) : (n + 1) + i - 1 = n + i /\ n + i \in 1..m
      BY <1>1
    <3>2. m - (n + 1) + 1 = m - n /\ n + 1 \in 1..m
      BY <1>1, <2>1
    <3>. QED BY <1>1, <2>1, <3>1, <3>2
  <2>2. CASE n = m
    <3>1. tail = <<>>
      BY <1>1, <2>2
    <3>2. m - n = 0
      BY <1>1, <2>2
    <3>. QED BY <3>1, <3>2
  <2>. QED BY <1>1, <2>1, <2>2
<1>4. \A i \in 1..(m - n) : n + i \in 1..m
  BY <1>1
<1>5. \A i \in 1..n : i \in 1..m
  BY <1>1
<1>. HIDE DEF head, tail, m
<1>6. /\ ToSet(head) = {s[i] : i \in 1..n} /\ ToSet(tail) = {s[n + i] : i \in 1..(m - n)}
      /\ ToSet(s) = {s[i] : i \in 1..m}
  <2>1. /\ ToSet(head) = {head[i] : i \in 1..n} /\ ToSet(tail) = {tail[i] : i \in 1..(m - n)}
        /\ ToSet(s) = {s[i] : i \in 1..m}
    BY <1>1, <1>2, <1>3, Zenon DEF ToSet
  <2>2. {head[i] : i \in 1..n} = {s[i] : i \in 1..n}
    BY <1>2
  <2>3. {tail[i] : i \in 1..(m - n)} = {s[n + i] : i \in 1..(m - n)}
    BY <1>3
  <2>. QED BY <2>1, <2>2, <2>3
<1>7. ToSet(head) \subseteq ToSet(s) /\ ToSet(tail) \subseteq ToSet(s)
  BY <1>4, <1>5, <1>6
<1>8. ASSUME IsInjective(s)
      PROVE  IsInjective(head) /\ IsInjective(tail) /\ ToSet(head) \cap ToSet(tail) = {}
  <2>1. \A i, j \in 1..m : s[i] = s[j] => i = j
    BY <1>1, <1>8 DEF IsInjective
  <2>2. IsInjective(head)
    BY <1>2, <1>5, <2>1 DEF IsInjective
  <2>3. IsInjective(tail)
    <3>1. ASSUME NEW i \in 1..(m - n), NEW j \in 1..(m - n), tail[i] = tail[j] PROVE i = j
      <4>1. n + i = n + j
        BY <1>3, <1>4, <2>1, <3>1
      <4>. QED BY <1>1, <4>1
    <3>. QED BY <1>3, <3>1 DEF IsInjective
  <2>4. \A i \in 1..n : \A j \in 1..(m - n) : s[i] # s[n + j]
    <3>1. \A i \in 1..n : \A j \in 1..(m - n) : i # n + j
      BY <1>1
    <3>. QED BY <1>4, <1>5, <2>1, <3>1
  <2>. QED BY <1>6, <2>2, <2>3, <2>4
<1>9. \A i \in 1..n : head[i] \in ToSet(head)
  BY <1>2 DEF ToSet
<1>. QED BY <1>2, <1>3, <1>7, <1>8, <1>9 DEF head, tail, m

LEMMA AdmitKeeps ==
    ASSUME cfg \in Configs, Good, Admit PROVE Good'
<1>. DEFINE new == SubSeq(waiting, 1, Admitted)
            rest == SubSeq(waiting, Admitted + 1, Len(waiting))
<1>1. /\ Admitted \in 0..Len(waiting) /\ Admitted > 0 /\ Admitted <= MaxBatch - Len(running)
  BY AdmittedFits DEF Admit
<1>2. PICK over : /\ over \subseteq ToSet(new)
                  /\ MaxNew = 1 => over = ToSet(new)
                  /\ blocks' = Without([s \in DOMAIN blocks |->
                                          IF s \in ToSet(new)
                                          THEN Popped(new)[CHOOSE i \in DOMAIN new : new[i] = s]
                                          ELSE blocks[s]], over)
                  /\ running' = running \o Staying(new, over)
  <2>1. PICK stopped \in SUBSET {i \in 1..Admitted : stops} :
          LET over == {new[i] : i \in IF MaxNew = 1 THEN DOMAIN new ELSE stopped}
          IN /\ blocks' = Without([s \in DOMAIN blocks |->
                                          IF s \in ToSet(new)
                                          THEN Popped(new)[CHOOSE i \in DOMAIN new : new[i] = s]
                                          ELSE blocks[s]], over)
             /\ running' = running \o Staying(new, over)
    BY Zenon DEF Admit
  <2>2. PICK gone : gone = {new[i] : i \in IF MaxNew = 1 THEN DOMAIN new ELSE stopped}
    OBVIOUS
  <2>3. gone \subseteq ToSet(new) /\ (MaxNew = 1 => gone = ToSet(new))
    <3>1. waiting \in Seq(Ids)
      BY DEF Good, Types
    <3>2. PICK t : t = new
      OBVIOUS
    <3>3. t \in Seq(Ids) /\ Len(t) = Admitted
      BY <1>1, <3>1, <3>2, CutFacts
    <3>4. DOMAIN t = 1..Admitted /\ stopped \subseteq 1..Admitted
      BY <3>3
    <3>5. gone = {t[i] : i \in IF MaxNew = 1 THEN DOMAIN t ELSE stopped}
      BY <2>2, <3>2
    <3>. QED BY <3>2, <3>4, <3>5 DEF ToSet
  <2>. QED BY <2>1, <2>2, <2>3, Zenon
<1>3. /\ text' = [s \in DOMAIN text |-> IF s \in ToSet(new) THEN <<Token(s, prompt[s])>> ELSE text[s]]
      /\ seqLen' = [s \in DOMAIN seqLen |-> IF s \in ToSet(new) THEN prompt[s] ELSE seqLen[s]]
      /\ kv' = [s \in DOMAIN kv |-> IF s \in ToSet(new) THEN prompt[s] ELSE kv[s]]
      /\ waiting' = rest /\ pc = "step" /\ pc' = "admitted"
      /\ UNCHANGED <<cfg, calls, prompt, changed, buf, states, failed, started>>
  BY Zenon DEF Admit
<1>4. /\ waiting \in Seq(Ids) /\ running \in Seq(Ids) /\ IsInjective(waiting) /\ IsInjective(running)
      /\ ToSet(waiting) \cap ToSet(running) = {} /\ Len(running) \in Nat
  BY DEF Good, Types, Queues
<1>5. /\ new \in Seq(Ids) /\ Len(new) = Admitted /\ IsInjective(new) /\ ToSet(new) \subseteq ToSet(waiting)
      /\ rest \in Seq(Ids) /\ IsInjective(rest) /\ ToSet(rest) \subseteq ToSet(waiting)
      /\ ToSet(new) \cap ToSet(rest) = {}
  BY <1>1, <1>4, CutFacts
<1>. HIDE DEF new, rest
<1>6. PICK kept : /\ kept = Staying(new, over) /\ kept \in Seq(Ids)
                  /\ ToSet(kept) = ToSet(new) \ over /\ Len(kept) <= Len(new) /\ IsInjective(kept)
  BY <1>5, StayingIs
<1>7. /\ running' = running \o kept /\ running' \in Seq(Ids)
      /\ ToSet(running') = ToSet(running) \cup ToSet(kept)
      /\ IsInjective(running')
      /\ Len(running') = Len(running) + Len(kept) /\ Len(kept) \in Nat
  <2>1. running' = running \o kept
    BY <1>2, <1>6
  <2>2. PICK r : r = running
    OBVIOUS
  <2>3. r \in Seq(Ids) /\ IsInjective(r) /\ ToSet(r) \cap ToSet(kept) = {}
    BY <1>4, <1>5, <1>6, <2>2
  <2>4. /\ r \o kept \in Seq(Ids) /\ ToSet(r \o kept) = ToSet(r) \cup ToSet(kept)
        /\ IsInjective(r \o kept)
    BY <1>6, <2>3, ConcatFacts
  <2>5. Len(r \o kept) = Len(r) + Len(kept) /\ Len(kept) \in Nat
    BY <1>6, <2>3, ConcatAt
  <2>. QED BY <2>1, <2>2, <2>4, <2>5
<1>8. ToSet(new) \cap ToSet(running) = {} /\ ToSet(new) \subseteq Ids
  BY <1>4, <1>5, ToSetIn
<1>9. ASSUME NEW s \in ToSet(running)
      PROVE  /\ text'[s] = text[s] /\ blocks'[s] = blocks[s]
             /\ seqLen'[s] = seqLen[s] /\ kv'[s] = kv[s]
  <2>1. s \in Ids /\ s \notin ToSet(new) /\ s \notin over
    BY <1>2, <1>4, <1>8, ToSetIn
  <2>2. DOMAIN text = Ids /\ DOMAIN blocks = Ids /\ DOMAIN seqLen = Ids /\ DOMAIN kv = Ids
    BY DEF Good, Types
  <2>. QED BY <1>2, <1>3, <2>1, <2>2 DEF Without
<1>10. ASSUME NEW s \in ToSet(new), s \notin over
       PROVE  /\ text'[s] = <<Token(s, prompt[s])>> /\ seqLen'[s] = prompt[s] /\ kv'[s] = prompt[s]
              /\ prompt[s] \in Nat /\ Len(blocks'[s]) = Need(s) /\ MaxNew > 1
  <2>1. s \in Ids
    BY <1>8
  <2>2. DOMAIN text = Ids /\ DOMAIN blocks = Ids /\ DOMAIN seqLen = Ids /\ DOMAIN kv = Ids
        /\ prompt[s] \in PromptLens
    BY <2>1 DEF Good, Types
  <2>3. /\ \A n \in PromptLens : n \in Nat
        /\ MaxNew \in Nat /\ MaxNew # 0
    BY DecodeGraphAssumption
  <2>4. Need(s) \in Nat
    <3>1. prompt[s] + MaxNew \in Nat
      BY <2>2, <2>3
    <3>. QED BY <3>1, BlocksFacts DEF Need
  <2>5. PICK i \in DOMAIN new : i = (CHOOSE j \in DOMAIN new : new[j] = s) /\ new[i] = s
    <3>1. \E j \in DOMAIN new : new[j] = s
      BY DEF ToSet
    <3>. QED BY <3>1
  <2>6. blocks'[s] = Popped(new)[i]
    BY <1>2, <1>10, <2>1, <2>2, <2>5 DEF Without
  <2>7. Len(Popped(new)[i]) = Need(s)
    <3>. DEFINE block(j) == free[Len(free) - Claim(SubSeq(new, 1, i - 1)) - j + 1]
    <3>1. Popped(new)[i] = [j \in 1..Need(s) |-> block(j)]
      BY <2>5, Zenon DEF Popped
    <3>. HIDE DEF block
    <3>. QED BY <2>4, <3>1
  <2>8. MaxNew > 1
    BY <1>2, <1>10, <2>3
  <2>. QED BY <1>3, <2>1, <2>2, <2>3, <2>6, <2>7, <2>8
<1>11. Types'
  <2>1. DOMAIN text = Ids /\ \A s \in Ids : text[s] = Right(s, Len(text[s])) /\ Len(text[s]) \in Nat
    BY DEF Good, Types
  <2>2. ASSUME NEW s \in Ids PROVE text'[s] = Right(s, Len(text'[s])) /\ Len(text'[s]) \in Nat
    <3>1. CASE s \in ToSet(new)
      <4>1. text'[s] = <<Token(s, prompt[s])>>
        BY <1>3, <2>1, <3>1
      <4>2. Right(s, 1) = <<Token(s, prompt[s])>>
        <5>1. prompt[s] \in Nat
          BY DecodeGraphAssumption DEF Good, Types
        <5>2. prompt[s] + 1 - 1 = prompt[s]
          BY <5>1
        <5>3. Right(s, 1) = [j \in 1..1 |-> Token(s, prompt[s])]
          BY <5>2 DEF Right
        <5>. QED BY <5>3
      <4>. QED BY <4>1, <4>2
    <3>2. CASE s \notin ToSet(new)
      BY <1>3, <2>1, <3>2
    <3>. QED BY <3>1, <3>2
  <2>3. Ids' = Ids /\ \A s, n : Right(s, n)' = Right(s, n)
    BY <1>3 DEF Ids, Right
  <2>4. DOMAIN text' = Ids /\ text' = [s \in Ids |-> text'[s]]
    BY <1>3, <2>1
  <2>5. text' = [s \in Ids' |-> Right(s, Len(text[s]))']
    <3>1. \A s : Right(s, Len(text[s]))' = [j \in 1..Len(text'[s]) |-> Token(s, prompt[s] + j - 1)]
      BY <1>3 DEF Right
    <3>2. \A s \in Ids : text'[s] = [j \in 1..Len(text'[s]) |-> Token(s, prompt[s] + j - 1)]
      BY <2>2 DEF Right
    <3>3. \A s \in Ids : text'[s] = Right(s, Len(text[s]))'
      BY <3>1, <3>2
    <3>. QED BY <2>3, <2>4, <3>3
  <2>6. blocks' = [s \in Ids |-> blocks'[s]]
    <3>1. DOMAIN blocks = Ids
      BY DEF Good, Types
    <3>. QED BY <1>2, <3>1 DEF Without
  <2>7. seqLen' \in [Ids -> Nat] /\ kv' \in [Ids -> Nat]
    <3>1. \A s \in Ids : prompt[s] \in Nat
      BY DecodeGraphAssumption DEF Good, Types
    <3>. QED BY <1>3, <3>1 DEF Good, Types
  <2>. QED BY <1>3, <1>5, <1>7, <2>2, <2>3, <2>5, <2>6, <2>7 DEF Good, Types
<1>12. Queues'
  <2>1. Len(running') <= MaxBatch
    <3>1. MaxBatch \in Nat /\ Len(kept) <= Admitted
      BY <1>5, <1>6, DecodeGraphAssumption
    <3>. QED BY <1>1, <1>4, <1>7, <3>1
  <2>2. ToSet(rest) \cap ToSet(running') = {}
    BY <1>4, <1>5, <1>6, <1>7
  <2>. QED BY <1>3, <1>5, <1>7, <2>1, <2>2 DEF Queues
<1>13. ASSUME NEW s \in ToSet(running') PROVE InBatch(s)'
  <2>1. Ahead = 0 /\ Ahead' = 0
    BY <1>3 DEF Ahead
  <2>2. Need(s)' = Need(s)
    BY <1>3 DEF Need
  <2>3. CASE s \in ToSet(running)
    <3>1. InBatch(s)
      BY <1>3, <2>3 DEF Good
    <3>. QED BY <1>3, <1>9, <2>1, <2>2, <2>3, <3>1 DEF InBatch
  <2>4. CASE s \notin ToSet(running)
    <3>1. s \in ToSet(new) /\ s \notin over
      BY <1>6, <1>7, <1>13, <2>4
    <3>2. /\ text'[s] = <<Token(s, prompt[s])>> /\ seqLen'[s] = prompt[s] /\ kv'[s] = prompt[s]
          /\ prompt[s] \in Nat /\ Len(blocks'[s]) = Need(s) /\ MaxNew > 1 /\ MaxNew \in Nat
      BY <1>10, <3>1, DecodeGraphAssumption
    <3>3. Len(text'[s]) = 1 /\ 1 \in 1..(MaxNew - 1) /\ prompt[s] = prompt[s] + 1 - 1 + 0
      BY <3>2
    <3>. QED BY <1>3, <2>1, <2>2, <3>2, <3>3 DEF InBatch
  <2>. QED BY <2>3, <2>4
<1>14. Dispatched'
  BY <1>3 DEF Dispatched
<1>15. \A k \in DOMAIN states' : StateOk(k)'
  BY <1>3, StatesStay
<1>16. CASE kept = <<>>
  <2>1. running' = running
    BY <1>4, <1>7, <1>16
  <2>2. SameBatch
    BY <1>3, <1>9, <2>1 DEF SameBatch
  <2>3. Chains'
    <3>1. CASE Going
      BY <1>3, <2>2, <3>1, ChainsStay
    <3>2. CASE ~Going
      BY <1>3, <3>2 DEF Chains, Going
    <3>. QED BY <3>1, <3>2
  <2>4. Staged'
    <3>1. ASSUME ~cfg.shared, ~changed, running # <<>>, Key(running)' \in started
          PROVE  RowsRight(buf)'
      <4>1. Key(running)' = Key(running)
        BY <1>4, <2>2, SameKey
      <4>2. RowsRight(buf)
        BY <1>3, <3>1, <4>1 DEF Good, Staged, Going
      <4>. QED BY <1>3, <2>2, <4>2, RowsStay
    <3>. QED BY <1>3, <2>1, <3>1 DEF Staged, Going
  <2>. QED BY <1>11, <1>12, <1>13, <1>14, <1>15, <2>3, <2>4 DEF Good
<1>17. CASE kept # <<>>
  <2>1. Len(running) < Len(running')
    <3>1. Len(kept) # 0
      BY <1>6, <1>17
    <3>. QED BY <1>4, <1>7, <3>1
  <2>2. ASSUME Going, NEW k \in started
        PROVE  /\ cfg.feedback /\ LoopOf(k) \in Nat
               /\ k[1] \in 1..Len(running') /\ k[1] < Len(running')
    <3>1. cfg.feedback /\ LoopOf(k) \in Nat /\ k[1] \in 1..Len(running)
      BY <2>2 DEF Good, Chains
    <3>. QED BY <1>4, <1>7, <2>1, <3>1
  <2>3. Chains'
    <3>1. Going' => Going
      BY <1>3 DEF Going
    <3>. QED BY <1>3, <2>2, <3>1 DEF Chains, Past, LoopOf
  <2>4. Going' => Key(running)' \notin started'
    <3>1. Going' => Going
      BY <1>3 DEF Going
    <3>2. PICK L : L = Key(running)'
      OBVIOUS
    <3>3. L[1] = Len(running')
      BY <3>2, KeyFirst
    <3>. QED BY <1>3, <1>4, <1>7, <2>2, <3>1, <3>2, <3>3
  <2>5. Staged'
    BY <1>3, <2>4 DEF Staged
  <2>. QED BY <1>11, <1>12, <1>13, <1>14, <1>15, <2>3, <2>5 DEF Good
<1>. QED BY <1>16, <1>17

-------------------------------------------------------------------------------
(* The theorems. *)

LEMMA IdleKeeps ==
    ASSUME Good, UNCHANGED vars PROVE Good'
<1>1. /\ UNCHANGED <<cfg, calls, stops, prompt, waiting, running, text, free, blocks, seqLen, kv>>
      /\ UNCHANGED <<changed, pc, left, burst, resumed, buf, states, warm, failed, started>>
  BY DEF vars, requests, pool, dispatch, graphs
<1>2. Types' /\ Queues'
  BY <1>1 DEF Good, Types, Queues, Ids, Right
<1>3. Dispatched'
  BY <1>1 DEF Good, Dispatched, BurstRight, InBurst, Ids, Key, Lens
<1>4. pc' # "idle" => \A s \in ToSet(running') : InBatch(s)'
  BY <1>1 DEF Good, InBatch, Need, Ahead
<1>5. \A k \in DOMAIN states' : StateOk(k)'
  BY <1>1, StatesStay
<1>6. SameBatch
  BY <1>1 DEF SameBatch
<1>7. Chains'
  <2>1. CASE Going
    BY <1>1, <1>6, <2>1, ChainsStay
  <2>2. CASE ~Going
    BY <1>1, <2>2 DEF Going, Chains
  <2>. QED BY <2>1, <2>2
<1>8. Staged'
  <2>1. Key(running)' = Key(running)
    BY <1>6, SameKey DEF Good, Types
  <2>2. RowsRight(buf) => RowsRight(buf)'
    BY <1>1, <1>6, RowsStay
  <2>. QED BY <1>1, <2>1, <2>2 DEF Good, Staged, Going
<1>. QED BY <1>2, <1>3, <1>4, <1>5, <1>7, <1>8 DEF Good

LEMMA NextKeeps ==
    ASSUME LoopBoundsSuffice, Inv, [Next]_vars PROVE Inv'
<1>1. cfg' = cfg
  <2>1. CASE UNCHANGED vars
    BY <2>1 DEF vars
  <2>2. CASE Decode
    <3>1. CASE OneByOne /\ CaptureFails
      BY <3>1 DEF CaptureFails, Abandoned, StepFrame
    <3>. QED BY <2>2, <3>1 DEF Decode, UnrolledBurst, UnrolledRefused, NativeBurst, EagerAfterFailure,
                    Replay, WarmUp, Capture, LegacyReplay, LegacyEager, LegacyCapture,
                    LegacyCaptureFails, Abandoned, StepFrame, LegacyFrame
  <2>3. CASE StartCall \/ Admit \/ NothingToDecode \/ EndCall \/ BeginDecode \/ Collect
    BY <2>3 DEF StartCall, Admit, NothingToDecode, EndCall, BeginDecode, Collect
  <2>. QED BY <2>1, <2>2, <2>3 DEF Next
<1>2. ASSUME cfg.shape PROVE Good'
  <2>1. cfg \in Configs /\ Good
    BY <1>2 DEF Inv
  <2>2. CASE StartCall
    BY <2>1, <2>2, StartCallKeeps
  <2>3. CASE Admit
    BY <2>1, <2>3, AdmitKeeps
  <2>4. CASE NothingToDecode
    BY <2>1, <2>4, NothingToDecodeKeeps
  <2>5. CASE EndCall
    BY <2>1, <2>5, EndCallKeeps
  <2>6. CASE BeginDecode
    BY <2>1, <2>6, BeginDecodeKeeps
  <2>7. CASE Decode
    BY <1>2, <2>1, <2>7, DecodeKeeps
  <2>8. CASE Collect
    BY <2>1, <2>8, CollectKeeps
  <2>9. CASE UNCHANGED vars
    BY <2>1, <2>9, IdleKeeps
  <2>. QED BY <2>2, <2>3, <2>4, <2>5, <2>6, <2>7, <2>8, <2>9 DEF Next
<1>. QED BY <1>1, <1>2 DEF Inv

\* The inductive invariant: chains of the batch are intact, every other chain has
\* a key no batch of this size can come back to, and what the next step reads is
\* staged or in such a chain.
THEOREM AlwaysInv == LoopBoundsSuffice => (Spec => []Inv)
<1>. SUFFICES ASSUME LoopBoundsSuffice PROVE Spec => []Inv
  OBVIOUS
<1>1. Init => Inv
  BY InitGood DEF Init, Inv
<1>2. Inv /\ [Next]_vars => Inv'
  BY NextKeeps
<1>. QED BY <1>1, <1>2, PTL DEF Spec

LEMMA InvTokens == Inv => ShapesExact
<1>. SUFFICES ASSUME Inv, cfg.shape, NEW s \in DOMAIN text, NEW j \in DOMAIN text[s]
              PROVE  text[s][j] = Token(s, prompt[s] + j - 1)
  BY DEF ShapesExact, ExactTokens
<1>1. text = [r \in Ids |-> Right(r, Len(text[r]))]
  BY DEF Inv, Good, Types
<1>2. s \in Ids
  BY <1>1
<1>3. text[s] = Right(s, Len(text[s]))
  BY <1>1, <1>2
<1>4. j \in 1..Len(text[s])
  BY <1>3 DEF Right
<1>. QED BY <1>3, <1>4 DEF Right

LEMMA InvLens == Inv => LensInStep
<1>. SUFFICES ASSUME Inv, cfg.shape, pc = "step", NEW s \in ToSet(running)
              PROVE  seqLen[s] = kv[s]
  BY DEF LensInStep
<1>. QED BY DEF Inv, Good, InBatch

\* With graphs cached by shape every token that reaches the host is the one eager
\* greedy decoding gives at its place, if the loop bounds suffice.
THEOREM ShapesAlwaysExact == LoopBoundsSuffice => (Spec => []ShapesExact)
<1>1. LoopBoundsSuffice => (Spec => []Inv)
  BY AlwaysInv
<1>2. Inv => ShapesExact
  BY InvTokens
<1>. QED BY <1>1, <1>2, PTL

\* Between two steps Python's lengths of the batch are the rows on the device,
\* although replays run no Python and failed captures run some of it.
THEOREM LengthsInStep == LoopBoundsSuffice => (Spec => []LensInStep)
<1>1. LoopBoundsSuffice => (Spec => []Inv)
  BY AlwaysInv
<1>2. Inv => LensInStep
  BY InvLens
<1>. QED BY <1>1, <1>2, PTL
===============================================================================
