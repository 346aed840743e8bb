--------------------------- MODULE ShardMesh_proofs ---------------------------
(***************************************************************************)
(* What generate_batch promises the stages, for every number of prompts,   *)
(* calls and faults: a client never has two requests of the coordinator    *)
(* under way, and a call that is over has left no sequence behind but      *)
(* those whose release it could not get through.                           *)
(***************************************************************************)
EXTENDS ShardMesh, FiniteSetTheorems, SequenceTheorems, WellFoundedInduction, TLAPS

Own == {"c1", "c2"}     \* the coordinator's clients

-----------------------------------------------------------------------------
(* The invariant. *)

\* A request names a sequence if it is one of those that need one.
GoodRequest(req) ==
    req.op \in {"prefill", "prefill_chain", "free"} => 1 \in DOMAIN req.seqs

GoodTurn(turn) ==
    /\ turn = [conn |-> turn.conn, req |-> turn.req, local |-> turn.local]
    /\ GoodRequest(turn.req)

GoodCall(call) == call.client \in MeshClients /\ GoodRequest(call.req)

IsList(s) == s \in Seq(ToSet(s))

NetShape(n) ==
    /\ n = [up |-> n.up, sock |-> n.sock, opened |-> n.opened, alive |-> n.alive,
            inbox |-> n.inbox, answers |-> n.answers, calls |-> n.calls]
    /\ n.up \in [MeshClients -> BOOLEAN]
    /\ n.sock = [c \in MeshClients |-> n.sock[c]]
    /\ n.opened \in [MeshClients -> Nat]
    /\ n.alive \in [MeshClients -> BOOLEAN]
    /\ n.inbox = [c \in MeshClients |-> n.inbox[c]]
    /\ n.answers = [c \in MeshClients |-> n.answers[c]]
    /\ \A c \in MeshClients : IsList(n.inbox[c])

\* Answers are there only on a connection that works.
NetOrder(n) ==
    \A c \in MeshClients : /\ n.sock[c] = 0 => ~n.alive[c]
                           /\ ~n.alive[c] => n.answers[c] = <<>>

GoodNet(n) ==
    /\ NetShape(n)
    /\ NetOrder(n)
    /\ \A c \in MeshClients : \A turn \in ToSet(n.inbox[c]) : GoodTurn(turn)
    /\ \A call \in n.calls : GoodCall(call)

IsRow(row) ==
    row = [seq |-> row.seq, prompt |-> row.prompt, cur |-> row.cur,
           generated |-> row.generated, done |-> row.done]

RowsShape == IsList(rows) /\ \A j \in DOMAIN rows : IsRow(rows[j])

Shape ==
    /\ GoodNet(net)
    /\ RowsShape
    /\ k \in Nat \ {0}
    /\ batch \in Nat
    /\ remote \in Remote
    /\ future = [c \in Own |-> future[c]]
    /\ cache = [s \in 1..2 |-> cache[s]]

\* Where generate_batch stands, and which of its calls it has not taken up.
Busy ==
    /\ pc \in {"idle", "remote", "prefill", "step", "chain", "overlap", "stage1", "stage2",
               "last", "drain", "free"}
    /\ pc \in {"idle", "step", "overlap"} => future["c1"] = None /\ future["c2"] = None
    /\ pc \in {"remote", "prefill", "chain"} => future["c2"] = None
    /\ pc = "prefill" /\ k > Len(rows) => future["c1"] = None
    /\ pc = "stage2" /\ ~(k < Len(chunks)) => future["c1"] = None
    /\ pc = "last" => future["c1"] = None
    /\ pc = "free" => \A c \in Own : future[c] # None => c = ReleaseClient(k) /\ k <= 2 * Len(rows)

\* A call of the coordinator is one that its future waits for.
Solo ==
    /\ \A call \in net.calls :
          call.client \in Own => call.by = Coordinator /\ future[call.client] = Pending
    /\ \A one, other \in net.calls : one.client = other.client /\ one.client \in Own => one = other

\* Its calls are releases exactly while it releases.
Phase ==
    \A call \in net.calls : call.client \in Own =>
        /\ call.req.op = "free" => pc = "free"
        /\ pc = "free" => call.req = Request("free", <<ReleaseSeq(k)>>, <<>>)

\* A release of seq that stage s has got and not begun.
Underway(s, seq) ==
    \E turn \in ToSet(net.inbox[EntryOf(s)]) :
        turn.req.op = "free" /\ turn.req.seqs[1] = seq /\ turn.local = Unhandled

\* Stage s holds seq no more, or will not for long, or nothing was promised.
Settled(s, seq) == seq \in DOMAIN cache[s] => seq \in abandoned \/ Underway(s, seq)

\* The release of seq on stage s is still to come.
Due(s, seq) ==
    /\ pc # "idle"
    /\ \E j \in DOMAIN rows : rows[j].seq = seq /\ (pc = "free" => 2 * (j - 1) + s >= k)

HeldOrDue == \A s \in 1..2 : \A seq \in DOMAIN cache[s] : Settled(s, seq) \/ Due(s, seq)

\* A release that is answered is settled, whatever the answer was; one that is
\* waited for on a connection that works as well.
AnsweredSettled ==
    pc = "free" => \A c \in Own :
        future[c] \notin {None, Pending} => Settled(StageOf(c), ReleaseSeq(k))

WaitingSettled ==
    \A call \in net.calls :
        /\ call.client \in Own
        /\ call.req.op = "free"
        /\ call.conn = net.sock[call.client]
        /\ net.alive[call.client]
        => Settled(StageOf(call.client), call.req.seqs[1])

IInv ==
    /\ Shape
    /\ Busy
    /\ Solo
    /\ Phase
    /\ HeldOrDue
    /\ AnsweredSettled
    /\ WaitingSettled

-----------------------------------------------------------------------------
(* Lists: what is in them after an operation. *)

\* A set of natural numbers that is not empty has a least element.
LEMMA LeastExists ==
    ASSUME NEW S \in SUBSET Nat, S # {}
    PROVE  \E m \in S : \A x \in S : m <= x
<1>1. PICK m \in S : \A y \in S : ~(<<y, m>> \in OpToRel(<, Nat))
  BY NatLessThanWellFounded, WFMin
<1>2. \A y \in S : m <= y
  <2>. TAKE y \in S
  <2>1. ~(y < m)
    BY <1>1 DEF OpToRel
  <2>. QED BY <2>1
<1>. QED BY <1>2

LEMMA SeqIsList ==
    ASSUME NEW S, NEW s \in Seq(S)
    PROVE  IsList(s) /\ ToSet(s) \subseteq S
<1>1. /\ Len(s) \in Nat /\ DOMAIN s = 1..Len(s)
      /\ \A i \in 1..Len(s) : s[i] \in S
      /\ s = [i \in 1..Len(s) |-> s[i]]
  OBVIOUS
<1>2. \A i \in 1..Len(s) : s[i] \in ToSet(s)
  BY <1>1 DEF ToSet
<1>3. s \in Seq(ToSet(s))
  <2>. DEFINE T == ToSet(s)
  <2>1. \A i \in 1..Len(s) : s[i] \in T
    BY <1>2
  <2>. HIDE DEF T
  <2>2. [i \in 1..Len(s) |-> s[i]] \in Seq(T)
    BY <1>1, <2>1
  <2>3. s \in Seq(T)
    BY <1>1, <2>2
  <2>. QED BY <2>3 DEF T
<1>. QED BY <1>1, <1>3 DEF IsList, ToSet

LEMMA ListDomain ==
    ASSUME NEW s, IsList(s)
    PROVE  /\ Len(s) \in Nat /\ DOMAIN s = 1..Len(s)
           /\ \A e : e \in ToSet(s) <=> \E i \in 1..Len(s) : s[i] = e
<1>1. Len(s) \in Nat /\ DOMAIN s = 1..Len(s)
  BY DEF IsList
<1>. QED BY <1>1 DEF ToSet

LEMMA AppendList ==
    ASSUME NEW s, IsList(s), NEW e
    PROVE  IsList(Append(s, e)) /\ ToSet(Append(s, e)) = ToSet(s) \union {e}
<1>. DEFINE S == ToSet(s) \union {e}
<1>1. s \in Seq(ToSet(s))
  BY DEF IsList
<1>2. s \in Seq(S)
  <2>. DEFINE T == ToSet(s)
  <2>1. s \in Seq(T)
    BY <1>1
  <2>2. T \subseteq S
    OBVIOUS
  <2>. HIDE DEF T, S
  <2>. QED BY <2>1, <2>2
<1>3. e \in S
  OBVIOUS
<1>. HIDE DEF S
<1>4. /\ Append(s, e) \in Seq(S) /\ Len(Append(s, e)) = Len(s) + 1 /\ Len(s) \in Nat
      /\ DOMAIN s = 1..Len(s) /\ DOMAIN Append(s, e) = 1..(Len(s) + 1)
      /\ \A i \in 1..Len(s) : Append(s, e)[i] = s[i]
      /\ Append(s, e)[Len(s) + 1] = e
  BY <1>2, <1>3
<1>5. IsList(Append(s, e))
  BY <1>4, SeqIsList
<1>6. \A i \in 1..(Len(s) + 1) : i \in 1..Len(s) \/ i = Len(s) + 1
  BY <1>4
<1>7. Len(s) + 1 \in 1..(Len(s) + 1) /\ \A i \in 1..Len(s) : i \in 1..(Len(s) + 1)
  BY <1>4
<1>8. \A y : (\E i \in 1..(Len(s) + 1) : Append(s, e)[i] = y)
              <=> (\E i \in 1..Len(s) : s[i] = y) \/ y = e
  BY <1>4, <1>6, <1>7
<1>9. /\ \A y : y \in ToSet(Append(s, e)) <=> \E i \in 1..(Len(s) + 1) : Append(s, e)[i] = y
      /\ \A y : y \in ToSet(s) <=> \E i \in 1..Len(s) : s[i] = y
  BY <1>4 DEF ToSet
<1>. QED BY <1>5, <1>8, <1>9

LEMMA RemoveList ==
    ASSUME NEW s, IsList(s), NEW i \in DOMAIN s
    PROVE  /\ IsList(RemoveAt(s, i))
           /\ ToSet(RemoveAt(s, i)) \subseteq ToSet(s)
           /\ ToSet(s) \ {s[i]} \subseteq ToSet(RemoveAt(s, i))
<1>. DEFINE S == ToSet(s)
            a == SubSeq(s, 1, i - 1)
            b == SubSeq(s, i + 1, Len(s))
            n == Len(s)
<1>1. s \in Seq(S)
  BY DEF IsList
<1>2. \A y : y \in S <=> \E j \in 1..n : s[j] = y
  BY ListDomain
<1>3. RemoveAt(s, i) = a \o b
  BY DEF RemoveAt
<1>. HIDE DEF S
<1>4. n \in Nat /\ i \in 1..n /\ DOMAIN s = 1..n /\ i \in Int /\ \A j \in 1..n : s[j] \in S
  BY <1>1
<1>5. /\ a \in Seq(S) /\ Len(a) = i - 1
      /\ \A j \in 1..(i - 1) : a[j] = s[j]
  <2>1. \A j \in 1..(i - 1) : s[j] \in S
    BY <1>4
  <2>. HIDE DEF n
  <2>. QED BY <1>4, <2>1, SubSeqProperties
<1>6. /\ b \in Seq(S) /\ Len(b) = n - i
      /\ \A j \in 1..(n - i) : b[j] = s[i + j]
  <2>1. \A j \in (i + 1)..n : s[j] \in S
    BY <1>4
  <2>2. i + 1 \in Int /\ n \in Int
    BY <1>4
  <2>3. /\ SubSeq(s, i + 1, n) \in Seq(S)
        /\ Len(SubSeq(s, i + 1, n)) = IF i + 1 <= n THEN n - (i + 1) + 1 ELSE 0
        /\ \A j \in 1 .. n - (i + 1) + 1 : SubSeq(s, i + 1, n)[j] = s[i + 1 + j - 1]
    <3>. HIDE DEF n
    <3>. QED BY <2>1, <2>2, SubSeqProperties
  <2>4. b \in Seq(S) /\ Len(b) = n - i
    BY <1>4, <2>3
  <2>5. ASSUME NEW j \in 1..(n - i) PROVE b[j] = s[i + j]
    <3>1. j \in 1..(n - (i + 1) + 1) /\ i + 1 + j - 1 = i + j
      BY <1>4
    <3>2. SubSeq(s, i + 1, n)[j] = s[i + 1 + j - 1]
      BY <2>3, <3>1
    <3>. QED BY <3>1, <3>2
  <2>. QED BY <2>4, <2>5
<1>. HIDE DEF a, b, n
<1>7. /\ a \o b \in Seq(S) /\ Len(a \o b) = n - 1
      /\ \A j \in 1..(n - 1) : (a \o b)[j] = IF j <= i - 1 THEN a[j] ELSE b[j - (i - 1)]
  <2>1. Len(a) + Len(b) = n - 1
    BY <1>4, <1>5, <1>6
  <2>2. /\ a \o b \in Seq(S) /\ Len(a \o b) = Len(a) + Len(b)
        /\ \A j \in 1..(Len(a) + Len(b)) :
              (a \o b)[j] = IF j <= Len(a) THEN a[j] ELSE b[j - Len(a)]
    BY <1>5, <1>6, ConcatProperties
  <2>. QED BY <1>5, <2>1, <2>2
<1>8. IsList(a \o b) /\ ToSet(a \o b) \subseteq S
  BY <1>7, SeqIsList
<1>9. ASSUME NEW y \in S, y # s[i] PROVE y \in ToSet(a \o b)
  <2>1. PICK j \in 1..n : s[j] = y
    BY <1>2
  <2>2. j # i
    BY <1>9, <2>1
  <2>3. CASE j < i
    <3>1. j \in 1..(i - 1) /\ j \in 1..(n - 1)
      BY <1>4, <2>3
    <3>2. (a \o b)[j] = y
      BY <1>4, <1>5, <1>7, <2>1, <3>1
    <3>. QED BY <1>7, <1>8, <3>1, <3>2, ListDomain
  <2>4. CASE j > i
    <3>1. /\ j - 1 \in 1..(n - 1) /\ ~(j - 1 <= i - 1) /\ (j - 1) - (i - 1) = j - i
          /\ j - i \in 1..(n - i) /\ i + (j - i) = j
      BY <1>4, <2>4
    <3>2. (a \o b)[j - 1] = b[j - i]
      BY <1>7, <3>1
    <3>3. b[j - i] = s[j]
      BY <1>6, <3>1
    <3>. QED BY <1>7, <1>8, <2>1, <3>1, <3>2, <3>3, ListDomain
  <2>. QED BY <1>4, <2>2, <2>3, <2>4
<1>. QED BY <1>3, <1>8, <1>9 DEF S

\* One turn moves on; the others are as they were.
LEMMA LocalList ==
    ASSUME NEW s, IsList(s), NEW i \in DOMAIN s, NEW v
    PROVE  /\ IsList([s EXCEPT ![i] = v])
           /\ ToSet([s EXCEPT ![i] = v]) \subseteq ToSet(s) \union {v}
           /\ ToSet(s) \ {s[i]} \subseteq ToSet([s EXCEPT ![i] = v])
<1>. DEFINE t == [s EXCEPT ![i] = v]
            S == ToSet(s) \union {v}
<1>1. Len(s) \in Nat /\ DOMAIN s = 1..Len(s) /\ \A j \in 1..Len(s) : s[j] \in ToSet(s)
  BY ListDomain
<1>2. /\ t = [j \in 1..Len(s) |-> IF j = i THEN v ELSE s[j]]
      /\ \A j \in 1..Len(s) : t[j] = IF j = i THEN v ELSE s[j]
  <2>1. s = [j \in 1..Len(s) |-> s[j]]
    BY DEF IsList
  <2>. QED BY <1>1, <2>1
<1>3. t \in Seq(S)
  <2>1. \A j \in 1..Len(s) : (IF j = i THEN v ELSE s[j]) \in S
    BY <1>1
  <2>. HIDE DEF S, t
  <2>2. [j \in 1..Len(s) |-> IF j = i THEN v ELSE s[j]] \in Seq(S)
    BY <1>1, <2>1
  <2>. QED BY <1>2, <2>2
<1>4. DOMAIN t = 1..Len(s)
  BY <1>2
<1>. HIDE DEF t
<1>5. ASSUME NEW y \in ToSet(s), y # s[i] PROVE y \in ToSet(t)
  <2>1. PICK j \in 1..Len(s) : s[j] = y
    BY ListDomain
  <2>2. t[j] = y
    BY <1>2, <1>5, <2>1
  <2>. QED BY <1>4, <2>2 DEF ToSet
<1>6. IsList(t) /\ ToSet(t) \subseteq S
  <2>. HIDE DEF S
  <2>. QED BY <1>3, SeqIsList
<1>7. ToSet(s) \ {s[i]} \subseteq ToSet(t)
  BY <1>5
<1>. QED BY <1>6, <1>7 DEF t

\* Remaining, unfolded.
KeepStep(f, n, ss, over) ==
    IF n = 0 THEN <<>>
    ELSE IF ss[n] \in over THEN f[n-1] ELSE Append(f[n-1], ss[n])

LEMMA KeepSame ==
    ASSUME NEW f, NEW g, NEW n \in Nat, NEW ss, NEW over, n # 0 => f[n-1] = g[n-1]
    PROVE  KeepStep(f, n, ss, over) = KeepStep(g, n, ss, over)
BY Zenon DEF KeepStep

LEMMA KeptUnfolds ==
    ASSUME NEW ss, NEW over, Len(ss) \in Nat
    PROVE  \E f : /\ \A n \in 0..Len(ss) : f[n] = KeepStep(f, n, ss, over)
                  /\ Remaining(ss, over) = f[Len(ss)]
<1>. DEFINE Solves(f, m) == f = [n \in 0..m |-> KeepStep(f, n, ss, over)]
            bad == {m \in Nat : ~\E f : Solves(f, m)}
<1>1. bad \in SUBSET Nat /\ \A m \in Nat : m \in bad <=> ~\E f : Solves(f, m)
  OBVIOUS
<1>. HIDE DEF bad
<1>2. bad = {}
  <2>. SUFFICES ASSUME bad # {} PROVE FALSE
    OBVIOUS
  <2>1. PICK m \in bad : \A x \in bad : m <= x
    BY <1>1, LeastExists
  <2>2. m \in Nat /\ ~\E f : Solves(f, m)
    BY <1>1, <2>1
  <2>3. CASE m = 0
    <3>. DEFINE f == [n \in 0..0 |-> KeepStep(<<>>, n, ss, over)]
    <3>1. \A n \in 0..0 : KeepStep(f, n, ss, over) = KeepStep(<<>>, n, ss, over)
      <4>. SUFFICES ASSUME NEW n \in 0..0
                    PROVE  KeepStep(f, n, ss, over) = KeepStep(<<>>, n, ss, over)
        OBVIOUS
      <4>1. n \in Nat /\ n = 0
        OBVIOUS
      <4>. HIDE DEF f
      <4>. QED BY <4>1, KeepSame
    <3>2. Solves(f, 0)
      <4>1. f = [n \in 0..0 |-> KeepStep(<<>>, n, ss, over)]
        OBVIOUS
      <4>. HIDE DEF f
      <4>. QED BY <3>1, <4>1
    <3>. QED BY <2>2, <2>3, <3>2
  <2>4. CASE m # 0
    <3>1. m - 1 \in Nat /\ m - 1 \notin bad
      BY <2>1, <2>2, <2>4
    <3>2. PICK g : Solves(g, m - 1)
      BY <1>1, <3>1
    <3>. DEFINE f == [n \in 0..m |-> IF n = m THEN KeepStep(g, m, ss, over) ELSE g[n]]
    <3>3. \A n \in 0..m : n # m => n \in 0..(m-1) /\ f[n] = g[n]
      BY <2>2, <2>4
    <3>4. f[m] = KeepStep(g, m, ss, over) /\ m \in 0..m
      BY <2>2
    <3>5. \A n \in 0..(m-1) : g[n] = KeepStep(g, n, ss, over)
      BY <3>2
    <3>6. f = [n \in 0..m |-> f[n]]
      OBVIOUS
    <3>. HIDE DEF f
    <3>7. ASSUME NEW n \in 0..m PROVE f[n] = KeepStep(f, n, ss, over)
      <4>1. n # 0 => n - 1 \in 0..m /\ n - 1 # m
        BY <2>2
      <4>2. n # 0 => f[n-1] = g[n-1]
        BY <3>3, <4>1
      <4>3. KeepStep(f, n, ss, over) = KeepStep(g, n, ss, over)
        BY <2>2, <4>2, KeepSame
      <4>4. CASE n = m
        BY <3>4, <4>3, <4>4
      <4>5. CASE n # m
        BY <3>3, <3>5, <4>3, <4>5
      <4>. QED BY <4>4, <4>5
    <3>8. Solves(f, m)
      BY <3>6, <3>7
    <3>. QED BY <2>2, <3>8
  <2>. QED BY <2>3, <2>4
<1>3. \E f : Solves(f, Len(ss))
  BY <1>1, <1>2
<1>. DEFINE kept == CHOOSE f : Solves(f, Len(ss))
<1>4. Remaining(ss, over) = kept[Len(ss)]
  BY Zenon DEF Remaining, KeepStep
<1>5. Solves(kept, Len(ss))
  BY <1>3
<1>. HIDE DEF kept
<1>6. \A n \in 0..Len(ss) : kept[n] = KeepStep(kept, n, ss, over)
  BY <1>5
<1>. QED BY <1>4, <1>6

LEMMA RemainingList ==
    ASSUME NEW ss, IsList(ss), NEW over
    PROVE  /\ IsList(Remaining(ss, over))
           /\ ToSet(Remaining(ss, over)) = ToSet(ss) \ over
<1>. DEFINE N == Len(ss)
            Kept(s, n) == /\ IsList(s)
                          /\ \A e : e \in ToSet(s) <=> e \notin over /\ \E j \in 1..n : ss[j] = e
<1>1. N \in Nat /\ DOMAIN ss = 1..N
  BY ListDomain
<1>2. PICK f : /\ \A n \in 0..N : f[n] = KeepStep(f, n, ss, over)
               /\ Remaining(ss, over) = f[N]
  BY <1>1, KeptUnfolds
<1>. DEFINE bad == {n \in 0..N : ~Kept(f[n], n)}
<1>3. bad \in SUBSET Nat /\ \A n : n \in bad <=> n \in 0..N /\ ~Kept(f[n], n)
  OBVIOUS
<1>. HIDE DEF bad
<1>4. bad = {}
  <2>. SUFFICES ASSUME bad # {} PROVE FALSE
    OBVIOUS
  <2>1. PICK n \in bad : \A x \in bad : n <= x
    BY <1>3, LeastExists
  <2>2. n \in 0..N /\ ~Kept(f[n], n)
    BY <1>3, <2>1
  <2>3. CASE n = 0
    <3>1. f[0] = <<>>
      BY <1>2, <2>2, <2>3 DEF KeepStep
    <3>2. Kept(<<>>, 0)
      BY DEF IsList, ToSet
    <3>. QED BY <2>2, <2>3, <3>1, <3>2
  <2>4. CASE n # 0
    <3>1. n - 1 \in 0..N /\ n - 1 \notin bad /\ n \in 1..N
      BY <1>1, <2>1, <2>2, <2>4
    <3>2. Kept(f[n-1], n - 1)
      BY <1>3, <3>1
    <3>3. f[n] = IF ss[n] \in over THEN f[n-1] ELSE Append(f[n-1], ss[n])
      BY <1>2, <2>2, <2>4 DEF KeepStep
    <3>4. \A e : (\E j \in 1..n : ss[j] = e) <=> (\E j \in 1..(n-1) : ss[j] = e) \/ ss[n] = e
      <4>1. \A j \in 1..n : j \in 1..(n-1) \/ j = n
        BY <3>1
      <4>2. n \in 1..n /\ \A j \in 1..(n-1) : j \in 1..n
        BY <3>1
      <4>. QED BY <4>1, <4>2
    <3>5. CASE ss[n] \in over
      <4>1. f[n] = f[n-1]
        BY <3>3, <3>5
      <4>2. Kept(f[n-1], n)
        BY <3>2, <3>4, <3>5
      <4>. QED BY <2>2, <4>1, <4>2
    <3>6. CASE ss[n] \notin over
      <4>. DEFINE s == f[n-1]
      <4>1. f[n] = Append(s, ss[n]) /\ IsList(s)
        BY <3>2, <3>3, <3>6
      <4>2. IsList(f[n]) /\ ToSet(f[n]) = ToSet(s) \union {ss[n]}
        BY <4>1, AppendList
      <4>3. Kept(f[n], n)
        BY <3>2, <3>4, <3>6, <4>2
      <4>. QED BY <2>2, <4>3
    <3>. QED BY <3>5, <3>6
  <2>. QED BY <2>3, <2>4
<1>5. N \in 0..N
  BY <1>1
<1>6. Kept(f[N], N)
  BY <1>3, <1>4, <1>5
<1>7. \A e : e \in ToSet(ss) <=> \E j \in 1..N : ss[j] = e
  BY ListDomain
<1>8. ToSet(f[N]) = ToSet(ss) \ over
  BY <1>6, <1>7
<1>. QED BY <1>2, <1>6, <1>8

-----------------------------------------------------------------------------
(* The transport, one operator after the other. *)

\* One turn's local state is replaced.
WithLocal(n, c, i, v) == [n EXCEPT !.inbox[c][i].local = v]

\* From n to m nothing happens on the connections and in the lists of client d.
SameFor(n, m, d) ==
    /\ m.up[d] = n.up[d] /\ m.sock[d] = n.sock[d] /\ m.alive[d] = n.alive[d]
    /\ m.inbox[d] = n.inbox[d] /\ m.answers[d] = n.answers[d]

Fields == {"up", "sock", "opened", "alive", "inbox", "answers", "calls"}

IsNet(m) == DOMAIN m = Fields /\ m = [f \in DOMAIN m |-> m[f]]

LEMMA NetIs ==
    ASSUME NEW m
    PROVE  m = [up |-> m.up, sock |-> m.sock, opened |-> m.opened, alive |-> m.alive,
                inbox |-> m.inbox, answers |-> m.answers, calls |-> m.calls]
             <=> IsNet(m)
<1>1. ASSUME IsNet(m)
      PROVE  m = [up |-> m.up, sock |-> m.sock, opened |-> m.opened, alive |-> m.alive,
                  inbox |-> m.inbox, answers |-> m.answers, calls |-> m.calls]
  BY <1>1 DEF IsNet, Fields
<1>2. ASSUME m = [up |-> m.up, sock |-> m.sock, opened |-> m.opened, alive |-> m.alive,
                  inbox |-> m.inbox, answers |-> m.answers, calls |-> m.calls]
      PROVE  IsNet(m)
  BY <1>2 DEF IsNet, Fields
<1>. QED BY <1>1, <1>2

\* Only client c's part of n, and the calls, change in m.
Changes(n, m, c, u, s, o, a, box, ans) ==
    /\ IsNet(m)
    /\ m.up = [n.up EXCEPT ![c] = u]
    /\ m.sock = [n.sock EXCEPT ![c] = s]
    /\ m.opened = [n.opened EXCEPT ![c] = o]
    /\ m.alive = [n.alive EXCEPT ![c] = a]
    /\ m.inbox = [n.inbox EXCEPT ![c] = box]
    /\ m.answers = [n.answers EXCEPT ![c] = ans]

\* What client c's part of a transport may be.
Fine(u, s, o, a, box, ans) ==
    /\ u \in BOOLEAN /\ o \in Nat /\ a \in BOOLEAN
    /\ IsList(box)
    /\ \A turn \in ToSet(box) : GoodTurn(turn)
    /\ s = 0 => ~a
    /\ ~a => ans = <<>>

LEMMA Altered ==
    ASSUME NEW n, GoodNet(n), NEW c \in MeshClients, NEW m,
           NEW u, NEW s, NEW o, NEW a, NEW box, NEW ans,
           Changes(n, m, c, u, s, o, a, box, ans),
           Fine(u, s, o, a, box, ans),
           \A call \in m.calls : GoodCall(call)
    PROVE  /\ GoodNet(m)
           /\ \A d \in MeshClients : d # c => SameFor(n, m, d)
           /\ m.up[c] = u /\ m.sock[c] = s /\ m.alive[c] = a
           /\ m.inbox[c] = box /\ m.answers[c] = ans
<1>1. NetShape(n) /\ NetOrder(n)
  BY DEF GoodNet
<1>2. /\ m.up = [n.up EXCEPT ![c] = u] /\ m.sock = [n.sock EXCEPT ![c] = s]
      /\ m.opened = [n.opened EXCEPT ![c] = o] /\ m.alive = [n.alive EXCEPT ![c] = a]
      /\ m.inbox = [n.inbox EXCEPT ![c] = box] /\ m.answers = [n.answers EXCEPT ![c] = ans]
      /\ m = [up |-> m.up, sock |-> m.sock, opened |-> m.opened, alive |-> m.alive,
              inbox |-> m.inbox, answers |-> m.answers, calls |-> m.calls]
  BY NetIs DEF Changes
<1>3. /\ m.sock = [d \in MeshClients |-> IF d = c THEN s ELSE n.sock[d]]
      /\ m.inbox = [d \in MeshClients |-> IF d = c THEN box ELSE n.inbox[d]]
      /\ m.answers = [d \in MeshClients |-> IF d = c THEN ans ELSE n.answers[d]]
      /\ m.up = [d \in MeshClients |-> IF d = c THEN u ELSE n.up[d]]
      /\ m.alive = [d \in MeshClients |-> IF d = c THEN a ELSE n.alive[d]]
      /\ m.opened = [d \in MeshClients |-> IF d = c THEN o ELSE n.opened[d]]
  BY <1>1, <1>2 DEF NetShape
<1>4. \A d \in MeshClients : n.opened[d] \in Nat /\ n.up[d] \in BOOLEAN /\ n.alive[d] \in BOOLEAN
  BY <1>1 DEF NetShape
<1>5. NetShape(m)
  <2>1. /\ m.up \in [MeshClients -> BOOLEAN] /\ m.alive \in [MeshClients -> BOOLEAN]
        /\ m.opened \in [MeshClients -> Nat]
    BY <1>3, <1>4 DEF Fine
  <2>2. \A d \in MeshClients : IsList(m.inbox[d])
    BY <1>1, <1>3 DEF NetShape, Fine
  <2>3. /\ m.answers = [d \in MeshClients |-> m.answers[d]]
        /\ m.sock = [d \in MeshClients |-> m.sock[d]]
        /\ m.inbox = [d \in MeshClients |-> m.inbox[d]]
    BY <1>3
  <2>. QED BY <1>2, <2>1, <2>2, <2>3 DEF NetShape
<1>6. NetOrder(m)
  BY <1>1, <1>3 DEF NetOrder, Fine
<1>7. \A d \in MeshClients : \A t \in ToSet(m.inbox[d]) : GoodTurn(t)
  BY <1>3 DEF GoodNet, Fine
<1>8. \A d \in MeshClients : d # c => SameFor(n, m, d)
  BY <1>3 DEF SameFor
<1>9. GoodNet(m)
  BY <1>2, <1>5, <1>6, <1>7 DEF GoodNet
<1>. QED BY <1>3, <1>8, <1>9

\* What is known of client c's part.
Plain(n, c) ==
    /\ Changes(n, n, c, n.up[c], n.sock[c], n.opened[c], n.alive[c], n.inbox[c], n.answers[c])
    /\ Fine(n.up[c], n.sock[c], n.opened[c], n.alive[c], n.inbox[c], n.answers[c])

LEMMA Unaltered ==
    ASSUME NEW n, GoodNet(n), NEW c \in MeshClients
    PROVE  /\ IsNet(n)
           /\ Plain(n, c)
           /\ IsList(n.inbox[c])
           /\ \A turn \in ToSet(n.inbox[c]) : GoodTurn(turn)
           /\ \A call \in n.calls : GoodCall(call)
<1>1. NetShape(n) /\ NetOrder(n)
  BY DEF GoodNet
<1>2. IsNet(n)
  BY <1>1, NetIs DEF NetShape
<1>3. /\ n.up = [n.up EXCEPT ![c] = n.up[c]] /\ n.sock = [n.sock EXCEPT ![c] = n.sock[c]]
      /\ n.opened = [n.opened EXCEPT ![c] = n.opened[c]]
      /\ n.alive = [n.alive EXCEPT ![c] = n.alive[c]]
      /\ n.inbox = [n.inbox EXCEPT ![c] = n.inbox[c]]
      /\ n.answers = [n.answers EXCEPT ![c] = n.answers[c]]
  BY <1>1 DEF NetShape
<1>4. /\ n.up[c] \in BOOLEAN /\ n.alive[c] \in BOOLEAN /\ n.opened[c] \in Nat
      /\ IsList(n.inbox[c])
  BY <1>1 DEF NetShape
<1>5. Fine(n.up[c], n.sock[c], n.opened[c], n.alive[c], n.inbox[c], n.answers[c])
  BY <1>1, <1>4 DEF NetOrder, GoodNet, Fine
<1>6. Plain(n, c)
  BY <1>2, <1>3, <1>5 DEF Plain, Changes
<1>. QED BY <1>2, <1>4, <1>6 DEF GoodNet

\* From n to m, by asks c's server something: its request waits there if the
\* connection it was written to works.
Asks(n, m, by, c, req, attempt) ==
    /\ \A d \in MeshClients : d # c => SameFor(n, m, d)
    /\ ToSet(n.inbox[c]) \subseteq ToSet(m.inbox[c])
    /\ \E conn : /\ m.calls = n.calls \union {Call(by, c, req, attempt, conn)}
                 /\ conn = m.sock[c] /\ m.alive[c]
                      => \E turn \in ToSet(m.inbox[c]) :
                            turn.req = req /\ turn.local = Unhandled

LEMMA SentFacts ==
    ASSUME NEW n, GoodNet(n), NEW by, NEW c \in MeshClients, NEW req, GoodRequest(req),
           NEW attempt
    PROVE  LET m == Sent(n, by, c, req, attempt)
           IN GoodNet(m) /\ Asks(n, m, by, c, req, attempt)
<1>. DEFINE m == Sent(n, by, c, req, attempt)
            new == n.sock[c] = 0
            conn == IF new THEN n.opened[c] + 1 ELSE n.sock[c]
            works == IF new THEN n.up[c] ELSE n.alive[c]
            turn == [conn |-> conn, req |-> req, local |-> Unhandled]
            box == IF works THEN Append(n.inbox[c], turn) ELSE n.inbox[c]
<1>1. NetShape(n) /\ NetOrder(n)
  BY DEF GoodNet
<1>2. /\ m.up = n.up /\ m.answers = n.answers
      /\ m.sock = [n.sock EXCEPT ![c] = IF new /\ ~n.up[c] THEN 0 ELSE conn]
      /\ m.opened = [n.opened EXCEPT ![c] = IF new THEN conn ELSE @]
      /\ m.alive = [n.alive EXCEPT ![c] = works]
      /\ m.inbox = [n.inbox EXCEPT ![c] = box]
      /\ m.calls = n.calls \union {Call(by, c, req, attempt, conn)}
      /\ m = [up |-> m.up, sock |-> m.sock, opened |-> m.opened, alive |-> m.alive,
              inbox |-> m.inbox, answers |-> m.answers, calls |-> m.calls]
  <2>. HIDE DEF conn
  <2>1. n = [up |-> n.up, sock |-> n.sock, opened |-> n.opened, alive |-> n.alive,
            inbox |-> n.inbox, answers |-> n.answers, calls |-> n.calls]
    BY <1>1 DEF NetShape
  <2>2. DOMAIN n = {"up", "sock", "opened", "alive", "inbox", "answers", "calls"}
    BY <2>1
  <2>3. /\ m.up = n.up /\ m.answers = n.answers
        /\ m.sock = [n.sock EXCEPT ![c] = IF new /\ ~n.up[c] THEN 0 ELSE conn]
    BY <2>2 DEF Sent, conn
  <2>4. m.opened = [n.opened EXCEPT ![c] = IF new THEN conn ELSE @]
    BY <2>2 DEF Sent, conn
  <2>5. m.alive = [n.alive EXCEPT ![c] = works]
    BY <2>2 DEF Sent, conn
  <2>6. m.inbox = [n.inbox EXCEPT ![c] = box]
    BY <2>2 DEF Sent, conn
  <2>7. m.calls = n.calls \union {Call(by, c, req, attempt, conn)}
    BY <2>2 DEF Sent, conn
  <2>8. m = [up |-> m.up, sock |-> m.sock, opened |-> m.opened, alive |-> m.alive,
              inbox |-> m.inbox, answers |-> m.answers, calls |-> m.calls]
    <3>1. DOMAIN m = {"up", "sock", "opened", "alive", "inbox", "answers", "calls"}
      BY <2>2 DEF Sent
    <3>2. m = [f \in DOMAIN m |-> m[f]]
      BY DEF Sent
    <3>. HIDE DEF m
    <3>. QED BY <3>1, <3>2
  <2>. QED BY <2>3, <2>4, <2>5, <2>6, <2>7, <2>8
<1>. HIDE DEF m, conn
<1>3. /\ m.sock = [d \in MeshClients |-> IF d = c THEN (IF new /\ ~n.up[c] THEN 0 ELSE conn)
                                         ELSE n.sock[d]]
      /\ m.opened = [d \in MeshClients |-> IF d = c /\ new THEN conn ELSE n.opened[d]]
      /\ m.alive = [d \in MeshClients |-> IF d = c THEN works ELSE n.alive[d]]
      /\ m.inbox = [d \in MeshClients |-> IF d = c THEN box ELSE n.inbox[d]]
  <2>. HIDE DEF new, works, box
  <2>. QED BY <1>1, <1>2 DEF NetShape
<1>4. works \in BOOLEAN /\ n.up[c] \in BOOLEAN
  BY <1>1 DEF NetShape
<1>5. /\ IsList(box)
      /\ ToSet(n.inbox[c]) \subseteq ToSet(box)
      /\ ToSet(box) \subseteq ToSet(n.inbox[c]) \union {turn}
      /\ works => turn \in ToSet(box)
  <2>1. IsList(n.inbox[c])
    BY <1>1 DEF NetShape
  <2>. HIDE DEF works, turn
  <2>. QED BY <1>4, <2>1, AppendList
<1>. HIDE DEF box
<1>6. turn.req = req /\ turn.local = Unhandled /\ GoodTurn(turn)
  BY DEF GoodTurn
<1>7. NetShape(m)
  <2>1. m.up \in [MeshClients -> BOOLEAN] /\ m.alive \in [MeshClients -> BOOLEAN]
    <3>. HIDE DEF works
    <3>. QED BY <1>1, <1>2, <1>3, <1>4 DEF NetShape
  <2>2. \A d \in MeshClients : IsList(m.inbox[d])
    BY <1>1, <1>3, <1>5 DEF NetShape
  <2>3. m.answers = [d \in MeshClients |-> m.answers[d]]
    BY <1>1, <1>2 DEF NetShape
  <2>4. /\ m.sock = [d \in MeshClients |-> m.sock[d]]
        /\ m.inbox = [d \in MeshClients |-> m.inbox[d]]
    <3>. HIDE DEF new, works
    <3>. QED BY <1>3
  <2>5. m.opened \in [MeshClients -> Nat]
    <3>1. n.opened \in [MeshClients -> Nat]
      BY <1>1 DEF NetShape
    <3>2. new => conn \in Nat
      BY <3>1 DEF conn
    <3>. HIDE DEF new
    <3>. QED BY <1>3, <3>1, <3>2
  <2>. QED BY <1>2, <2>1, <2>2, <2>3, <2>4, <2>5 DEF NetShape
<1>8. NetOrder(m)
  <2>. SUFFICES ASSUME NEW d \in MeshClients
                PROVE  /\ m.sock[d] = 0 => ~m.alive[d]
                       /\ ~m.alive[d] => m.answers[d] = <<>>
    BY DEF NetOrder
  <2>1. /\ n.sock[d] = 0 => ~n.alive[d]
        /\ ~n.alive[d] => n.answers[d] = <<>>
    BY <1>1 DEF NetOrder
  <2>2. CASE d # c
    BY <1>2, <1>3, <2>1, <2>2
  <2>3. CASE d = c /\ new
    <3>1. n.opened[c] \in Nat
      BY <1>1 DEF NetShape
    <3>. QED BY <1>2, <1>3, <2>1, <2>3, <3>1 DEF conn
  <2>4. CASE d = c /\ ~new
    BY <1>2, <1>3, <2>1, <2>4 DEF conn
  <2>. QED BY <2>2, <2>3, <2>4
<1>9. \A d \in MeshClients : \A t \in ToSet(m.inbox[d]) : GoodTurn(t)
  <2>1. \A d \in MeshClients : \A t \in ToSet(n.inbox[d]) : GoodTurn(t)
    BY DEF GoodNet
  <2>. HIDE DEF turn
  <2>. QED BY <1>3, <1>5, <1>6, <2>1
<1>10. \A call \in m.calls : GoodCall(call)
  BY <1>2 DEF GoodNet, GoodCall, Call
<1>11. \A d \in MeshClients : d # c => SameFor(n, m, d)
  BY <1>2, <1>3 DEF SameFor
<1>12. /\ conn = m.sock[c] /\ m.alive[c]
            => \E t \in ToSet(m.inbox[c]) : t.req = req /\ t.local = Unhandled
       /\ ToSet(n.inbox[c]) \subseteq ToSet(m.inbox[c])
  <2>. HIDE DEF turn, new
  <2>. QED BY <1>3, <1>4, <1>5, <1>6
<1>13. GoodNet(m)
  BY <1>7, <1>8, <1>9, <1>10 DEF GoodNet
<1>14. Asks(n, m, by, c, req, attempt)
  BY <1>2, <1>11, <1>12 DEF Asks
<1>. QED BY <1>13, <1>14 DEF m

LEMMA ClosedFacts ==
    ASSUME NEW n, GoodNet(n), NEW c \in MeshClients
    PROVE  LET m == Closed(n, c)
           IN /\ GoodNet(m) /\ m.calls = n.calls
              /\ \A d \in MeshClients : d # c => SameFor(n, m, d)
              /\ m.inbox[c] = n.inbox[c] /\ m.sock[c] = 0 /\ ~m.alive[c]
<1>. DEFINE m == Closed(n, c)
            bit == FALSE
<1>0. bit = FALSE /\ bit \in BOOLEAN
  OBVIOUS
<1>. HIDE DEF bit
<1>1. /\ DOMAIN n = Fields /\ Plain(n, c) /\ \A x \in n.calls : GoodCall(x)
      /\ IsList(n.inbox[c]) /\ \A t \in ToSet(n.inbox[c]) : GoodTurn(t)
  BY Unaltered DEF IsNet
<1>2. IsNet(m)
  <2>1. DOMAIN m = Fields
    BY <1>1 DEF Closed
  <2>2. m = [f \in DOMAIN m |-> m[f]]
    BY DEF Closed
  <2>. QED BY <2>1, <2>2 DEF IsNet
<1>3. /\ m.up = n.up /\ m.sock = [n.sock EXCEPT ![c] = 0] /\ m.opened = n.opened
      /\ m.alive = [n.alive EXCEPT ![c] = FALSE] /\ m.inbox = n.inbox
      /\ m.answers = [n.answers EXCEPT ![c] = <<>>] /\ m.calls = n.calls
  BY <1>1 DEF Closed, Fields
<1>. HIDE DEF m
<1>4. Changes(n, m, c, n.up[c], 0, n.opened[c], bit, n.inbox[c], <<>>)
  BY <1>0, <1>1, <1>2, <1>3 DEF Plain, Changes
<1>5. Fine(n.up[c], 0, n.opened[c], bit, n.inbox[c], <<>>)
  BY <1>0, <1>1 DEF Plain, Fine
<1>6. /\ GoodNet(m) /\ \A d \in MeshClients : d # c => SameFor(n, m, d)
      /\ m.sock[c] = 0 /\ m.alive[c] = bit /\ m.inbox[c] = n.inbox[c]
  <2>1. \A x \in m.calls : GoodCall(x)
    BY <1>1, <1>3
  <2>. QED BY <2>1, <1>4, <1>5, Altered
<1>. QED BY <1>0, <1>3, <1>6 DEF m

\* A call that is over, whatever became of it.
LEMMA GivenUpFacts ==
    ASSUME NEW n, GoodNet(n), NEW gone
    PROVE  LET m == [n EXCEPT !.calls = @ \ gone]
           IN /\ GoodNet(m) /\ m.calls = n.calls \ gone
              /\ \A d \in MeshClients : SameFor(n, m, d)
<1>. DEFINE m == [n EXCEPT !.calls = @ \ gone]
<1>1. DOMAIN n = Fields
  BY Unaltered DEF IsNet, MeshClients
<1>2. IsNet(m)
  <2>1. DOMAIN m = Fields
    BY <1>1
  <2>2. m = [f \in DOMAIN m |-> m[f]]
    OBVIOUS
  <2>. QED BY <2>1, <2>2 DEF IsNet
<1>3. /\ m.up = n.up /\ m.sock = n.sock /\ m.opened = n.opened /\ m.alive = n.alive
      /\ m.inbox = n.inbox /\ m.answers = n.answers /\ m.calls = n.calls \ gone
  BY <1>1 DEF Fields
<1>. HIDE DEF m
<1>4. \A d \in MeshClients : SameFor(n, m, d)
  BY <1>3 DEF SameFor
<1>5. GoodNet(m)
  BY <1>2, <1>3, NetIs DEF GoodNet, NetShape, NetOrder
<1>. QED BY <1>3, <1>4, <1>5 DEF m

LEMMA DroppedFacts ==
    ASSUME NEW n, GoodNet(n), NEW c \in MeshClients
    PROVE  LET m == Dropped(n, c)
           IN /\ GoodNet(m) /\ m.calls = {call \in n.calls : call.client # c}
              /\ \A d \in MeshClients : d # c => SameFor(n, m, d)
              /\ m.inbox[c] = n.inbox[c] /\ m.sock[c] = 0 /\ ~m.alive[c]
<1>. DEFINE a == Closed(n, c)
            gone == {call \in n.calls : call.client = c}
            m == [a EXCEPT !.calls = @ \ gone]
<1>1. /\ GoodNet(a) /\ a.calls = n.calls
      /\ \A d \in MeshClients : d # c => SameFor(n, a, d)
      /\ a.inbox[c] = n.inbox[c] /\ a.sock[c] = 0 /\ ~a.alive[c]
  BY ClosedFacts
<1>2. a.calls \ gone = {call \in n.calls : call.client # c}
  BY <1>1
<1>3. {call \in a.calls : call.client # c} = a.calls \ gone
  BY <1>1
<1>. HIDE DEF a, gone
<1>4. Dropped(n, c) = m
  BY <1>3 DEF Dropped, a
<1>5. /\ GoodNet(m) /\ m.calls = a.calls \ gone
      /\ \A d \in MeshClients : SameFor(a, m, d)
  BY <1>1, GivenUpFacts
<1>. HIDE DEF m
<1>. QED BY <1>1, <1>2, <1>4, <1>5 DEF SameFor

LEMMA ReadFacts ==
    ASSUME NEW n, GoodNet(n), NEW call, call.client \in MeshClients,
           n.answers[call.client] # <<>>
    PROVE  LET m == Read(n, call)
           IN /\ GoodNet(m) /\ m.calls = n.calls \ {call}
              /\ \A d \in MeshClients : /\ m.sock[d] = n.sock[d] /\ m.alive[d] = n.alive[d]
                                        /\ m.inbox[d] = n.inbox[d]
<1>. DEFINE m == Read(n, call)
            c == call.client
            rest == Tail(n.answers[c])
<1>. HIDE DEF c
<1>0. c \in MeshClients /\ n.answers[c] # <<>>
  BY DEF c
<1>1. /\ DOMAIN n = Fields /\ Plain(n, c) /\ \A x \in n.calls : GoodCall(x)
      /\ IsList(n.inbox[c]) /\ \A t \in ToSet(n.inbox[c]) : GoodTurn(t)
  BY <1>0, Unaltered DEF IsNet
<1>2. IsNet(m)
  <2>1. DOMAIN m = Fields
    BY <1>1 DEF Read, c
  <2>2. m = [f \in DOMAIN m |-> m[f]]
    BY DEF Read, c
  <2>. QED BY <2>1, <2>2 DEF IsNet
<1>3. /\ m.up = n.up /\ m.sock = n.sock /\ m.opened = n.opened
      /\ m.alive = n.alive /\ m.inbox = n.inbox
      /\ m.answers = [n.answers EXCEPT ![c] = rest] /\ m.calls = n.calls \ {call}
  BY <1>1 DEF Read, Fields, c
<1>. HIDE DEF m, rest
<1>4. Changes(n, m, c, n.up[c], n.sock[c], n.opened[c], n.alive[c], n.inbox[c], rest)
  BY <1>1, <1>2, <1>3 DEF Plain, Changes
<1>5. Fine(n.up[c], n.sock[c], n.opened[c], n.alive[c], n.inbox[c], rest)
  BY <1>0, <1>1 DEF Plain, Fine
<1>6. GoodNet(m)
  <2>1. \A x \in m.calls : GoodCall(x)
    BY <1>1, <1>3
  <2>. QED BY <1>0, <2>1, <1>4, <1>5, Altered
<1>7. \A d \in MeshClients : /\ m.sock[d] = n.sock[d] /\ m.alive[d] = n.alive[d]
                             /\ m.inbox[d] = n.inbox[d]
  BY <1>3
<1>. QED BY <1>3, <1>6, <1>7, Zenon DEF m

LEMMA AnsweredFacts ==
    ASSUME NEW n, GoodNet(n), NEW c \in MeshClients, NEW i \in DOMAIN n.inbox[c], NEW reply
    PROVE  LET m == Answered(n, c, i, reply)
           IN /\ GoodNet(m) /\ m.calls = n.calls
              /\ \A d \in MeshClients : d # c => SameFor(n, m, d)
              /\ m.sock[c] = n.sock[c] /\ m.alive[c] = n.alive[c]
              /\ m.inbox[c] = RemoveAt(n.inbox[c], i)
<1>. DEFINE m == Answered(n, c, i, reply)
            turn == n.inbox[c][i]
            box == RemoveAt(n.inbox[c], i)
            reads == turn.conn = n.sock[c] /\ n.alive[c]
            ans == IF reads THEN Append(n.answers[c], [req |-> turn.req, reply |-> reply])
                   ELSE n.answers[c]
<1>1. /\ DOMAIN n = Fields /\ Plain(n, c) /\ \A x \in n.calls : GoodCall(x)
      /\ IsList(n.inbox[c]) /\ \A t \in ToSet(n.inbox[c]) : GoodTurn(t)
  BY Unaltered DEF IsNet
<1>2. IsNet(m)
  <2>1. DOMAIN m = Fields
    BY <1>1 DEF Answered
  <2>2. m = [f \in DOMAIN m |-> m[f]]
    BY DEF Answered
  <2>. QED BY <2>1, <2>2 DEF IsNet
<1>3. /\ m.up = n.up /\ m.sock = n.sock /\ m.opened = n.opened
      /\ m.alive = n.alive /\ m.inbox = [n.inbox EXCEPT ![c] = box] /\ m.calls = n.calls
  BY <1>1 DEF Answered, Fields
<1>4. m.answers = [n.answers EXCEPT ![c] = ans]
  BY <1>1 DEF Answered, Fields
<1>5. IsList(box) /\ \A t \in ToSet(box) : GoodTurn(t)
  <2>1. IsList(box) /\ ToSet(box) \subseteq ToSet(n.inbox[c])
    BY <1>1, RemoveList
  <2>. QED BY <1>1, <2>1
<1>6. Fine(n.up[c], n.sock[c], n.opened[c], n.alive[c], box, ans)
  <2>1. ~n.alive[c] => ans = <<>>
    BY <1>1 DEF Plain, Fine
  <2>. HIDE DEF ans, box
  <2>. QED BY <1>1, <1>5, <2>1 DEF Plain, Fine
<1>. HIDE DEF m, ans, box
<1>7. Changes(n, m, c, n.up[c], n.sock[c], n.opened[c], n.alive[c], box, ans)
  BY <1>1, <1>2, <1>3, <1>4 DEF Plain, Changes
<1>8. /\ GoodNet(m) /\ \A d \in MeshClients : d # c => SameFor(n, m, d)
      /\ m.sock[c] = n.sock[c] /\ m.alive[c] = n.alive[c] /\ m.inbox[c] = box
  <2>1. \A x \in m.calls : GoodCall(x)
    BY <1>1, <1>3
  <2>. QED BY <2>1, <1>6, <1>7, Altered
<1>. QED BY <1>3, <1>8 DEF m, box

LEMMA LocalFacts ==
    ASSUME NEW n, GoodNet(n), NEW c \in MeshClients, NEW i \in DOMAIN n.inbox[c], NEW v
    PROVE  LET m == WithLocal(n, c, i, v)
           IN /\ GoodNet(m) /\ m.calls = n.calls
              /\ \A d \in MeshClients : d # c => SameFor(n, m, d)
              /\ m.sock[c] = n.sock[c] /\ m.alive[c] = n.alive[c]
              /\ ToSet(n.inbox[c]) \ {n.inbox[c][i]} \subseteq ToSet(m.inbox[c])
<1>. DEFINE m == WithLocal(n, c, i, v)
            turn == n.inbox[c][i]
            moved == [turn EXCEPT !.local = v]
            box == [n.inbox[c] EXCEPT ![i] = moved]
<1>1. /\ DOMAIN n = Fields /\ Plain(n, c) /\ \A x \in n.calls : GoodCall(x)
      /\ IsList(n.inbox[c]) /\ \A t \in ToSet(n.inbox[c]) : GoodTurn(t)
  BY Unaltered DEF IsNet
<1>2. IsNet(m)
  <2>1. DOMAIN m = Fields
    BY <1>1 DEF WithLocal
  <2>2. m = [f \in DOMAIN m |-> m[f]]
    BY DEF WithLocal
  <2>. QED BY <2>1, <2>2 DEF IsNet
<1>3. /\ m.up = n.up /\ m.sock = n.sock /\ m.opened = n.opened
      /\ m.alive = n.alive /\ m.answers = n.answers /\ m.calls = n.calls
  BY <1>1 DEF WithLocal, Fields
<1>4. m.inbox = [n.inbox EXCEPT ![c] = box]
  BY <1>1 DEF WithLocal, Fields
<1>5. turn \in ToSet(n.inbox[c])
  BY DEF ToSet
<1>6. GoodTurn(moved)
  <2>1. GoodTurn(turn)
    BY <1>1, <1>5
  <2>. HIDE DEF turn
  <2>2. moved = [conn |-> turn.conn, req |-> turn.req, local |-> v]
    <3>1. turn = [conn |-> turn.conn, req |-> turn.req, local |-> turn.local]
      BY <2>1 DEF GoodTurn
    <3>. QED BY <3>1
  <2>. HIDE DEF moved
  <2>. QED BY <2>1, <2>2 DEF GoodTurn
<1>. HIDE DEF moved
<1>7. /\ IsList(box) /\ \A t \in ToSet(box) : GoodTurn(t)
      /\ ToSet(n.inbox[c]) \ {turn} \subseteq ToSet(box)
  <2>1. /\ IsList(box) /\ ToSet(box) \subseteq ToSet(n.inbox[c]) \union {moved}
        /\ ToSet(n.inbox[c]) \ {turn} \subseteq ToSet(box)
    BY <1>1, LocalList
  <2>. HIDE DEF box, turn
  <2>. QED BY <1>1, <1>6, <2>1
<1>. HIDE DEF m, box, turn
<1>8. Changes(n, m, c, n.up[c], n.sock[c], n.opened[c], n.alive[c], box, n.answers[c])
  BY <1>1, <1>2, <1>3, <1>4 DEF Plain, Changes
<1>9. Fine(n.up[c], n.sock[c], n.opened[c], n.alive[c], box, n.answers[c])
  BY <1>1, <1>7 DEF Plain, Fine
<1>10. /\ GoodNet(m) /\ \A d \in MeshClients : d # c => SameFor(n, m, d)
       /\ m.sock[c] = n.sock[c] /\ m.alive[c] = n.alive[c] /\ m.inbox[c] = box
  <2>1. \A x \in m.calls : GoodCall(x)
    BY <1>1, <1>3
  <2>. QED BY <2>1, <1>8, <1>9, Altered
<1>. QED BY <1>3, <1>7, <1>10 DEF m, turn

LEMMA LostFacts ==
    ASSUME NEW n, GoodNet(n), NEW c \in MeshClients, NEW keep \in BOOLEAN
    PROVE  LET m == Lost(n, c, keep)
           IN /\ GoodNet(m) /\ m.calls = n.calls
              /\ \A d \in MeshClients : d # c => SameFor(n, m, d)
              /\ ~m.alive[c]
              /\ keep => m.inbox[c] = n.inbox[c]
              /\ ToSet(n.inbox[c]) \ Unbegun(n, c) \subseteq ToSet(m.inbox[c])
<1>. DEFINE m == Lost(n, c, keep)
            box == IF keep THEN n.inbox[c] ELSE Remaining(n.inbox[c], Unbegun(n, c))
            bit == FALSE
<1>0. bit = FALSE /\ bit \in BOOLEAN
  OBVIOUS
<1>. HIDE DEF bit
<1>1. /\ DOMAIN n = Fields /\ Plain(n, c) /\ \A x \in n.calls : GoodCall(x)
      /\ IsList(n.inbox[c]) /\ \A t \in ToSet(n.inbox[c]) : GoodTurn(t)
  BY Unaltered DEF IsNet
<1>2. IsNet(m)
  <2>1. DOMAIN m = Fields
    BY <1>1 DEF Lost
  <2>2. m = [f \in DOMAIN m |-> m[f]]
    BY DEF Lost
  <2>. QED BY <2>1, <2>2 DEF IsNet
<1>3. /\ m.up = n.up /\ m.sock = n.sock /\ m.opened = n.opened
      /\ m.alive = [n.alive EXCEPT ![c] = FALSE]
      /\ m.inbox = [n.inbox EXCEPT ![c] = box]
      /\ m.answers = [n.answers EXCEPT ![c] = <<>>] /\ m.calls = n.calls
  BY <1>1 DEF Lost, Fields
<1>4. /\ IsList(box)
      /\ ToSet(box) \subseteq ToSet(n.inbox[c])
      /\ ToSet(n.inbox[c]) \ Unbegun(n, c) \subseteq ToSet(box)
      /\ keep => box = n.inbox[c]
  BY <1>1, RemainingList
<1>. HIDE DEF m, box
<1>5. Fine(n.up[c], n.sock[c], n.opened[c], bit, box, <<>>)
  BY <1>0, <1>1, <1>4 DEF Plain, Fine
<1>6. Changes(n, m, c, n.up[c], n.sock[c], n.opened[c], bit, box, <<>>)
  BY <1>0, <1>1, <1>2, <1>3 DEF Plain, Changes
<1>7. /\ GoodNet(m) /\ \A d \in MeshClients : d # c => SameFor(n, m, d)
      /\ m.alive[c] = bit /\ m.inbox[c] = box
  <2>1. \A x \in m.calls : GoodCall(x)
    BY <1>1, <1>3
  <2>. QED BY <2>1, <1>5, <1>6, Altered
<1>. QED BY <1>0, <1>3, <1>4, <1>7 DEF m

LEMMA ServerGoneFacts ==
    ASSUME NEW n, GoodNet(n), NEW c \in MeshClients
    PROVE  LET m == ServerGone(n, c)
           IN /\ GoodNet(m) /\ m.calls = n.calls
              /\ \A d \in MeshClients : d # c => SameFor(n, m, d)
              /\ ~m.alive[c]
<1>. DEFINE m == ServerGone(n, c)
            bit == FALSE
<1>0. bit = FALSE /\ bit \in BOOLEAN
  OBVIOUS
<1>. HIDE DEF bit
<1>1. /\ DOMAIN n = Fields /\ Plain(n, c) /\ \A x \in n.calls : GoodCall(x)
      /\ IsList(n.inbox[c]) /\ \A t \in ToSet(n.inbox[c]) : GoodTurn(t)
  BY Unaltered DEF IsNet
<1>2. IsNet(m)
  <2>1. DOMAIN m = Fields
    BY <1>1 DEF ServerGone
  <2>2. m = [f \in DOMAIN m |-> m[f]]
    BY DEF ServerGone
  <2>. QED BY <2>1, <2>2 DEF IsNet
<1>3. /\ m.up = [n.up EXCEPT ![c] = FALSE] /\ m.sock = n.sock /\ m.opened = n.opened
      /\ m.alive = [n.alive EXCEPT ![c] = FALSE]
      /\ m.inbox = [n.inbox EXCEPT ![c] = <<>>]
      /\ m.answers = [n.answers EXCEPT ![c] = <<>>] /\ m.calls = n.calls
  BY <1>1 DEF ServerGone, Fields
<1>. HIDE DEF m
<1>4. IsList(<<>>) /\ ToSet(<<>>) = {}
  BY DEF IsList, ToSet
<1>5. Fine(bit, n.sock[c], n.opened[c], bit, <<>>, <<>>)
  BY <1>0, <1>1, <1>4 DEF Plain, Fine
<1>6. Changes(n, m, c, bit, n.sock[c], n.opened[c], bit, <<>>, <<>>)
  BY <1>0, <1>1, <1>2, <1>3 DEF Plain, Changes
<1>7. /\ GoodNet(m) /\ \A d \in MeshClients : d # c => SameFor(n, m, d)
      /\ m.alive[c] = bit
  <2>1. \A x \in m.calls : GoodCall(x)
    BY <1>1, <1>3
  <2>. QED BY <2>1, <1>5, <1>6, Altered
<1>. QED BY <1>0, <1>3, <1>7 DEF m

LEMMA ServerBackFacts ==
    ASSUME NEW n, GoodNet(n), NEW c \in MeshClients
    PROVE  LET m == ServerBack(n, c)
           IN /\ GoodNet(m) /\ m.calls = n.calls
              /\ \A d \in MeshClients : /\ m.sock[d] = n.sock[d] /\ m.alive[d] = n.alive[d]
                                        /\ m.inbox[d] = n.inbox[d]
<1>. DEFINE m == ServerBack(n, c)
            bit == TRUE
<1>0. bit = TRUE /\ bit \in BOOLEAN
  OBVIOUS
<1>. HIDE DEF bit
<1>1. /\ DOMAIN n = Fields /\ Plain(n, c) /\ \A x \in n.calls : GoodCall(x)
      /\ IsList(n.inbox[c]) /\ \A t \in ToSet(n.inbox[c]) : GoodTurn(t)
  BY Unaltered DEF IsNet
<1>2. IsNet(m)
  <2>1. DOMAIN m = Fields
    BY <1>1 DEF ServerBack
  <2>2. m = [f \in DOMAIN m |-> m[f]]
    BY DEF ServerBack
  <2>. QED BY <2>1, <2>2 DEF IsNet
<1>3. /\ m.up = [n.up EXCEPT ![c] = TRUE] /\ m.sock = n.sock /\ m.opened = n.opened
      /\ m.alive = n.alive /\ m.inbox = n.inbox
      /\ m.answers = n.answers /\ m.calls = n.calls
  BY <1>1 DEF ServerBack, Fields
<1>. HIDE DEF m
<1>4. Fine(bit, n.sock[c], n.opened[c], n.alive[c], n.inbox[c], n.answers[c])
  BY <1>0, <1>1 DEF Plain, Fine
<1>5. Changes(n, m, c, bit, n.sock[c], n.opened[c], n.alive[c], n.inbox[c], n.answers[c])
  BY <1>0, <1>1, <1>2, <1>3 DEF Plain, Changes
<1>6. GoodNet(m)
  <2>1. \A x \in m.calls : GoodCall(x)
    BY <1>1, <1>3
  <2>. QED BY <2>1, <1>4, <1>5, Altered
<1>. QED BY <1>0, <1>3, <1>6 DEF m

-----------------------------------------------------------------------------
(* The stages. *)

InRows(seq) == \E j \in DOMAIN rows : rows[j].seq = seq

\* The call is under way and not yet being released.
Working == pc \notin {"idle", "free"}

LEMMA Entries ==
    /\ \A s \in 1..2 : EntryOf(s) \in Own /\ EntryOf(s) \in MeshClients /\ StageOf(EntryOf(s)) = s
    /\ \A c \in Own : StageOf(c) \in 1..2 /\ EntryOf(StageOf(c)) = c /\ c \in MeshClients
BY DEF EntryOf, StageOf, Own, MeshClients

\* What a stage, a handler thread or a fault may do without breaking a promise:
\* what a stage gets is a sequence of the call or one that may stay behind, and
\* a release that was waiting still waits, or has nothing left to release.
LEMMA StageSide ==
    ASSUME IInv, GoodNet(net'),
           UNCHANGED <<driver, future>>,
           \A call \in net'.calls : call.client \in Own => call \in net.calls,
           \A c \in Own : net'.alive[c] => net.alive[c] /\ net'.sock[c] = net.sock[c],
           cache' = [s \in 1..2 |-> cache'[s]],
           abandoned \subseteq abandoned',
           \A s \in 1..2 : \A seq \in DOMAIN cache'[s] :
              seq \in abandoned' \/ seq \in DOMAIN cache[s] \/ (Working /\ InRows(seq)),
           \A s \in 1..2 : \A turn \in ToSet(net.inbox[EntryOf(s)]) :
              turn.req.op = "free" /\ turn.local = Unhandled =>
                 \/ turn \in ToSet(net'.inbox[EntryOf(s)])
                 \/ turn.req.seqs[1] \notin DOMAIN cache'[s]
                 \/ turn.req.seqs[1] \in abandoned'
    PROVE  IInv'
<1>1. /\ remote' = remote /\ batch' = batch /\ rows' = rows /\ pc' = pc /\ k' = k
      /\ chunks' = chunks /\ future' = future
  BY DEF driver
<1>2. Shape /\ Busy /\ Solo /\ Phase /\ HeldOrDue /\ AnsweredSettled /\ WaitingSettled
  BY DEF IInv
<1>3. ASSUME NEW s \in 1..2, NEW seq, Settled(s, seq)
      PROVE  Settled(s, seq)' \/ (Working /\ InRows(seq))
  BY <1>3 DEF Settled, Underway
<1>4. Shape'
  BY <1>1, <1>2 DEF Shape, RowsShape
<1>5. Busy'
  BY <1>1, <1>2 DEF Busy, ReleaseClient
<1>6. Solo'
  BY <1>1, <1>2 DEF Solo
<1>7. Phase'
  BY <1>1, <1>2 DEF Phase, ReleaseSeq
<1>8. HeldOrDue'
  <2>. SUFFICES ASSUME NEW s \in 1..2, NEW seq \in DOMAIN cache'[s], ~Settled(s, seq)'
                PROVE  Due(s, seq)'
    BY DEF HeldOrDue
  <2>1. Working /\ InRows(seq) => Due(s, seq)'
    BY <1>1 DEF Working, InRows, Due
  <2>2. Due(s, seq) => Due(s, seq)'
    BY <1>1 DEF Due
  <2>3. seq \notin abandoned'
    BY DEF Settled
  <2>4. CASE seq \in DOMAIN cache[s]
    BY <1>2, <1>3, <2>1, <2>2, <2>4 DEF HeldOrDue
  <2>. QED BY <2>1, <2>3, <2>4
<1>9. AnsweredSettled'
  <2>. SUFFICES ASSUME pc = "free", NEW c \in Own, future[c] \notin {None, Pending}
                PROVE  Settled(StageOf(c), ReleaseSeq(k))'
    BY <1>1 DEF AnsweredSettled
  <2>1. Settled(StageOf(c), ReleaseSeq(k))
    BY <1>2 DEF AnsweredSettled
  <2>2. StageOf(c) \in 1..2
    BY Entries
  <2>3. ReleaseSeq(k)' = ReleaseSeq(k)
    BY <1>1 DEF ReleaseSeq
  <2>. QED BY <1>3, <2>1, <2>2, <2>3 DEF Working
<1>10. WaitingSettled'
  <2>. SUFFICES ASSUME NEW call \in net'.calls, call.client \in Own, call.req.op = "free",
                       call.conn = net'.sock[call.client], net'.alive[call.client]
                PROVE  Settled(StageOf(call.client), call.req.seqs[1])'
    BY DEF WaitingSettled
  <2>1. call \in net.calls /\ net.alive[call.client] /\ call.conn = net.sock[call.client]
    OBVIOUS
  <2>2. Settled(StageOf(call.client), call.req.seqs[1]) /\ pc = "free"
    BY <1>2, <2>1 DEF WaitingSettled, Phase
  <2>3. StageOf(call.client) \in 1..2
    BY Entries
  <2>. QED BY <1>3, <2>2, <2>3 DEF Working
<1>. QED BY <1>4, <1>5, <1>6, <1>7, <1>8, <1>9, <1>10 DEF IInv

LEMMA EffectDomain ==
    ASSUME NEW s \in 1..2, NEW req, GoodRequest(req)
    PROVE  /\ req.op \in {"prefill", "prefill_chain"} =>
                DOMAIN Effect(s, req).cache = DOMAIN cache[s] \union {req.seqs[1]}
           /\ req.op \notin {"prefill", "prefill_chain", "free"} =>
                DOMAIN Effect(s, req).cache = DOMAIN cache[s]
           /\ req.op = "free" =>
                DOMAIN Effect(s, req).cache = DOMAIN cache[s] \ {req.seqs[1]}
           /\ Effect(s, req).reply = Raised => req.op \notin {"prefill", "prefill_chain", "free"}
<1>1. CASE req.op = "free"
  <2>1. Effect(s, req) = [cache |-> Freed(cache[s], req.seqs[1]), reply |-> Ok]
    BY <1>1 DEF Effect
  <2>2. DOMAIN Freed(cache[s], req.seqs[1]) = DOMAIN cache[s] \ {req.seqs[1]}
    BY DEF Freed
  <2>3. Ok # Raised
    BY DEF Ok, Raised
  <2>. QED BY <1>1, <2>1, <2>2, <2>3
<1>2. CASE req.op \in {"prefill", "prefill_chain"}
  <2>. DEFINE answer == IF s = 1 THEN Hidden(req.vals) ELSE Token(<<NextToken(req.vals[1])>>)
  <2>1. Effect(s, req) = [cache |-> Prefilled(cache[s], req.seqs[1], req.vals[1]),
                          reply |-> answer]
    BY <1>2 DEF Effect
  <2>2. DOMAIN Prefilled(cache[s], req.seqs[1], req.vals[1]) = DOMAIN cache[s] \union {req.seqs[1]}
    BY DEF Prefilled, Ensured
  <2>3. answer # Raised
    BY DEF Hidden, Token, Raised
  <2>. HIDE DEF answer
  <2>. QED BY <1>2, <2>1, <2>2, <2>3
<1>3. CASE req.op \notin {"free", "prefill", "prefill_chain"}
  <2>1. DOMAIN Decoded(cache[s], req.seqs, req.vals) = DOMAIN cache[s]
    BY DEF Decoded
  <2>2. \/ Effect(s, req).cache = cache[s]
        \/ Effect(s, req).cache = Decoded(cache[s], req.seqs, req.vals)
    BY <1>3 DEF Effect
  <2>. QED BY <1>3, <2>1, <2>2
<1>. QED BY <1>1, <1>2, <1>3

LEMMA NotLate ==
    ASSUME NEW req, 1 \in DOMAIN req.seqs, ~Late(req)
    PROVE  Working /\ InRows(req.seqs[1])
<1>1. req.seqs[1] \in ToSet(req.seqs)
  BY DEF ToSet
<1>. QED BY <1>1 DEF Late, Working, InRows

LEMMA LateAbandoned ==
    ASSUME NEW req, 1 \in DOMAIN req.seqs,
           abandoned' = IF Late(req) THEN abandoned \union ToSet(req.seqs) ELSE abandoned
    PROVE  /\ abandoned \subseteq abandoned'
           /\ req.seqs[1] \in abandoned' \/ (Working /\ InRows(req.seqs[1]))
<1>1. req.seqs[1] \in ToSet(req.seqs)
  BY DEF ToSet
<1>. QED BY <1>1, NotLate

\* Two records are the same where a stage looks.
KeepsReleases(n, m) ==
    \A s \in 1..2 : \A turn \in ToSet(n.inbox[EntryOf(s)]) :
        turn.req.op = "free" /\ turn.local = Unhandled => turn \in ToSet(m.inbox[EntryOf(s)])

\* From n to m the coordinator's calls and connections are as they were.
SameForOwn(n, m) ==
    /\ \A call \in m.calls : call.client \in Own => call \in n.calls
    /\ \A c \in Own : m.alive[c] => n.alive[c] /\ m.sock[c] = n.sock[c]

\* An answer is given to the request of a turn.
LEMMA AnsweredSide ==
    ASSUME NEW n, GoodNet(n), NEW c \in MeshClients, NEW i \in DOMAIN n.inbox[c], NEW reply
    PROVE  LET m == Answered(n, c, i, reply)
           IN /\ GoodNet(m) /\ SameForOwn(n, m)
              /\ \A s \in 1..2 : \A turn \in ToSet(n.inbox[EntryOf(s)]) :
                    (EntryOf(s) = c => turn # n.inbox[c][i]) => turn \in ToSet(m.inbox[EntryOf(s)])
<1>. DEFINE m == Answered(n, c, i, reply)
<1>1. /\ GoodNet(m) /\ m.calls = n.calls
      /\ \A d \in MeshClients : d # c => SameFor(n, m, d)
      /\ m.sock[c] = n.sock[c] /\ m.alive[c] = n.alive[c]
      /\ m.inbox[c] = RemoveAt(n.inbox[c], i)
  BY AnsweredFacts
<1>. HIDE DEF m
<1>2. \A turn \in ToSet(n.inbox[c]) : turn # n.inbox[c][i] => turn \in ToSet(m.inbox[c])
  <2>1. IsList(n.inbox[c])
    BY Unaltered
  <2>. QED BY <1>1, <2>1, RemoveList
<1>3. SameForOwn(n, m)
  BY <1>1, Entries DEF SameForOwn, SameFor
<1>4. ASSUME NEW s \in 1..2, NEW turn \in ToSet(n.inbox[EntryOf(s)]),
             EntryOf(s) = c => turn # n.inbox[c][i]
      PROVE  turn \in ToSet(m.inbox[EntryOf(s)])
  BY <1>1, <1>2, <1>4, Entries DEF SameFor
<1>. QED BY <1>1, <1>3, <1>4 DEF m

\* A turn other than a release moves on.
LEMMA LocalSide ==
    ASSUME NEW n, GoodNet(n), NEW c \in MeshClients, NEW i \in DOMAIN n.inbox[c], NEW v,
           n.inbox[c][i].local = Unhandled => n.inbox[c][i].req.op # "free"
    PROVE  LET m == WithLocal(n, c, i, v)
           IN GoodNet(m) /\ SameForOwn(n, m) /\ KeepsReleases(n, m)
<1>. DEFINE m == WithLocal(n, c, i, v)
<1>1. /\ GoodNet(m) /\ m.calls = n.calls
      /\ \A d \in MeshClients : d # c => SameFor(n, m, d)
      /\ m.sock[c] = n.sock[c] /\ m.alive[c] = n.alive[c]
      /\ ToSet(n.inbox[c]) \ {n.inbox[c][i]} \subseteq ToSet(m.inbox[c])
  BY LocalFacts
<1>. HIDE DEF m
<1>2. SameForOwn(n, m)
  BY <1>1, Entries DEF SameForOwn, SameFor
<1>3. KeepsReleases(n, m)
  <2>. SUFFICES ASSUME NEW s \in 1..2, NEW turn \in ToSet(n.inbox[EntryOf(s)]),
                       turn.req.op = "free", turn.local = Unhandled
                PROVE  turn \in ToSet(m.inbox[EntryOf(s)])
    BY DEF KeepsReleases
  <2>1. CASE EntryOf(s) = c
    <3>1. turn # n.inbox[c][i]
      OBVIOUS
    <3>. QED BY <1>1, <2>1, <3>1
  <2>2. CASE EntryOf(s) # c
    BY <1>1, <2>2, Entries DEF SameFor
  <2>. QED BY <2>1, <2>2
<1>. QED BY <1>1, <1>2, <1>3 DEF m

\* A handler thread makes a call on its client.
LEMMA ForwardSide ==
    ASSUME NEW n, GoodNet(n), NEW by, NEW req, GoodRequest(req)
    PROVE  LET m == Called(n, by, "f", req)
           IN GoodNet(m) /\ SameForOwn(n, m) /\ KeepsReleases(n, m)
<1>. DEFINE m == Sent(n, by, "f", req, 1)
<1>1. "f" \in MeshClients
  BY DEF MeshClients
<1>2. GoodNet(m) /\ Asks(n, m, by, "f", req, 1)
  BY <1>1, SentFacts
<1>. HIDE DEF m
<1>3. PICK conn : /\ \A d \in MeshClients : d # "f" => SameFor(n, m, d)
                  /\ m.calls = n.calls \union {Call(by, "f", req, 1, conn)}
  BY <1>2 DEF Asks
<1>4. Call(by, "f", req, 1, conn).client \notin Own
  BY DEF Call, Own
<1>5. \A c \in Own : c \in MeshClients /\ c # "f"
  BY DEF Own, MeshClients
<1>6. SameForOwn(n, m)
  BY <1>3, <1>4, <1>5 DEF SameForOwn, SameFor
<1>7. KeepsReleases(n, m)
  BY <1>3, <1>5, Entries DEF KeepsReleases, SameFor
<1>. QED BY <1>2, <1>6, <1>7 DEF m, Called

LEMMA SideTransitive ==
    ASSUME NEW n, NEW m, NEW o, SameForOwn(n, m), SameForOwn(m, o)
    PROVE  SameForOwn(n, o)
BY DEF SameForOwn

LEMMA KeepsTransitive ==
    ASSUME NEW n, NEW m, NEW o, KeepsReleases(n, m), KeepsReleases(m, o)
    PROVE  KeepsReleases(n, o)
BY DEF KeepsReleases

\* A turn and its request, as the invariant knows them.
LEMMA TurnFacts ==
    ASSUME IInv, NEW c \in MeshClients, NEW i \in Turns(net, c)
    PROVE  /\ i \in DOMAIN net.inbox[c]
           /\ net.inbox[c][i] \in ToSet(net.inbox[c])
           /\ GoodTurn(net.inbox[c][i])
           /\ GoodRequest(net.inbox[c][i].req)
<1>1. i \in DOMAIN net.inbox[c]
  BY DEF Turns
<1>2. net.inbox[c][i] \in ToSet(net.inbox[c])
  BY <1>1 DEF ToSet
<1>3. GoodTurn(net.inbox[c][i])
  BY <1>2 DEF IInv, Shape, GoodNet
<1>. QED BY <1>1, <1>2, <1>3 DEF GoodTurn

\* StageSide for steps that leave the caches as they are.
LEMMA HandlerSide ==
    ASSUME IInv, GoodNet(net'), SameForOwn(net, net'), KeepsReleases(net, net'),
           UNCHANGED <<driver, future, cache>>, abandoned \subseteq abandoned'
    PROVE  IInv'
<1>1. cache' = [s \in 1..2 |-> cache'[s]]
  BY DEF IInv, Shape
<1>2. \A call \in net'.calls : call.client \in Own => call \in net.calls
  BY DEF SameForOwn
<1>3. \A c \in Own : net'.alive[c] => net.alive[c] /\ net'.sock[c] = net.sock[c]
  BY DEF SameForOwn
<1>4. \A s \in 1..2 : \A seq \in DOMAIN cache'[s] : seq \in DOMAIN cache[s]
  OBVIOUS
<1>5. \A s \in 1..2 : \A turn \in ToSet(net.inbox[EntryOf(s)]) :
         turn.req.op = "free" /\ turn.local = Unhandled => turn \in ToSet(net'.inbox[EntryOf(s)])
  BY DEF KeepsReleases
<1>. QED BY <1>1, <1>2, <1>3, <1>4, <1>5, StageSide

LEMMA LoopBeginsInv ==
    ASSUME IInv, NEW i, LoopBegins(i)
    PROVE  IInv'
<1>1. "c1" \in MeshClients /\ i \in Turns(net, "c1")
  BY DEF LoopBegins, MeshClients
<1>2. i \in DOMAIN net.inbox["c1"] /\ GoodNet(net)
  BY <1>1, TurnFacts DEF IInv, Shape
<1>3. net' = WithLocal(net, "c1", i, LoopFor(net.inbox["c1"][i].req))
  BY DEF LoopBegins, WithLocal
<1>4. net.inbox["c1"][i].req.op # "free"
  BY DEF LoopBegins
<1>5. GoodNet(net') /\ SameForOwn(net, net') /\ KeepsReleases(net, net')
  BY <1>1, <1>2, <1>3, <1>4, LocalSide
<1>6. UNCHANGED <<driver, future, cache, abandoned>>
  BY DEF LoopBegins, ghosts
<1>. QED BY <1>5, <1>6, HandlerSide

LEMMA LoopStepsInv ==
    ASSUME IInv, NEW i \in Turns(net, "c1"), LoopSteps(i)
    PROVE  IInv'
<1>1. "c1" \in MeshClients
  BY DEF MeshClients
<1>2. i \in DOMAIN net.inbox["c1"] /\ GoodNet(net)
  BY <1>1, TurnFacts DEF IInv, Shape
<1>3. PICK v : net' = WithLocal(net, "c1", i, v)
  BY DEF LoopSteps, WithLocal
<1>4. net.inbox["c1"][i].local # Unhandled
  BY DEF LoopSteps, Looping, Unhandled
<1>5. GoodNet(net') /\ SameForOwn(net, net') /\ KeepsReleases(net, net')
  BY <1>1, <1>2, <1>3, <1>4, LocalSide
<1>6. UNCHANGED <<driver, future, cache, abandoned>>
  BY DEF LoopSteps, ghosts
<1>. QED BY <1>5, <1>6, HandlerSide

\* An answer for a turn that is no release, or has been begun.
LEMMA AnswerKeeps ==
    ASSUME NEW n, GoodNet(n), NEW c \in MeshClients, NEW i \in DOMAIN n.inbox[c], NEW reply,
           n.inbox[c][i].local = Unhandled => n.inbox[c][i].req.op # "free"
    PROVE  LET m == Answered(n, c, i, reply)
           IN GoodNet(m) /\ SameForOwn(n, m) /\ KeepsReleases(n, m)
<1>. DEFINE m == Answered(n, c, i, reply)
<1>1. /\ GoodNet(m) /\ SameForOwn(n, m)
      /\ \A s \in 1..2 : \A turn \in ToSet(n.inbox[EntryOf(s)]) :
            (EntryOf(s) = c => turn # n.inbox[c][i]) => turn \in ToSet(m.inbox[EntryOf(s)])
  BY AnsweredSide
<1>. HIDE DEF m
<1>2. KeepsReleases(n, m)
  BY <1>1 DEF KeepsReleases
<1>. QED BY <1>1, <1>2 DEF m

LEMMA LoopReturnsInv ==
    ASSUME IInv, NEW i \in Turns(net, "c1"), LoopReturns(i)
    PROVE  IInv'
<1>1. "c1" \in MeshClients
  BY DEF MeshClients
<1>2. i \in DOMAIN net.inbox["c1"] /\ GoodNet(net)
  BY <1>1, TurnFacts DEF IInv, Shape
<1>3. PICK reply : net' = Answered(net, "c1", i, reply)
  BY DEF LoopReturns
<1>4. net.inbox["c1"][i].local # Unhandled
  BY DEF LoopReturns, Looping, Unhandled
<1>5. GoodNet(net') /\ SameForOwn(net, net') /\ KeepsReleases(net, net')
  BY <1>1, <1>2, <1>3, <1>4, AnswerKeeps
<1>6. UNCHANGED <<driver, future, cache, abandoned>>
  BY DEF LoopReturns, ghosts
<1>. QED BY <1>5, <1>6, HandlerSide

\* Stage s prefills or decodes for req, or tries to: new is what it has then.
RanWith(s, req, new) ==
    /\ cache' = [cache EXCEPT ![s] = new]
    /\ abandoned \subseteq abandoned'
    /\ \A seq \in DOMAIN new :
          \/ seq \in DOMAIN cache[s]
          \/ req.op \in {"prefill", "prefill_chain"} /\ seq = req.seqs[1]
    /\ req.op \in {"prefill", "prefill_chain"} =>
          abandoned' = IF Late(req) THEN abandoned \union ToSet(req.seqs) ELSE abandoned

\* StageSide for a stage that prefills or decodes for req.
LEMMA RanSide ==
    ASSUME IInv, GoodNet(net'), SameForOwn(net, net'), KeepsReleases(net, net'),
           UNCHANGED <<driver, future>>, NEW s \in 1..2, NEW req, GoodRequest(req),
           NEW new, RanWith(s, req, new)
    PROVE  IInv'
<1>1. cache = [t \in 1..2 |-> cache[t]]
  BY DEF IInv, Shape
<1>2. cache' = [t \in 1..2 |-> IF t = s THEN new ELSE cache[t]] /\ abandoned \subseteq abandoned'
  BY <1>1 DEF RanWith
<1>3. cache' = [t \in 1..2 |-> cache'[t]] /\ \A t \in 1..2 : t # s => cache'[t] = cache[t]
      /\ cache'[s] = new
  BY <1>2
<1>4. ASSUME NEW t \in 1..2, NEW seq \in DOMAIN cache'[t], seq \notin DOMAIN cache[t]
      PROVE  seq \in abandoned' \/ (Working /\ InRows(seq))
  <2>1. t = s
    BY <1>3, <1>4
  <2>2. req.op \in {"prefill", "prefill_chain"} /\ seq = req.seqs[1]
    BY <1>3, <1>4, <2>1 DEF RanWith
  <2>3. 1 \in DOMAIN req.seqs
    BY <2>2 DEF GoodRequest
  <2>. QED BY <2>2, <2>3, LateAbandoned DEF RanWith
<1>5. \A call \in net'.calls : call.client \in Own => call \in net.calls
  BY DEF SameForOwn
<1>6. \A c \in Own : net'.alive[c] => net.alive[c] /\ net'.sock[c] = net.sock[c]
  BY DEF SameForOwn
<1>7. \A t \in 1..2 : \A turn \in ToSet(net.inbox[EntryOf(t)]) :
         turn.req.op = "free" /\ turn.local = Unhandled => turn \in ToSet(net'.inbox[EntryOf(t)])
  BY DEF KeepsReleases
<1>8. \A t \in 1..2 : \A seq \in DOMAIN cache'[t] :
         seq \in abandoned' \/ seq \in DOMAIN cache[t] \/ (Working /\ InRows(seq))
  BY <1>4
<1>. QED BY <1>2, <1>3, <1>5, <1>6, <1>7, <1>8, StageSide

LEMMA ForwardedGood ==
    ASSUME NEW op, NEW seqs, NEW vals, NEW req, GoodRequest(req),
           op \in {"prefill", "prefill_chain"} => req.op \in {"prefill", "prefill_chain"},
           op # "free", seqs = req.seqs
    PROVE  GoodRequest(Request(op, seqs, vals))
BY DEF GoodRequest, Request

LEMMA HandleInv ==
    ASSUME IInv, NEW c \in MeshClients, NEW i, Handle(c, i)
    PROVE  IInv'
<1>. DEFINE s == StageOf(c)
            turn == net.inbox[c][i]
            req == turn.req
            effect == Effect(s, req)
<1>1. i \in Turns(net, c) /\ turn.local = Unhandled
  BY DEF Handle
<1>2. i \in DOMAIN net.inbox[c] /\ GoodNet(net) /\ GoodRequest(req) /\ GoodTurn(turn)
  BY <1>1, TurnFacts DEF IInv, Shape
<1>3. s \in 1..2
  BY DEF StageOf
<1>4. /\ cache' = [cache EXCEPT ![s] = effect.cache]
      /\ UNCHANGED <<driver, future, faults>>
      /\ IF req.op = "free" \/ effect.reply = Raised THEN UNCHANGED ghosts ELSE Ran(s, req)
  BY DEF Handle
<1>5. net' = IF Chained(req, effect.reply)
             THEN Called(WithLocal(net, c, i, Forwarded), turn.conn, "f",
                         Request(ForwardOp(req.op), req.seqs, effect.reply.vals))
             ELSE Answered(net, c, i, effect.reply)
  BY DEF Handle, WithLocal
<1>. HIDE DEF effect, req, turn, s
<1>6. abandoned \subseteq abandoned'
  BY <1>4 DEF ghosts, Ran
<1>7. CASE req.op # "free"
  <2>1. GoodNet(net') /\ SameForOwn(net, net') /\ KeepsReleases(net, net')
    <3>1. CASE Chained(req, effect.reply)
      <4>. DEFINE n == WithLocal(net, c, i, Forwarded)
                  next == Request(ForwardOp(req.op), req.seqs, effect.reply.vals)
      <4>1. GoodNet(n) /\ SameForOwn(net, n) /\ KeepsReleases(net, n)
        BY <1>2, <1>7, LocalSide DEF req, turn
      <4>2. GoodRequest(next)
        <5>1. /\ ForwardOp(req.op) \in {"prefill", "prefill_chain"}
                    => req.op \in {"prefill", "prefill_chain"}
              /\ ForwardOp(req.op) # "free"
          BY DEF ForwardOp
        <5>. QED BY <1>2, <5>1, ForwardedGood
      <4>3. net' = Called(n, turn.conn, "f", next)
        BY <1>5, <3>1
      <4>. HIDE DEF n, next
      <4>4. GoodNet(net') /\ SameForOwn(n, net') /\ KeepsReleases(n, net')
        BY <4>1, <4>2, <4>3, ForwardSide
      <4>. QED BY <4>1, <4>4, SideTransitive, KeepsTransitive
    <3>2. CASE ~Chained(req, effect.reply)
      <4>1. net' = Answered(net, c, i, effect.reply)
        BY <1>5, <3>2
      <4>2. net.inbox[c][i].local = Unhandled => net.inbox[c][i].req.op # "free"
        BY <1>7 DEF req, turn
      <4>. QED BY <1>2, <4>1, <4>2, AnswerKeeps
    <3>. QED BY <3>1, <3>2
  <2>2. \A seq \in DOMAIN effect.cache :
           \/ seq \in DOMAIN cache[s]
           \/ req.op \in {"prefill", "prefill_chain"} /\ seq = req.seqs[1]
    BY <1>2, <1>3, <1>7, EffectDomain DEF effect
  <2>3. req.op \in {"prefill", "prefill_chain"} =>
           abandoned' = IF Late(req) THEN abandoned \union ToSet(req.seqs) ELSE abandoned
    <3>1. req.op \in {"prefill", "prefill_chain"} => effect.reply # Raised
      BY <1>2, <1>3, EffectDomain DEF effect
    <3>. QED BY <1>4, <1>7, <3>1 DEF Ran
  <2>4. RanWith(s, req, effect.cache)
    BY <1>4, <1>6, <2>2, <2>3 DEF RanWith
  <2>. QED BY <1>2, <1>3, <1>4, <2>1, <2>4, RanSide
<1>8. CASE req.op = "free"
  <2>. DEFINE x == req.seqs[1]
  <2>1. net' = Answered(net, c, i, effect.reply)
    BY <1>5, <1>8 DEF Chained
  <2>2. /\ GoodNet(net') /\ SameForOwn(net, net')
        /\ \A t \in 1..2 : \A other \in ToSet(net.inbox[EntryOf(t)]) :
              (EntryOf(t) = c => other # turn) => other \in ToSet(net'.inbox[EntryOf(t)])
    BY <1>2, <2>1, AnsweredSide DEF turn
  <2>3. DOMAIN effect.cache = DOMAIN cache[s] \ {x}
    BY <1>2, <1>3, <1>8, EffectDomain DEF effect
  <2>4. cache = [t \in 1..2 |-> cache[t]]
    BY DEF IInv, Shape
  <2>5. cache' = [t \in 1..2 |-> IF t = s THEN effect.cache ELSE cache[t]]
    BY <1>4, <2>4
  <2>6. /\ cache' = [t \in 1..2 |-> cache'[t]]
        /\ \A t \in 1..2 : t # s => cache'[t] = cache[t]
        /\ cache'[s] = effect.cache
    BY <1>3, <2>5
  <2>7. ASSUME NEW t \in 1..2, NEW other \in ToSet(net.inbox[EntryOf(t)]),
               other \notin ToSet(net'.inbox[EntryOf(t)])
        PROVE  other.req.seqs[1] \notin DOMAIN cache'[t]
    <3>1. EntryOf(t) = c /\ other = turn
      BY <2>2, <2>7
    <3>2. t = s
      BY <3>1, Entries DEF s
    <3>3. other.req = req
      BY <3>1 DEF req
    <3>. QED BY <2>3, <2>6, <3>2, <3>3
  <2>8. \A call \in net'.calls : call.client \in Own => call \in net.calls
    BY <2>2 DEF SameForOwn
  <2>9. \A d \in Own : net'.alive[d] => net.alive[d] /\ net'.sock[d] = net.sock[d]
    BY <2>2 DEF SameForOwn
  <2>10. \A t \in 1..2 : \A seq \in DOMAIN cache'[t] : seq \in DOMAIN cache[t]
    BY <2>3, <2>6
  <2>. QED BY <1>4, <1>6, <2>2, <2>6, <2>7, <2>8, <2>9, <2>10, StageSide
<1>. QED BY <1>7, <1>8

LEMMA LoopCallsInv ==
    ASSUME IInv, NEW i \in Turns(net, "c1"), LoopCalls(i)
    PROVE  IInv'
<1>. DEFINE l == net.inbox["c1"][i].local
            req == IF Decodes(l) THEN ChunkOf(l) ELSE Admission(l)
            effect == Effect(1, req)
            next == Request(req.op, req.seqs, effect.reply.vals)
<1>1. "c1" \in MeshClients /\ 1 \in 1..2
  BY DEF MeshClients
<1>2. i \in DOMAIN net.inbox["c1"] /\ GoodNet(net)
  BY <1>1, TurnFacts DEF IInv, Shape
<1>3. net.inbox["c1"][i].local # Unhandled
  BY DEF LoopCalls, Looping, Unhandled
<1>4. GoodRequest(req) /\ req.op # "free"
  BY DEF GoodRequest, ChunkOf, Admission, Request
<1>5. UNCHANGED <<driver, future>>
  BY DEF LoopCalls
<1>6. IF effect.reply = Raised
      THEN net' = Answered(net, "c1", i, Raised) /\ UNCHANGED <<cache, ghosts>>
      ELSE /\ cache' = [cache EXCEPT ![1] = effect.cache]
           /\ net' = Called(net, net.inbox["c1"][i].conn, "f", next)
           /\ Ran(1, req)
  BY DEF LoopCalls
<1>. HIDE DEF req, effect, l
<1>7. CASE effect.reply = Raised
  <2>1. GoodNet(net') /\ SameForOwn(net, net') /\ KeepsReleases(net, net')
    BY <1>1, <1>2, <1>3, <1>6, <1>7, AnswerKeeps
  <2>. QED BY <1>5, <1>6, <1>7, <2>1, HandlerSide DEF ghosts
<1>8. CASE effect.reply # Raised
  <2>1. GoodRequest(next)
    BY <1>4, ForwardedGood
  <2>2. net' = Called(net, net.inbox["c1"][i].conn, "f", next)
    BY <1>6, <1>8
  <2>. HIDE DEF next
  <2>3. GoodNet(net') /\ SameForOwn(net, net') /\ KeepsReleases(net, net')
    BY <1>2, <2>1, <2>2, ForwardSide
  <2>4. \A seq \in DOMAIN effect.cache :
           \/ seq \in DOMAIN cache[1]
           \/ req.op \in {"prefill", "prefill_chain"} /\ seq = req.seqs[1]
    BY <1>1, <1>4, EffectDomain DEF effect
  <2>5. /\ abandoned' = IF Late(req) THEN abandoned \union ToSet(req.seqs) ELSE abandoned
        /\ cache' = [cache EXCEPT ![1] = effect.cache]
    BY <1>6, <1>8 DEF Ran
  <2>6. abandoned \subseteq abandoned'
    BY <2>5
  <2>7. RanWith(1, req, effect.cache)
    BY <2>4, <2>5, <2>6 DEF RanWith
  <2>. QED BY <1>1, <1>4, <1>5, <2>3, <2>7, RanSide
<1>. QED BY <1>7, <1>8

LEMMA StageRaisesInv ==
    ASSUME IInv, NEW c \in MeshClients, NEW i \in Turns(net, c), StageRaises(c, i)
    PROVE  IInv'
<1>. DEFINE s == StageOf(c)
            turn == net.inbox[c][i]
            req == IF turn.local = Unhandled THEN turn.req
                   ELSE IF Decodes(turn.local) THEN ChunkOf(turn.local) ELSE Admission(turn.local)
            x == req.seqs[1]
<1>1. i \in DOMAIN net.inbox[c] /\ GoodNet(net) /\ GoodRequest(turn.req)
  BY TurnFacts DEF IInv, Shape
<1>2. turn.local = Unhandled => turn.req.op # "free"
  BY DEF StageRaises, Looping, Unhandled
<1>3. GoodRequest(req)
  <2>1. GoodRequest(ChunkOf(turn.local)) /\ GoodRequest(Admission(turn.local))
    BY DEF GoodRequest, ChunkOf, Admission, Request
  <2>. QED BY <1>1, <2>1
<1>4. s \in 1..2
  BY DEF StageOf
<1>5. /\ net' = Answered(net, c, i, Raised)
      /\ UNCHANGED <<driver, future>>
      /\ abandoned' = IF Late(req) THEN abandoned \union ToSet(req.seqs) ELSE abandoned
      /\ cache' \in IF req.op \in {"prefill", "prefill_chain"}
                    THEN {cache, [cache EXCEPT ![s] = Ensured(@, x)]}
                    ELSE {cache}
  BY DEF StageRaises
<1>6. GoodNet(net') /\ SameForOwn(net, net') /\ KeepsReleases(net, net')
  BY <1>1, <1>2, <1>5, AnswerKeeps
<1>. HIDE DEF req, turn, s
<1>7. abandoned \subseteq abandoned'
  BY <1>5
<1>8. CASE cache' = cache
  BY <1>5, <1>6, <1>7, <1>8, HandlerSide
<1>9. CASE /\ req.op \in {"prefill", "prefill_chain"}
           /\ cache' = [cache EXCEPT ![s] = Ensured(@, x)]
  <2>. DEFINE new == Ensured(cache[s], x)
  <2>1. cache = [t \in 1..2 |-> cache[t]]
    BY DEF IInv, Shape
  <2>2. cache' = [cache EXCEPT ![s] = new]
    BY <1>4, <1>9, <2>1
  <2>3. \A seq \in DOMAIN new : seq \in DOMAIN cache[s] \/ seq = x
    BY DEF Ensured
  <2>. HIDE DEF new
  <2>4. RanWith(s, req, new)
    BY <1>5, <1>7, <1>9, <2>2, <2>3 DEF RanWith
  <2>. QED BY <1>3, <1>4, <1>5, <1>6, <2>4, RanSide
<1>. QED BY <1>5, <1>8, <1>9

LEMMA StageStopsInv ==
    ASSUME IInv, NEW s \in 1..2, StageStops(s)
    PROVE  IInv'
<1>1. GoodNet(net) /\ cache = [t \in 1..2 |-> cache[t]]
  BY DEF IInv, Shape
<1>2. "c1" \in MeshClients /\ "c2" \in MeshClients /\ "f" \in MeshClients
      /\ "f" # "c1" /\ "f" # "c2" /\ "c1" # "c2" /\ Own = {"c1", "c2"}
  BY DEF MeshClients, Own
<1>3. /\ UNCHANGED <<driver, future, abandoned>>
      /\ cache' = [cache EXCEPT ![s] = <<>>]
      /\ net' = IF s = 1 THEN Dropped(ServerGone(net, "c1"), "f")
                ELSE ServerGone(ServerGone(net, "c2"), "f")
  BY DEF StageStops, ghosts
<1>4. /\ GoodNet(net')
      /\ \A call \in net'.calls : call \in net.calls
      /\ ~net'.alive[EntryOf(s)]
      /\ \A c \in Own : c # EntryOf(s) => SameFor(net, net', c)
  <2>1. CASE s = 1
    <3>. DEFINE n == ServerGone(net, "c1")
                m == Dropped(n, "f")
    <3>1. GoodNet(n) /\ n.calls = net.calls /\ ~n.alive["c1"]
          /\ \A d \in MeshClients : d # "c1" => SameFor(net, n, d)
      BY <1>1, <1>2, ServerGoneFacts
    <3>. HIDE DEF n
    <3>2. GoodNet(m) /\ m.calls = {call \in n.calls : call.client # "f"}
          /\ \A d \in MeshClients : d # "f" => SameFor(n, m, d)
      BY <1>2, <3>1, DroppedFacts
    <3>3. net' = m /\ EntryOf(s) = "c1"
      BY <1>3, <2>1 DEF n, EntryOf
    <3>. HIDE DEF m
    <3>. QED BY <1>2, <3>1, <3>2, <3>3 DEF SameFor
  <2>2. CASE s = 2
    <3>. DEFINE n == ServerGone(net, "c2")
                m == ServerGone(n, "f")
    <3>1. GoodNet(n) /\ n.calls = net.calls /\ ~n.alive["c2"]
          /\ \A d \in MeshClients : d # "c2" => SameFor(net, n, d)
      BY <1>1, <1>2, ServerGoneFacts
    <3>. HIDE DEF n
    <3>2. GoodNet(m) /\ m.calls = n.calls
          /\ \A d \in MeshClients : d # "f" => SameFor(n, m, d)
      BY <1>2, <3>1, ServerGoneFacts
    <3>3. net' = m /\ EntryOf(s) = "c2"
      BY <1>3, <2>2 DEF n, EntryOf
    <3>. HIDE DEF m
    <3>. QED BY <1>2, <3>1, <3>2, <3>3 DEF SameFor
  <2>. QED BY <2>1, <2>2
<1>5. /\ cache' = [t \in 1..2 |-> cache'[t]]
      /\ \A t \in 1..2 : t # s => cache'[t] = cache[t]
      /\ DOMAIN cache'[s] = {}
  <2>1. cache' = [t \in 1..2 |-> IF t = s THEN <<>> ELSE cache[t]]
    BY <1>1, <1>3
  <2>. QED BY <2>1
<1>6. ASSUME NEW t \in 1..2, NEW turn \in ToSet(net.inbox[EntryOf(t)]),
             turn \notin ToSet(net'.inbox[EntryOf(t)])
      PROVE  turn.req.seqs[1] \notin DOMAIN cache'[t]
  <2>1. t = s
    <3>1. EntryOf(t) \in Own /\ (t # s => EntryOf(t) # EntryOf(s))
      BY Entries
    <3>. QED BY <1>4, <1>6, <3>1 DEF SameFor
  <2>. QED BY <1>5, <2>1
<1>7. \A t \in 1..2 : \A seq \in DOMAIN cache'[t] : seq \in DOMAIN cache[t]
  BY <1>5
<1>8. \A c \in Own : net'.alive[c] => net.alive[c] /\ net'.sock[c] = net.sock[c]
  BY <1>4 DEF SameFor
<1>. QED BY <1>3, <1>4, <1>5, <1>6, <1>7, <1>8, StageSide

LEMMA StageStartsInv ==
    ASSUME IInv, NEW s \in 1..2, StageStarts(s)
    PROVE  IInv'
<1>1. GoodNet(net)
  BY DEF IInv, Shape
<1>2. "c1" \in MeshClients /\ "c2" \in MeshClients /\ "f" \in MeshClients
  BY DEF MeshClients
<1>3. /\ UNCHANGED <<driver, future, cache, abandoned>>
      /\ net' = IF s = 1 THEN ServerBack(net, "c1") ELSE ServerBack(ServerBack(net, "c2"), "f")
  BY DEF StageStarts, ghosts
<1>4. /\ GoodNet(net') /\ net'.calls = net.calls
      /\ \A d \in MeshClients : /\ net'.sock[d] = net.sock[d] /\ net'.alive[d] = net.alive[d]
                                /\ net'.inbox[d] = net.inbox[d]
  <2>1. CASE s = 1
    <3>. DEFINE m == ServerBack(net, "c1")
    <3>1. /\ GoodNet(m) /\ m.calls = net.calls
          /\ \A d \in MeshClients : /\ m.sock[d] = net.sock[d] /\ m.alive[d] = net.alive[d]
                                    /\ m.inbox[d] = net.inbox[d]
      BY <1>1, <1>2, ServerBackFacts
    <3>. QED BY <1>3, <2>1, <3>1
  <2>2. CASE s # 1
    <3>. DEFINE n == ServerBack(net, "c2")
    <3>1. /\ GoodNet(n) /\ n.calls = net.calls
          /\ \A d \in MeshClients : /\ n.sock[d] = net.sock[d] /\ n.alive[d] = net.alive[d]
                                    /\ n.inbox[d] = net.inbox[d]
      BY <1>1, <1>2, ServerBackFacts
    <3>. DEFINE m == ServerBack(n, "f")
    <3>2. net' = m
      BY <1>3, <2>2
    <3>. HIDE DEF n
    <3>3. /\ GoodNet(m) /\ m.calls = n.calls
          /\ \A d \in MeshClients : /\ m.sock[d] = n.sock[d] /\ m.alive[d] = n.alive[d]
                                    /\ m.inbox[d] = n.inbox[d]
      BY <1>2, <3>1, ServerBackFacts
    <3>. HIDE DEF m
    <3>. QED BY <3>1, <3>2, <3>3
  <2>. QED BY <2>1, <2>2
<1>5. SameForOwn(net, net') /\ KeepsReleases(net, net')
  BY <1>4, Entries DEF SameForOwn, KeepsReleases
<1>. QED BY <1>3, <1>4, <1>5, HandlerSide

-----------------------------------------------------------------------------
(* What comes of a call. *)

\* A handler thread goes on with the outcome of its call.
LEMMA DeliveredSide ==
    ASSUME IInv, NEW call \in net.calls, call.client \notin Own,
           NEW after, GoodNet(after), NEW reply, Delivered(after, call, reply),
           SameForOwn(net, after), \A d \in MeshClients : after.inbox[d] = net.inbox[d]
    PROVE  /\ GoodNet(net') /\ SameForOwn(net, net') /\ KeepsReleases(net, net')
           /\ future' = future
<1>1. KeepsReleases(net, after)
  BY Entries DEF KeepsReleases
<1>2. CASE call.by = Coordinator
  <2>1. net' = after /\ future' = [future EXCEPT ![call.client] = reply]
    BY <1>2 DEF Delivered
  <2>2. future = [c \in Own |-> future[c]]
    BY DEF IInv, Shape
  <2>3. future' = future
    BY <2>1, <2>2
  <2>. QED BY <1>1, <2>1, <2>3
<1>3. CASE call.by # Coordinator
  <2>1. /\ future' = future
        /\ \E i \in HandlerOf(call) :
              \/ \E r : net' = Answered(after, "c1", i, r)
              \/ \E v : net' = WithLocal(after, "c1", i, v)
    <3>1. /\ future' = future
          /\ \E i \in HandlerOf(call) :
                LET l == net.inbox["c1"][i].local
                IN net' = IF l = Forwarded THEN Answered(after, "c1", i, reply)
                          ELSE IF Expects(l, reply)
                          THEN WithLocal(after, "c1", i, Taking(l, reply))
                          ELSE Answered(after, "c1", i, Raised)
      BY <1>3 DEF Delivered, WithLocal
    <3>. QED BY <3>1
  <2>2. PICK i \in HandlerOf(call) : \/ \E r : net' = Answered(after, "c1", i, r)
                                     \/ \E v : net' = WithLocal(after, "c1", i, v)
    BY <2>1
  <2>3. "c1" \in MeshClients
    BY DEF MeshClients
  <2>4. i \in DOMAIN after.inbox["c1"] /\ after.inbox["c1"][i].local # Unhandled
    BY <2>3 DEF HandlerOf
  <2>5. GoodNet(net') /\ SameForOwn(after, net') /\ KeepsReleases(after, net')
    <3>1. CASE \E r : net' = Answered(after, "c1", i, r)
      BY <2>3, <2>4, <3>1, AnswerKeeps
    <3>2. CASE \E v : net' = WithLocal(after, "c1", i, v)
      BY <2>3, <2>4, <3>2, LocalSide
    <3>. QED BY <2>2, <3>1, <3>2
  <2>. QED BY <1>1, <2>1, <2>5, SideTransitive, KeepsTransitive
<1>. QED BY <1>2, <1>3

LEMMA CallFacts ==
    ASSUME IInv, NEW call \in net.calls
    PROVE  call.client \in MeshClients /\ GoodRequest(call.req) /\ GoodNet(net) /\ NetOrder(net)
BY DEF IInv, Shape, GoodNet, GoodCall

\* A call of the coordinator is over and its future has the outcome. If it was
\* a release, the sequence is settled.
LEMMA OwnOver ==
    ASSUME IInv, NEW call \in net.calls, call.client \in Own, GoodNet(net'),
           net'.calls = net.calls \ {call},
           \A d \in MeshClients : /\ net'.sock[d] = net.sock[d] /\ net'.alive[d] = net.alive[d]
                                  /\ net'.inbox[d] = net.inbox[d],
           NEW reply, future' = [future EXCEPT ![call.client] = reply],
           UNCHANGED <<driver, cache>>, abandoned \subseteq abandoned',
           call.req.op = "free" =>
              Settled(StageOf(call.client), call.req.seqs[1]) \/ call.req.seqs[1] \in abandoned'
    PROVE  IInv'
<1>. DEFINE own == call.client
<1>1. /\ remote' = remote /\ batch' = batch /\ rows' = rows /\ pc' = pc /\ k' = k
      /\ chunks' = chunks /\ cache' = cache
  BY DEF driver
<1>2. Shape /\ Busy /\ Solo /\ Phase /\ HeldOrDue /\ AnsweredSettled /\ WaitingSettled
  BY DEF IInv
<1>3. /\ future[own] = Pending /\ Pending # None
      /\ \A other \in net'.calls : other \in net.calls /\ (other.client \in Own => other.client # own)
  BY <1>2 DEF Solo, Pending, None
<1>4. /\ future' = [c \in Own |-> future'[c]]
      /\ \A c \in Own : c # own => future'[c] = future[c]
  BY <1>2 DEF Shape
<1>5. ASSUME NEW s \in 1..2, NEW seq, Settled(s, seq) PROVE Settled(s, seq)'
  <2>1. net'.inbox[EntryOf(s)] = net.inbox[EntryOf(s)]
    BY Entries
  <2>. QED BY <1>1, <1>5, <2>1 DEF Settled, Underway
<1>6. Shape'
  BY <1>1, <1>2, <1>4 DEF Shape, RowsShape
<1>7. Busy'
  <2>1. \A c \in Own : future[c] = None => future'[c] = None
    BY <1>3, <1>4
  <2>2. "c1" \in Own /\ "c2" \in Own
    BY DEF Own
  <2>3. pc = "free" => own = ReleaseClient(k) /\ k <= 2 * Len(rows)
    BY <1>2, <1>3 DEF Busy
  <2>4. pc = "free" => \A c \in Own : future'[c] # None => c = ReleaseClient(k) /\ k <= 2 * Len(rows)
    BY <1>2, <1>4, <2>3 DEF Busy
  <2>. QED BY <1>1, <1>2, <2>1, <2>2, <2>4 DEF Busy, ReleaseClient
<1>8. Solo'
  BY <1>2, <1>3, <1>4 DEF Solo
<1>9. Phase'
  BY <1>1, <1>2, <1>3 DEF Phase, ReleaseSeq
<1>10. HeldOrDue'
  BY <1>1, <1>2, <1>5 DEF HeldOrDue, Due
<1>11. AnsweredSettled'
  <2>. SUFFICES ASSUME pc = "free", NEW c \in Own, future'[c] \notin {None, Pending}
                PROVE  Settled(StageOf(c), ReleaseSeq(k))'
    BY <1>1 DEF AnsweredSettled
  <2>1. StageOf(c) \in 1..2 /\ ReleaseSeq(k)' = ReleaseSeq(k)
    BY <1>1, Entries DEF ReleaseSeq
  <2>2. CASE c # own
    BY <1>2, <1>4, <1>5, <2>1, <2>2 DEF AnsweredSettled
  <2>3. CASE c = own
    <3>1. call.req.op = "free" /\ call.req.seqs[1] = ReleaseSeq(k)
      BY <1>2 DEF Phase, Request
    <3>2. CASE Settled(StageOf(c), ReleaseSeq(k))
      BY <1>5, <2>1, <3>2
    <3>3. CASE ReleaseSeq(k) \in abandoned'
      BY <2>1, <3>3 DEF Settled
    <3>. QED BY <2>3, <3>1, <3>2, <3>3
  <2>. QED BY <2>2, <2>3
<1>12. WaitingSettled'
  <2>. SUFFICES ASSUME NEW other \in net'.calls, other.client \in Own, other.req.op = "free",
                       other.conn = net'.sock[other.client], net'.alive[other.client]
                PROVE  Settled(StageOf(other.client), other.req.seqs[1])'
    BY DEF WaitingSettled
  <2>1. other.client \in MeshClients /\ StageOf(other.client) \in 1..2
    BY Entries
  <2>2. Settled(StageOf(other.client), other.req.seqs[1])
    BY <1>2, <1>3, <2>1 DEF WaitingSettled
  <2>. QED BY <1>5, <2>1, <2>2
<1>. QED BY <1>6, <1>7, <1>8, <1>9, <1>10, <1>11, <1>12 DEF IInv

LEMMA ReturnInv ==
    ASSUME IInv, NEW call \in net.calls, Return(call)
    PROVE  IInv'
<1>. DEFINE after == Read(net, call)
            reply == Head(net.answers[call.client]).reply
<1>1. /\ Readable(net, call) /\ Delivered(after, call, reply)
      /\ UNCHANGED <<cache, driver, faults, executed, abandoned>>
  BY DEF Return
<1>2. net.answers[call.client] # <<>> /\ call.conn = net.sock[call.client]
  BY <1>1 DEF Readable
<1>3. call.client \in MeshClients /\ GoodNet(net) /\ net.alive[call.client]
  BY <1>2, CallFacts DEF NetOrder
<1>4. /\ GoodNet(after) /\ after.calls = net.calls \ {call}
      /\ \A d \in MeshClients : /\ after.sock[d] = net.sock[d] /\ after.alive[d] = net.alive[d]
                                /\ after.inbox[d] = net.inbox[d]
  BY <1>2, <1>3, ReadFacts
<1>. HIDE DEF after, reply
<1>5. CASE call.client \in Own
  <2>1. call.by = Coordinator
    BY <1>5 DEF IInv, Solo
  <2>2. net' = after /\ future' = [future EXCEPT ![call.client] = reply]
    BY <1>1, <2>1 DEF Delivered
  <2>3. call.req.op = "free" => Settled(StageOf(call.client), call.req.seqs[1])
    BY <1>2, <1>3, <1>5 DEF IInv, WaitingSettled
  <2>. QED BY <1>1, <1>4, <1>5, <2>2, <2>3, OwnOver
<1>6. CASE call.client \notin Own
  <2>1. SameForOwn(net, after)
    BY <1>4, Entries DEF SameForOwn
  <2>2. /\ GoodNet(net') /\ SameForOwn(net, net') /\ KeepsReleases(net, net')
        /\ future' = future
    BY <1>1, <1>4, <1>6, <2>1, DeliveredSide
  <2>. QED BY <1>1, <2>2, HandlerSide
<1>. QED BY <1>5, <1>6

\* A second attempt is a request in the place of the first.
LEMMA RetriedFacts ==
    ASSUME NEW n, GoodNet(n), NEW call, GoodCall(call)
    PROVE  /\ GoodNet(Retried(n, call))
           /\ Asks(GivenUp(n, call), Retried(n, call), call.by, call.client, call.req, 2)
<1>. DEFINE c == call.client
            a == [n EXCEPT !.calls = @ \ {call}]
            b == Closed(a, c)
            m == Sent(b, call.by, c, call.req, 2)
<1>1. c \in MeshClients /\ GoodRequest(call.req)
  BY DEF GoodCall
<1>2. GoodNet(a)
  BY GivenUpFacts
<1>3. m = Retried(n, call) /\ a = GivenUp(n, call)
  BY DEF Retried, GivenUp
<1>. HIDE DEF a, c
<1>4. /\ GoodNet(b) /\ b.calls = a.calls
      /\ \A d \in MeshClients : d # c => SameFor(a, b, d)
      /\ b.inbox[c] = a.inbox[c]
  BY <1>1, <1>2, ClosedFacts
<1>. HIDE DEF b
<1>5. GoodNet(m) /\ Asks(b, m, call.by, c, call.req, 2)
  <2>. DEFINE who == call.by
              what == call.req
              two == 2
              o == Sent(b, who, c, what, two)
  <2>. HIDE DEF who, what, two
  <2>1. GoodRequest(what)
    BY <1>1 DEF what
  <2>2. GoodNet(o) /\ Asks(b, o, who, c, what, two)
    BY <1>1, <1>4, <2>1, SentFacts
  <2>. QED BY <2>2 DEF who, what, two
<1>. HIDE DEF m
<1>6. Asks(a, m, call.by, c, call.req, 2)
  BY <1>4, <1>5 DEF Asks, SameFor
<1>. QED BY <1>3, <1>5, <1>6 DEF c

\* The coordinator's call is made a second time.
LEMMA OwnAgain ==
    ASSUME IInv, NEW call \in net.calls, call.client \in Own, net' = Retried(net, call),
           UNCHANGED <<driver, cache, future, abandoned>>
    PROVE  IInv'
<1>. DEFINE own == call.client
<1>1. /\ remote' = remote /\ batch' = batch /\ rows' = rows /\ pc' = pc /\ k' = k
      /\ chunks' = chunks /\ cache' = cache /\ future' = future /\ abandoned' = abandoned
  BY DEF driver
<1>2. Shape /\ Busy /\ Solo /\ Phase /\ HeldOrDue /\ AnsweredSettled /\ WaitingSettled
  BY DEF IInv
<1>3. GoodNet(net) /\ GoodCall(call) /\ own \in MeshClients
  BY DEF IInv, Shape, GoodNet, GoodCall
<1>4. /\ GoodNet(net')
      /\ \A d \in MeshClients : d # own => SameFor(net, net', d)
      /\ ToSet(net.inbox[own]) \subseteq ToSet(net'.inbox[own])
      /\ \E conn :
            /\ net'.calls = (net.calls \ {call}) \union {Call(call.by, own, call.req, 2, conn)}
            /\ conn = net'.sock[own] /\ net'.alive[own]
                 => \E turn \in ToSet(net'.inbox[own]) :
                       turn.req = call.req /\ turn.local = Unhandled
  <2>. DEFINE before == GivenUp(net, call)
  <2>1. /\ before.calls = net.calls \ {call}
        /\ \A d \in MeshClients : SameFor(net, before, d)
    BY <1>3, GivenUpFacts DEF GivenUp
  <2>2. GoodNet(net') /\ Asks(before, net', call.by, own, call.req, 2)
    BY <1>3, RetriedFacts
  <2>. HIDE DEF before, own
  <2>. QED BY <1>3, <2>1, <2>2 DEF Asks, SameFor
<1>5. PICK conn :
        /\ net'.calls = (net.calls \ {call}) \union {Call(call.by, own, call.req, 2, conn)}
        /\ conn = net'.sock[own] /\ net'.alive[own]
             => \E turn \in ToSet(net'.inbox[own]) :
                   turn.req = call.req /\ turn.local = Unhandled
  BY <1>4
<1>. DEFINE again == Call(call.by, own, call.req, 2, conn)
<1>6. /\ again.client = own /\ again.by = call.by /\ again.req = call.req /\ again.conn = conn
  BY DEF Call
<1>. HIDE DEF again, own
<1>7. own \in Own /\ own = call.client
  BY DEF own
<1>8. \A other \in net'.calls : \/ other = again
                                \/ other \in net.calls /\ (other.client \in Own => other.client # own)
  BY <1>2, <1>5, <1>7 DEF Solo, again
<1>9. ASSUME NEW s \in 1..2, NEW seq, Settled(s, seq) PROVE Settled(s, seq)'
  <2>1. ToSet(net.inbox[EntryOf(s)]) \subseteq ToSet(net'.inbox[EntryOf(s)])
    BY <1>4, Entries DEF SameFor
  <2>. QED BY <1>1, <1>9, <2>1 DEF Settled, Underway
<1>10. Shape'
  BY <1>1, <1>2, <1>4 DEF Shape, RowsShape
<1>11. Busy'
  BY <1>1, <1>2 DEF Busy, ReleaseClient
<1>12. Solo'
  BY <1>1, <1>2, <1>6, <1>7, <1>8 DEF Solo
<1>13. Phase'
  BY <1>1, <1>2, <1>6, <1>7, <1>8 DEF Phase, ReleaseSeq
<1>14. HeldOrDue'
  BY <1>1, <1>2, <1>9 DEF HeldOrDue, Due
<1>15. AnsweredSettled'
  <2>1. \A c \in Own : StageOf(c) \in 1..2
    BY Entries
  <2>2. ReleaseSeq(k)' = ReleaseSeq(k)
    BY <1>1 DEF ReleaseSeq
  <2>. QED BY <1>1, <1>2, <1>9, <2>1, <2>2 DEF AnsweredSettled
<1>16. WaitingSettled'
  <2>. SUFFICES ASSUME NEW other \in net'.calls, other.client \in Own, other.req.op = "free",
                       other.conn = net'.sock[other.client], net'.alive[other.client]
                PROVE  Settled(StageOf(other.client), other.req.seqs[1])'
    BY DEF WaitingSettled
  <2>1. other.client \in MeshClients /\ StageOf(other.client) \in 1..2
        /\ EntryOf(StageOf(other.client)) = other.client
    BY Entries
  <2>2. CASE other = again
    <3>1. \E turn \in ToSet(net'.inbox[own]) : turn.req = call.req /\ turn.local = Unhandled
      BY <1>5, <1>6, <2>2 DEF own
    <3>. QED BY <1>6, <2>1, <2>2, <3>1 DEF Settled, Underway
  <2>3. CASE other # again
    <3>1. other \in net.calls /\ other.client # own
      BY <1>8, <2>3
    <3>2. other.conn = net.sock[other.client] /\ net.alive[other.client]
      BY <1>4, <2>1, <3>1 DEF SameFor
    <3>3. Settled(StageOf(other.client), other.req.seqs[1])
      BY <1>2, <3>1, <3>2 DEF WaitingSettled
    <3>. QED BY <1>9, <2>1, <3>3
  <2>. QED BY <2>2, <2>3
<1>. QED BY <1>10, <1>11, <1>12, <1>13, <1>14, <1>15, <1>16 DEF IInv

LEMMA FailInv ==
    ASSUME IInv, NEW call \in net.calls, Fail(call)
    PROVE  IInv'
<1>1. UNCHANGED <<cache, driver>>
  BY DEF Fail
<1>2. call.client \in MeshClients /\ GoodRequest(call.req) /\ GoodNet(net) /\ GoodCall(call)
  BY CallFacts DEF GoodCall
<1>3. CASE call.attempt = 1
  <2>1. net' = Retried(net, call) /\ UNCHANGED <<future, abandoned>>
    BY <1>3 DEF Fail
  <2>2. CASE call.client \in Own
    BY <1>1, <2>1, <2>2, OwnAgain
  <2>3. CASE call.client \notin Own
    <3>. DEFINE c == call.client
    <3>1. /\ GoodNet(net')
          /\ \A d \in MeshClients : d # c => SameFor(net, net', d)
          /\ \E conn :
                net'.calls = (net.calls \ {call}) \union {Call(call.by, c, call.req, 2, conn)}
      <4>. DEFINE before == GivenUp(net, call)
      <4>1. /\ before.calls = net.calls \ {call}
            /\ \A d \in MeshClients : SameFor(net, before, d)
        BY <1>2, GivenUpFacts DEF GivenUp
      <4>2. GoodNet(net') /\ Asks(before, net', call.by, c, call.req, 2)
        BY <1>2, <2>1, RetriedFacts
      <4>. HIDE DEF before, c
      <4>. QED BY <4>1, <4>2 DEF Asks, SameFor
    <3>2. \A conn : Call(call.by, c, call.req, 2, conn).client \notin Own
      BY <2>3 DEF Call
    <3>3. \A d \in Own : d \in MeshClients /\ d # c
      BY <2>3, Entries
    <3>4. SameForOwn(net, net')
      BY <3>1, <3>2, <3>3 DEF SameForOwn, SameFor
    <3>5. KeepsReleases(net, net')
      BY <3>1, <3>3, Entries DEF KeepsReleases, SameFor
    <3>. QED BY <1>1, <2>1, <3>1, <3>4, <3>5, HandlerSide
  <2>. QED BY <2>2, <2>3
<1>4. CASE call.attempt # 1
  <2>. DEFINE after == GivenUp(net, call)
  <2>1. /\ Delivered(after, call, Raised)
        /\ abandoned' = IF call.req.op = "free"
                        THEN abandoned \union ToSet(call.req.seqs) ELSE abandoned
    BY <1>4 DEF Fail
  <2>2. /\ GoodNet(after) /\ after.calls = net.calls \ {call}
        /\ \A d \in MeshClients : SameFor(net, after, d)
    BY <1>2, GivenUpFacts DEF GivenUp
  <2>. HIDE DEF after
  <2>3. abandoned \subseteq abandoned'
    BY <2>1
  <2>4. CASE call.client \in Own
    <3>1. call.by = Coordinator
      BY <2>4 DEF IInv, Solo
    <3>2. net' = after /\ future' = [future EXCEPT ![call.client] = Raised]
      BY <2>1, <3>1 DEF Delivered
    <3>3. call.req.op = "free" => call.req.seqs[1] \in abandoned'
      BY <1>2, <2>1 DEF GoodRequest, ToSet
    <3>4. \A d \in MeshClients : /\ net'.sock[d] = net.sock[d] /\ net'.alive[d] = net.alive[d]
                                 /\ net'.inbox[d] = net.inbox[d]
      BY <2>2, <3>2 DEF SameFor
    <3>. QED BY <1>1, <2>2, <2>3, <2>4, <3>2, <3>3, <3>4, OwnOver
  <2>5. CASE call.client \notin Own
    <3>1. SameForOwn(net, after) /\ \A d \in MeshClients : after.inbox[d] = net.inbox[d]
      BY <2>2, Entries DEF SameForOwn, SameFor
    <3>2. /\ GoodNet(net') /\ SameForOwn(net, net') /\ KeepsReleases(net, net')
          /\ future' = future
      BY <2>1, <2>2, <2>5, <3>1, DeliveredSide
    <3>. QED BY <1>1, <2>3, <3>2, HandlerSide
  <2>. QED BY <2>4, <2>5
<1>. QED BY <1>3, <1>4

LEMMA LoseInv ==
    ASSUME IInv, NEW c \in MeshClients, NEW keep \in BOOLEAN, LoseConnection(c, keep)
    PROVE  IInv'
<1>1. /\ net' = Lost(net, c, keep)
      /\ abandoned' = IF keep THEN abandoned
                      ELSE abandoned \union UNION {ToSet(turn.req.seqs) : turn \in LostReleases(c)}
      /\ UNCHANGED <<cache, driver, future>>
  BY DEF LoseConnection
<1>2. Shape /\ Busy /\ Solo /\ Phase /\ HeldOrDue /\ AnsweredSettled /\ WaitingSettled
  BY DEF IInv
<1>3. GoodNet(net)
  BY <1>2 DEF Shape
<1>4. /\ GoodNet(net') /\ net'.calls = net.calls
      /\ \A d \in MeshClients : d # c => SameFor(net, net', d)
      /\ ~net'.alive[c]
      /\ keep => net'.inbox[c] = net.inbox[c]
      /\ ToSet(net.inbox[c]) \ Unbegun(net, c) \subseteq ToSet(net'.inbox[c])
  BY <1>1, <1>3, LostFacts
<1>5. /\ remote' = remote /\ batch' = batch /\ rows' = rows /\ pc' = pc /\ k' = k
      /\ chunks' = chunks /\ cache' = cache /\ future' = future /\ abandoned \subseteq abandoned'
  BY <1>1 DEF driver
<1>. DEFINE Waited(s, seq) == \E call \in net.calls :
                                 /\ call.client = EntryOf(s) /\ call.req.op = "free"
                                 /\ call.req.seqs[1] = seq
<1>6. ASSUME NEW s \in 1..2, NEW seq, Settled(s, seq), ~Settled(s, seq)'
      PROVE  EntryOf(s) = c /\ Waited(s, seq)
  <2>1. seq \in DOMAIN cache[s] /\ seq \notin abandoned' /\ seq \notin abandoned
    BY <1>5, <1>6 DEF Settled
  <2>2. PICK turn \in ToSet(net.inbox[EntryOf(s)]) :
           turn.req.op = "free" /\ turn.req.seqs[1] = seq /\ turn.local = Unhandled
    BY <1>6, <2>1 DEF Settled, Underway
  <2>3. turn \notin ToSet(net'.inbox[EntryOf(s)])
    BY <1>6, <2>2 DEF Settled, Underway
  <2>4. EntryOf(s) = c
    BY <1>4, <2>2, <2>3, Entries DEF SameFor
  <2>5. ~keep /\ turn \in Unbegun(net, c)
    BY <1>4, <2>2, <2>3, <2>4
  <2>6. turn \notin LostReleases(c)
    <3>1. GoodTurn(turn)
      BY <1>3, <2>2, <2>4 DEF GoodNet
    <3>2. seq \in ToSet(turn.req.seqs)
      BY <2>2, <3>1 DEF GoodTurn, GoodRequest, ToSet
    <3>. QED BY <1>1, <2>1, <2>5, <3>2
  <2>7. \E call \in net.calls : call.client = c /\ call.req = turn.req
    BY <2>2, <2>5, <2>6 DEF LostReleases
  <2>. QED BY <2>2, <2>4, <2>7
<1>7. ASSUME NEW s \in 1..2, NEW seq, Waited(s, seq)
      PROVE  /\ pc = "free" /\ seq = ReleaseSeq(k) /\ future[EntryOf(s)] = Pending
             /\ EntryOf(s) = ReleaseClient(k) /\ k <= 2 * Len(rows)
  <2>1. PICK call \in net.calls : /\ call.client = EntryOf(s) /\ call.req.op = "free"
                                  /\ call.req.seqs[1] = seq
    BY <1>7
  <2>2. call.client \in Own
    BY <2>1, Entries
  <2>3. pc = "free" /\ seq = ReleaseSeq(k)
    BY <1>2, <2>1, <2>2 DEF Phase, Request
  <2>4. future[EntryOf(s)] = Pending /\ Pending # None
    BY <1>2, <2>1, <2>2 DEF Solo, Pending, None
  <2>. QED BY <1>2, <2>1, <2>2, <2>3, <2>4 DEF Busy
<1>. HIDE DEF Waited
<1>8. Shape'
  BY <1>2, <1>4, <1>5 DEF Shape, RowsShape
<1>9. Busy'
  BY <1>2, <1>5 DEF Busy, ReleaseClient
<1>10. Solo'
  BY <1>2, <1>4, <1>5 DEF Solo
<1>11. Phase'
  BY <1>2, <1>4, <1>5 DEF Phase, ReleaseSeq
<1>12. HeldOrDue'
  <2>. SUFFICES ASSUME NEW s \in 1..2, NEW seq \in DOMAIN cache[s], ~Settled(s, seq)'
                PROVE  Due(s, seq)'
    BY <1>5 DEF HeldOrDue
  <2>1. Due(s, seq) => Due(s, seq)'
    BY <1>5 DEF Due
  <2>2. CASE Settled(s, seq)
    <3>1. /\ pc = "free" /\ seq = ReleaseSeq(k)
          /\ EntryOf(s) = ReleaseClient(k) /\ k <= 2 * Len(rows)
      BY <1>6, <1>7, <2>2
    <3>2. k \in Nat \ {0} /\ Len(rows) \in Nat /\ DOMAIN rows = 1..Len(rows)
      BY <1>2, ListDomain DEF Shape, RowsShape
    <3>3. IF s = 1 THEN k % 2 = 1 ELSE k % 2 = 0
      BY <3>1, <3>2 DEF EntryOf, ReleaseClient
    <3>. DEFINE j == (k + 1) \div 2
    <3>4. j \in 1..Len(rows) /\ 2 * (j - 1) + s >= k
      BY <3>1, <3>2, <3>3
    <3>5. rows[j].seq = seq
      BY <3>1 DEF ReleaseSeq
    <3>. HIDE DEF j
    <3>6. Due(s, seq)
      BY <3>1, <3>2, <3>4, <3>5 DEF Due
    <3>. QED BY <2>1, <3>6
  <2>3. CASE ~Settled(s, seq)
    BY <1>2, <2>1, <2>3 DEF HeldOrDue
  <2>. QED BY <2>2, <2>3
<1>13. AnsweredSettled'
  <2>. SUFFICES ASSUME pc = "free", NEW d \in Own, future[d] \notin {None, Pending}
                PROVE  Settled(StageOf(d), ReleaseSeq(k))'
    BY <1>5 DEF AnsweredSettled, ReleaseSeq
  <2>1. StageOf(d) \in 1..2 /\ EntryOf(StageOf(d)) = d
    BY Entries
  <2>2. Settled(StageOf(d), ReleaseSeq(k))
    BY <1>2 DEF AnsweredSettled
  <2>3. SUFFICES ASSUME ~Settled(StageOf(d), ReleaseSeq(k))' PROVE FALSE
    BY <1>5 DEF ReleaseSeq
  <2>4. ReleaseSeq(k)' = ReleaseSeq(k)
    BY <1>5 DEF ReleaseSeq
  <2>. QED BY <1>6, <1>7, <2>1, <2>2, <2>3, <2>4
<1>14. WaitingSettled'
  <2>. SUFFICES ASSUME NEW call \in net.calls, call.client \in Own, call.req.op = "free",
                       call.conn = net'.sock[call.client], net'.alive[call.client]
                PROVE  Settled(StageOf(call.client), call.req.seqs[1])'
    BY <1>4 DEF WaitingSettled
  <2>1. call.client # c /\ call.client \in MeshClients /\ StageOf(call.client) \in 1..2
        /\ EntryOf(StageOf(call.client)) = call.client
    BY <1>4, Entries
  <2>2. Settled(StageOf(call.client), call.req.seqs[1])
    BY <1>2, <1>4, <2>1 DEF WaitingSettled, SameFor
  <2>. QED BY <1>6, <2>1, <2>2
<1>. QED BY <1>8, <1>9, <1>10, <1>11, <1>12, <1>13, <1>14 DEF IInv


\* The coordinator dies: what its call had on the stages may stay behind.
LEMMA RestartInv ==
    ASSUME IInv, CoordinatorRestarts
    PROVE  IInv'
<1>. DEFINE first == Dropped(net, "c1")
            both == Dropped(first, "c2")
            left == (IF pc = "idle" THEN {} ELSE {rows[j].seq : j \in DOMAIN rows})
                    \union UNION {ToSet(turn.req.seqs) : turn \in Undone}
<1>1. /\ net' = both /\ remote' \in Remote /\ Left
      /\ future' = [c \in DOMAIN future |-> None]
      /\ abandoned' = abandoned \union left
      /\ cache' = cache /\ batch' = batch
  BY DEF CoordinatorRestarts
<1>2. /\ pc' = "idle" /\ rows' = <<>> /\ k' = 1
  BY <1>1 DEF Left
<1>3. Shape /\ HeldOrDue
  BY DEF IInv
<1>4. GoodNet(net) /\ "c1" \in MeshClients /\ "c2" \in MeshClients
  BY <1>3 DEF Shape, MeshClients
<1>5. /\ GoodNet(first) /\ first.calls = {call \in net.calls : call.client # "c1"}
      /\ \A d \in MeshClients : d # "c1" => SameFor(net, first, d)
      /\ first.inbox["c1"] = net.inbox["c1"] /\ ~first.alive["c1"]
  BY <1>4, DroppedFacts
<1>. HIDE DEF first
<1>6. /\ GoodNet(both) /\ both.calls = {call \in first.calls : call.client # "c2"}
      /\ \A d \in MeshClients : d # "c2" => SameFor(first, both, d)
      /\ both.inbox["c2"] = first.inbox["c2"] /\ ~both.alive["c2"]
  BY <1>4, <1>5, DroppedFacts
<1>. HIDE DEF both
<1>7. /\ GoodNet(net')
      /\ \A call \in net'.calls : call.client \notin Own
      /\ \A c \in Own : net'.inbox[c] = net.inbox[c]
  BY <1>1, <1>4, <1>5, <1>6 DEF SameFor, Own
<1>8. future' = [c \in Own |-> None]
  BY <1>1, <1>3 DEF Shape
<1>9. ASSUME NEW s \in 1..2, NEW seq \in DOMAIN cache[s]
      PROVE  Settled(s, seq)'
  <2>1. CASE Settled(s, seq)
    BY <1>1, <1>7, <2>1, Entries DEF Settled, Underway
  <2>2. CASE Due(s, seq)
    BY <1>1, <2>2 DEF Due, Settled
  <2>. QED BY <1>3, <2>1, <2>2 DEF HeldOrDue
<1>10. Shape'
  <2>1. RowsShape'
    <3>1. IsList(<<>>) /\ DOMAIN <<>> = {}
      BY DEF IsList, ToSet
    <3>. QED BY <1>2, <3>1 DEF RowsShape
  <2>. QED BY <1>1, <1>2, <1>3, <1>7, <1>8, <2>1 DEF Shape
<1>11. Busy'
  BY <1>2, <1>8 DEF Busy, Own
<1>12. Solo' /\ Phase' /\ WaitingSettled'
  BY <1>7 DEF Solo, Phase, WaitingSettled
<1>13. HeldOrDue' /\ AnsweredSettled'
  BY <1>1, <1>2, <1>9 DEF HeldOrDue, AnsweredSettled
<1>. QED BY <1>10, <1>11, <1>12, <1>13 DEF IInv

-----------------------------------------------------------------------------
(* The coordinator. *)

\* The rows of the call stay those of the same sequences.
SameSeqs ==
    DOMAIN rows' = DOMAIN rows /\ \A j \in DOMAIN rows : rows'[j].seq = rows[j].seq

\* A step of the coordinator before the releases, which may be the one that
\* starts them.
LEMMA Quietly ==
    ASSUME IInv, pc \notin {"idle", "free"}, UNCHANGED <<net, cache, abandoned>>,
           pc' # "idle", pc' = "free" => k' = 1 /\ \A c \in Own : future'[c] = None,
           SameSeqs, Shape', Busy',
           \A c \in Own : future[c] = Pending => future'[c] = Pending
    PROVE  IInv'
<1>1. Shape /\ Busy /\ Solo /\ Phase /\ HeldOrDue /\ WaitingSettled
  BY DEF IInv
<1>2. \A s, seq : Settled(s, seq)' <=> Settled(s, seq)
  BY DEF Settled, Underway
<1>3. pc' = "free" => \A call \in net.calls : call.client \notin Own
  BY <1>1 DEF Solo, Pending, None
<1>4. Solo'
  BY <1>1 DEF Solo
<1>5. Phase'
  BY <1>1, <1>3 DEF Phase
<1>6. HeldOrDue'
  <2>. SUFFICES ASSUME NEW s \in 1..2, NEW seq \in DOMAIN cache[s], ~Settled(s, seq)'
                PROVE  Due(s, seq)'
    BY DEF HeldOrDue
  <2>1. Due(s, seq)
    BY <1>1, <1>2 DEF HeldOrDue
  <2>2. PICK j \in DOMAIN rows : rows[j].seq = seq
    BY <2>1 DEF Due
  <2>3. j \in Nat /\ j >= 1 /\ j \in DOMAIN rows' /\ rows'[j].seq = seq
    BY <1>1, <2>2, ListDomain DEF Shape, RowsShape, SameSeqs
  <2>4. pc' = "free" => 2 * (j - 1) + s >= k'
    BY <2>3
  <2>. QED BY <2>3, <2>4 DEF Due
<1>7. AnsweredSettled'
  BY DEF AnsweredSettled
<1>8. WaitingSettled'
  BY <1>1, <1>2, Entries DEF WaitingSettled
<1>. QED BY <1>1, <1>4, <1>5, <1>6, <1>7, <1>8 DEF IInv

\* The coordinator asks a stage something that is no release.
LEMMA Asking ==
    ASSUME IInv, pc \notin {"idle", "free"}, pc' \notin {"idle", "free"},
           NEW c \in Own, NEW req, req.op # "free", GoodRequest(req),
           future[c] # Pending, Submit(c, req), UNCHANGED <<cache, abandoned>>,
           SameSeqs, RowsShape', Busy', k' \in Nat \ {0}, batch' \in Nat, remote' \in Remote
    PROVE  IInv'
<1>1. Shape /\ Busy /\ Solo /\ Phase /\ HeldOrDue /\ WaitingSettled
  BY DEF IInv
<1>2. GoodNet(net) /\ c \in MeshClients /\ GoodRequest(req)
  BY <1>1, Entries DEF Shape
<1>3. /\ net' = Called(net, Coordinator, c, req)
      /\ future' = [future EXCEPT ![c] = Pending]
  BY DEF Submit
<1>4. GoodNet(net') /\ Asks(net, net', Coordinator, c, req, 1)
  <2>. DEFINE who == Coordinator
              one == 1
              m == Sent(net, who, c, req, one)
  <2>1. m = net'
    BY <1>3 DEF Called
  <2>. HIDE DEF who, one
  <2>2. GoodNet(m) /\ Asks(net, m, who, c, req, one)
    BY <1>2, SentFacts
  <2>. QED BY <2>1, <2>2 DEF who, one
<1>5. PICK conn : net'.calls = net.calls \union {Call(Coordinator, c, req, 1, conn)}
  BY <1>4 DEF Asks
<1>. DEFINE new == Call(Coordinator, c, req, 1, conn)
<1>6. new.client = c /\ new.by = Coordinator /\ new.req = req
  BY DEF Call
<1>. HIDE DEF new
<1>7. /\ net'.calls = net.calls \union {new}
      /\ \A call \in net.calls : call.client \in Own => call.client # c
  BY <1>1, <1>5 DEF Solo, new
<1>8. /\ future' = [d \in Own |-> future'[d]] /\ future'[c] = Pending
      /\ \A d \in Own : d # c => future'[d] = future[d]
  BY <1>1, <1>3 DEF Shape
<1>9. \A d \in MeshClients : /\ d # c => SameFor(net, net', d)
                             /\ ToSet(net.inbox[d]) \subseteq ToSet(net'.inbox[d])
  BY <1>4 DEF Asks, SameFor
<1>10. \A s \in 1..2 : \A seq : Settled(s, seq) => Settled(s, seq)'
  BY <1>9, Entries DEF Settled, Underway
<1>11. Shape'
  BY <1>1, <1>4, <1>8 DEF Shape
<1>12. Solo'
  BY <1>1, <1>6, <1>7, <1>8 DEF Solo
<1>13. Phase'
  BY <1>1, <1>6, <1>7 DEF Phase
<1>14. HeldOrDue'
  BY <1>1, <1>10 DEF HeldOrDue, Due, SameSeqs
<1>15. AnsweredSettled'
  BY DEF AnsweredSettled
<1>16. WaitingSettled'
  BY <1>1, <1>6, <1>7 DEF WaitingSettled, Phase
<1>. QED BY <1>11, <1>12, <1>13, <1>14, <1>15, <1>16 DEF IInv

\* A row that is like another one and of the same sequence.
IsRowOf(row, other) == IsRow(row) /\ row.seq = other.seq

LEMMA RowChanges ==
    ASSUME NEW row, IsRow(row), NEW v, NEW w
    PROVE  /\ IsRowOf(row, row)
           /\ IsRowOf([row EXCEPT !.cur = v], row)
           /\ IsRowOf([row EXCEPT !.generated = v], row)
           /\ IsRowOf([row EXCEPT !.generated = v, !.done = w], row)
<1>. DEFINE a == row.seq  b == row.prompt  d == row.cur  g == row.generated  h == row.done
            x == [row EXCEPT !.cur = v]
            y == [row EXCEPT !.generated = v]
            z == [y EXCEPT !.done = w]
<1>1. row = [seq |-> a, prompt |-> b, cur |-> d, generated |-> g, done |-> h] /\ row.seq = a
  BY DEF IsRow
<1>. HIDE DEF a, b, d, g, h
<1>2. x = [seq |-> a, prompt |-> b, cur |-> v, generated |-> g, done |-> h]
  BY <1>1
<1>3. y = [seq |-> a, prompt |-> b, cur |-> d, generated |-> v, done |-> h]
  BY <1>1
<1>. HIDE DEF y
<1>4. z = [seq |-> a, prompt |-> b, cur |-> d, generated |-> v, done |-> w]
  BY <1>3
<1>5. z = [row EXCEPT !.generated = v, !.done = w]
  BY DEF y
<1>. HIDE DEF x, z
<1>6. IsRowOf(row, row) /\ IsRowOf(x, row) /\ IsRowOf(y, row) /\ IsRowOf(z, row)
  BY <1>1, <1>2, <1>3, <1>4 DEF IsRowOf, IsRow
<1>. QED BY <1>5, <1>6 DEF x, y

LEMMA RowsChanged ==
    ASSUME RowsShape, rows' = [i \in DOMAIN rows |-> rows'[i]],
           \A i \in DOMAIN rows : IsRowOf(rows'[i], rows[i])
    PROVE  RowsShape' /\ SameSeqs
<1>1. DOMAIN rows' = DOMAIN rows
  OBVIOUS
<1>2. Len(rows) \in Nat /\ DOMAIN rows = 1..Len(rows)
  BY ListDomain DEF RowsShape
<1>3. \A i \in 1..Len(rows) : rows'[i] \in ToSet(rows')
  BY <1>1, <1>2 DEF ToSet
<1>4. rows' \in [1..Len(rows) -> ToSet(rows')]
  BY <1>1, <1>2, <1>3
<1>5. IsList(rows')
  <2>. DEFINE S == ToSet(rows')
  <2>1. rows' \in [1..Len(rows) -> S]
    BY <1>4
  <2>. HIDE DEF S
  <2>2. rows' \in Seq(S)
    BY <1>2, <2>1
  <2>. QED BY <2>2 DEF IsList, S
<1>. QED BY <1>1, <1>5 DEF RowsShape, SameSeqs, IsRowOf

\* The coordinator takes up what came of its call.
LEMMA TakenFacts ==
    ASSUME IInv, NEW c \in Own, Taken(c), future[c] # Pending
    PROVE  /\ net' = net
           /\ future' = [d \in Own |-> future'[d]] /\ future'[c] = None
           /\ \A d \in Own : d # c => future'[d] = future[d]
           /\ \A d \in Own : future[d] = Pending => future'[d] = Pending
BY DEF Taken, IInv, Shape

\* An outcome is neither none nor to come.
LEMMA Outcomes ==
    /\ None.kind = "none" /\ Pending.kind = "pending" /\ Pending # None
    /\ "c1" \in Own /\ "c2" \in Own
BY DEF None, Pending, Own

LEMMA RemoteCallInv == ASSUME IInv, RemoteCall PROVE IInv'
<1>. DEFINE req == Request("generate_chain", [j \in DOMAIN rows |-> rows[j].seq],
                           [j \in DOMAIN rows |-> PromptValue(rows[j].prompt)])
<1>1. /\ pc = "remote" /\ future["c1"] = None /\ Submit("c1", req)
      /\ UNCHANGED <<cache, driver, abandoned>>
  BY DEF RemoteCall, ghosts
<1>2. req.op = "generate_chain"
  BY DEF Request
<1>. HIDE DEF req
<1>3. GoodRequest(req)
  BY <1>2 DEF GoodRequest
<1>4. /\ remote' = remote /\ batch' = batch /\ rows' = rows /\ pc' = pc /\ k' = k
      /\ chunks' = chunks
  BY <1>1 DEF driver
<1>5. Shape /\ Busy
  BY DEF IInv
<1>6. Busy'
  BY <1>1, <1>4, <1>5, Outcomes DEF Busy, Shape, Submit
<1>7. SameSeqs /\ RowsShape' /\ k' \in Nat \ {0} /\ batch' \in Nat /\ remote' \in Remote
  BY <1>4, <1>5 DEF SameSeqs, Shape, RowsShape
<1>. QED BY <1>1, <1>2, <1>3, <1>4, <1>6, <1>7, Outcomes, Asking

LEMMA PrefillRowInv == ASSUME IInv, PrefillRow PROVE IInv'
<1>. DEFINE req == Request("prefill_chain", <<rows[k].seq>>, <<PromptValue(rows[k].prompt)>>)
<1>1. /\ pc = "prefill" /\ k <= Len(rows) /\ future["c1"] = None /\ Submit("c1", req)
      /\ UNCHANGED <<cache, driver, abandoned>>
  BY DEF PrefillRow, ghosts
<1>2. req.op = "prefill_chain" /\ GoodRequest(req)
  BY DEF Request, GoodRequest
<1>. HIDE DEF req
<1>3. /\ remote' = remote /\ batch' = batch /\ rows' = rows /\ pc' = pc /\ k' = k
      /\ chunks' = chunks
  BY <1>1 DEF driver
<1>4. Shape /\ Busy /\ Len(rows) \in Nat
  BY ListDomain DEF IInv, Shape, RowsShape
<1>5. Busy'
  <2>1. future'["c2"] = future["c2"]
    BY <1>1, <1>4, Outcomes DEF Submit, Shape
  <2>2. ~(k > Len(rows))
    BY <1>1, <1>4 DEF Shape
  <2>. QED BY <1>1, <1>3, <1>4, <2>1, <2>2 DEF Busy
<1>6. SameSeqs /\ RowsShape' /\ k' \in Nat \ {0} /\ batch' \in Nat /\ remote' \in Remote
  BY <1>3, <1>4 DEF SameSeqs, Shape, RowsShape
<1>. QED BY <1>1, <1>2, <1>3, <1>5, <1>6, Outcomes, Asking

LEMMA ChainDecodeInv == ASSUME IInv, ChainDecode PROVE IInv'
<1>. DEFINE req == Request("decode_batch_chain", Seqs(chunks[1]), CurTokens(chunks[1]))
<1>1. /\ pc = "chain" /\ future["c1"] = None /\ Submit("c1", req)
      /\ UNCHANGED <<cache, driver, abandoned>>
  BY DEF ChainDecode, ghosts
<1>2. req.op = "decode_batch_chain"
  BY DEF Request
<1>. HIDE DEF req
<1>3. GoodRequest(req)
  BY <1>2 DEF GoodRequest
<1>4. /\ remote' = remote /\ batch' = batch /\ rows' = rows /\ pc' = pc /\ k' = k
      /\ chunks' = chunks
  BY <1>1 DEF driver
<1>5. Shape /\ Busy
  BY DEF IInv
<1>6. Busy'
  BY <1>1, <1>4, <1>5, Outcomes DEF Busy, Shape, Submit
<1>7. SameSeqs /\ RowsShape' /\ k' \in Nat \ {0} /\ batch' \in Nat /\ remote' \in Remote
  BY <1>4, <1>5 DEF SameSeqs, Shape, RowsShape
<1>. QED BY <1>1, <1>2, <1>3, <1>4, <1>6, <1>7, Outcomes, Asking

LEMMA TokensDealt ==
    ASSUME RowsShape, NEW is, NEW vals, rows' = WithTokens(is, vals)
    PROVE  RowsShape' /\ SameSeqs
<1>1. rows' = [i \in DOMAIN rows |-> rows'[i]]
  BY DEF WithTokens
<1>2. \A i \in DOMAIN rows :
         \/ rows'[i] = rows[i]
         \/ rows'[i] = [rows[i] EXCEPT !.cur = vals[CHOOSE j \in DOMAIN is : is[j] = i]]
  BY DEF WithTokens
<1>3. ASSUME NEW i \in DOMAIN rows PROVE IsRowOf(rows'[i], rows[i])
  <2>1. IsRow(rows[i])
    BY DEF RowsShape
  <2>. DEFINE v == vals[CHOOSE j \in DOMAIN is : is[j] = i]
  <2>2. rows'[i] = rows[i] \/ rows'[i] = [rows[i] EXCEPT !.cur = v]
    BY <1>2
  <2>. HIDE DEF v
  <2>. QED BY <2>1, <2>2, RowChanges
<1>. QED BY <1>1, <1>3, RowsChanged

LEMMA OverlapBeginInv == ASSUME IInv, OverlapBegin PROVE IInv'
<1>. DEFINE req == Request("decode_batch", Seqs(chunks[1]), CurTokens(chunks[1]))
<1>1. /\ pc = "overlap" /\ pc' = "stage1" /\ Submit("c1", req)
      /\ cache' = cache /\ abandoned' = abandoned /\ remote' = remote /\ batch' = batch
      /\ rows' = rows /\ k' = k
  BY DEF OverlapBegin, ghosts
<1>2. req.op = "decode_batch"
  BY DEF Request
<1>. HIDE DEF req
<1>3. GoodRequest(req)
  BY <1>2 DEF GoodRequest
<1>4. Shape /\ Busy
  BY DEF IInv
<1>5. future["c1"] # Pending
  BY <1>1, <1>4, Outcomes DEF Busy
<1>6. Busy'
  BY <1>1 DEF Busy
<1>7. SameSeqs /\ RowsShape' /\ k' \in Nat \ {0} /\ batch' \in Nat /\ remote' \in Remote
  BY <1>1, <1>4 DEF SameSeqs, Shape, RowsShape
<1>. QED BY <1>1, <1>2, <1>3, <1>5, <1>6, <1>7, Outcomes, Asking

LEMMA RemoteDoneInv == ASSUME IInv, RemoteDone PROVE IInv'
<1>1. /\ pc = "remote" /\ Taken("c1") /\ future["c1"].kind \notin {"none", "pending"}
      /\ pc' = "free" /\ k' = 1
      /\ cache' = cache /\ abandoned' = abandoned /\ remote' = remote /\ batch' = batch
      /\ \/ rows' = rows
         \/ rows' = [j \in DOMAIN rows |->
                       [rows[j] EXCEPT !.generated = future["c1"].texts[j]]]
  BY DEF RemoteDone, StartRelease, ghosts
<1>2. Shape /\ Busy
  BY DEF IInv
<1>3. /\ net' = net
      /\ future' = [d \in Own |-> future'[d]] /\ future'["c1"] = None
      /\ \A d \in Own : d # "c1" => future'[d] = future[d]
      /\ \A d \in Own : future[d] = Pending => future'[d] = Pending
  BY <1>1, Outcomes, TakenFacts
<1>4. \A c \in Own : future'[c] = None
  BY <1>1, <1>2, <1>3 DEF Busy, Own
<1>5. RowsShape' /\ SameSeqs
  <2>1. CASE rows' = rows
    BY <1>2, <2>1 DEF Shape, RowsShape, SameSeqs
  <2>2. CASE rows' # rows
    <3>1. rows' = [j \in DOMAIN rows |-> [rows[j] EXCEPT !.generated = future["c1"].texts[j]]]
      BY <1>1, <2>2
    <3>2. rows' = [i \in DOMAIN rows |-> rows'[i]] /\ RowsShape
      BY <1>2, <3>1 DEF Shape
    <3>3. \A i \in DOMAIN rows : IsRowOf(rows'[i], rows[i])
      BY <3>1, <3>2, RowChanges DEF RowsShape
    <3>. QED BY <3>2, <3>3, RowsChanged
  <2>. QED BY <2>1, <2>2
<1>6. Shape'
  BY <1>1, <1>2, <1>3, <1>5 DEF Shape
<1>7. Busy'
  BY <1>1, <1>4 DEF Busy
<1>. QED BY <1>1, <1>3, <1>4, <1>5, <1>6, <1>7, Quietly

LEMMA PrefillDoneInv == ASSUME IInv, PrefillDone PROVE IInv'
<1>1. /\ pc = "prefill" /\ Taken("c1") /\ future["c1"].kind \notin {"none", "pending"}
      /\ cache' = cache /\ abandoned' = abandoned /\ remote' = remote /\ batch' = batch
      /\ \/ rows' = rows /\ pc' = "free" /\ k' = 1
         \/ /\ rows' = [rows EXCEPT ![k].cur = future["c1"].vals[1]]
            /\ pc' = pc /\ k' = k + 1
  BY DEF PrefillDone, StartRelease, ghosts
<1>2. Shape /\ Busy
  BY DEF IInv
<1>3. /\ net' = net
      /\ future' = [d \in Own |-> future'[d]] /\ future'["c1"] = None
      /\ \A d \in Own : d # "c1" => future'[d] = future[d]
      /\ \A d \in Own : future[d] = Pending => future'[d] = Pending
  BY <1>1, Outcomes, TakenFacts
<1>4. \A c \in Own : future'[c] = None
  BY <1>1, <1>2, <1>3 DEF Busy, Own
<1>5. RowsShape' /\ SameSeqs
  <2>1. CASE rows' = rows
    BY <1>2, <2>1 DEF Shape, RowsShape, SameSeqs
  <2>2. CASE rows' # rows
    <3>1. rows' = [rows EXCEPT ![k].cur = future["c1"].vals[1]]
      BY <1>1, <2>2
    <3>2. rows' = [i \in DOMAIN rows |-> rows'[i]] /\ RowsShape
      BY <1>2, <3>1 DEF Shape
    <3>. DEFINE v == future["c1"].vals[1]
    <3>3. \A i \in DOMAIN rows : rows'[i] = IF i = k THEN [rows[i] EXCEPT !.cur = v] ELSE rows[i]
      BY <3>1
    <3>. HIDE DEF v
    <3>4. ASSUME NEW i \in DOMAIN rows PROVE IsRowOf(rows'[i], rows[i])
      <4>1. IsRow(rows[i])
        BY <3>2 DEF RowsShape
      <4>2. rows'[i] = rows[i] \/ rows'[i] = [rows[i] EXCEPT !.cur = v]
        BY <3>3
      <4>. QED BY <4>1, <4>2, RowChanges
    <3>. QED BY <3>2, <3>4, RowsChanged
  <2>. QED BY <2>1, <2>2
<1>6. Shape'
  BY <1>1, <1>2, <1>3, <1>5 DEF Shape
<1>7. Busy'
  BY <1>1, <1>4, Outcomes DEF Busy
<1>. QED BY <1>1, <1>3, <1>4, <1>5, <1>6, <1>7, Quietly

LEMMA ChainDoneInv == ASSUME IInv, ChainDone PROVE IInv'
<1>1. /\ pc = "chain" /\ Taken("c1") /\ future["c1"].kind \notin {"none", "pending"}
      /\ cache' = cache /\ abandoned' = abandoned /\ remote' = remote /\ batch' = batch
      /\ \/ rows' = rows /\ pc' = "free" /\ k' = 1
         \/ rows' = WithTokens(chunks[1], future["c1"].vals) /\ pc' = "step" /\ k' = k
  BY DEF ChainDone, StartRelease, ghosts
<1>2. Shape /\ Busy
  BY DEF IInv
<1>3. /\ net' = net
      /\ future' = [d \in Own |-> future'[d]] /\ future'["c1"] = None
      /\ \A d \in Own : d # "c1" => future'[d] = future[d]
      /\ \A d \in Own : future[d] = Pending => future'[d] = Pending
  BY <1>1, Outcomes, TakenFacts
<1>4. \A c \in Own : future'[c] = None
  BY <1>1, <1>2, <1>3 DEF Busy, Own
<1>5. RowsShape' /\ SameSeqs
  <2>1. CASE rows' = rows
    BY <1>2, <2>1 DEF Shape, RowsShape, SameSeqs
  <2>2. CASE rows' # rows
    BY <1>1, <1>2, <2>2, TokensDealt DEF Shape
  <2>. QED BY <2>1, <2>2
<1>6. Shape'
  BY <1>1, <1>2, <1>3, <1>5 DEF Shape
<1>7. Busy'
  BY <1>1, <1>4, Outcomes DEF Busy
<1>. QED BY <1>1, <1>3, <1>4, <1>5, <1>6, <1>7, Quietly

LEMMA BeginStepInv == ASSUME IInv, BeginStep PROVE IInv'
<1>1. PICK eos \in SUBSET {i \in DOMAIN rows : Ready(i)} :
         rows' = [i \in DOMAIN rows |->
                    IF ~Ready(i) THEN rows[i]
                    ELSE [rows[i] EXCEPT
                            !.generated = Append(rows[i].generated, rows[i].cur),
                            !.done = i \in eos \/ Len(rows[i].generated) + 1 >= MaxNew]]
  BY DEF BeginStep
<1>2. /\ Between /\ pc' \in {"step", "overlap", "chain"} /\ k' = 1
      /\ net' = net /\ cache' = cache /\ abandoned' = abandoned /\ remote' = remote
      /\ batch' = batch /\ future' = future
  BY DEF BeginStep, ghosts
<1>3. Shape /\ Busy /\ RowsShape
  BY DEF IInv, Shape
<1>4. pc \in {"prefill", "step"} /\ \A c \in Own : future[c] = None
  BY <1>2, <1>3 DEF Between, Busy, Own
<1>5. ASSUME NEW i \in DOMAIN rows PROVE IsRowOf(rows'[i], rows[i])
  <2>1. IsRow(rows[i])
    BY <1>3 DEF RowsShape
  <2>. DEFINE v == Append(rows[i].generated, rows[i].cur)
              w == i \in eos \/ Len(rows[i].generated) + 1 >= MaxNew
  <2>2. rows'[i] = rows[i] \/ rows'[i] = [rows[i] EXCEPT !.generated = v, !.done = w]
    BY <1>1
  <2>. HIDE DEF v, w
  <2>3. /\ IsRowOf(rows[i], rows[i])
        /\ IsRowOf([rows[i] EXCEPT !.generated = v, !.done = w], rows[i])
    <3>. DEFINE row == rows[i]
    <3>1. IsRow(row)
      BY <2>1
    <3>. HIDE DEF row
    <3>2. IsRowOf(row, row) /\ IsRowOf([row EXCEPT !.generated = v, !.done = w], row)
      BY <3>1, RowChanges, Zenon
    <3>. QED BY <3>2 DEF row
  <2>. QED BY <2>2, <2>3
<1>6. rows' = [i \in DOMAIN rows |-> rows'[i]]
  BY <1>1
<1>7. RowsShape' /\ SameSeqs
  BY <1>3, <1>5, <1>6, RowsChanged
<1>8. Shape'
  BY <1>2, <1>3, <1>7 DEF Shape
<1>9. Busy'
  BY <1>2, <1>4, Outcomes DEF Busy
<1>. QED BY <1>2, <1>4, <1>7, <1>8, <1>9, Quietly

LEMMA FinishInv == ASSUME IInv, Finish PROVE IInv'
<1>1. /\ Between /\ pc' = "free" /\ k' = 1
      /\ net' = net /\ cache' = cache /\ abandoned' = abandoned /\ remote' = remote
      /\ batch' = batch /\ future' = future /\ rows' = rows
  BY DEF Finish, StartRelease, ghosts
<1>2. Shape /\ Busy
  BY DEF IInv
<1>3. pc \in {"prefill", "step"} /\ \A c \in Own : future[c] = None
  BY <1>1, <1>2 DEF Between, Busy, Own
<1>4. Shape' /\ SameSeqs
  BY <1>1, <1>2 DEF Shape, RowsShape, SameSeqs
<1>5. Busy'
  BY <1>1, <1>3 DEF Busy
<1>. QED BY <1>1, <1>3, <1>4, <1>5, Quietly

LEMMA DrainInv == ASSUME IInv, Drain PROVE IInv'
<1>1. /\ pc = "drain" /\ pc' = "free" /\ k' = 1
      /\ net' = net /\ cache' = cache /\ abandoned' = abandoned /\ remote' = remote
      /\ batch' = batch /\ rows' = rows
      /\ \A c \in DOMAIN future : future[c] # Pending
      /\ future' = [c \in DOMAIN future |-> None]
  BY DEF Drain, StartRelease, ghosts
<1>2. Shape /\ Busy /\ DOMAIN future = Own
  BY DEF IInv, Shape
<1>3. future' = [c \in Own |-> None]
  BY <1>1, <1>2
<1>4. Shape' /\ SameSeqs
  BY <1>1, <1>2, <1>3 DEF Shape, RowsShape, SameSeqs
<1>5. Busy'
  BY <1>1, <1>3 DEF Busy
<1>. QED BY <1>1, <1>2, <1>3, <1>4, <1>5, Quietly

LEMMA Stage1DoneInv == ASSUME IInv, Stage1Done PROVE IInv'
<1>. DEFINE req == Request("decode_batch", Seqs(chunks[k + 1]), CurTokens(chunks[k + 1]))
<1>1. /\ pc = "stage1" /\ future["c1"].kind \notin {"none", "pending"}
      /\ cache' = cache /\ abandoned' = abandoned /\ remote' = remote /\ batch' = batch
      /\ rows' = rows /\ k' = k /\ chunks' = chunks
      /\ \/ k < Len(chunks) /\ Submit("c1", req) /\ pc' = "stage2"
         \/ Taken("c1") /\ pc' \in {"stage2", "drain"}
  BY DEF Stage1Done, ghosts
<1>2. Shape /\ Busy /\ future["c1"] # Pending
  BY <1>1, Outcomes DEF IInv
<1>3. req.op = "decode_batch"
  BY DEF Request
<1>. HIDE DEF req
<1>4. GoodRequest(req)
  BY <1>3 DEF GoodRequest
<1>5. SameSeqs /\ RowsShape' /\ k' \in Nat \ {0} /\ batch' \in Nat /\ remote' \in Remote
  BY <1>1, <1>2 DEF SameSeqs, Shape, RowsShape
<1>6. CASE k < Len(chunks) /\ Submit("c1", req) /\ pc' = "stage2"
  <2>1. Busy'
    BY <1>1, <1>6 DEF Busy
  <2>. QED BY <1>1, <1>2, <1>3, <1>4, <1>5, <1>6, <2>1, Outcomes, Asking
<1>7. CASE Taken("c1") /\ pc' \in {"stage2", "drain"}
  <2>1. /\ net' = net
        /\ future' = [d \in Own |-> future'[d]] /\ future'["c1"] = None
        /\ \A d \in Own : future[d] = Pending => future'[d] = Pending
    BY <1>2, <1>7, Outcomes, TakenFacts
  <2>2. Shape'
    BY <1>1, <1>2, <1>5, <2>1 DEF Shape
  <2>3. Busy'
    BY <1>7, <2>1 DEF Busy
  <2>. QED BY <1>1, <1>5, <1>7, <2>1, <2>2, <2>3, Quietly
<1>. QED BY <1>1, <1>6, <1>7

LEMMA Stage2NextInv == ASSUME IInv, Stage2Next PROVE IInv'
<1>. DEFINE req == Chunk2(held)
<1>1. /\ pc = "stage2" /\ future["c2"].kind # "pending"
      /\ cache' = cache /\ abandoned' = abandoned /\ remote' = remote /\ batch' = batch
      /\ rows' = rows /\ chunks' = chunks
      /\ \/ /\ Submit("c2", req) /\ k' = k + 1
            /\ pc' = IF k < Len(chunks) THEN "stage1" ELSE "last"
         \/ Taken("c2") /\ pc' = "drain" /\ k' = k
  BY DEF Stage2Next, ghosts
<1>2. Shape /\ Busy /\ future["c2"] # Pending
  BY <1>1, Outcomes DEF IInv
<1>3. req.op = "decode_batch"
  BY DEF Request, Chunk2
<1>. HIDE DEF req
<1>4. GoodRequest(req)
  BY <1>3 DEF GoodRequest
<1>5. SameSeqs /\ RowsShape' /\ k' \in Nat \ {0} /\ batch' \in Nat /\ remote' \in Remote
  BY <1>1, <1>2 DEF SameSeqs, Shape, RowsShape
<1>6. CASE /\ Submit("c2", req) /\ k' = k + 1
           /\ pc' = IF k < Len(chunks) THEN "stage1" ELSE "last"
  <2>1. future'["c1"] = future["c1"]
    BY <1>2, <1>6, Outcomes DEF Submit, Shape
  <2>2. pc' = "last" => future["c1"] = None
    BY <1>1, <1>2, <1>6 DEF Busy
  <2>3. Busy'
    BY <1>6, <2>1, <2>2 DEF Busy
  <2>4. pc' \notin {"idle", "free"}
    BY <1>6
  <2>. QED BY <1>1, <1>2, <1>3, <1>4, <1>5, <1>6, <2>3, <2>4, Outcomes, Asking
<1>7. CASE Taken("c2") /\ pc' = "drain" /\ k' = k
  <2>1. /\ net' = net
        /\ future' = [d \in Own |-> future'[d]]
        /\ \A d \in Own : future[d] = Pending => future'[d] = Pending
    BY <1>2, <1>7, Outcomes, TakenFacts
  <2>2. Shape'
    BY <1>1, <1>2, <1>5, <2>1 DEF Shape
  <2>3. Busy'
    BY <1>7 DEF Busy
  <2>. QED BY <1>1, <1>5, <1>7, <2>1, <2>2, <2>3, Quietly
<1>. QED BY <1>1, <1>6, <1>7

LEMMA OverlapDoneInv == ASSUME IInv, OverlapDone PROVE IInv'
<1>1. /\ pc = "last" /\ Taken("c2") /\ future["c2"].kind \notin {"none", "pending"}
      /\ cache' = cache /\ abandoned' = abandoned /\ remote' = remote /\ batch' = batch
      /\ k' = k /\ pc' \in {"step", "drain"}
      /\ \/ rows' = rows
         \/ \E is, vals : rows' = WithTokens(is, vals)
  <2>1. future["c2"].kind = "next_tokens" =>
           rows' = WithTokens(FlattenSeq(chunks),
                              FlattenSeq(Append(tokens, future["c2"].vals)))
    BY DEF OverlapDone
  <2>. QED BY <2>1 DEF OverlapDone, ghosts
<1>2. Shape /\ Busy
  BY DEF IInv
<1>3. /\ net' = net
      /\ future' = [d \in Own |-> future'[d]] /\ future'["c2"] = None
      /\ \A d \in Own : d # "c2" => future'[d] = future[d]
      /\ \A d \in Own : future[d] = Pending => future'[d] = Pending
  BY <1>1, Outcomes, TakenFacts
<1>4. future'["c1"] = None
  BY <1>1, <1>2, <1>3 DEF Busy, Own
<1>5. RowsShape' /\ SameSeqs
  <2>1. CASE rows' = rows
    BY <1>2, <2>1 DEF Shape, RowsShape, SameSeqs
  <2>2. CASE rows' # rows
    BY <1>1, <1>2, <2>2, TokensDealt DEF Shape
  <2>. QED BY <2>1, <2>2
<1>6. Shape'
  BY <1>1, <1>2, <1>3, <1>5 DEF Shape
<1>7. Busy'
  BY <1>1, <1>3, <1>4 DEF Busy
<1>. QED BY <1>1, <1>3, <1>5, <1>6, <1>7, Quietly

-----------------------------------------------------------------------------
(* The beginning and the end of a call. *)

\* Between the calls, and before a release is made, no call is under way.
LEMMA NoneOwn ==
    ASSUME IInv, \A c \in Own : future[c] # Pending
    PROVE  \A call \in net.calls : call.client \notin Own
BY DEF IInv, Solo

LEMMA GenerateBatchInv == ASSUME IInv, GenerateBatch PROVE IInv'
<1>. DEFINE n == Batches[remote][batch']
<1>1. /\ pc = "idle" /\ batch < Len(Batches[remote]) /\ batch' = batch + 1
      /\ rows' = [j \in 1..n |->
                    [seq |-> counter + j, prompt |-> 10 * batch' + j,
                     cur |-> Junk, generated |-> <<>>, done |-> FALSE]]
      /\ pc' \in {"remote", "prefill"} /\ k' = 1 /\ net' = net /\ cache' = cache
      /\ remote' = remote /\ future' = future /\ abandoned' = abandoned
  BY DEF GenerateBatch, ghosts
<1>2. Shape /\ Busy /\ HeldOrDue
  BY DEF IInv
<1>3. \A c \in Own : future[c] = None
  BY <1>1, <1>2 DEF Busy, Own
<1>4. n \in Nat
  <2>1. batch \in Nat /\ remote \in Remote
    BY <1>2 DEF Shape
  <2>2. Batches[remote] \in Seq(Nat)
    BY <2>1, MeshAssumption
  <2>3. batch' \in 1..Len(Batches[remote])
    BY <1>1, <2>1, <2>2
  <2>. QED BY <2>2, <2>3
<1>. HIDE DEF n
<1>5. RowsShape'
  <2>1. DOMAIN rows' = 1..n /\ \A j \in 1..n : rows'[j] \in ToSet(rows')
    BY <1>1 DEF ToSet
  <2>. DEFINE S == ToSet(rows')
  <2>2. rows' \in [1..n -> S]
    BY <1>1, <2>1
  <2>. HIDE DEF S
  <2>3. rows' \in Seq(S)
    BY <1>4, <2>2
  <2>4. IsList(rows')
    BY <2>3 DEF S, IsList
  <2>5. \A j \in 1..n : IsRow(rows'[j])
    BY <1>1 DEF IsRow
  <2>. QED BY <2>1, <2>4, <2>5 DEF RowsShape
<1>6. \A call \in net.calls : call.client \notin Own
  BY <1>3, NoneOwn, Outcomes
<1>7. Shape'
  BY <1>1, <1>2, <1>5 DEF Shape
<1>8. Busy'
  BY <1>1, <1>3, Outcomes DEF Busy
<1>9. Solo' /\ Phase' /\ WaitingSettled'
  BY <1>1, <1>6 DEF Solo, Phase, WaitingSettled
<1>10. HeldOrDue'
  BY <1>1, <1>2 DEF HeldOrDue, Due, Settled, Underway
<1>11. AnsweredSettled'
  BY <1>1 DEF AnsweredSettled
<1>. QED BY <1>7, <1>8, <1>9, <1>10, <1>11 DEF IInv

LEMMA ReleaseInv == ASSUME IInv, Release PROVE IInv'
<1>. DEFINE c == ReleaseClient(k)
            req == Request("free", <<ReleaseSeq(k)>>, <<>>)
<1>1. /\ pc = "free" /\ k <= 2 * Len(rows) /\ future[c] = None /\ Submit(c, req)
      /\ cache' = cache /\ abandoned' = abandoned /\ remote' = remote /\ batch' = batch
      /\ rows' = rows /\ pc' = pc /\ k' = k
  BY DEF Release, driver, ghosts
<1>2. Shape /\ Busy /\ HeldOrDue
  BY DEF IInv
<1>3. c \in Own
  BY DEF ReleaseClient, Own
<1>4. /\ req.op = "free" /\ req.seqs[1] = ReleaseSeq(k) /\ GoodRequest(req)
  BY DEF Request, GoodRequest
<1>5. ReleaseSeq(k)' = ReleaseSeq(k) /\ ReleaseClient(k)' = c
  BY <1>1 DEF ReleaseSeq, ReleaseClient
<1>6. \A d \in Own : future[d] = None
  BY <1>1, <1>2 DEF Busy
<1>7. req = Request("free", <<ReleaseSeq(k)>>, <<>>)'
  BY <1>5 DEF Request
<1>. HIDE DEF c, req
<1>8. GoodNet(net) /\ c \in MeshClients
  BY <1>2, <1>3, Entries DEF Shape
<1>9. GoodNet(net') /\ Asks(net, net', Coordinator, c, req, 1)
  <2>. DEFINE who == Coordinator
              one == 1
              m == Sent(net, who, c, req, one)
  <2>1. m = net'
    BY <1>1 DEF Called, Submit
  <2>. HIDE DEF who, one
  <2>2. GoodNet(m) /\ Asks(net, m, who, c, req, one)
    BY <1>4, <1>8, SentFacts
  <2>. QED BY <2>1, <2>2 DEF who, one
<1>10. PICK conn : /\ net'.calls = net.calls \union {Call(Coordinator, c, req, 1, conn)}
                   /\ conn = net'.sock[c] /\ net'.alive[c]
                        => \E turn \in ToSet(net'.inbox[c]) :
                              turn.req = req /\ turn.local = Unhandled
  BY <1>9 DEF Asks
<1>. DEFINE new == Call(Coordinator, c, req, 1, conn)
<1>11. new.client = c /\ new.by = Coordinator /\ new.req = req /\ new.conn = conn
  BY DEF Call
<1>12. \A call \in net'.calls : call.client \in Own => call = new
  BY <1>6, <1>10, NoneOwn, Outcomes
<1>. HIDE DEF new
<1>13. future' = [d \in Own |-> IF d = c THEN Pending ELSE None]
  BY <1>1, <1>2, <1>6 DEF Submit, Shape
<1>14. \A d \in MeshClients : ToSet(net.inbox[d]) \subseteq ToSet(net'.inbox[d])
  BY <1>9 DEF Asks, SameFor
<1>15. Shape'
  BY <1>1, <1>2, <1>9, <1>13 DEF Shape, RowsShape
<1>16. Busy'
  BY <1>1, <1>5, <1>13 DEF Busy
<1>17. Solo'
  BY <1>3, <1>11, <1>12, <1>13 DEF Solo
<1>18. Phase'
  BY <1>1, <1>7, <1>11, <1>12 DEF Phase
<1>19. HeldOrDue'
  BY <1>1, <1>2, <1>14, Entries DEF HeldOrDue, Due, Settled, Underway
<1>20. AnsweredSettled'
  BY <1>13 DEF AnsweredSettled
<1>21. WaitingSettled'
  <2>. SUFFICES ASSUME NEW call \in net'.calls, call.client \in Own, call.req.op = "free",
                       call.conn = net'.sock[call.client], net'.alive[call.client]
                PROVE  Settled(StageOf(call.client), call.req.seqs[1])'
    BY DEF WaitingSettled
  <2>1. call.client = c /\ call.req = req /\ EntryOf(StageOf(c)) = c
    BY <1>3, <1>11, <1>12, Entries
  <2>2. \E turn \in ToSet(net'.inbox[c]) : turn.req = req /\ turn.local = Unhandled
    BY <1>10, <1>11, <1>12, <2>1
  <2>. QED BY <2>1, <2>2 DEF Settled, Underway
<1>. QED BY <1>15, <1>16, <1>17, <1>18, <1>19, <1>20, <1>21 DEF IInv

\* The release whose turn it is, as a row and a stage.
LEMMA ItsTurn ==
    ASSUME Shape, NEW s \in 1..2, NEW j \in DOMAIN rows, 2 * (j - 1) + s = k
    PROVE  ReleaseSeq(k) = rows[j].seq /\ ReleaseClient(k) = EntryOf(s)
<1>1. j \in Nat /\ k \in Nat
  BY ListDomain DEF Shape, RowsShape
<1>2. (k + 1) \div 2 = j
  BY <1>1
<1>3. k % 2 = 1 <=> s = 1
  BY <1>1
<1>. QED BY <1>2, <1>3 DEF ReleaseSeq, ReleaseClient, EntryOf

LEMMA ReleasedInv == ASSUME IInv, Released PROVE IInv'
<1>. DEFINE c == ReleaseClient(k)
<1>1. /\ pc = "free" /\ k <= 2 * Len(rows) /\ future[c].kind \notin {"none", "pending"}
      /\ Taken(c) /\ k' = k + 1
      /\ cache' = cache /\ abandoned' = abandoned /\ remote' = remote /\ batch' = batch
      /\ rows' = rows /\ pc' = pc
  BY DEF Released, ghosts
<1>2. Shape /\ Busy /\ HeldOrDue /\ AnsweredSettled
  BY DEF IInv
<1>3. c \in Own /\ future[c] \notin {None, Pending}
  BY <1>1, Outcomes DEF ReleaseClient, Own
<1>4. \A d \in Own : d # c => future[d] = None
  BY <1>1, <1>2 DEF Busy
<1>5. Settled(StageOf(c), ReleaseSeq(k))
  BY <1>1, <1>2, <1>3 DEF AnsweredSettled
<1>6. \A d \in Own : ReleaseClient(k) = d => d = c
  OBVIOUS
<1>. HIDE DEF c
<1>7. /\ net' = net /\ future' = [d \in Own |-> None]
  BY <1>1, <1>2, <1>3, <1>4 DEF Taken, Shape
<1>8. \A call \in net'.calls : call.client \notin Own
  BY <1>3, <1>4, <1>7, NoneOwn, Outcomes
<1>9. Shape'
  BY <1>1, <1>2, <1>7 DEF Shape, RowsShape
<1>10. Busy'
  BY <1>1, <1>7 DEF Busy
<1>11. Solo' /\ Phase' /\ WaitingSettled'
  BY <1>8 DEF Solo, Phase, WaitingSettled
<1>12. HeldOrDue'
  <2>. SUFFICES ASSUME NEW s \in 1..2, NEW seq \in DOMAIN cache[s], ~Settled(s, seq)
                PROVE  Due(s, seq)'
    BY <1>1, <1>7 DEF HeldOrDue, Settled, Underway
  <2>1. PICK j \in DOMAIN rows : rows[j].seq = seq /\ 2 * (j - 1) + s >= k
    BY <1>1, <1>2 DEF HeldOrDue, Due
  <2>2. j \in Nat /\ k \in Nat
    BY <1>2, ListDomain DEF Shape, RowsShape
  <2>3. 2 * (j - 1) + s # k
    <3>. SUFFICES ASSUME 2 * (j - 1) + s = k PROVE FALSE
      OBVIOUS
    <3>1. ReleaseSeq(k) = seq /\ c = EntryOf(s)
      BY <1>2, <2>1, ItsTurn DEF c
    <3>2. StageOf(c) = s
      BY <3>1, Entries
    <3>. QED BY <1>5, <3>1, <3>2
  <2>4. 2 * (j - 1) + s >= k + 1
    BY <2>1, <2>2, <2>3
  <2>. QED BY <1>1, <2>1, <2>4 DEF Due
<1>13. AnsweredSettled'
  BY <1>7 DEF AnsweredSettled
<1>. QED BY <1>9, <1>10, <1>11, <1>12, <1>13 DEF IInv

LEMMA EndCallInv == ASSUME IInv, EndCall PROVE IInv'
<1>1. /\ pc = "free" /\ k > 2 * Len(rows) /\ pc' = "idle" /\ rows' = <<>> /\ k' = 1
      /\ net' = net /\ cache' = cache /\ abandoned' = abandoned /\ remote' = remote
      /\ batch' = batch /\ future' = future
  BY DEF EndCall, Left, ghosts
<1>2. Shape /\ Busy /\ HeldOrDue
  BY DEF IInv
<1>3. Len(rows) \in Nat /\ DOMAIN rows = 1..Len(rows) /\ k \in Nat
  BY <1>2, ListDomain DEF Shape, RowsShape
<1>4. \A c \in Own : future[c] = None
  BY <1>1, <1>2, <1>3 DEF Busy
<1>5. \A call \in net'.calls : call.client \notin Own
  BY <1>1, <1>4, NoneOwn, Outcomes
<1>6. Shape'
  <2>1. IsList(<<>>) /\ DOMAIN <<>> = {}
    BY DEF IsList, ToSet
  <2>. QED BY <1>1, <1>2, <2>1 DEF Shape, RowsShape
<1>7. Busy'
  BY <1>1, <1>4, Outcomes DEF Busy
<1>8. Solo' /\ Phase' /\ WaitingSettled'
  BY <1>5 DEF Solo, Phase, WaitingSettled
<1>9. HeldOrDue'
  <2>. SUFFICES ASSUME NEW s \in 1..2, NEW seq \in DOMAIN cache[s], ~Settled(s, seq)
                PROVE  FALSE
    BY <1>1 DEF HeldOrDue, Settled, Underway
  <2>1. PICK j \in DOMAIN rows : 2 * (j - 1) + s >= k
    BY <1>1, <1>2 DEF HeldOrDue, Due
  <2>. QED BY <1>1, <1>3, <2>1
<1>10. AnsweredSettled'
  BY <1>1 DEF AnsweredSettled
<1>. QED BY <1>6, <1>7, <1>8, <1>9, <1>10 DEF IInv

-----------------------------------------------------------------------------
(* The specification. *)

LEMMA InitInv == Init => IInv
<1>. SUFFICES ASSUME Init PROVE IInv
  OBVIOUS
<1>1. IsList(<<>>) /\ ToSet(<<>>) = {} /\ DOMAIN <<>> = {}
  BY DEF IsList, ToSet
<1>2. net = Initially
  BY DEF Init
<1>3. GoodNet(net)
  BY <1>1, <1>2 DEF Initially, GoodNet, NetShape, NetOrder
<1>4. Shape
  BY <1>1, <1>3 DEF Init, Shape, RowsShape, Own
<1>5. Busy
  BY DEF Init, Busy, Own
<1>6. Solo /\ Phase /\ WaitingSettled
  BY <1>2 DEF Initially, Solo, Phase, WaitingSettled
<1>7. HeldOrDue /\ AnsweredSettled
  BY DEF Init, HeldOrDue, AnsweredSettled
<1>. QED BY <1>4, <1>5, <1>6, <1>7 DEF IInv

LEMMA ServeInv ==
    ASSUME IInv, NEW c \in MeshClients, Serve(c)
    PROVE  IInv'
<1>1. CASE \E i \in Turns(net, c) :
              \/ Handle(c, i)
              \/ c = "c1" /\ (LoopBegins(i) \/ LoopCalls(i) \/ LoopSteps(i) \/ LoopReturns(i))
  <2>1. PICK i \in Turns(net, c) :
              \/ Handle(c, i)
              \/ c = "c1" /\ (LoopBegins(i) \/ LoopCalls(i) \/ LoopSteps(i) \/ LoopReturns(i))
    BY <1>1
  <2>2. CASE Handle(c, i)
    BY <2>2, HandleInv
  <2>3. CASE c = "c1" /\ (LoopBegins(i) \/ LoopCalls(i) \/ LoopSteps(i) \/ LoopReturns(i))
    BY <2>3, LoopBeginsInv, LoopCallsInv, LoopStepsInv, LoopReturnsInv
  <2>. QED BY <2>1, <2>2, <2>3
<1>2. CASE \E call \in net.calls : call.client = c /\ (Return(call) \/ ReadFails(call))
  BY <1>2, ReturnInv, FailInv DEF ReadFails
<1>. QED BY <1>1, <1>2 DEF Serve

LEMMA DriveInv == ASSUME IInv, Drive PROVE IInv'
BY GenerateBatchInv, RemoteCallInv, RemoteDoneInv, PrefillRowInv, PrefillDoneInv, BeginStepInv,
   ChainDecodeInv, ChainDoneInv, FinishInv, OverlapBeginInv, Stage1DoneInv, Stage2NextInv,
   OverlapDoneInv, DrainInv, ReleaseInv, ReleasedInv, EndCallInv DEF Drive

LEMMA MisfortuneInv == ASSUME IInv, Misfortune PROVE IInv'
<1>1. CASE \E c \in MeshClients : \E i \in Turns(net, c) : StageRaises(c, i)
  BY <1>1, StageRaisesInv
<1>2. CASE \E s \in 1..2 : StageStops(s) \/ StageStarts(s)
  BY <1>2, StageStopsInv, StageStartsInv
<1>3. CASE \E call \in net.calls : TimesOut(call)
  BY <1>3, FailInv DEF TimesOut
<1>4. CASE \E c \in MeshClients, keep \in BOOLEAN : LoseConnection(c, keep)
  BY <1>4, LoseInv
<1>5. CASE CoordinatorRestarts
  BY <1>5, RestartInv
<1>. QED BY <1>1, <1>2, <1>3, <1>4, <1>5 DEF Misfortune

LEMMA NextInv == IInv /\ [Next]_vars => IInv'
<1>. SUFFICES ASSUME IInv, [Next]_vars PROVE IInv'
  OBVIOUS
<1>1. CASE UNCHANGED vars
  <2>1. UNCHANGED <<net, cache, driver, future, abandoned>>
    BY <1>1 DEF vars, ghosts
  <2>2. GoodNet(net') /\ SameForOwn(net, net') /\ KeepsReleases(net, net')
    BY <2>1 DEF IInv, Shape, SameForOwn, KeepsReleases
  <2>. QED BY <2>1, <2>2, HandlerSide
<1>2. CASE \E c \in MeshClients : Serve(c)
  BY <1>2, ServeInv
<1>3. CASE Drive
  BY <1>3, DriveInv
<1>4. CASE Misfortune
  BY <1>4, MisfortuneInv
<1>. QED BY <1>1, <1>2, <1>3, <1>4 DEF Next

\* The invariant holds of every behaviour of the pipeline.
THEOREM AlwaysInv == Spec => []IInv
BY InitInv, NextInv, PTL DEF Spec

\* A client of the coordinator never has two of its requests outstanding: with
\* one unnumbered connection per client, the second would take the answer of
\* the first. For every number of prompts, calls, chunks and faults.
THEOREM OneCallPerClientAlways == Spec => []OneCallPerClient
<1>1. IInv => OneCallPerClient
  <2>. SUFFICES ASSUME IInv, NEW c \in {"c1", "c2"}
                PROVE  Cardinality({call \in net.calls : call.client = c}) <= 1
    BY DEF OneCallPerClient
  <2>. DEFINE mine == {call \in net.calls : call.client = c}
  <2>1. \A one, other \in mine : one = other
    BY DEF IInv, Solo, Own
  <2>. HIDE DEF mine
  <2>2. CASE mine = {}
    BY <2>2, FS_EmptySet DEF mine
  <2>3. CASE mine # {}
    <3>1. PICK call : mine = {call}
      BY <2>1, <2>3
    <3>. QED BY <3>1, FS_Singleton DEF mine
  <2>. QED BY <2>2, <2>3
<1>. QED BY <1>1, AlwaysInv, PTL

\* When generate_batch is over and nothing is on its way, a stage holds only
\* sequences whose release could not be got through or that a late request or a
\* dead coordinator left: after any error, any retry and any loss, for every
\* number of prompts, calls and faults.
THEOREM NothingLeftBehindAlways == Spec => []NothingLeftBehind
<1>1. IInv => NothingLeftBehind
  <2>. SUFFICES ASSUME IInv, Quiet, NEW s \in 1..2, NEW seq \in DOMAIN cache[s]
                PROVE  seq \in abandoned
    BY DEF NothingLeftBehind
  <2>1. ToSet(net.inbox[EntryOf(s)]) = {}
    BY Entries DEF Quiet, Undone
  <2>2. ~Due(s, seq)
    BY DEF Quiet, Due
  <2>. QED BY <2>1, <2>2 DEF IInv, HeldOrDue, Settled, Underway
<1>. QED BY <1>1, AlwaysInv, PTL
=============================================================================
