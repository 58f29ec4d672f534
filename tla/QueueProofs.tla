---------------------------- MODULE QueueProofs ----------------------------
(***************************************************************************)
(* Proofs about Queue, for any number of threads and tasks.                *)
(***************************************************************************)
EXTENDS Queue, FiniteSetTheorems, SequenceTheorems, TLAPS

-----------------------------------------------------------------------------
(***************************************************************************)
(* The inductive invariant: there is a chain of nodes from the tail to the *)
(* head.                                                                   *)
(***************************************************************************)

\* Every thread that pushes.
All == Threads \cup {Poller}

\* q holds the nodes from the tail to the head, each once.  Where a link is missing a push
\* is about to write it, and every such push has its place.  Tasks in q are marked as
\* queued.
IsChain(q) ==
  /\ q \in Seq(Nodes) /\ Len(q) >= 1
  /\ \A i, j \in 1..Len(q) : q[i] = q[j] => i = j
  /\ q[1] = tail /\ q[Len(q)] = head /\ next[head] = Null
  /\ \A i \in 1..(Len(q) - 1) :
       \/ next[q[i]] = q[i + 1]
       \/ next[q[i]] = Null /\ \E t \in All : pc[t] = "link" /\ prev[t] = q[i]
  /\ \A t \in All : pc[t] = "link" =>
       \E i \in 1..(Len(q) - 1) : prev[t] = q[i] /\ node[t] = q[i + 1] /\ next[q[i]] = Null
  /\ \A i \in 1..Len(q) : q[i] \in Tasks => queued[q[i]]
  /\ \A t \in All : pc[t] \in {"store", "swap"} => \A i \in 1..Len(q) : q[i] # node[t]

\* Each push has a node of its own, a task that is marked as queued.  Only pop pushes the
\* stub.
PushersApart ==
  /\ \A t \in Threads : pc[t] \in ThreadLabels
  /\ pc[Poller] \in PollLabels
  /\ node[Poller] = Stub
  /\ \A t \in Threads : pc[t] \in PushLabels => node[t] \in Tasks /\ queued[node[t]]
  /\ \A t, u \in Threads : pc[t] \in PushLabels /\ pc[u] \in PushLabels /\ node[t] = node[u] => t = u
  /\ \A t \in All : pc[t] = "swap" => next[node[t]] = Null

\* What pop and poll know of the chain q where they are.
PollerAt(q) ==
  /\ pc[Poller] \in {"next", "head", "recheck"} \cup PushLabels => tail # Stub
  /\ pc[Poller] = "recheck" => \E i \in 1..Len(q) : q[i] = Stub
  /\ pc[Poller] = "head" => ~(Len(q) >= 2 /\ q[2] = Stub)
  /\ pc[Poller] \in {"run", "drive"} => cur \in Tasks
  /\ pc[Poller] = "run" =>
       /\ queued[cur] /\ \A i \in 1..Len(q) : q[i] # cur
       /\ \A t \in Threads : pc[t] \in PushLabels => node[t] # cur

\* A Schedular that sleeps is or will be woken if there is a task in q.
WokenFor(q) ==
  pc[Poller] = "asleep" /\ ~woken /\ (\E i \in 1..Len(q) : q[i] # Stub) =>
    \E t \in Threads : pc[t] \in {"link", "wake"}

ChainInv(q) == IsChain(q) /\ PushersApart /\ PollerAt(q) /\ WokenFor(q)

QueueInv == QueueTypeOK /\ \E q \in Seq(Nodes) : ChainInv(q)

-----------------------------------------------------------------------------
(***************************************************************************)
(* Chain, which follows the links, is the chain of the invariant.          *)
(***************************************************************************)

\* A set of numbers that is not empty has a least element.
LEMMA LeastNumber ==
  ASSUME NEW T \in SUBSET Nat, T # {}
  PROVE  \E x \in T : \A y \in T : x <= y
<1> DEFINE R == OpToRel(<, Nat)
<1>1. \A x, y \in Nat : x < y => <<x, y>> \in R
  BY DEF OpToRel
<1>2. IsWellFoundedOn(R, Nat)
  BY NatLessThanWellFounded
<1> HIDE DEF R
<1>3. T \subseteq Nat
  OBVIOUS
<1>4. PICK x \in T : \A y \in T : ~ (<<y, x>> \in R)
  BY <1>2, <1>3, WFMin, Zenon
<1>5. \A y \in T : ~ (y < x)
  BY <1>1, <1>3, <1>4, Zenon
<1> QED
  BY <1>3, <1>5

\* The first n elements of a sequence of nodes.
LEMMA Prefix ==
  ASSUME NEW q \in Seq(Nodes), NEW n \in 0..Len(q)
  PROVE  /\ SubSeq(q, 1, n) \in Seq(Nodes) /\ Len(SubSeq(q, 1, n)) = n
         /\ \A i \in 1..n : SubSeq(q, 1, n)[i] = q[i]
<1> DEFINE t == SubSeq(q, 1, n)
<1>1. \A i \in 1..n : q[i] \in Nodes
  BY ElementOfSeq
<1>2. Len(q) \in Nat /\ n \in Int
  BY LenProperties
<1>3. /\ t \in Seq(Nodes)
      /\ Len(t) = IF 1 <= n THEN n - 1 + 1 ELSE 0
      /\ \A i \in 1..(n - 1 + 1) : t[i] = q[1 + i - 1]
  BY <1>1, <1>2, SubSeqProperties
<1> HIDE DEF t
<1>4. Len(t) = n /\ n - 1 + 1 = n
  BY <1>2, <1>3
<1>5. ASSUME NEW i \in 1..n PROVE t[i] = q[i]
  <2>1. i \in 1..(n - 1 + 1) /\ 1 + i - 1 = i
    BY <1>4
  <2> QED
    BY <1>3, <2>1
<1> QED
  BY <1>3, <1>4, <1>5 DEF t

\* A chain is no longer than there are nodes.
LEMMA ChainFits ==
  ASSUME NEW q \in Seq(Nodes), \A i, j \in 1..Len(q) : q[i] = q[j] => i = j
  PROVE  Cardinality(Nodes) \in Nat /\ Len(q) <= Cardinality(Nodes)
<1>1. IsFiniteSet(Nodes)
  BY FS_AddElement, QueueAssumption DEF Nodes
<1>2. Len(q) \in Nat /\ q \in [1..Len(q) -> Nodes]
  BY LenProperties
<1>3. q \in Injection(1..Len(q), Nodes)
  BY <1>2 DEF Injection, IsInjective
<1>4. Cardinality(1..Len(q)) <= Cardinality(Nodes)
  BY <1>1, <1>3, FS_Injection
<1>5. Cardinality(1..Len(q)) = Len(q)
  <2>1. PICK n \in Nat : n = Len(q)
    BY <1>2
  <2>2. 1 \in Int /\ n \in Int
    BY <2>1
  <2>3. Cardinality(1..n) = IF 1 > n THEN 0 ELSE n - 1 + 1
    BY <2>2, FS_Interval
  <2>4. Cardinality(1..n) = n
    BY <2>1, <2>3
  <2> QED
    BY <2>1, <2>4
<1> QED
  BY <1>1, <1>4, <1>5, FS_CardinalityType

\* After finds the next node of the chain, linked or not.
LEMMA AfterIsNext ==
  ASSUME NEW q, IsChain(q)
  PROVE  /\ \A i \in 1..(Len(q) - 1) : After(q[i]) = q[i + 1]
         /\ After(q[Len(q)]) = Null
<1>1. Len(q) \in Nat /\ Len(q) >= 1
  BY LenProperties DEF IsChain
<1>2. ASSUME NEW i \in 1..(Len(q) - 1) PROVE After(q[i]) = q[i + 1]
  <2>1. i \in 1..Len(q)
    BY <1>1
  <2>2. ASSUME NEW t \in All, pc[t] = "link", prev[t] = q[i] PROVE node[t] = q[i + 1]
    <3>1. PICK j \in 1..(Len(q) - 1) : prev[t] = q[j] /\ node[t] = q[j + 1]
      BY <2>2 DEF IsChain
    <3>2. j \in 1..Len(q)
      BY <1>1
    <3>3. q[i] = q[j]
      BY <2>2, <3>1
    <3>4. i = j
      BY <2>1, <3>2, <3>3 DEF IsChain
    <3> QED
      BY <3>1, <3>4
  <2>3. CASE \E t \in All : pc[t] = "link" /\ prev[t] = q[i]
    <3> DEFINE u == CHOOSE t \in All : pc[t] = "link" /\ prev[t] = q[i]
    <3>1. u \in All /\ pc[u] = "link" /\ prev[u] = q[i]
      BY <2>3
    <3>2. After(q[i]) = node[u]
      BY <2>3 DEF After, All
    <3> QED
      BY <2>2, <3>1, <3>2
  <2>4. CASE ~ \E t \in All : pc[t] = "link" /\ prev[t] = q[i]
    <3>1. After(q[i]) = next[q[i]]
      BY <2>4 DEF After, All
    <3> QED
      BY <2>4, <3>1 DEF IsChain
  <2> QED
    BY <2>3, <2>4
<1>3. After(q[Len(q)]) = Null
  <2>1. ~ \E t \in All : pc[t] = "link" /\ prev[t] = q[Len(q)]
    <3> SUFFICES ASSUME NEW t \in All, pc[t] = "link", prev[t] = q[Len(q)] PROVE FALSE
      OBVIOUS
    <3>1. PICK j \in 1..(Len(q) - 1) : prev[t] = q[j]
      BY DEF IsChain
    <3>2. j \in 1..Len(q) /\ Len(q) \in 1..Len(q) /\ j # Len(q)
      BY <1>1
    <3> QED
      BY <3>1, <3>2 DEF IsChain
  <2>2. After(q[Len(q)]) = next[q[Len(q)]]
    BY <2>1 DEF After, All
  <2> QED
    BY <2>2 DEF IsChain
<1> QED
  BY <1>2, <1>3

\* The equation that the local function of Chain satisfies.
Grown(f) ==
  f = [k \in 0 .. Cardinality(Nodes) |-> IF k = 0 THEN <<tail>> ELSE Longer[f[k - 1]]]

\* If it has a solution, Chain is the last value of one.
LEMMA ChainGrown ==
  ASSUME NEW g, Grown(g)
  PROVE  \E f : Grown(f) /\ Chain = f[Cardinality(Nodes)]
<1> DEFINE h == CHOOSE f : Grown(f)
<1>1. Grown(h)
  BY Zenon
<1>2. Chain = h[Cardinality(Nodes)]
  BY Zenon DEF Chain, Grown
<1> QED
  BY <1>1, <1>2, Zenon

\* Following the links from the tail on gives the chain.
LEMMA ChainIs == \A q : IsChain(q) => Chain = q
<1> SUFFICES ASSUME NEW q, IsChain(q) PROVE Chain = q
  OBVIOUS
<1> DEFINE N == Cardinality(Nodes)
           L == Len(q)
           Upto(k) == IF k + 1 <= L THEN k + 1 ELSE L
           w == [k \in 0..N |-> SubSeq(q, 1, Upto(k))]
<1>1. q \in Seq(Nodes) /\ L \in Nat /\ L >= 1 /\ q[1] = tail
  BY LenProperties DEF IsChain
<1>2. N \in Nat /\ L <= N
  BY <1>1, ChainFits DEF IsChain
<1>3. ASSUME NEW n \in 1..L
      PROVE  /\ SubSeq(q, 1, n) \in Seq(Nodes) /\ Len(SubSeq(q, 1, n)) = n
             /\ \A i \in 1..n : SubSeq(q, 1, n)[i] = q[i]
  BY <1>1, Prefix
<1>4. SubSeq(q, 1, 1) = <<tail>>
  <2> DEFINE a == SubSeq(q, 1, 1)
             b == <<tail>>
  <2>1. a \in Seq(Nodes) /\ Len(a) = 1 /\ a[1] = tail
    BY <1>1, <1>3
  <2>2. tail \in Nodes
    BY <1>1, ElementOfSeq
  <2>3. b \in Seq(Nodes) /\ Len(b) = 1 /\ b[1] = tail
    BY <2>2
  <2> HIDE DEF a, b
  <2>4. a = b
    BY <2>1, <2>3, SeqEqual
  <2> QED
    BY <2>4 DEF a, b
<1>5. SubSeq(q, 1, L) = q
  BY <1>1, SubSeqFull
<1>6. ASSUME NEW n \in 1..(L - 1) PROVE Longer[SubSeq(q, 1, n)] = SubSeq(q, 1, n + 1)
  <2> DEFINE a == SubSeq(q, 1, n)
             c == SubSeq(q, 1, n + 1)
  <2>1. n \in 1..L /\ n + 1 \in 1..L
    BY <1>1
  <2>2. a \in Seq(Nodes) /\ Len(a) = n /\ \A i \in 1..n : a[i] = q[i]
    BY <1>3, <2>1
  <2>3. c \in Seq(Nodes) /\ Len(c) = n + 1 /\ \A i \in 1..(n + 1) : c[i] = q[i]
    BY <1>3, <2>1
  <2>4. q[n + 1] \in Nodes /\ q[n + 1] # Null
    BY <1>1, <2>1, ElementOfSeq, QueueAssumption DEF Nodes
  <2> HIDE DEF a, c
  <2>5. Last(a) = q[n]
    BY <2>2 DEF Last
  <2>6. After(Last(a)) = q[n + 1]
    BY <2>5, AfterIsNext
  <2>7. Longer[a] = Append(a, q[n + 1])
    BY <2>2, <2>4, <2>6 DEF Longer
  <2> DEFINE b == Append(a, q[n + 1])
  <2>8. b \in Seq(Nodes) /\ Len(b) = n + 1 /\ b[n + 1] = q[n + 1] /\ \A i \in 1..n : b[i] = a[i]
    BY <2>2, <2>4, AppendProperties
  <2> HIDE DEF b
  <2>9. ASSUME NEW i \in 1..(n + 1) PROVE b[i] = c[i]
    <3>1. i = n + 1 \/ i \in 1..n
      BY <2>1
    <3> QED
      BY <2>2, <2>3, <2>8, <3>1
  <2>10. b = c
    BY <2>3, <2>8, <2>9, SeqEqual
  <2> QED
    BY <2>7, <2>10 DEF a, b, c
<1>7. Longer[q] = q
  <2>1. After(Last(q)) = Null
    BY AfterIsNext DEF Last
  <2> QED
    BY <1>1, <2>1 DEF Longer
<1>8. Grown(w)
  <2>1. ASSUME NEW k \in 0..N
        PROVE  w[k] = IF k = 0 THEN <<tail>> ELSE Longer[w[k - 1]]
    <3>1. CASE k = 0
      <4>1. Upto(k) = 1
        BY <1>1, <3>1
      <4> QED
        BY <1>4, <3>1, <4>1
    <3>2. CASE k # 0 /\ k + 1 <= L
      <4>1. k - 1 \in 0..N /\ k \in 1..(L - 1) /\ Upto(k - 1) = k /\ Upto(k) = k + 1
        BY <1>1, <1>2, <3>2
      <4>2. w[k - 1] = SubSeq(q, 1, k) /\ w[k] = SubSeq(q, 1, k + 1)
        BY <4>1
      <4> QED
        BY <1>6, <3>2, <4>1, <4>2
    <3>3. CASE k # 0 /\ ~(k + 1 <= L)
      <4>1. k - 1 \in 0..N /\ Upto(k - 1) = L /\ Upto(k) = L
        BY <1>1, <1>2, <3>3
      <4>2. w[k - 1] = q /\ w[k] = q
        BY <1>5, <4>1
      <4> QED
        BY <1>7, <3>3, <4>2
    <3> QED
      BY <3>1, <3>2, <3>3
  <2> DEFINE v == [k \in 0..N |-> IF k = 0 THEN <<tail>> ELSE Longer[w[k - 1]]]
  <2>2. w = v
    BY <2>1
  <2> HIDE DEF w
  <2> QED
    BY <2>2 DEF Grown
<1>9. w[N] = q
  <2>1. Upto(N) = L /\ N \in 0..N
    BY <1>1, <1>2
  <2> QED
    BY <1>5, <2>1
<1> HIDE DEF w
<1>10. PICK f : Grown(f) /\ Chain = f[N]
  BY <1>8, ChainGrown
<1>11. \A k \in 0..N : f[k] = w[k]
  <2> DEFINE T == {k \in 0..N : f[k] # w[k]}
  <2> SUFFICES ASSUME T # {} PROVE FALSE
    OBVIOUS
  <2>1. T \in SUBSET Nat
    OBVIOUS
  <2>2. PICK k \in T : \A y \in T : k <= y
    BY <2>1, LeastNumber
  <2>3. k \in 0..N /\ f[k] # w[k]
    OBVIOUS
  <2>4. /\ f[k] = IF k = 0 THEN <<tail>> ELSE Longer[f[k - 1]]
        /\ w[k] = IF k = 0 THEN <<tail>> ELSE Longer[w[k - 1]]
    <3>1. f = [y \in 0..N |-> IF y = 0 THEN <<tail>> ELSE Longer[f[y - 1]]]
      BY <1>10 DEF Grown
    <3>2. w = [y \in 0..N |-> IF y = 0 THEN <<tail>> ELSE Longer[w[y - 1]]]
      BY <1>8 DEF Grown
    <3>3. \A y \in 0..N : f[y] = IF y = 0 THEN <<tail>> ELSE Longer[f[y - 1]]
      BY <3>1, Zenon
    <3>4. \A y \in 0..N : w[y] = IF y = 0 THEN <<tail>> ELSE Longer[w[y - 1]]
      BY <3>2, Zenon
    <3> QED
      BY <2>3, <3>3, <3>4
  <2>5. k # 0 /\ k - 1 \in 0..N
    BY <1>2, <2>3, <2>4
  <2>6. k - 1 \notin T
    BY <2>2, <2>3, <2>5
  <2> QED
    BY <2>3, <2>4, <2>5, <2>6
<1> QED
  BY <1>2, <1>9, <1>10, <1>11

-----------------------------------------------------------------------------
(***************************************************************************)
(* The tasks in a chain.                                                   *)
(***************************************************************************)

\* A sequence of nodes that are all different.
Different(q) == q \in Seq(Nodes) /\ \A i, j \in 1..Len(q) : q[i] = q[j] => i = j

\* A sequence with one element taken out.
LEMMA OneOut ==
  ASSUME NEW s \in Seq(Nodes), NEW n \in Nat, Len(s) = n + 1, NEW j \in 1..(n + 1)
  PROVE  /\ RemoveAt(s, j) \in Seq(Nodes) /\ Len(RemoveAt(s, j)) = n
         /\ \A i \in 1..n : RemoveAt(s, j)[i] = IF i < j THEN s[i] ELSE s[i + 1]
<1> DEFINE a == SubSeq(s, 1, j - 1)
           z == SubSeq(s, j + 1, n + 1)
           r == a \o z
<1>1. RemoveAt(s, j) = r
  BY DEF RemoveAt
<1>2. \A m \in 1..(n + 1) : s[m] \in Nodes
  BY ElementOfSeq
<1>3. a \in Seq(Nodes) /\ Len(a) = j - 1 /\ \A i \in 1..(j - 1) : a[i] = s[i]
  <2>1. j - 1 \in 0..Len(s)
    OBVIOUS
  <2> QED
    BY <2>1, Prefix
<1>4. PICK g \in Int, h \in Int : g = j + 1 /\ h = n + 1
  OBVIOUS
<1>5. /\ z \in Seq(Nodes)
      /\ Len(z) = IF g <= h THEN h - g + 1 ELSE 0
      /\ \A i \in 1..(h - g + 1) : z[i] = s[g + i - 1]
  <2>1. \A i \in g..h : s[i] \in Nodes
    BY <1>2, <1>4
  <2> QED
    BY <1>4, <2>1, SubSeqProperties
<1> HIDE DEF a, z
<1>6. Len(z) = n + 1 - j
  BY <1>4, <1>5
<1>7. ASSUME NEW i \in 1..(n + 1 - j) PROVE z[i] = s[i + j]
  <2>1. i \in 1..(h - g + 1) /\ g + i - 1 = i + j
    BY <1>4
  <2> QED
    BY <1>5, <2>1
<1>8. /\ r \in Seq(Nodes) /\ Len(r) = Len(a) + Len(z)
      /\ \A m \in 1..(Len(a) + Len(z)) : r[m] = IF m <= Len(a) THEN a[m] ELSE z[m - Len(a)]
  BY <1>3, <1>5, ConcatProperties
<1> HIDE DEF r
<1>9. Len(r) = n
  BY <1>3, <1>6, <1>8
<1>10. ASSUME NEW i \in 1..n PROVE r[i] = IF i < j THEN s[i] ELSE s[i + 1]
  <2>1. i \in 1..(Len(a) + Len(z))
    BY <1>3, <1>6
  <2>2. CASE i < j
    <3>1. i <= Len(a) /\ i \in 1..(j - 1)
      BY <1>3, <2>2
    <3> QED
      BY <1>3, <1>8, <2>1, <2>2, <3>1
  <2>3. CASE ~(i < j)
    <3>1. ~(i <= Len(a)) /\ i - Len(a) = i - j + 1 /\ i - j + 1 \in 1..(n + 1 - j)
      BY <1>3, <2>3
    <3>2. (i - j + 1) + j = i + 1
      OBVIOUS
    <3>3. z[i - j + 1] = s[i + 1]
      BY <1>7, <3>1, <3>2
    <3> QED
      BY <1>8, <2>1, <2>3, <3>1, <3>3
  <2> QED
    BY <2>2, <2>3
<1> QED
  BY <1>1, <1>8, <1>9, <1>10

\* Without the stub nothing is taken out.
LEMMA AllTasks ==
  ASSUME NEW q \in Seq(Nodes), \A i \in 1..Len(q) : q[i] # Stub
  PROVE  WithoutStub[q] = q
BY DEF WithoutStub, RemoveFirst

\* The stub, wherever it is, is taken out.
LEMMA StubOut ==
  ASSUME NEW q, Different(q), NEW n \in Nat, Len(q) = n + 1, NEW j \in 1..(n + 1), q[j] = Stub
  PROVE  /\ WithoutStub[q] \in Seq(Nodes) /\ Len(WithoutStub[q]) = n
         /\ \A i \in 1..n : WithoutStub[q][i] = IF i < j THEN q[i] ELSE q[i + 1]
<1>1. q \in Seq(Nodes) /\ \A i \in 1..(n + 1) : q[i] = Stub => i = j
  BY DEF Different
<1> DEFINE I == {i \in 1..Len(q) : q[i] = Stub}
<1>2. I = {j} /\ j \in Nat
  BY <1>1
<1>3. SelectInSeq(q, LAMBDA v : v = Stub) = IF I # {} THEN Min(I) ELSE 0
  BY DEF SelectInSeq
<1> HIDE DEF I
<1>4. Min(I) = j
  BY <1>2 DEF Min
<1>5. SelectInSeq(q, LAMBDA v : v = Stub) = j
  BY <1>2, <1>3, <1>4
<1>6. WithoutStub[q] = RemoveFirst(q, Stub)
  BY <1>1 DEF WithoutStub
<1>7. RemoveFirst(q, Stub) = RemoveAt(q, j)
  BY <1>5 DEF RemoveFirst
<1>8. WithoutStub[q] = RemoveAt(q, j)
  BY <1>6, <1>7
<1>9. /\ RemoveAt(q, j) \in Seq(Nodes) /\ Len(RemoveAt(q, j)) = n
      /\ \A i \in 1..n : RemoveAt(q, j)[i] = IF i < j THEN q[i] ELSE q[i + 1]
  BY <1>1, OneOut
<1> QED
  BY <1>8, <1>9

\* A task at the end of the chain is at the end of the tasks.
LEMMA TaskAppended ==
  ASSUME NEW q, Different(q), NEW x \in Tasks, \A i \in 1..Len(q) : q[i] # x
  PROVE  /\ Different(Append(q, x))
         /\ WithoutStub[Append(q, x)] = Append(WithoutStub[q], x)
<1> DEFINE r == Append(q, x)
           L == Len(q)
<1>1. q \in Seq(Nodes) /\ L \in Nat /\ x \in Nodes /\ x # Stub
  BY LenProperties, QueueAssumption DEF Different, Nodes
<1>2. r \in Seq(Nodes) /\ Len(r) = L + 1 /\ r[L + 1] = x /\ \A i \in 1..L : r[i] = q[i]
  BY <1>1, AppendProperties
<1> HIDE DEF r
<1>3. \A i \in 1..(L + 1) : i = L + 1 \/ i \in 1..L
  BY <1>1
<1>4. Different(r)
  BY <1>2, <1>3 DEF Different
<1>5. CASE \A i \in 1..L : q[i] # Stub
  <2>1. WithoutStub[q] = q
    BY <1>1, <1>5, AllTasks
  <2>2. \A i \in 1..Len(r) : r[i] # Stub
    BY <1>1, <1>2, <1>3, <1>5
  <2>3. WithoutStub[r] = r
    BY <1>2, <2>2, AllTasks
  <2> QED
    BY <1>4, <2>1, <2>3 DEF r
<1>6. CASE \E i \in 1..L : q[i] = Stub
  <2>1. PICK j \in 1..L : q[j] = Stub
    BY <1>6
  <2>2. PICK n \in Nat : L = n + 1
    BY <1>1
  <2> DEFINE c == WithoutStub[q]
             d == WithoutStub[r]
             e == Append(c, x)
  <2>3. /\ c \in Seq(Nodes) /\ Len(c) = n
        /\ \A i \in 1..n : c[i] = IF i < j THEN q[i] ELSE q[i + 1]
    BY <2>1, <2>2, StubOut
  <2>4. /\ d \in Seq(Nodes) /\ Len(d) = L
        /\ \A i \in 1..L : d[i] = IF i < j THEN r[i] ELSE r[i + 1]
    <3>1. j \in 1..(L + 1) /\ r[j] = Stub
      BY <1>1, <1>2, <2>1
    <3> QED
      BY <1>1, <1>2, <1>4, <3>1, StubOut
  <2> HIDE DEF c, d
  <2>5. e \in Seq(Nodes) /\ Len(e) = n + 1 /\ e[n + 1] = x /\ \A i \in 1..n : e[i] = c[i]
    BY <1>1, <2>3, AppendProperties
  <2> HIDE DEF e
  <2>6. ASSUME NEW i \in 1..L PROVE d[i] = e[i]
    <3>1. CASE i = n + 1
      <4>1. ~(i < j) /\ i + 1 = L + 1
        BY <1>1, <2>2, <3>1
      <4> QED
        BY <1>2, <2>4, <2>5, <3>1, <4>1
    <3>2. CASE i # n + 1
      <4>1. i \in 1..n /\ i \in 1..L /\ i + 1 \in 1..L
        BY <1>1, <2>2, <3>2
      <4> QED
        BY <1>2, <2>3, <2>4, <2>5, <4>1
    <3> QED
      BY <3>1, <3>2
  <2>7. d = e
    BY <2>2, <2>4, <2>5, <2>6, SeqEqual
  <2> QED
    BY <1>4, <2>7 DEF c, d, e, r
<1> QED
  BY <1>5, <1>6

\* The stub at the end of the chain does not show.
LEMMA StubAppended ==
  ASSUME NEW q, Different(q), \A i \in 1..Len(q) : q[i] # Stub
  PROVE  /\ Different(Append(q, Stub))
         /\ WithoutStub[Append(q, Stub)] = WithoutStub[q]
<1> DEFINE r == Append(q, Stub)
           L == Len(q)
<1>1. q \in Seq(Nodes) /\ L \in Nat /\ Stub \in Nodes
  BY LenProperties DEF Different, Nodes
<1>2. r \in Seq(Nodes) /\ Len(r) = L + 1 /\ r[L + 1] = Stub /\ \A i \in 1..L : r[i] = q[i]
  BY <1>1, AppendProperties
<1> HIDE DEF r
<1>3. \A i \in 1..(L + 1) : i = L + 1 \/ i \in 1..L
  BY <1>1
<1>4. Different(r)
  BY <1>2, <1>3 DEF Different
<1> DEFINE d == WithoutStub[r]
<1>5. /\ d \in Seq(Nodes) /\ Len(d) = L
      /\ \A i \in 1..L : d[i] = IF i < L + 1 THEN r[i] ELSE r[i + 1]
  <2>1. L + 1 \in 1..(L + 1)
    BY <1>1
  <2> QED
    BY <1>1, <1>2, <1>4, <2>1, StubOut
<1> HIDE DEF d
<1>6. ASSUME NEW i \in 1..L PROVE d[i] = q[i]
  <2>1. i < L + 1
    BY <1>1
  <2> QED
    BY <1>2, <1>5, <2>1
<1>7. d = q
  BY <1>1, <1>5, <1>6, SeqEqual
<1>8. WithoutStub[q] = q
  BY <1>1, AllTasks
<1> QED
  BY <1>4, <1>7, <1>8 DEF d, r

\* A chain without its first node.
LEMMA FirstGone ==
  ASSUME NEW q, Different(q), NEW n \in Nat, Len(q) = n + 1
  PROVE  /\ Different(Tail(q)) /\ Len(Tail(q)) = n
         /\ \A i \in 1..n : Tail(q)[i] = q[i + 1]
<1> DEFINE r == Tail(q)
<1>1. q \in Seq(Nodes) /\ q # <<>>
  BY EmptySeq DEF Different
<1>2. /\ r \in Seq(Nodes) /\ Len(r) = n + 1 - 1
      /\ \A i \in 1..Len(r) : r[i] = q[i + 1]
  BY <1>1, HeadTailProperties
<1> HIDE DEF r
<1>3. Len(r) = n
  BY <1>2
<1>4. ASSUME NEW i \in 1..n, NEW j \in 1..n, r[i] = r[j] PROVE i = j
  <2>1. q[i + 1] = q[j + 1] /\ i + 1 \in 1..(n + 1) /\ j + 1 \in 1..(n + 1)
    BY <1>2, <1>3, <1>4
  <2>2. i + 1 = j + 1
    BY <2>1 DEF Different
  <2> QED
    BY <2>2
<1> QED
  BY <1>2, <1>3, <1>4 DEF r, Different

\* Without a stub at its front the chain loses no task.
LEMMA StubFirst ==
  ASSUME NEW q, Different(q), NEW n \in Nat, Len(q) = n + 1, q[1] = Stub
  PROVE  WithoutStub[Tail(q)] = WithoutStub[q]
<1> DEFINE r == Tail(q)
           c == WithoutStub[q]
<1>1. Different(r) /\ Len(r) = n /\ \A i \in 1..n : r[i] = q[i + 1]
  BY FirstGone
<1>2. r \in Seq(Nodes)
  BY <1>1 DEF Different
<1> HIDE DEF r
<1>3. \A i \in 1..n : r[i] # Stub
  <2> SUFFICES ASSUME NEW i \in 1..n, q[i + 1] = Stub PROVE FALSE
    BY <1>1
  <2>1. i + 1 \in 1..(n + 1) /\ 1 \in 1..(n + 1) /\ i + 1 # 1
    OBVIOUS
  <2> QED
    BY <2>1 DEF Different
<1>4. WithoutStub[r] = r
  BY <1>1, <1>2, <1>3, AllTasks
<1>5. /\ c \in Seq(Nodes) /\ Len(c) = n
      /\ \A i \in 1..n : c[i] = IF i < 1 THEN q[i] ELSE q[i + 1]
  <2>1. 1 \in 1..(n + 1)
    OBVIOUS
  <2> QED
    BY <2>1, StubOut
<1> HIDE DEF c
<1>6. \A i \in 1..n : c[i] = r[i]
  BY <1>1, <1>5
<1>7. c = r
  BY <1>1, <1>2, <1>5, <1>6, SeqEqual
<1> QED
  BY <1>4, <1>7 DEF c, r

\* A task at the front of the chain is the first of the tasks.
LEMMA TaskFirst ==
  ASSUME NEW q, Different(q), NEW n \in Nat, Len(q) = n + 1, q[1] # Stub
  PROVE  /\ WithoutStub[q] \in Seq(Nodes) /\ WithoutStub[q] # <<>>
         /\ Head(WithoutStub[q]) = q[1] /\ WithoutStub[Tail(q)] = Tail(WithoutStub[q])
<1> DEFINE r == Tail(q)
           c == WithoutStub[q]
           d == WithoutStub[r]
           e == Tail(c)
<1>1. q \in Seq(Nodes)
  BY DEF Different
<1>2. Different(r) /\ Len(r) = n /\ \A i \in 1..n : r[i] = q[i + 1]
  BY FirstGone
<1>3. r \in Seq(Nodes)
  BY <1>2 DEF Different
<1>4. CASE \A i \in 1..(n + 1) : q[i] # Stub
  <2>1. c = q
    BY <1>1, <1>4, AllTasks
  <2> HIDE DEF r
  <2>2. \A i \in 1..n : r[i] # Stub
    BY <1>2, <1>4
  <2>3. d = r
    BY <1>2, <1>3, <2>2, AllTasks
  <2>4. q # <<>> /\ Head(q) = q[1]
    BY <1>1, EmptySeq
  <2> QED
    BY <1>1, <2>1, <2>3, <2>4 DEF r
<1>5. CASE \E i \in 1..(n + 1) : q[i] = Stub
  <2>1. PICK j \in 1..(n + 1) : q[j] = Stub
    BY <1>5
  <2>2. j # 1
    BY <2>1
  <2>3. PICK k \in 1..n : j = k + 1
    BY <2>2
  <2>4. PICK m \in Nat : n = m + 1
    BY <2>3
  <2>5. /\ c \in Seq(Nodes) /\ Len(c) = n
        /\ \A i \in 1..n : c[i] = IF i < j THEN q[i] ELSE q[i + 1]
    BY <2>1, StubOut
  <2>6. /\ d \in Seq(Nodes) /\ Len(d) = m
        /\ \A i \in 1..m : d[i] = IF i < k THEN r[i] ELSE r[i + 1]
    <3>1. r[k] = Stub /\ k \in 1..(m + 1)
      BY <1>2, <2>1, <2>3, <2>4
    <3> HIDE DEF r
    <3> QED
      BY <1>2, <2>4, <3>1, StubOut, SMTT(30)
  <2> HIDE DEF c, d, r
  <2>7. c # <<>> /\ Head(c) = c[1] /\ c[1] = q[1]
    BY <2>2, <2>4, <2>5, EmptySeq
  <2>8. e \in Seq(Nodes) /\ Len(e) = n - 1 /\ \A i \in 1..Len(e) : e[i] = c[i + 1]
    BY <2>5, <2>7, HeadTailProperties
  <2> HIDE DEF e
  <2>9. ASSUME NEW i \in 1..m PROVE d[i] = e[i]
    <3>1. i \in 1..n /\ i + 1 \in 1..n /\ i \in 1..Len(e) /\ (i + 1 < j <=> i < k)
      BY <2>3, <2>4, <2>8
    <3>2. i + 1 + 1 = (i + 1) + 1
      OBVIOUS
    <3> QED
      BY <1>2, <2>5, <2>6, <2>8, <3>1, <3>2
  <2>10. d = e
    BY <2>4, <2>6, <2>8, <2>9, SeqEqual
  <2> QED
    BY <2>5, <2>7, <2>10 DEF c, d, e, r
<1> QED
  BY <1>4, <1>5

\* The tasks of a chain are its nodes but for the stub.
LEMMA TasksOfChain ==
  ASSUME NEW q, Different(q)
  PROVE  /\ WithoutStub[q] \in Seq(Nodes)
         /\ \A x \in Tasks : x \in ToSet(WithoutStub[q]) <=> \E i \in 1..Len(q) : q[i] = x
         /\ WithoutStub[q] = <<>> <=> \A i \in 1..Len(q) : q[i] = Stub
<1> DEFINE c == WithoutStub[q]
           L == Len(q)
<1>1. q \in Seq(Nodes) /\ L \in Nat /\ \A x \in Tasks : x # Stub
  BY LenProperties, QueueAssumption DEF Different
<1>2. CASE \A i \in 1..L : q[i] # Stub
  <2>1. c = q
    BY <1>1, <1>2, AllTasks
  <2>2. DOMAIN q = 1..L /\ (q = <<>> <=> L = 0)
    BY <1>1, LenProperties, EmptySeq
  <2>3. L # 0 => 1 \in 1..L
    BY <1>1
  <2> QED
    BY <1>1, <1>2, <2>1, <2>2, <2>3 DEF ToSet
<1>3. CASE \E i \in 1..L : q[i] = Stub
  <2>1. PICK j \in 1..L : q[j] = Stub
    BY <1>3
  <2>2. PICK n \in Nat : L = n + 1
    BY <1>1
  <2>3. /\ c \in Seq(Nodes) /\ Len(c) = n
        /\ \A i \in 1..n : c[i] = IF i < j THEN q[i] ELSE q[i + 1]
    BY <2>1, <2>2, StubOut
  <2> HIDE DEF c
  <2>4. DOMAIN c = 1..n /\ (c = <<>> <=> n = 0)
    BY <2>3, LenProperties, EmptySeq
  <2>5. ASSUME NEW i \in 1..L, i # j PROVE \E k \in 1..n : c[k] = q[i]
    <3>1. CASE i < j
      <4>1. i \in 1..n
        BY <2>2, <3>1
      <4> QED
        BY <2>3, <3>1, <4>1
    <3>2. CASE ~(i < j)
      <4>1. i - 1 \in 1..n /\ ~(i - 1 < j) /\ (i - 1) + 1 = i
        BY <2>2, <2>5, <3>2
      <4>2. c[i - 1] = q[i]
        BY <2>3, <4>1
      <4> QED
        BY <4>1, <4>2
    <3> QED
      BY <3>1, <3>2
  <2>6. ASSUME NEW k \in 1..n PROVE \E i \in 1..L : i # j /\ c[k] = q[i]
    <3>1. CASE k < j
      <4>1. k \in 1..L /\ k # j
        BY <2>2, <3>1
      <4> QED
        BY <2>3, <3>1, <4>1
    <3>2. CASE ~(k < j)
      <4>1. k + 1 \in 1..L /\ k + 1 # j
        BY <2>2, <3>2
      <4> QED
        BY <2>3, <3>2, <4>1
    <3> QED
      BY <3>1, <3>2
  <2>7. \A i \in 1..L : q[i] = Stub => i = j
    BY <2>1 DEF Different
  <2>8. ASSUME NEW x \in Tasks PROVE x \in ToSet(c) <=> \E i \in 1..L : q[i] = x
    <3>1. x \in ToSet(c) <=> \E k \in 1..n : c[k] = x
      BY <2>4 DEF ToSet
    <3>2. \A i \in 1..L : q[i] = x => i # j
      BY <1>1, <2>1
    <3> QED
      BY <2>5, <2>6, <3>1, <3>2
  <2>9. c = <<>> <=> \A i \in 1..L : q[i] = Stub
    <3>1. CASE n = 0
      <4>1. \A i \in 1..L : i = j
        BY <2>2, <3>1
      <4> QED
        BY <2>1, <2>4, <3>1, <4>1
    <3>2. CASE n # 0
      <4>1. 1 \in 1..n
        BY <3>2
      <4>2. \E i \in 1..L : q[i] # Stub
        BY <2>6, <2>7, <4>1
      <4> QED
        BY <2>4, <3>2, <4>2
    <3> QED
      BY <3>1, <3>2
  <2> QED
    BY <2>3, <2>8, <2>9 DEF c
<1> QED
  BY <1>2, <1>3

-----------------------------------------------------------------------------
(***************************************************************************)
(* Steps keep the types.                                                   *)
(***************************************************************************)

\* pop finds a node behind the one at the tail only if there is one.
LEMMA TypeKept ==
  ASSUME QueueTypeOK, NEW q, ChainInv(q), QueueNext
  PROVE  QueueTypeOK'
<1> USE DEF QueueTypeOK, PushLabels, ThreadLabels, PollLabels
<1>1. CASE StartPoll
  BY <1>1 DEF StartPoll, Goto
<1>2. CASE PopEmpty
  BY <1>2 DEF PopEmpty, Goto
<1>3. CASE SkipStub
  BY <1>3 DEF SkipStub, Goto
<1>4. CASE PopValue
  BY <1>4 DEF PopValue, Goto
<1>5. CASE NoNext
  BY <1>5 DEF NoNext, Goto
<1>6. CASE PopInconsistant
  BY <1>6 DEF PopInconsistant, Goto
<1>7. CASE PushStub
  BY <1>7 DEF PushStub, Goto, Nodes
<1>8. CASE StartTask
  BY <1>8 DEF StartTask, Goto, Nodes
<1>9. CASE DrivePending
  BY <1>9 DEF DrivePending, Goto, Nodes
<1>10. CASE DriveReady
  <2>1. cur \in Tasks
    BY <1>10 DEF DriveReady, ChainInv, PollerAt
  <2> QED
    BY <1>10, <2>1 DEF DriveReady, Goto, Nodes
<1>11. ASSUME NEW t \in All, StoreNext(t) PROVE QueueTypeOK'
  BY <1>11 DEF StoreNext, Goto, All
<1>12. ASSUME NEW t \in All, SwapHead(t) PROVE QueueTypeOK'
  BY <1>12 DEF SwapHead, Goto, All
<1>13. ASSUME NEW t \in All, LinkPrev(t) PROVE QueueTypeOK'
  BY <1>13 DEF LinkPrev, Goto, All, Nodes
<1>14. ASSUME NEW t \in Threads, WakeSchedular(t) PROVE QueueTypeOK'
  BY <1>14 DEF WakeSchedular, Goto
<1>15. ASSUME NEW t \in Threads, NEW task \in Tasks, Schedule(t, task) PROVE QueueTypeOK'
  BY <1>15 DEF Schedule, Goto, Nodes
<1> QED
  BY <1>1, <1>2, <1>3, <1>4, <1>5, <1>6, <1>7, <1>8, <1>9, <1>10, <1>11, <1>12, <1>13, <1>14, <1>15
     DEF QueueNext, Pop, Push, All

-----------------------------------------------------------------------------
(***************************************************************************)
(* What steps do to the chain.                                             *)
(***************************************************************************)

\* Where threads are after a step of t.
LEMMA PlaceAfter ==
  ASSUME QueueTypeOK, NEW t \in All, NEW label, Goto(t, label)
  PROVE  \A u \in All : pc'[u] = IF u = t THEN label ELSE pc[u]
BY DEF QueueTypeOK, Goto, All

\* A chain stays a chain if no node, no link and no push changes.
LEMMA ChainKept ==
  ASSUME NEW q, IsChain(q),
         UNCHANGED <<next, head, tail, prev, node>>,
         \A t \in All : pc'[t] = pc[t] \/ (pc[t] \notin PushLabels /\ pc'[t] \notin PushLabels),
         \A i \in 1..Len(q) : q[i] \in Tasks => queued'[q[i]]
  PROVE  IsChain(q)' /\ Unlinked' = Unlinked
<1>1. \A t \in All : /\ pc'[t] = "link" <=> pc[t] = "link"
                     /\ pc'[t] \in {"store", "swap"} <=> pc[t] \in {"store", "swap"}
  BY DEF PushLabels
<1>2. \A i \in 1..(Len(q) - 1) :
        \/ next'[q[i]] = q[i + 1]
        \/ next'[q[i]] = Null /\ \E t \in All : pc'[t] = "link" /\ prev'[t] = q[i]
  BY <1>1 DEF IsChain
<1>3. \A t \in All : pc'[t] = "link" =>
       \E i \in 1..(Len(q) - 1) : prev'[t] = q[i] /\ node'[t] = q[i + 1] /\ next'[q[i]] = Null
  BY <1>1 DEF IsChain
<1>4. \A t \in All : pc'[t] \in {"store", "swap"} => \A i \in 1..Len(q) : q[i] # node'[t]
  BY <1>1 DEF IsChain
<1>5. IsChain(q)'
  BY <1>2, <1>3, <1>4 DEF IsChain
<1>6. Unlinked' = Unlinked
  BY <1>1 DEF Unlinked, All
<1> QED
  BY <1>5, <1>6

\* And the pushes stay apart if they are still of tasks marked as queued.
LEMMA PushersKept ==
  ASSUME PushersApart, UNCHANGED <<next, node>>,
         \A t \in All : pc'[t] = pc[t] \/ (pc[t] \notin PushLabels /\ pc'[t] \notin PushLabels),
         \A t \in Threads : pc'[t] \in ThreadLabels, pc'[Poller] \in PollLabels,
         \A t \in Threads : pc[t] \in PushLabels => queued'[node[t]]
  PROVE  PushersApart'
<1>1. \A t \in All : /\ pc'[t] \in PushLabels <=> pc[t] \in PushLabels
                     /\ pc'[t] = "swap" <=> pc[t] = "swap"
  BY DEF PushLabels
<1>2. \A t \in Threads : pc'[t] \in PushLabels => node'[t] \in Tasks /\ queued'[node'[t]]
  BY <1>1 DEF PushersApart, All
<1>3. \A t, u \in Threads :
         pc'[t] \in PushLabels /\ pc'[u] \in PushLabels /\ node'[t] = node'[u] => t = u
  BY <1>1 DEF PushersApart, All
<1>4. \A t \in All : pc'[t] = "swap" => next'[node'[t]] = Null
  BY <1>1 DEF PushersApart
<1> QED
  BY <1>2, <1>3, <1>4 DEF PushersApart

\* A chain of the invariant: its nodes are different and its numbers are numbers.
LEMMA ChainFacts ==
  ASSUME NEW q, IsChain(q)
  PROVE  /\ Different(q) /\ Len(q) \in Nat /\ Len(q) >= 1
         /\ \A i \in 1..Len(q) : q[i] \in Nodes /\ q[i] # Null
         /\ Len(q) \in 1..Len(q) /\ 1 \in 1..Len(q)
         /\ \A i \in 1..(Len(q) - 1) : i \in 1..Len(q) /\ i + 1 \in 1..Len(q)
<1>1. q \in Seq(Nodes) /\ Len(q) \in Nat /\ Len(q) >= 1
  BY LenProperties DEF IsChain
<1>2. \A i \in 1..Len(q) : q[i] \in Nodes /\ q[i] # Null
  BY <1>1, ElementOfSeq, QueueAssumption DEF Nodes
<1> QED
  BY <1>1, <1>2 DEF IsChain, Different

\* If the link of the tail is missing but the chain goes on, a thread is about to write it.
LEMMA LinkMissing ==
  ASSUME NEW q, IsChain(q), PushersApart, next[tail] = Null, Len(q) >= 2, pc[Poller] # "link"
  PROVE  q[2] \in Tasks /\ \E t \in Threads : pc[t] = "link" /\ node[t] = q[2]
<1>1. 1 \in 1..(Len(q) - 1) /\ 2 \in 1..Len(q) /\ 1 + 1 = 2 /\ q[1] = tail
  BY ChainFacts DEF IsChain
<1>2. q[2] # Null
  BY <1>1, ChainFacts
<1>3. PICK t \in All : pc[t] = "link" /\ prev[t] = q[1]
  BY <1>1, <1>2 DEF IsChain
<1>4. PICK i \in 1..(Len(q) - 1) : prev[t] = q[i] /\ node[t] = q[i + 1]
  BY <1>3 DEF IsChain
<1>5. i = 1
  <2>1. i \in 1..Len(q) /\ 1 \in 1..Len(q) /\ q[i] = q[1]
    BY <1>3, <1>4, ChainFacts
  <2> QED
    BY <2>1 DEF IsChain
<1>6. t \in Threads
  BY <1>3 DEF All
<1>7. node[t] = q[2] /\ pc[t] \in PushLabels
  BY <1>1, <1>3, <1>4, <1>5 DEF PushLabels
<1> QED
  BY <1>3, <1>6, <1>7 DEF PushersApart

\* When pop answers Empty there is no task, or the link to the second node is missing.
LEMMA EmptySeen ==
  ASSUME QueueTypeOK, NEW q, ChainInv(q), PopEmpty
  PROVE  \/ Len(q) = 1 /\ q[1] = Stub
         \/ /\ Len(q) >= 2 /\ q[2] \in Tasks
            /\ \E t \in Threads : pc[t] = "link" /\ node[t] = q[2]
<1>1. /\ IsChain(q) /\ PushersApart /\ next[tail] = Null /\ pc[Poller] # "link"
      /\ Len(q) \in Nat /\ Len(q) >= 1 /\ q[1] = tail
  BY ChainFacts DEF ChainInv, PopEmpty, IsChain
<1>2. CASE Len(q) >= 2
  BY <1>1, <1>2, LinkMissing
<1>3. CASE Len(q) = 1
  <2>1. ASSUME pc[Poller] = "recheck" PROVE FALSE
    <3>1. tail # Stub /\ \E i \in 1..Len(q) : q[i] = Stub
      BY <2>1 DEF ChainInv, PollerAt
    <3>2. \A i \in 1..Len(q) : i = 1
      BY <1>3
    <3> QED
      BY <1>1, <3>1, <3>2
  <2> QED
    BY <1>1, <1>3, <2>1 DEF PopEmpty
<1> QED
  BY <1>1, <1>2, <1>3

-----------------------------------------------------------------------------
(***************************************************************************)
(* Steps that leave the chain and the pushes as they are.                  *)
(***************************************************************************)

\* StartPoll.
LEMMA StartPollKeeps ==
  ASSUME QueueTypeOK, NEW q, ChainInv(q), StartPoll
  PROVE  ChainInv(q)' /\ Unlinked' = Unlinked
<1> USE DEF PushLabels, ThreadLabels, PollLabels
<1>1. \A u \in All : pc'[u] = IF u = Poller THEN "pop" ELSE pc[u]
  BY PlaceAfter DEF StartPoll, All
<1>2. IsChain(q)' /\ Unlinked' = Unlinked
  BY <1>1, ChainKept DEF StartPoll, ChainInv, IsChain
<1>3. PushersApart'
  BY <1>1, PushersKept, QueueAssumption DEF StartPoll, ChainInv, PushersApart, All
<1>4. PollerAt(q)' /\ WokenFor(q)'
  BY <1>1 DEF PollerAt, WokenFor, All
<1> QED
  BY <1>2, <1>3, <1>4 DEF ChainInv

\* Pop::Empty.  If there is a task its push is about to link it, and then wakes.
LEMMA PopEmptyKeeps ==
  ASSUME QueueTypeOK, NEW q, ChainInv(q), PopEmpty
  PROVE  ChainInv(q)' /\ Unlinked' = Unlinked
<1> USE DEF PushLabels, ThreadLabels, PollLabels
<1>1. \A u \in All : pc'[u] = IF u = Poller THEN "asleep" ELSE pc[u]
  BY PlaceAfter DEF PopEmpty, All
<1>2. IsChain(q)' /\ Unlinked' = Unlinked
  BY <1>1, ChainKept DEF PopEmpty, ChainInv, IsChain
<1>3. PushersApart'
  BY <1>1, PushersKept, QueueAssumption DEF PopEmpty, ChainInv, PushersApart, All
<1>4. PollerAt(q)'
  BY <1>1 DEF PollerAt, All
<1>5. WokenFor(q)'
  <2>1. CASE Len(q) = 1 /\ q[1] = Stub
    <3>1. \A i \in 1..Len(q) : i = 1
      BY <2>1
    <3> QED
      BY <2>1, <3>1 DEF WokenFor
  <2>2. CASE \E t \in Threads : pc[t] = "link"
    <3>1. PICK t \in Threads : pc[t] = "link"
      BY <2>2
    <3>2. pc'[t] = "link"
      BY <1>1, <3>1, QueueAssumption DEF All
    <3> QED
      BY <3>2 DEF WokenFor
  <2> QED
    BY <2>1, <2>2, EmptySeen
<1> QED
  BY <1>2, <1>3, <1>4, <1>5 DEF ChainInv

\* The task at the tail has no link.
LEMMA NoNextKeeps ==
  ASSUME QueueTypeOK, NEW q, ChainInv(q), NoNext
  PROVE  ChainInv(q)' /\ Unlinked' = Unlinked
<1> USE DEF PushLabels, ThreadLabels, PollLabels
<1>1. \A u \in All : pc'[u] = IF u = Poller THEN "head" ELSE pc[u]
  BY PlaceAfter DEF NoNext, All
<1>2. IsChain(q)' /\ Unlinked' = Unlinked
  BY <1>1, ChainKept DEF NoNext, AtTask, ChainInv, IsChain
<1>3. PushersApart'
  BY <1>1, PushersKept, QueueAssumption DEF NoNext, AtTask, ChainInv, PushersApart, All
<1>4. ~(Len(q) >= 2 /\ q[2] = Stub)
  <2> SUFFICES ASSUME Len(q) >= 2 PROVE q[2] # Stub
    OBVIOUS
  <2>1. q[2] \in Tasks
    BY LinkMissing DEF NoNext, AtTask, ChainInv
  <2> QED
    BY <2>1, QueueAssumption
<1>5. tail' # Stub
  BY DEF NoNext, AtTask, ChainInv, PollerAt
<1>6. PollerAt(q)' /\ WokenFor(q)'
  BY <1>1, <1>4, <1>5 DEF PollerAt, WokenFor, All
<1> QED
  BY <1>2, <1>3, <1>6 DEF ChainInv

\* Pop::Inconsistant.
LEMMA InconsistantKeeps ==
  ASSUME QueueTypeOK, NEW q, ChainInv(q), PopInconsistant
  PROVE  ChainInv(q)' /\ Unlinked' = Unlinked
<1> USE DEF PushLabels, ThreadLabels, PollLabels
<1>1. \A u \in All : pc'[u] = IF u = Poller THEN "asleep" ELSE pc[u]
  BY PlaceAfter DEF PopInconsistant, All
<1>2. IsChain(q)' /\ Unlinked' = Unlinked
  BY <1>1, ChainKept DEF PopInconsistant, ChainInv, IsChain
<1>3. PushersApart'
  BY <1>1, PushersKept, QueueAssumption DEF PopInconsistant, ChainInv, PushersApart, All
<1>4. PollerAt(q)' /\ WokenFor(q)'
  BY <1>1 DEF PollerAt, WokenFor, All, PopInconsistant
<1> QED
  BY <1>2, <1>3, <1>4 DEF ChainInv

\* poll looks at the task it popped: nobody pushes it and it is not in the chain, so it may
\* be marked as not queued.
LEMMA StartTaskKeeps ==
  ASSUME QueueTypeOK, NEW q, ChainInv(q), StartTask
  PROVE  ChainInv(q)' /\ Unlinked' = Unlinked
<1> USE DEF PushLabels, ThreadLabels, PollLabels
<1>1. /\ cur \in Tasks /\ \A i \in 1..Len(q) : q[i] # cur
      /\ \A t \in Threads : pc[t] \in PushLabels => node[t] # cur
  BY DEF StartTask, ChainInv, PollerAt
<1>2. \A x \in Tasks : x # cur => queued'[x] = queued[x]
  BY DEF StartTask, QueueTypeOK
<1>3. PICK label \in {"pop", "drive"} : Goto(Poller, label) /\ (label = "drive" => cur' = cur)
  BY DEF StartTask
<1>4. \A u \in All : pc'[u] = IF u = Poller THEN label ELSE pc[u]
  BY <1>3, PlaceAfter DEF All
<1>5. IsChain(q)' /\ Unlinked' = Unlinked
  <2>1. \A i \in 1..Len(q) : q[i] \in Tasks => queued'[q[i]]
    BY <1>1, <1>2 DEF ChainInv, IsChain
  <2>2. \A t \in All : pc'[t] = pc[t] \/ (pc[t] \notin PushLabels /\ pc'[t] \notin PushLabels)
    BY <1>4 DEF StartTask
  <2> QED
    BY <2>1, <2>2, ChainKept DEF StartTask, ChainInv
<1>6. PushersApart'
  <2>1. \A t \in Threads : pc[t] \in PushLabels => queued'[node[t]]
    BY <1>1, <1>2 DEF ChainInv, PushersApart
  <2>2. \A t \in All : pc'[t] = pc[t] \/ (pc[t] \notin PushLabels /\ pc'[t] \notin PushLabels)
    BY <1>4 DEF StartTask
  <2>3. (\A t \in Threads : pc'[t] \in ThreadLabels) /\ pc'[Poller] \in PollLabels
    BY <1>4, QueueAssumption DEF ChainInv, PushersApart, All
  <2> QED
    BY <2>1, <2>2, <2>3, PushersKept DEF StartTask, ChainInv
<1>7. PollerAt(q)' /\ WokenFor(q)'
  BY <1>1, <1>3, <1>4 DEF PollerAt, WokenFor, All
<1> QED
  BY <1>5, <1>6, <1>7 DEF ChainInv

\* The task is pending.
LEMMA DrivePendingKeeps ==
  ASSUME QueueTypeOK, NEW q, ChainInv(q), DrivePending
  PROVE  ChainInv(q)' /\ Unlinked' = Unlinked
<1> USE DEF PushLabels, ThreadLabels, PollLabels
<1>1. PICK label \in {"pop", "asleep"} : Goto(Poller, label) /\ (label = "asleep" => woken' = TRUE)
  BY DEF DrivePending
<1>2. \A u \in All : pc'[u] = IF u = Poller THEN label ELSE pc[u]
  BY <1>1, PlaceAfter DEF All
<1>3. IsChain(q)' /\ Unlinked' = Unlinked
  BY <1>2, ChainKept DEF DrivePending, ChainInv, IsChain
<1>4. PushersApart'
  BY <1>2, PushersKept, QueueAssumption DEF DrivePending, ChainInv, PushersApart, All
<1>5. PollerAt(q)' /\ WokenFor(q)'
  BY <1>1, <1>2 DEF PollerAt, WokenFor, All
<1> QED
  BY <1>3, <1>4, <1>5 DEF ChainInv

\* The task is ready.
LEMMA DriveReadyKeeps ==
  ASSUME QueueTypeOK, NEW q, ChainInv(q), DriveReady
  PROVE  ChainInv(q)' /\ Unlinked' = Unlinked
<1> USE DEF PushLabels, ThreadLabels, PollLabels
<1>1. \A u \in All : pc'[u] = IF u = Poller THEN "pop" ELSE pc[u]
  BY PlaceAfter DEF DriveReady, All
<1>2. \A x \in Tasks : queued[x] => queued'[x]
  BY DEF DriveReady, QueueTypeOK
<1>3. IsChain(q)' /\ Unlinked' = Unlinked
  BY <1>1, <1>2, ChainKept DEF DriveReady, ChainInv, IsChain
<1>4. PushersApart'
  BY <1>1, <1>2, PushersKept, QueueAssumption DEF DriveReady, ChainInv, PushersApart, All
<1>5. PollerAt(q)' /\ WokenFor(q)'
  BY <1>1 DEF PollerAt, WokenFor, All
<1> QED
  BY <1>3, <1>4, <1>5 DEF ChainInv

\* A thread wakes the Schedular.
LEMMA WakeKeeps ==
  ASSUME QueueTypeOK, NEW q, ChainInv(q), NEW t \in Threads, WakeSchedular(t)
  PROVE  ChainInv(q)' /\ Unlinked' = Unlinked
<1> USE DEF PushLabels, ThreadLabels, PollLabels
<1>1. \A u \in All : pc'[u] = IF u = t THEN "idle" ELSE pc[u]
  BY PlaceAfter DEF WakeSchedular, All
<1>2. IsChain(q)' /\ Unlinked' = Unlinked
  BY <1>1, ChainKept, SMTT(30) DEF WakeSchedular, ChainInv, IsChain
<1>3. PushersApart'
  BY <1>1, PushersKept, QueueAssumption DEF WakeSchedular, ChainInv, PushersApart, All
<1>4. PollerAt(q)'
  BY <1>1, QueueAssumption DEF PollerAt, All, WakeSchedular, ChainInv
<1>5. WokenFor(q)'
  BY DEF WokenFor, WakeSchedular
<1> QED
  BY <1>2, <1>3, <1>4, <1>5 DEF ChainInv

-----------------------------------------------------------------------------
(***************************************************************************)
(* Steps of a push.                                                        *)
(***************************************************************************)

\* schedular_wake marks a task that nobody pushes and that is not in the chain.
LEMMA ScheduleKeeps ==
  ASSUME QueueTypeOK, NEW q, ChainInv(q), NEW t \in Threads, NEW task \in Tasks,
         Schedule(t, task)
  PROVE  ChainInv(q)' /\ Unlinked' = Unlinked
<1> USE DEF PushLabels, ThreadLabels, PollLabels
<1>1. t \in All /\ t # Poller
  BY QueueAssumption DEF All
<1>2. \A u \in All : pc'[u] = IF u = t THEN "store" ELSE pc[u]
  BY <1>1, PlaceAfter DEF Schedule
<1>3. \A u \in All : node'[u] = IF u = t THEN task ELSE node[u]
  BY DEF Schedule, QueueTypeOK, All
<1>4. \A x \in Tasks : queued'[x] = IF x = task THEN TRUE ELSE queued[x]
  BY DEF Schedule, QueueTypeOK
<1>5. /\ \A i \in 1..Len(q) : q[i] # task
      /\ \A u \in Threads : pc[u] \in PushLabels => node[u] # task
  BY DEF Schedule, ChainInv, IsChain, PushersApart
<1>6. /\ UNCHANGED <<next, head, tail, prev, cur, woken>> /\ pc[t] = "idle"
      /\ IsChain(q) /\ PushersApart
  BY DEF Schedule, ChainInv
<1>7. IsChain(q)'
  <2>1. \A u \in All : pc'[u] = "link" <=> pc[u] = "link"
    BY <1>2, <1>6
  <2>2. \A i \in 1..(Len(q) - 1) :
          \/ next'[q[i]] = q[i + 1]
          \/ next'[q[i]] = Null /\ \E u \in All : pc'[u] = "link" /\ prev'[u] = q[i]
    BY <1>6, <2>1 DEF IsChain
  <2>3. \A u \in All : pc'[u] = "link" =>
          \E i \in 1..(Len(q) - 1) : prev'[u] = q[i] /\ node'[u] = q[i + 1] /\ next'[q[i]] = Null
    BY <1>2, <1>3, <1>6 DEF IsChain
  <2>4. \A i \in 1..Len(q) : q[i] \in Tasks => queued'[q[i]]
    <3>1. \A x \in Tasks : queued[x] => queued'[x]
      BY <1>4
    <3>2. \A i \in 1..Len(q) : q[i] \in Tasks => queued[q[i]]
      BY <1>6 DEF IsChain
    <3> QED
      BY <3>1, <3>2
  <2>5. \A u \in All : pc'[u] \in {"store", "swap"} => \A i \in 1..Len(q) : q[i] # node'[u]
    BY <1>2, <1>3, <1>5, <1>6 DEF IsChain
  <2> QED
    BY <1>6, <2>2, <2>3, <2>4, <2>5 DEF IsChain
<1>8. PushersApart'
  <2>1. (\A u \in Threads : pc'[u] \in ThreadLabels) /\ pc'[Poller] \in PollLabels
        /\ node'[Poller] = Stub
    BY <1>1, <1>2, <1>3, <1>6 DEF PushersApart, All
  <2>2. \A u \in Threads : pc'[u] \in PushLabels => node'[u] \in Tasks /\ queued'[node'[u]]
    BY <1>2, <1>3, <1>4, <1>6 DEF PushersApart, All
  <2>3. \A u, v \in Threads :
          pc'[u] \in PushLabels /\ pc'[v] \in PushLabels /\ node'[u] = node'[v] => u = v
    BY <1>2, <1>3, <1>5, <1>6 DEF PushersApart, All
  <2>4. \A u \in All : pc'[u] = "swap" => next'[node'[u]] = Null
    BY <1>2, <1>3, <1>6 DEF PushersApart
  <2> QED
    BY <2>1, <2>2, <2>3, <2>4 DEF PushersApart
<1>9. PollerAt(q)'
  <2>1. pc'[Poller] = pc[Poller] /\ tail' = tail /\ cur' = cur
    BY <1>1, <1>2, <1>6 DEF All
  <2>2. ASSUME pc[Poller] = "run"
        PROVE  /\ queued'[cur] /\ \A i \in 1..Len(q) : q[i] # cur
               /\ \A u \in Threads : pc'[u] \in PushLabels => node'[u] # cur
    <3>1. /\ cur \in Tasks /\ queued[cur] /\ \A i \in 1..Len(q) : q[i] # cur
          /\ \A u \in Threads : pc[u] \in PushLabels => node[u] # cur
      BY <2>2 DEF ChainInv, PollerAt
    <3>2. task # cur
      BY <3>1 DEF Schedule
    <3> QED
      BY <1>2, <1>3, <1>4, <3>1, <3>2 DEF All
  <2> QED
    BY <2>1, <2>2 DEF ChainInv, PollerAt
<1>10. WokenFor(q)'
  <2>1. pc'[Poller] = pc[Poller] /\ woken' = woken
    BY <1>1, <1>2, <1>6 DEF All
  <2>2. \A u \in Threads : pc[u] \in {"link", "wake"} => pc'[u] \in {"link", "wake"}
    BY <1>2, <1>6 DEF All
  <2> QED
    BY <2>1, <2>2 DEF ChainInv, WokenFor
<1>11. Unlinked' = Unlinked
  <2>1. \A u \in Threads : \A n : pc'[u] = "link" /\ node'[u] = n <=> pc[u] = "link" /\ node[u] = n
    BY <1>2, <1>3, <1>6 DEF All
  <2> QED
    BY <2>1 DEF Unlinked
<1> QED
  BY <1>7, <1>8, <1>9, <1>10, <1>11 DEF ChainInv

\* pop is about to push the stub: the task at the tail is the only node, so the stub is not
\* in the chain.
LEMMA PushStubKeeps ==
  ASSUME QueueTypeOK, NEW q, ChainInv(q), PushStub
  PROVE  ChainInv(q)' /\ Unlinked' = Unlinked
<1> USE DEF PushLabels, ThreadLabels, PollLabels
<1>1. \A u \in All : pc'[u] = IF u = Poller THEN "store" ELSE pc[u]
  BY PlaceAfter DEF PushStub, All
<1>2. node' = node
  <2>1. node[Poller] = Stub
    BY DEF ChainInv, PushersApart
  <2> QED
    BY <2>1 DEF PushStub, QueueTypeOK
<1>3. /\ UNCHANGED <<next, head, tail, prev, cur, woken, queued>> /\ pc[Poller] = "head"
      /\ IsChain(q) /\ PushersApart /\ head = tail
  BY DEF PushStub, ChainInv
<1>4. tail # Stub
  BY <1>3 DEF ChainInv, PollerAt
<1>5. \A i \in 1..Len(q) : q[i] # Stub
  <2>1. Len(q) = 1
    <3>1. q[1] = q[Len(q)] /\ 1 \in 1..Len(q) /\ Len(q) \in 1..Len(q)
      BY <1>3, ChainFacts DEF IsChain
    <3> QED
      BY <1>3, <3>1 DEF IsChain
  <2>2. \A i \in 1..Len(q) : i = 1
    BY <2>1
  <2> QED
    BY <1>3, <1>4, <2>2 DEF IsChain
<1>6. node[Poller] = Stub
  BY <1>3 DEF PushersApart
<1>7. IsChain(q)'
  <2>1. \A u \in All : pc'[u] = "link" <=> pc[u] = "link"
    BY <1>1, <1>3
  <2>2. \A i \in 1..(Len(q) - 1) :
          \/ next'[q[i]] = q[i + 1]
          \/ next'[q[i]] = Null /\ \E u \in All : pc'[u] = "link" /\ prev'[u] = q[i]
    BY <1>3, <2>1 DEF IsChain
  <2>3. \A u \in All : pc'[u] = "link" =>
          \E i \in 1..(Len(q) - 1) : prev'[u] = q[i] /\ node'[u] = q[i + 1] /\ next'[q[i]] = Null
    BY <1>2, <1>3, <2>1 DEF IsChain
  <2>4. \A u \in All : pc'[u] \in {"store", "swap"} => \A i \in 1..Len(q) : q[i] # node'[u]
    BY <1>1, <1>2, <1>3, <1>5, <1>6 DEF IsChain
  <2> QED
    BY <1>3, <2>2, <2>3, <2>4 DEF IsChain
<1>8. PushersApart'
  <2>1. \A u \in Threads : pc'[u] = pc[u]
    BY <1>1, QueueAssumption DEF All
  <2>2. \A u \in All : pc'[u] = "swap" => pc[u] = "swap"
    BY <1>1
  <2>3. pc'[Poller] \in PollLabels
    BY <1>1 DEF All
  <2> QED
    BY <1>2, <1>3, <2>1, <2>2, <2>3 DEF PushersApart
<1>9. PollerAt(q)' /\ WokenFor(q)'
  BY <1>1, <1>3, <1>4 DEF PollerAt, WokenFor, All
<1>10. Unlinked' = Unlinked
  <2>1. \A u \in Threads : pc'[u] = pc[u]
    BY <1>1, QueueAssumption DEF All
  <2> QED
    BY <1>2, <2>1 DEF Unlinked
<1> QED
  BY <1>7, <1>8, <1>9, <1>10 DEF ChainInv

\* The first access of push, to a node that is not in the chain.
LEMMA StoreKeeps ==
  ASSUME QueueTypeOK, NEW q, ChainInv(q), NEW t \in All, StoreNext(t)
  PROVE  ChainInv(q)' /\ Unlinked' = Unlinked
<1> USE DEF PushLabels, ThreadLabels, PollLabels
<1>1. \A u \in All : pc'[u] = IF u = t THEN "swap" ELSE pc[u]
  BY PlaceAfter DEF StoreNext
<1>2. /\ UNCHANGED <<head, tail, prev, cur, woken, queued, node>> /\ pc[t] = "store"
      /\ IsChain(q) /\ PushersApart
  BY DEF StoreNext, ChainInv
<1>3. node[t] \in Nodes
  BY DEF QueueTypeOK, All
<1>4. \A n \in Nodes : next'[n] = IF n = node[t] THEN Null ELSE next[n]
  BY <1>3 DEF StoreNext, QueueTypeOK
<1>5. \A i \in 1..Len(q) : q[i] \in Nodes /\ q[i] # node[t]
  BY <1>2, ChainFacts DEF IsChain
<1>6. \A i \in 1..Len(q) : next'[q[i]] = next[q[i]]
  BY <1>4, <1>5
<1>7. IsChain(q)'
  <2>1. \A u \in All : pc'[u] = "link" <=> pc[u] = "link"
    BY <1>1, <1>2
  <2>2. \A i \in 1..(Len(q) - 1) :
          \/ next'[q[i]] = q[i + 1]
          \/ next'[q[i]] = Null /\ \E u \in All : pc'[u] = "link" /\ prev'[u] = q[i]
    <3> SUFFICES ASSUME NEW i \in 1..(Len(q) - 1)
                 PROVE  \/ next'[q[i]] = q[i + 1]
                        \/ next'[q[i]] = Null /\ \E u \in All : pc'[u] = "link" /\ prev'[u] = q[i]
      OBVIOUS
    <3>1. next'[q[i]] = next[q[i]]
      BY <1>2, <1>6, ChainFacts
    <3> QED
      BY <1>2, <2>1, <3>1 DEF IsChain
  <2>3. ASSUME NEW u \in All, pc'[u] = "link"
        PROVE  \E i \in 1..(Len(q) - 1) :
                 prev'[u] = q[i] /\ node'[u] = q[i + 1] /\ next'[q[i]] = Null
    <3>1. PICK i \in 1..(Len(q) - 1) : prev[u] = q[i] /\ node[u] = q[i + 1] /\ next[q[i]] = Null
      BY <1>2, <2>1, <2>3 DEF IsChain
    <3>2. next'[q[i]] = next[q[i]]
      BY <1>2, <1>6, ChainFacts
    <3> QED
      BY <1>2, <3>1, <3>2
  <2>4. \A u \in All : pc'[u] \in {"store", "swap"} => \A i \in 1..Len(q) : q[i] # node'[u]
    BY <1>1, <1>2 DEF IsChain
  <2>5. next'[head] = Null
    <3>1. q[Len(q)] = head /\ Len(q) \in 1..Len(q) /\ next[head] = Null
      BY <1>2, ChainFacts DEF IsChain
    <3> QED
      BY <1>6, <3>1
  <2> QED
    BY <1>2, <2>2, <2>3, <2>4, <2>5 DEF IsChain
<1>8. PushersApart'
  <2>1. \A u \in Threads : pc'[u] \in PushLabels <=> pc[u] \in PushLabels
    BY <1>1, <1>2 DEF All
  <2>2. (\A u \in Threads : pc'[u] \in ThreadLabels) /\ pc'[Poller] \in PollLabels
    BY <1>1, <1>2 DEF All, PushersApart
  <2>3. ASSUME NEW u \in All, pc'[u] = "swap" PROVE next'[node'[u]] = Null
    <3>1. node[u] \in Nodes
      BY DEF QueueTypeOK, All
    <3>2. CASE u = t
      BY <1>2, <1>3, <1>4, <3>2
    <3>3. CASE u # t
      <4>1. next[node[u]] = Null
        BY <1>1, <1>2, <2>3, <3>3 DEF PushersApart
      <4> QED
        BY <1>2, <1>4, <3>1, <4>1
    <3> QED
      BY <3>2, <3>3
  <2> QED
    BY <1>2, <2>1, <2>2, <2>3 DEF PushersApart
<1>9. PollerAt(q)'
  <2>1. CASE t = Poller
    <3>1. pc'[Poller] = "swap"
      BY <1>1, <2>1 DEF All
    <3>2. tail # Stub
      BY <1>2, <2>1 DEF ChainInv, PollerAt
    <3> QED
      BY <1>2, <3>1, <3>2 DEF PollerAt
  <2>2. CASE t # Poller
    <3>1. pc'[Poller] = pc[Poller] /\ \A u \in Threads : pc'[u] \in PushLabels => pc[u] \in PushLabels
      BY <1>1, <1>2, <2>2 DEF All
    <3> QED
      BY <1>2, <3>1 DEF ChainInv, PollerAt
  <2> QED
    BY <2>1, <2>2
<1>10. WokenFor(q)'
  BY <1>1, <1>2 DEF ChainInv, WokenFor, All
<1>11. Unlinked' = Unlinked
  <2>1. \A u \in Threads : pc'[u] = "link" <=> pc[u] = "link"
    BY <1>1, <1>2 DEF All
  <2> QED
    BY <1>2, <2>1 DEF Unlinked
<1> QED
  BY <1>7, <1>8, <1>9, <1>10, <1>11 DEF ChainInv

\* The second access of push puts the node at the end of the chain, whatever other threads
\* have replaced the head before it.
LEMMA SwapKeeps ==
  ASSUME QueueTypeOK, NEW q, ChainInv(q), NEW t \in All, SwapHead(t)
  PROVE  \E x \in Nodes :
           /\ x = node[t] /\ (t = Poller <=> x = Stub) /\ \A i \in 1..Len(q) : q[i] # x
           /\ ChainInv(Append(q, x))'
           /\ \A n : n \in Unlinked' <=> n \in Unlinked \/ (n = x /\ x # Stub)
<1> USE DEF PushLabels, ThreadLabels, PollLabels
<1>1. \A u \in All : pc'[u] = IF u = t THEN "link" ELSE pc[u]
  BY PlaceAfter DEF SwapHead
<1>2. /\ UNCHANGED <<next, tail, queued, node, cur, done, woken>> /\ pc[t] = "swap"
      /\ head' = node[t] /\ IsChain(q) /\ PushersApart
  BY DEF SwapHead, ChainInv
<1>3. \A u \in All : prev'[u] = IF u = t THEN head ELSE prev[u]
  BY DEF SwapHead, QueueTypeOK, All
<1>4. PICK x \in Nodes : x = node[t]
  BY DEF QueueTypeOK, All
<1> DEFINE L == Len(q)
<1>5. L \in Nat /\ L >= 1 /\ q \in Seq(Nodes) /\ (L = 1 \/ L >= 2)
  <2>1. L \in Nat /\ L >= 1
    BY <1>2, ChainFacts
  <2>2. q \in Seq(Nodes)
    BY <1>2 DEF IsChain
  <2> HIDE DEF L
  <2>3. L = 1 \/ L >= 2
    BY <2>1
  <2> QED
    BY <2>1, <2>2, <2>3 DEF L
<1>6. PICK r \in Seq(Nodes) :
        /\ r = Append(q, x) /\ Len(r) = L + 1 /\ r[L + 1] = x /\ \A i \in 1..L : r[i] = q[i]
  <2> DEFINE a == Append(q, x)
  <2>1. a \in Seq(Nodes) /\ Len(a) = L + 1 /\ a[L + 1] = x /\ \A i \in 1..L : a[i] = q[i]
    BY <1>5, AppendProperties
  <2>2. a = Append(q, x)
    OBVIOUS
  <2> HIDE DEF a
  <2> QED
    BY <2>1, <2>2
<1>7. /\ \A i \in 1..L : q[i] # x
      /\ next[x] = Null
      /\ q[1] = tail /\ q[L] = head /\ next[head] = Null
      /\ L \in 1..L /\ 1 \in 1..L
  BY <1>2, <1>4, <1>5 DEF IsChain, PushersApart
<1>8. t = Poller <=> x = Stub
  <2>1. CASE t = Poller
    BY <1>2, <1>4, <2>1 DEF PushersApart
  <2>2. CASE t # Poller
    BY <1>2, <1>4, <2>2, QueueAssumption DEF PushersApart, All
  <2> QED
    BY <2>1, <2>2
<1>9. \A i \in 1..(L + 1) : i = L + 1 \/ i \in 1..L
  BY <1>5
<1>10. IsChain(r)'
  <2>1. \A i, j \in 1..Len(r) : r[i] = r[j] => i = j
    BY <1>2, <1>6, <1>7, <1>9 DEF IsChain
  <2>2. r[1] = tail' /\ r[Len(r)] = head' /\ next'[head'] = Null
    BY <1>2, <1>4, <1>6, <1>7
  <2>3. ASSUME NEW i \in 1..(Len(r) - 1)
        PROVE  \/ next'[r[i]] = r[i + 1]
               \/ next'[r[i]] = Null /\ \E u \in All : pc'[u] = "link" /\ prev'[u] = r[i]
    <3>1. CASE i = L
      <4>1. r[i] = head
        BY <1>6, <1>7, <3>1
      <4>2. pc'[t] = "link" /\ prev'[t] = r[i] /\ next'[r[i]] = Null
        BY <1>1, <1>2, <1>3, <1>7, <4>1
      <4> QED
        BY <4>2
    <3>2. CASE i # L
      <4>1. i \in 1..(L - 1) /\ r[i] = q[i] /\ r[i + 1] = q[i + 1]
        <5>1. i \in 1..(L - 1) /\ i \in 1..L /\ i + 1 \in 1..L
          BY <1>5, <1>6, <3>2
        <5> QED
          BY <1>6, <5>1
      <4>2. CASE next[q[i]] = q[i + 1]
        BY <1>2, <4>1, <4>2
      <4>3. CASE next[q[i]] = Null /\ \E u \in All : pc[u] = "link" /\ prev[u] = q[i]
        <5>1. PICK u \in All : pc[u] = "link" /\ prev[u] = q[i]
          BY <4>3
        <5>2. pc'[u] = "link" /\ prev'[u] = q[i]
          BY <1>1, <1>2, <1>3, <5>1
        <5> QED
          BY <1>2, <4>1, <4>3, <5>2
      <4> QED
        BY <1>2, <4>1, <4>2, <4>3 DEF IsChain
    <3> QED
      BY <3>1, <3>2
  <2>4. ASSUME NEW u \in All, pc'[u] = "link"
        PROVE  \E i \in 1..(Len(r) - 1) :
                 prev'[u] = r[i] /\ node'[u] = r[i + 1] /\ next'[r[i]] = Null
    <3>1. CASE u = t
      <4>1. L \in 1..(Len(r) - 1) /\ r[L] = head /\ r[L + 1] = x
        BY <1>5, <1>6, <1>7
      <4>2. prev'[u] = head /\ node'[u] = x /\ next'[head] = Null
        BY <1>2, <1>3, <1>4, <1>7, <3>1
      <4> QED
        BY <4>1, <4>2
    <3>2. CASE u # t
      <4>1. pc[u] = "link" /\ prev'[u] = prev[u]
        BY <1>1, <1>3, <2>4, <3>2
      <4>2. PICK i \in 1..(L - 1) : prev[u] = q[i] /\ node[u] = q[i + 1] /\ next[q[i]] = Null
        BY <1>2, <4>1 DEF IsChain
      <4>3. i \in 1..(Len(r) - 1) /\ r[i] = q[i] /\ r[i + 1] = q[i + 1]
        <5>1. i \in 1..(Len(r) - 1) /\ i \in 1..L /\ i + 1 \in 1..L
          BY <1>5, <1>6
        <5> QED
          BY <1>6, <5>1
      <4> QED
        BY <1>2, <4>1, <4>2, <4>3
    <3> QED
      BY <3>1, <3>2
  <2>5. \A i \in 1..Len(r) : r[i] \in Tasks => queued'[r[i]]
    <3>1. x \in Tasks => queued[x]
      BY <1>2, <1>4, <1>8, QueueAssumption DEF PushersApart, All
    <3>2. \A i \in 1..L : q[i] \in Tasks => queued[q[i]]
      BY <1>2 DEF IsChain
    <3> QED
      BY <1>2, <1>6, <1>9, <3>1, <3>2
  <2>6. ASSUME NEW u \in All, pc'[u] \in {"store", "swap"}, NEW i \in 1..Len(r)
        PROVE  r[i] # node'[u]
    <3>1. u # t /\ pc[u] \in {"store", "swap"}
      BY <1>1, <2>6
    <3>2. node[u] # x
      BY <1>2, <1>4, <1>8, <3>1, QueueAssumption DEF PushersApart, All
    <3>3. \A j \in 1..L : q[j] # node[u]
      BY <1>2, <3>1 DEF IsChain
    <3> QED
      BY <1>2, <1>6, <1>9, <3>2, <3>3
  <2>7. Len(r) >= 1
    BY <1>5, <1>6
  <2> QED
    BY <1>6, <2>1, <2>2, <2>3, <2>4, <2>5, <2>6, <2>7 DEF IsChain
<1>11. PushersApart'
  <2>1. \A u \in Threads : pc'[u] \in PushLabels <=> pc[u] \in PushLabels
    BY <1>1, <1>2 DEF All
  <2>2. (\A u \in Threads : pc'[u] \in ThreadLabels) /\ pc'[Poller] \in PollLabels
    BY <1>1, <1>2 DEF All, PushersApart
  <2>3. \A u \in All : pc'[u] = "swap" => pc[u] = "swap"
    BY <1>1
  <2> QED
    BY <1>2, <2>1, <2>2, <2>3 DEF PushersApart
<1>12. PollerAt(r)'
  <2>1. CASE t = Poller
    <3>1. pc'[Poller] = "link"
      BY <1>1, <2>1 DEF All
    <3>2. tail # Stub
      BY <1>2, <2>1 DEF ChainInv, PollerAt
    <3> QED
      BY <1>2, <3>1, <3>2 DEF PollerAt
  <2>2. CASE t # Poller
    <3>1. /\ pc'[Poller] = pc[Poller] /\ x # Stub
          /\ \A u \in Threads : pc'[u] \in PushLabels <=> pc[u] \in PushLabels
      BY <1>1, <1>2, <1>8, <2>2 DEF All
    <3>2. pc[Poller] = "recheck" => \E i \in 1..Len(r) : r[i] = Stub
      <4> SUFFICES ASSUME pc[Poller] = "recheck" PROVE \E i \in 1..Len(r) : r[i] = Stub
        OBVIOUS
      <4>1. PICK i \in 1..L : q[i] = Stub
        BY DEF ChainInv, PollerAt
      <4>2. i \in 1..Len(r) /\ r[i] = Stub
        BY <1>5, <1>6, <4>1
      <4> QED
        BY <4>2
    <3>3. pc[Poller] = "head" => ~(Len(r) >= 2 /\ r[2] = Stub)
      <4> SUFFICES ASSUME pc[Poller] = "head", Len(r) >= 2 PROVE r[2] # Stub
        OBVIOUS
      <4>1. CASE L = 1
        <5>1. r[2] = x
          BY <1>6, <4>1
        <5> QED
          BY <3>1, <5>1
      <4>2. CASE L >= 2
        <5>1. L >= 2 /\ 2 \in 1..L
          BY <1>5, <4>2
        <5>2. q[2] # Stub
          BY <5>1 DEF ChainInv, PollerAt
        <5> QED
          BY <1>6, <5>1, <5>2
      <4> QED
        BY <1>5, <4>1, <4>2
    <3>4. pc[Poller] = "run" =>
             /\ queued[cur] /\ \A i \in 1..Len(r) : r[i] # cur
             /\ \A u \in Threads : pc[u] \in PushLabels => node[u] # cur
      <4> SUFFICES ASSUME pc[Poller] = "run"
                   PROVE  /\ queued[cur] /\ \A i \in 1..Len(r) : r[i] # cur
                          /\ \A u \in Threads : pc[u] \in PushLabels => node[u] # cur
        OBVIOUS
      <4>1. /\ queued[cur] /\ \A i \in 1..L : q[i] # cur
            /\ \A u \in Threads : pc[u] \in PushLabels => node[u] # cur
        BY DEF ChainInv, PollerAt
      <4>2. x # cur
        BY <1>2, <1>4, <2>2, <4>1 DEF All
      <4> QED
        BY <1>6, <1>9, <4>1, <4>2
    <3>5. /\ pc[Poller] \in {"next", "head", "recheck"} \cup PushLabels => tail # Stub
          /\ pc[Poller] \in {"run", "drive"} => cur \in Tasks
      BY DEF ChainInv, PollerAt
    <3> QED
      BY <1>2, <3>1, <3>2, <3>3, <3>4, <3>5 DEF PollerAt
  <2> QED
    BY <2>1, <2>2
<1>13. WokenFor(r)'
  <2>1. CASE t = Poller
    BY <1>1, <2>1 DEF WokenFor, All
  <2>2. CASE t # Poller
    BY <1>1, <2>2 DEF WokenFor, All
  <2> QED
    BY <2>1, <2>2
<1>14. ASSUME NEW n PROVE n \in Unlinked' <=> n \in Unlinked \/ (n = x /\ x # Stub)
  <2>1. \A u \in Threads : pc'[u] = "link" <=> pc[u] = "link" \/ u = t
    BY <1>1, <1>2 DEF All
  <2>2. x # Stub => x \in Tasks /\ t \in Threads
    BY <1>4, <1>8 DEF Nodes, All
  <2>3. x = Stub => t \notin Threads
    BY <1>8, QueueAssumption
  <2> QED
    BY <1>2, <1>4, <2>1, <2>2, <2>3 DEF Unlinked
<1>15. ChainInv(Append(q, x))'
  BY <1>6, <1>10, <1>11, <1>12, <1>13 DEF ChainInv
<1> QED
  BY <1>4, <1>7, <1>8, <1>14, <1>15

\* The last access of push writes a link of the chain.
LEMMA LinkKeeps ==
  ASSUME QueueTypeOK, NEW q, ChainInv(q), NEW t \in All, LinkPrev(t)
  PROVE  \E x \in Nodes :
           /\ x = node[t] /\ (t = Poller <=> x = Stub) /\ ChainInv(q)'
           /\ x # Stub => x \in Unlinked
           /\ \A n : n \in Unlinked' <=> n \in Unlinked /\ n # x
<1> USE DEF PushLabels, ThreadLabels, PollLabels
<1> DEFINE label == IF t = Poller THEN "recheck" ELSE "wake"
<1>1. \A u \in All : pc'[u] = IF u = t THEN label ELSE pc[u]
  BY PlaceAfter DEF LinkPrev
<1>2. /\ UNCHANGED <<head, tail, queued, cur, done, woken>> /\ pc[t] = "link"
      /\ IsChain(q) /\ PushersApart
  BY DEF LinkPrev, ChainInv
<1>3. /\ \A u \in All : node'[u] = IF u = t THEN Stub ELSE node[u]
      /\ \A u \in All : prev'[u] = IF u = t THEN Stub ELSE prev[u]
  BY DEF LinkPrev, QueueTypeOK, All
<1>4. PICK x \in Nodes : x = node[t]
  BY DEF QueueTypeOK, All
<1>5. prev[t] \in Nodes
  BY DEF QueueTypeOK, All
<1>6. \A n \in Nodes : next'[n] = IF n = prev[t] THEN x ELSE next[n]
  BY <1>4, <1>5 DEF LinkPrev, QueueTypeOK
<1> DEFINE L == Len(q)
<1>7. PICK k \in 1..(L - 1) : prev[t] = q[k] /\ x = q[k + 1] /\ next[q[k]] = Null
  BY <1>2, <1>4 DEF IsChain
<1>8. /\ L \in Nat /\ k \in 1..L /\ k + 1 \in 1..L /\ L \in 1..L /\ k # L
      /\ \A i \in 1..L : q[i] \in Nodes
      /\ \A i \in 1..(L - 1) : i \in 1..L /\ i + 1 \in 1..L
  <2>1. /\ L \in Nat /\ k \in 1..L /\ k + 1 \in 1..L /\ L \in 1..L
        /\ \A i \in 1..L : q[i] \in Nodes
        /\ \A i \in 1..(L - 1) : i \in 1..L /\ i + 1 \in 1..L
    BY <1>2, ChainFacts
  <2>2. k # L
    BY <2>1
  <2> QED
    BY <2>1, <2>2
<1>9. \A i \in 1..L : next'[q[i]] = IF i = k THEN x ELSE next[q[i]]
  BY <1>2, <1>6, <1>7, <1>8 DEF IsChain
<1>10. t = Poller <=> x = Stub
  <2>1. CASE t = Poller
    BY <1>2, <1>4, <2>1 DEF PushersApart
  <2>2. CASE t # Poller
    BY <1>2, <1>4, <2>2, QueueAssumption DEF PushersApart, All
  <2> QED
    BY <2>1, <2>2
<1>11. \A u \in All : u # t /\ pc[u] \in PushLabels => node[u] # x
  BY <1>2, <1>4, <1>10, QueueAssumption DEF PushersApart, All
<1>12. ASSUME NEW u \in All, pc'[u] = "link"
       PROVE  /\ u # t /\ pc[u] = "link" /\ prev'[u] = prev[u] /\ node'[u] = node[u]
              /\ \E i \in 1..(L - 1) :
                   i # k /\ prev[u] = q[i] /\ node[u] = q[i + 1] /\ next[q[i]] = Null
  <2>1. u # t /\ pc[u] = "link" /\ prev'[u] = prev[u] /\ node'[u] = node[u]
    BY <1>1, <1>3, <1>12
  <2>2. PICK i \in 1..(L - 1) : prev[u] = q[i] /\ node[u] = q[i + 1] /\ next[q[i]] = Null
    BY <1>2, <2>1 DEF IsChain
  <2>3. i # k
    BY <1>7, <1>11, <2>1, <2>2
  <2> QED
    BY <2>1, <2>2, <2>3
<1>13. IsChain(q)'
  <2>1. ASSUME NEW i \in 1..(L - 1)
        PROVE  \/ next'[q[i]] = q[i + 1]
               \/ next'[q[i]] = Null /\ \E u \in All : pc'[u] = "link" /\ prev'[u] = q[i]
    <3>1. CASE i = k
      BY <1>7, <1>8, <1>9, <3>1
    <3>2. CASE i # k
      <4>1. next'[q[i]] = next[q[i]]
        BY <1>8, <1>9, <3>2
      <4>2. CASE next[q[i]] = q[i + 1]
        BY <4>1, <4>2
      <4>3. CASE next[q[i]] = Null /\ \E u \in All : pc[u] = "link" /\ prev[u] = q[i]
        <5>1. PICK u \in All : pc[u] = "link" /\ prev[u] = q[i]
          BY <4>3
        <5>2. q[i] # q[k]
          BY <1>2, <1>8, <3>2 DEF IsChain
        <5>3. u # t
          BY <1>7, <5>1, <5>2
        <5>4. pc'[u] = "link" /\ prev'[u] = q[i]
          BY <1>1, <1>3, <5>1, <5>3
        <5> QED
          BY <4>1, <4>3, <5>4
      <4> QED
        BY <1>2, <4>2, <4>3 DEF IsChain
    <3> QED
      BY <3>1, <3>2
  <2>2. ASSUME NEW u \in All, pc'[u] = "link"
        PROVE  \E i \in 1..(L - 1) :
                 prev'[u] = q[i] /\ node'[u] = q[i + 1] /\ next'[q[i]] = Null
    <3>1. PICK i \in 1..(L - 1) :
            i # k /\ prev[u] = q[i] /\ node[u] = q[i + 1] /\ next[q[i]] = Null
      BY <1>12, <2>2
    <3>2. next'[q[i]] = Null
      BY <1>8, <1>9, <3>1
    <3> QED
      BY <1>12, <2>2, <3>1, <3>2
  <2>3. ASSUME NEW u \in All, pc'[u] \in {"store", "swap"}, NEW i \in 1..L PROVE q[i] # node'[u]
    <3>1. u # t /\ pc[u] \in {"store", "swap"} /\ node'[u] = node[u]
      BY <1>1, <1>3, <2>3
    <3> QED
      BY <1>2, <3>1 DEF IsChain
  <2>4. next'[head] = Null
    <3>1. q[L] = head /\ next[head] = Null
      BY <1>2 DEF IsChain
    <3>2. next'[q[L]] = next[q[L]]
      BY <1>8, <1>9
    <3> QED
      BY <3>1, <3>2
  <2> QED
    BY <1>2, <2>1, <2>2, <2>3, <2>4 DEF IsChain
<1>14. PushersApart'
  <2>1. \A u \in Threads : pc'[u] \in PushLabels => pc[u] \in PushLabels /\ node'[u] = node[u]
    BY <1>1, <1>3 DEF All
  <2>2. /\ \A u \in Threads : pc'[u] \in ThreadLabels
        /\ pc'[Poller] \in PollLabels /\ node'[Poller] = Stub
    BY <1>1, <1>2, <1>3, QueueAssumption DEF All, PushersApart
  <2>3. ASSUME NEW u \in All, pc'[u] = "swap" PROVE next'[node'[u]] = Null
    <3>1. u # t /\ pc[u] = "swap" /\ node'[u] = node[u] /\ node[u] \in Nodes
      BY <1>1, <1>3, <2>3 DEF QueueTypeOK, All
    <3>2. node[u] # prev[t] /\ next[node[u]] = Null
      BY <1>2, <1>7, <1>8, <3>1 DEF IsChain, PushersApart
    <3> QED
      BY <1>6, <3>1, <3>2
  <2>4. \A u \in Threads : pc'[u] \in PushLabels => node'[u] \in Tasks /\ queued'[node'[u]]
    BY <1>2, <2>1 DEF PushersApart
  <2>5. \A u, v \in Threads :
          pc'[u] \in PushLabels /\ pc'[v] \in PushLabels /\ node'[u] = node'[v] => u = v
    BY <1>2, <2>1 DEF PushersApart
  <2> QED
    BY <2>2, <2>3, <2>4, <2>5 DEF PushersApart
<1>15. PollerAt(q)'
  <2>1. CASE t = Poller
    <3>1. pc'[Poller] = "recheck"
      BY <1>1, <2>1 DEF All
    <3>2. tail # Stub
      BY <1>2, <2>1 DEF ChainInv, PollerAt
    <3>3. \E i \in 1..Len(q) : q[i] = Stub
      BY <1>7, <1>8, <1>10, <2>1
    <3> QED
      BY <1>2, <3>1, <3>2, <3>3 DEF PollerAt
  <2>2. CASE t # Poller
    <3>1. /\ pc'[Poller] = pc[Poller]
          /\ \A u \in Threads : pc'[u] \in PushLabels => pc[u] \in PushLabels /\ node'[u] = node[u]
      BY <1>1, <1>2, <1>3, <2>2 DEF All
    <3> QED
      BY <1>2, <3>1 DEF ChainInv, PollerAt
  <2> QED
    BY <2>1, <2>2
<1>16. WokenFor(q)'
  <2>1. CASE t = Poller
    BY <1>1, <2>1 DEF WokenFor, All
  <2>2. CASE t # Poller
    BY <1>1, <2>2 DEF WokenFor, All
  <2> QED
    BY <2>1, <2>2
<1>17. x # Stub => x \in Unlinked
  BY <1>2, <1>4, <1>10 DEF Unlinked, All, Nodes
<1>18. ASSUME NEW n PROVE n \in Unlinked' <=> n \in Unlinked /\ n # x
  <2>1. \A u \in Threads : pc'[u] = "link" <=> pc[u] = "link" /\ u # t
    BY <1>1, <1>2 DEF All
  <2>2. \A u \in Threads : u # t => node'[u] = node[u]
    BY <1>3 DEF All
  <2>3. \A u \in Threads : u # t /\ pc[u] = "link" => node[u] # x
    BY <1>11 DEF All
  <2> QED
    BY <1>4, <2>1, <2>2, <2>3 DEF Unlinked
<1> QED
  BY <1>4, <1>10, <1>13, <1>14, <1>15, <1>16, <1>17, <1>18 DEF ChainInv

-----------------------------------------------------------------------------
(***************************************************************************)
(* Steps of pop that take a node out.                                      *)
(***************************************************************************)

\* pop follows the link of the tail.  What it leaves is a chain: the link was written, so
\* no push still refers to the old tail.
LEMMA TailTaken ==
  ASSUME QueueTypeOK, NEW q, ChainInv(q), next[tail] # Null, tail' = next[tail],
         UNCHANGED <<next, head, queued, node, prev>>,
         \A t \in All : pc'[t] = pc[t] \/ (pc[t] \notin PushLabels /\ pc'[t] \notin PushLabels)
  PROVE  \E n \in Nat :
           /\ Len(q) = n + 1 /\ n >= 1 /\ IsChain(Tail(q))' /\ Unlinked' = Unlinked
           /\ Len(Tail(q)) = n /\ \A i \in 1..n : Tail(q)[i] = q[i + 1]
           /\ tail \notin Unlinked /\ \A i \in 1..n : q[i + 1] # tail
           /\ \A t \in Threads : pc[t] \in PushLabels => node[t] # tail
<1> USE DEF PushLabels
<1>1. IsChain(q) /\ PushersApart
  BY DEF ChainInv
<1>2. PICK n \in Nat : Len(q) = n + 1
  <2>1. PICK k \in Nat : k = Len(q) /\ k >= 1
    BY <1>1, ChainFacts
  <2>2. k - 1 \in Nat /\ (k - 1) + 1 = k
    BY <2>1
  <2> QED
    BY <2>1, <2>2
<1>3. n >= 1
  <2> SUFFICES ASSUME n = 0 PROVE FALSE
    OBVIOUS
  <2>1. q[1] = tail /\ q[1] = head
    BY <1>1, <1>2 DEF IsChain
  <2> QED
    BY <1>1, <2>1 DEF IsChain
<1>4. Different(q) /\ q[1] = tail /\ 1 \in 1..n /\ 1 + 1 = 2 /\ 1 \in 1..(n + 1)
  <2>1. Different(q)
    BY <1>1, ChainFacts
  <2>2. q[1] = tail
    BY <1>1 DEF IsChain
  <2>3. 1 \in 1..n /\ 1 + 1 = 2 /\ 1 \in 1..(n + 1)
    BY <1>3
  <2> QED
    BY <2>1, <2>2, <2>3
<1>5. PICK r : r = Tail(q) /\ Different(r) /\ Len(r) = n /\ \A i \in 1..n : r[i] = q[i + 1]
  <2>1. Different(Tail(q)) /\ Len(Tail(q)) = n /\ \A i \in 1..n : Tail(q)[i] = q[i + 1]
    BY <1>2, <1>4, FirstGone
  <2> QED
    BY <2>1, Zenon
<1>6. next[q[1]] = q[2]
  BY <1>1, <1>2, <1>4 DEF IsChain
<1>7. \A t \in All : /\ pc'[t] = "link" <=> pc[t] = "link"
                     /\ pc'[t] \in {"store", "swap"} <=> pc[t] \in {"store", "swap"}
  OBVIOUS
<1>8. ASSUME NEW t \in All, pc[t] = "link"
      PROVE  \E i \in 1..(n - 1) : prev[t] = r[i] /\ node[t] = r[i + 1] /\ next[r[i]] = Null
  <2>1. PICK j \in 1..n : prev[t] = q[j] /\ node[t] = q[j + 1] /\ next[q[j]] = Null
    <3>1. Len(q) - 1 = n
      BY <1>2
    <3> QED
      BY <1>1, <1>8, <3>1 DEF IsChain
  <2>2. j # 1
    BY <1>4, <2>1
  <2>3. PICK i \in 1..(n - 1) : j = i + 1
    BY <2>2
  <2>4. i \in 1..n /\ i + 1 \in 1..n
    OBVIOUS
  <2> QED
    BY <1>5, <2>1, <2>3, <2>4
<1>9. IsChain(r)'
  <2>1. r \in Seq(Nodes) /\ \A i, j \in 1..Len(r) : r[i] = r[j] => i = j
    BY <1>5 DEF Different
  <2>2. r[1] = tail'
    BY <1>4, <1>5, <1>6
  <2>3. r[Len(r)] = head' /\ next'[head'] = Null
    <3>1. n \in 1..n
      BY <1>3
    <3> QED
      BY <1>1, <1>2, <1>5, <3>1 DEF IsChain
  <2>4. ASSUME NEW i \in 1..(Len(r) - 1)
        PROVE  \/ next'[r[i]] = r[i + 1]
               \/ next'[r[i]] = Null /\ \E t \in All : pc'[t] = "link" /\ prev'[t] = r[i]
    <3>1. i + 1 \in 1..(Len(q) - 1) /\ i \in 1..n /\ i + 1 \in 1..n
      BY <1>2, <1>5
    <3>2. r[i] = q[i + 1] /\ r[i + 1] = q[(i + 1) + 1]
      BY <1>5, <3>1
    <3> QED
      BY <1>1, <1>7, <3>1, <3>2 DEF IsChain
  <2>5. \A t \in All : pc'[t] = "link" =>
          \E i \in 1..(Len(r) - 1) : prev'[t] = r[i] /\ node'[t] = r[i + 1] /\ next'[r[i]] = Null
    BY <1>5, <1>7, <1>8
  <2>6. ASSUME NEW i \in 1..Len(r)
        PROVE  /\ r[i] \in Tasks => queued'[r[i]]
               /\ \A t \in All : pc'[t] \in {"store", "swap"} => r[i] # node'[t]
    <3>1. i + 1 \in 1..Len(q) /\ r[i] = q[i + 1]
      BY <1>2, <1>5
    <3> QED
      BY <1>1, <1>7, <3>1 DEF IsChain
  <2>7. Len(r) >= 1
    BY <1>3, <1>5
  <2> QED
    BY <2>1, <2>2, <2>3, <2>4, <2>5, <2>6, <2>7 DEF IsChain
<1>10. Unlinked' = Unlinked
  BY <1>7 DEF Unlinked, All
<1>11. ASSUME NEW i \in 1..n PROVE q[i + 1] # tail
  <2>1. i + 1 \in 1..Len(q) /\ 1 \in 1..Len(q) /\ i + 1 # 1
    BY <1>2
  <2> QED
    BY <1>4, <2>1 DEF Different
<1>12. ASSUME NEW t \in Threads, pc[t] \in PushLabels PROVE node[t] # tail
  <2>1. CASE pc[t] = "link"
    <3>1. PICK i \in 1..(n - 1) : node[t] = r[i + 1]
      BY <1>8, <2>1 DEF All
    <3>2. i + 1 \in 1..n
      OBVIOUS
    <3> QED
      BY <1>5, <1>11, <3>1, <3>2
  <2>2. CASE pc[t] # "link"
    <3>1. \A i \in 1..Len(q) : q[i] # node[t]
      BY <1>1, <1>12, <2>2 DEF IsChain, All
    <3> QED
      BY <1>2, <1>4, <3>1
  <2> QED
    BY <2>1, <2>2
<1>13. tail \notin Unlinked
  BY <1>12 DEF Unlinked
<1> QED
  BY <1>2, <1>3, <1>5, <1>9, <1>10, <1>11, <1>12, <1>13

\* pop steps over the stub.
LEMMA SkipKeeps ==
  ASSUME QueueTypeOK, NEW q, ChainInv(q), SkipStub
  PROVE  \E n \in Nat : /\ Len(q) = n + 1 /\ q[1] = Stub
                        /\ ChainInv(Tail(q))' /\ Unlinked' = Unlinked
<1> USE DEF PushLabels, ThreadLabels, PollLabels
<1>1. \A u \in All : pc'[u] = IF u = Poller THEN "next" ELSE pc[u]
  BY PlaceAfter DEF SkipStub, All
<1>2. \A t \in All : pc'[t] = pc[t] \/ (pc[t] \notin PushLabels /\ pc'[t] \notin PushLabels)
  BY <1>1 DEF SkipStub
<1>3. /\ next[tail] # Null /\ tail' = next[tail] /\ tail = Stub
      /\ UNCHANGED <<next, head, queued, node, prev>>
  BY DEF SkipStub
<1>4. PICK n \in Nat :
        /\ Len(q) = n + 1 /\ n >= 1 /\ IsChain(Tail(q))' /\ Unlinked' = Unlinked
        /\ Len(Tail(q)) = n /\ \A i \in 1..n : Tail(q)[i] = q[i + 1]
        /\ tail \notin Unlinked /\ \A i \in 1..n : q[i + 1] # tail
        /\ \A t \in Threads : pc[t] \in PushLabels => node[t] # tail
  BY <1>2, <1>3, TailTaken
<1>5. PushersApart'
  BY <1>1, <1>2, <1>3, PushersKept, QueueAssumption DEF ChainInv, PushersApart, All
<1>6. tail' # Stub
  <2>1. 1 \in 1..n /\ Tail(q)[1] = tail'
    BY <1>4 DEF IsChain
  <2> QED
    BY <1>3, <1>4, <2>1
<1>7. PollerAt(Tail(q))' /\ WokenFor(Tail(q))'
  BY <1>1, <1>6 DEF PollerAt, WokenFor, All
<1>8. q[1] = Stub
  BY <1>3 DEF ChainInv, IsChain
<1> QED
  BY <1>4, <1>5, <1>7, <1>8 DEF ChainInv

\* Pop::Value takes the task at the tail.
LEMMA PopValueKeeps ==
  ASSUME QueueTypeOK, NEW q, ChainInv(q), PopValue
  PROVE  \E n \in Nat : /\ Len(q) = n + 1 /\ q[1] # Stub /\ q[1] \notin Unlinked
                        /\ ChainInv(Tail(q))' /\ Unlinked' = Unlinked
<1> USE DEF PushLabels, ThreadLabels, PollLabels
<1>1. \A u \in All : pc'[u] = IF u = Poller THEN "run" ELSE pc[u]
  BY PlaceAfter DEF PopValue, All
<1>2. \A t \in All : pc'[t] = pc[t] \/ (pc[t] \notin PushLabels /\ pc'[t] \notin PushLabels)
  BY <1>1 DEF PopValue, AtTask
<1>3. /\ next[tail] # Null /\ tail' = next[tail] /\ cur' = tail
      /\ UNCHANGED <<next, head, queued, node, prev>>
  BY DEF PopValue
<1>4. PICK n \in Nat :
        /\ Len(q) = n + 1 /\ n >= 1 /\ IsChain(Tail(q))' /\ Unlinked' = Unlinked
        /\ Len(Tail(q)) = n /\ \A i \in 1..n : Tail(q)[i] = q[i + 1]
        /\ tail \notin Unlinked /\ \A i \in 1..n : q[i + 1] # tail
        /\ \A t \in Threads : pc[t] \in PushLabels => node[t] # tail
  BY <1>2, <1>3, TailTaken
<1>5. PushersApart'
  BY <1>1, <1>2, <1>3, PushersKept, QueueAssumption DEF ChainInv, PushersApart, All
<1>6. tail # Stub
  BY DEF PopValue, AtTask, ChainInv, PollerAt
<1>7. q[1] = tail /\ 1 \in 1..Len(q)
  BY <1>4 DEF ChainInv, IsChain
<1>8. tail \in Tasks /\ queued[tail]
  <2>1. tail \in Tasks
    BY <1>6 DEF QueueTypeOK, Nodes
  <2> QED
    BY <1>7, <2>1 DEF ChainInv, IsChain
<1>9. \A t \in Threads : pc'[t] \in PushLabels => node'[t] # cur'
  BY <1>2, <1>3, <1>4 DEF All
<1>10. \A i \in 1..Len(Tail(q)) : Tail(q)[i] # cur'
  BY <1>3, <1>4
<1>11. pc'[Poller] = "run"
  BY <1>1 DEF All
<1>12. PollerAt(Tail(q))' /\ WokenFor(Tail(q))'
  BY <1>3, <1>8, <1>9, <1>10, <1>11 DEF PollerAt, WokenFor
<1> QED
  BY <1>4, <1>5, <1>6, <1>7, <1>12 DEF ChainInv

-----------------------------------------------------------------------------
(***************************************************************************)
(* Theorems.                                                               *)
(***************************************************************************)

\* What a step does to the chain q, which is r after it.
ChainStep(q, r) ==
  \/ /\ r = q /\ Unlinked' = Unlinked
  \/ /\ r = Append(q, Stub) /\ Unlinked' = Unlinked
     /\ \A i \in 1..Len(q) : q[i] # Stub
  \/ \E x \in Tasks :
       /\ r = Append(q, x) /\ \A i \in 1..Len(q) : q[i] # x
       /\ \A n : n \in Unlinked' <=> n \in Unlinked \/ n = x
  \/ \E x \in Tasks :
       /\ r = q /\ x \in Unlinked /\ \A n : n \in Unlinked' <=> n \in Unlinked /\ n # x
  \/ \E n \in Nat : /\ Len(q) = n + 1 /\ r = Tail(q) /\ Unlinked' = Unlinked
                    /\ q[1] # Stub => q[1] \notin Unlinked

\* Every step leaves a chain.
LEMMA StepKeeps ==
  ASSUME QueueTypeOK, NEW q, ChainInv(q), QueueNext
  PROVE  \E r : ChainInv(r)' /\ ChainStep(q, r)
<1>1. CASE StartPoll
  BY <1>1, StartPollKeeps DEF ChainStep
<1>2. CASE PopEmpty
  BY <1>2, PopEmptyKeeps DEF ChainStep
<1>3. CASE SkipStub
  <2>1. PICK n \in Nat : /\ Len(q) = n + 1 /\ q[1] = Stub
                         /\ ChainInv(Tail(q))' /\ Unlinked' = Unlinked
    BY <1>3, SkipKeeps
  <2>2. ChainStep(q, Tail(q))
    BY <2>1 DEF ChainStep
  <2> QED
    BY <2>1, <2>2
<1>4. CASE PopValue
  <2>1. PICK n \in Nat : /\ Len(q) = n + 1 /\ q[1] # Stub /\ q[1] \notin Unlinked
                         /\ ChainInv(Tail(q))' /\ Unlinked' = Unlinked
    BY <1>4, PopValueKeeps
  <2>2. ChainStep(q, Tail(q))
    BY <2>1 DEF ChainStep
  <2> QED
    BY <2>1, <2>2
<1>5. CASE NoNext
  BY <1>5, NoNextKeeps DEF ChainStep
<1>6. CASE PopInconsistant
  BY <1>6, InconsistantKeeps DEF ChainStep
<1>7. CASE PushStub
  BY <1>7, PushStubKeeps DEF ChainStep
<1>8. CASE StartTask
  BY <1>8, StartTaskKeeps DEF ChainStep
<1>9. CASE DrivePending
  BY <1>9, DrivePendingKeeps DEF ChainStep
<1>10. CASE DriveReady
  BY <1>10, DriveReadyKeeps DEF ChainStep
<1>11. ASSUME NEW t \in All, StoreNext(t) PROVE \E r : ChainInv(r)' /\ ChainStep(q, r)
  BY <1>11, StoreKeeps DEF ChainStep
<1>12. ASSUME NEW t \in All, SwapHead(t) PROVE \E r : ChainInv(r)' /\ ChainStep(q, r)
  <2>1. PICK x \in Nodes :
           /\ x = node[t] /\ (t = Poller <=> x = Stub) /\ \A i \in 1..Len(q) : q[i] # x
           /\ ChainInv(Append(q, x))'
           /\ \A n : n \in Unlinked' <=> n \in Unlinked \/ (n = x /\ x # Stub)
    BY <1>12, SwapKeeps
  <2>2. ChainStep(q, Append(q, x))
    <3>1. CASE x = Stub
      <4>1. Unlinked' = Unlinked
        BY <2>1, <3>1
      <4> QED
        BY <2>1, <3>1, <4>1 DEF ChainStep
    <3>2. CASE x # Stub
      <4>1. x \in Tasks
        BY <3>2 DEF Nodes
      <4> QED
        BY <2>1, <3>2, <4>1 DEF ChainStep
    <3> QED
      BY <3>1, <3>2
  <2> QED
    BY <2>1, <2>2
<1>13. ASSUME NEW t \in All, LinkPrev(t) PROVE \E r : ChainInv(r)' /\ ChainStep(q, r)
  <2>1. PICK x \in Nodes :
           /\ x = node[t] /\ (t = Poller <=> x = Stub) /\ ChainInv(q)'
           /\ x # Stub => x \in Unlinked
           /\ \A n : n \in Unlinked' <=> n \in Unlinked /\ n # x
    BY <1>13, LinkKeeps
  <2>2. ChainStep(q, q)
    <3>1. CASE x = Stub
      <4>1. Stub \notin Unlinked
        BY QueueAssumption DEF Unlinked
      <4>2. Unlinked' = Unlinked
        BY <2>1, <3>1, <4>1
      <4> QED
        BY <4>2 DEF ChainStep
    <3>2. CASE x # Stub
      <4>1. x \in Tasks
        BY <3>2 DEF Nodes
      <4> QED
        BY <2>1, <3>2, <4>1 DEF ChainStep
    <3> QED
      BY <3>1, <3>2
  <2> QED
    BY <2>1, <2>2
<1>14. ASSUME NEW t \in Threads, WakeSchedular(t) PROVE \E r : ChainInv(r)' /\ ChainStep(q, r)
  BY <1>14, WakeKeeps DEF ChainStep
<1>15. ASSUME NEW t \in Threads, NEW task \in Tasks, Schedule(t, task)
       PROVE  \E r : ChainInv(r)' /\ ChainStep(q, r)
  BY <1>15, ScheduleKeeps DEF ChainStep
<1> QED
  BY <1>1, <1>2, <1>3, <1>4, <1>5, <1>6, <1>7, <1>8, <1>9, <1>10, <1>11, <1>12, <1>13, <1>14, <1>15
     DEF QueueNext, Pop, Push, All

\* A step that changes nothing.
LEMMA StutterKeeps ==
  ASSUME NEW q, ChainInv(q), UNCHANGED vars
  PROVE  ChainInv(q)' /\ Unlinked' = Unlinked
BY DEF vars, ChainInv, IsChain, PushersApart, PollerAt, WokenFor, Unlinked

\* At first the chain is the stub.
LEMMA InitChain ==
  ASSUME QueueInit
  PROVE  QueueTypeOK /\ ChainInv(<<Stub>>)
<1> USE DEF QueueInit, PushLabels, ThreadLabels, PollLabels
<1>1. QueueTypeOK
  BY DEF QueueTypeOK, Nodes
<1> DEFINE q == <<Stub>>
<1>2. q \in Seq(Nodes) /\ Len(q) = 1 /\ q[1] = Stub
  BY DEF Nodes
<1> HIDE DEF q
<1>3. (\A i \in 1..Len(q) : i = 1 /\ q[i] = Stub) /\ 1..(Len(q) - 1) = {}
  BY <1>2
<1>4. \A t \in All : pc[t] \in {"idle", "asleep"} /\ (t \in Threads => pc[t] = "idle")
  BY QueueAssumption DEF All
<1>5. pc[Poller] = "asleep" /\ node[Poller] = Stub
  OBVIOUS
<1>6. IsChain(q)
  <2>1. Stub \in Nodes /\ Stub \notin Tasks
    BY QueueAssumption DEF Nodes
  <2>2. next[head] = Null /\ q[1] = tail /\ q[Len(q)] = head
    BY <1>2, <2>1
  <2>3. \A t \in All : pc[t] \notin {"link", "store", "swap"}
    BY <1>4
  <2>4. \A i, j \in 1..Len(q) : i = j
    BY <1>3
  <2>5. \A i \in 1..Len(q) : q[i] \notin Tasks
    BY <1>3, <2>1
  <2>6. \A i \in 1..(Len(q) - 1) : FALSE
    BY <1>3
  <2>7. \A t \in All : pc[t] # "link" /\ pc[t] # "store" /\ pc[t] # "swap"
    BY <2>3
  <2>8. Len(q) >= 1
    BY <1>2
  <2> QED
    BY <1>2, <2>2, <2>4, <2>5, <2>6, <2>7, <2>8, Zenon DEF IsChain
<1>7. PushersApart
  BY <1>4, <1>5 DEF PushersApart, All
<1>8. PollerAt(q) /\ WokenFor(q)
  BY <1>5 DEF PollerAt, WokenFor
<1> QED
  BY <1>1, <1>6, <1>7, <1>8 DEF ChainInv, q

\* QueueInv is inductive: at all times, whatever pushes are half done, the nodes from the
\* tail to the head are a chain whose missing links are about to be written.
THEOREM QueueInvariant == QueueSpec => []QueueInv
<1>1. QueueInit => QueueInv
  <2>1. <<Stub>> \in Seq(Nodes)
    BY DEF Nodes
  <2> QED
    BY <2>1, InitChain DEF QueueInv
<1>2. QueueInv /\ [QueueNext]_vars => QueueInv'
  <2> SUFFICES ASSUME QueueInv, [QueueNext]_vars PROVE QueueInv'
    OBVIOUS
  <2>1. PICK q \in Seq(Nodes) : ChainInv(q)
    BY DEF QueueInv
  <2>2. QueueTypeOK
    BY DEF QueueInv
  <2>3. \E r : ChainInv(r)'
    <3>1. CASE QueueNext
      BY <2>1, <2>2, <3>1, StepKeeps
    <3>2. CASE UNCHANGED vars
      BY <2>1, <3>2, StutterKeeps
    <3> QED
      BY <3>1, <3>2
  <2>4. PICK r : ChainInv(r)'
    BY <2>3
  <2>5. r \in Seq(Nodes)
    BY <2>4 DEF ChainInv, IsChain
  <2>6. QueueTypeOK'
    <3>1. CASE QueueNext
      BY <2>1, <2>2, <3>1, TypeKept
    <3>2. CASE UNCHANGED vars
      BY <2>2, <3>2 DEF vars, QueueTypeOK
    <3> QED
      BY <3>1, <3>2
  <2> QED
    BY <2>4, <2>5, <2>6 DEF QueueInv
<1> QED
  BY <1>1, <1>2, PTL DEF QueueSpec

\* The words that push and pop use keep their types: tail is never a null pointer.
THEOREM QueueTypeCorrect == QueueSpec => []QueueTypeOK
BY QueueInvariant, PTL DEF QueueInv

\* The node that the last access of push writes to has not been given away by pop.
THEOREM LinkTargetStays == QueueSpec => []LinkTargetInQueue
<1>1. QueueInv => LinkTargetInQueue
  <2> SUFFICES ASSUME QueueInv, NEW t \in All, pc[t] = "link" PROVE prev[t] \in ToSet(Chain)
    BY DEF LinkTargetInQueue, All
  <2>1. PICK q \in Seq(Nodes) : ChainInv(q)
    BY DEF QueueInv
  <2>2. IsChain(q)
    BY <2>1 DEF ChainInv
  <2>3. Chain = q
    BY <2>2, ChainIs
  <2>4. PICK i \in 1..(Len(q) - 1) : prev[t] = q[i]
    BY <2>2 DEF IsChain
  <2>5. i \in 1..Len(q) /\ DOMAIN q = 1..Len(q)
    BY <2>2, ChainFacts, LenProperties
  <2> QED
    BY <2>3, <2>4, <2>5 DEF ToSet
<1> QED
  BY <1>1, QueueInvariant, PTL

\* What Contents is.
LEMMA ContentsIs ==
  \A q : IsChain(q) =>
    /\ Contents = WithoutStub[q] /\ Different(q)
    /\ Contents = <<>> <=> \A i \in 1..Len(q) : q[i] = Stub
<1> SUFFICES ASSUME NEW q, IsChain(q)
             PROVE  /\ Contents = WithoutStub[q] /\ Different(q)
                    /\ Contents = <<>> <=> \A i \in 1..Len(q) : q[i] = Stub
  OBVIOUS
<1>1. Contents = WithoutStub[q]
  BY ChainIs DEF Contents
<1>2. Different(q)
  BY ChainFacts
<1> QED
  BY <1>1, <1>2, TasksOfChain

\* A Schedular that sleeps with a task in its queue is woken: if pop has answered Empty
\* because a push was not linked, that push has still to call wake.
THEOREM TaskNotStranded == QueueSpec => []NoTaskStranded
<1>1. QueueInv => NoTaskStranded
  <2> SUFFICES ASSUME QueueInv, pc[Poller] = "asleep", ~woken, Contents # <<>>
               PROVE  \E t \in Threads : pc[t] \in {"link", "wake"}
    BY DEF NoTaskStranded
  <2>1. PICK q \in Seq(Nodes) : ChainInv(q)
    BY DEF QueueInv
  <2>2. \E i \in 1..Len(q) : q[i] # Stub
    BY <2>1, ContentsIs DEF ChainInv
  <2> QED
    BY <2>1, <2>2 DEF ChainInv, WokenFor
<1> QED
  BY <1>1, QueueInvariant, PTL

-----------------------------------------------------------------------------
(***************************************************************************)
(* The queue keeps the promise of Fifo.                                    *)
(***************************************************************************)

\* What a step of the chain does to the tasks in it.
LEMMA ChainStepIsFifo ==
  ASSUME NEW q, Different(q), NEW r, ChainStep(q, r),
         Contents = WithoutStub[q], Contents' = WithoutStub[r]
  PROVE  Promised!FifoNext \/ UNCHANGED <<Contents, Unlinked>>
<1>1. CASE r = q /\ Unlinked' = Unlinked
  BY <1>1
<1>2. CASE /\ r = Append(q, Stub) /\ Unlinked' = Unlinked
           /\ \A i \in 1..Len(q) : q[i] # Stub
  <2>1. WithoutStub[r] = WithoutStub[q]
    BY <1>2, StubAppended
  <2> QED
    BY <1>2, <2>1
<1>3. ASSUME NEW x \in Tasks, r = Append(q, x), \A i \in 1..Len(q) : q[i] # x,
             \A n : n \in Unlinked' <=> n \in Unlinked \/ n = x
      PROVE  Promised!FifoNext
  <2>1. Contents' = Append(Contents, x)
    BY <1>3, TaskAppended
  <2>2. x \notin ToSet(Contents)
    BY <1>3, TasksOfChain
  <2>3. Unlinked' = Unlinked \cup {x}
    BY <1>3
  <2>4. x \notin Promised!ToSet(Contents)
    BY <2>2 DEF ToSet, Promised!ToSet
  <2>5. Promised!Put(x)
    BY <2>1, <2>3, <2>4 DEF Promised!Put, Promised!Swap
  <2> QED
    BY <2>5 DEF Promised!FifoNext
<1>4. ASSUME NEW x \in Tasks, r = q, x \in Unlinked,
             \A n : n \in Unlinked' <=> n \in Unlinked /\ n # x
      PROVE  Promised!FifoNext
  <2>1. Unlinked' = Unlinked \ {x}
    BY <1>4
  <2>2. Promised!Link(x)
    BY <1>4, <2>1 DEF Promised!Link
  <2> QED
    BY <2>2 DEF Promised!FifoNext
<1>5. ASSUME NEW n \in Nat, Len(q) = n + 1, r = Tail(q), Unlinked' = Unlinked,
             q[1] # Stub => q[1] \notin Unlinked
      PROVE  Promised!FifoNext \/ UNCHANGED <<Contents, Unlinked>>
  <2>1. CASE q[1] = Stub
    <3>1. WithoutStub[r] = WithoutStub[q]
      BY <1>5, <2>1, StubFirst
    <3> QED
      BY <1>5, <3>1
  <2>2. CASE q[1] # Stub
    <3>1. Contents # <<>> /\ Head(Contents) = q[1] /\ Contents' = Tail(Contents)
      BY <1>5, <2>2, TaskFirst
    <3>2. Promised!Get
      BY <1>5, <2>2, <3>1 DEF Promised!Get
    <3> QED
      BY <3>2 DEF Promised!FifoNext
  <2> QED
    BY <2>1, <2>2
<1> QED
  BY <1>1, <1>2, <1>3, <1>4, <1>5 DEF ChainStep

\* push and pop implement the queue that Schedular is built on: the swap of the head puts
\* a task in, in an order that the links respect, and pop takes out the oldest, and only
\* one that is linked.
THEOREM QueueIsFifo == QueueSpec => ImplementsFifo
<1>1. QueueInit => Promised!FifoInit
  <2> SUFFICES ASSUME QueueInit PROVE Promised!FifoInit
    OBVIOUS
  <2>1. ChainInv(<<Stub>>)
    BY InitChain
  <2>2. Len(<<Stub>>) = 1 /\ <<Stub>>[1] = Stub
    OBVIOUS
  <2>3. \A i \in 1..Len(<<Stub>>) : <<Stub>>[i] = Stub
    BY <2>2
  <2>4. Contents = <<>>
    BY <2>1, <2>3, ContentsIs DEF ChainInv
  <2>5. \A t \in Threads : pc[t] # "link"
    BY QueueAssumption DEF QueueInit
  <2>6. Unlinked = {}
    BY <2>5 DEF Unlinked
  <2> QED
    BY <2>4, <2>6 DEF Promised!FifoInit
<1>2. (\A q : IsChain(q) =>
         /\ Contents = WithoutStub[q] /\ Different(q)
         /\ Contents = <<>> <=> \A i \in 1..Len(q) : q[i] = Stub)'
  BY ContentsIs, PTL
<1>3. QueueInv /\ [QueueNext]_vars => [Promised!FifoNext]_<<Contents, Unlinked>>
  <2> SUFFICES ASSUME QueueInv, [QueueNext]_vars
               PROVE  Promised!FifoNext \/ UNCHANGED <<Contents, Unlinked>>
    OBVIOUS
  <2>1. PICK q \in Seq(Nodes) : ChainInv(q)
    BY DEF QueueInv
  <2>2. Contents = WithoutStub[q] /\ Different(q)
    BY <2>1, ContentsIs DEF ChainInv
  <2>3. \E r : ChainInv(r)' /\ ChainStep(q, r)
    <3>1. CASE QueueNext
      BY <2>1, <3>1, StepKeeps DEF QueueInv
    <3>2. CASE UNCHANGED vars
      BY <2>1, <3>2, StutterKeeps DEF ChainStep
    <3> QED
      BY <3>1, <3>2
  <2>4. PICK r : ChainInv(r)' /\ ChainStep(q, r)
    BY <2>3
  <2>5. Contents' = WithoutStub[r]
    BY <1>2, <2>4 DEF ChainInv
  <2> QED
    BY <2>2, <2>4, <2>5, ChainStepIsFifo
<1> QED
  BY <1>1, <1>3, QueueInvariant, PTL DEF QueueSpec, ImplementsFifo, Promised!FifoSpec

\* The first two tasks of a chain.
LEMMA FirstTasks ==
  ASSUME NEW q, Different(q), NEW n \in Nat, Len(q) = n + 1, n >= 1, q[2] # Stub
  PROVE  /\ q[1] = Stub => Len(WithoutStub[q]) >= 1 /\ WithoutStub[q][1] = q[2]
         /\ q[1] # Stub => Len(WithoutStub[q]) >= 2 /\ WithoutStub[q][2] = q[2]
<1>1. CASE q[1] = Stub
  <2>1. 1 \in 1..(n + 1) /\ 1 \in 1..n /\ ~(1 < 1) /\ 1 + 1 = 2
    OBVIOUS
  <2>2. Len(WithoutStub[q]) = n /\ WithoutStub[q][1] = q[1 + 1]
    BY <1>1, <2>1, StubOut
  <2> QED
    BY <1>1, <2>1, <2>2
<1>2. CASE q[1] # Stub
  <2>1. CASE \A i \in 1..Len(q) : q[i] # Stub
    <3>1. WithoutStub[q] = q
      BY <2>1, AllTasks DEF Different
    <3> QED
      BY <1>2, <3>1
  <2>2. CASE \E i \in 1..Len(q) : q[i] = Stub
    <3>1. PICK j \in 1..(n + 1) : q[j] = Stub
      BY <2>2
    <3>2. j > 2 /\ n >= 2
      BY <1>2, <3>1
    <3>3. /\ Len(WithoutStub[q]) = n
          /\ \A i \in 1..n : WithoutStub[q][i] = IF i < j THEN q[i] ELSE q[i + 1]
      BY <3>1, StubOut
    <3>4. 2 \in 1..n /\ 2 < j
      BY <3>2
    <3> QED
      BY <1>2, <3>2, <3>3, <3>4
  <2> QED
    BY <2>1, <2>2
<1> QED
  BY <1>1, <1>2

\* pop answers Empty or Inconsistant only where Fifo allows it: Empty although tasks are
\* queued only if the push of the first or of the second of them is not linked.
THEOREM PopAnswersRight == QueueSpec => PopAnswersAllowed
<1>1. QueueInv => /\ PopEmpty => Promised!MayBeEmpty
                  /\ PopInconsistant => Promised!MayBeInconsistant
  <2> SUFFICES ASSUME QueueInv
               PROVE  /\ PopEmpty => Promised!MayBeEmpty
                      /\ PopInconsistant => Promised!MayBeInconsistant
    OBVIOUS
  <2>1. PICK q \in Seq(Nodes) : ChainInv(q)
    BY DEF QueueInv
  <2>2. /\ Contents = WithoutStub[q] /\ Different(q)
        /\ Contents = <<>> <=> \A i \in 1..Len(q) : q[i] = Stub
    BY <2>1, ContentsIs DEF ChainInv
  <2>3. WithoutStub[q] \in Seq(Nodes)
    BY <2>2, TasksOfChain
  <2>4. PICK n \in Nat : Len(q) = n + 1
    <3>1. Len(q) \in Nat /\ Len(q) >= 1
      BY <2>1, ChainFacts DEF ChainInv
    <3>2. Len(q) - 1 \in Nat /\ Len(q) = (Len(q) - 1) + 1
      BY <3>1
    <3> QED
      BY <3>2
  <2>5. ASSUME PopEmpty PROVE Promised!MayBeEmpty
    <3>1. CASE Len(q) = 1 /\ q[1] = Stub
      <4>1. \A i \in 1..Len(q) : q[i] = Stub
        BY <3>1
      <4> QED
        BY <2>2, <4>1 DEF Promised!MayBeEmpty
    <3>2. CASE /\ Len(q) >= 2 /\ q[2] \in Tasks
               /\ \E t \in Threads : pc[t] = "link" /\ node[t] = q[2]
      <4>1. q[2] \in Unlinked
        BY <3>2 DEF Unlinked
      <4>2. n >= 1 /\ q[2] # Stub
        BY <2>4, <3>2, QueueAssumption
      <4>3. \/ Len(Contents) >= 1 /\ Contents[1] = q[2]
            \/ Len(Contents) >= 2 /\ Contents[2] = q[2]
        BY <2>2, <2>4, <4>2, FirstTasks
      <4>4. DOMAIN Contents = 1..Len(Contents) /\ Len(Contents) \in Nat
        BY <2>2, <2>3, LenProperties
      <4>5. \E i \in DOMAIN Contents : i <= 2 /\ Contents[i] = q[2]
        BY <4>3, <4>4
      <4> QED
        BY <4>1, <4>5 DEF Promised!MayBeEmpty
    <3> QED
      BY <2>1, <2>5, <3>1, <3>2, EmptySeen DEF QueueInv
  <2>6. ASSUME PopInconsistant PROVE Promised!MayBeInconsistant
    <3>1. pc[Poller] = "head" /\ head # tail
      BY <2>6 DEF PopInconsistant
    <3>2. q[1] = tail /\ q[Len(q)] = head
      BY <2>1 DEF ChainInv, IsChain
    <3>3. tail # Stub /\ ~(Len(q) >= 2 /\ q[2] = Stub)
      BY <2>1, <3>1 DEF ChainInv, PollerAt
    <3>4. n # 0
      BY <2>4, <3>1, <3>2
    <3>5. n >= 1 /\ q[2] # Stub /\ q[1] # Stub
      BY <2>4, <3>2, <3>3, <3>4
    <3>6. Len(Contents) >= 2
      BY <2>2, <2>4, <3>5, FirstTasks
    <3> QED
      BY <3>6 DEF Promised!MayBeInconsistant
  <2> QED
    BY <2>5, <2>6
<1> QED
  BY <1>1, QueueInvariant, PTL DEF PopAnswersAllowed
=============================================================================
