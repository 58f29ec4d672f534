-------------------------- MODULE SchedularProofs --------------------------
(***************************************************************************)
(* Proofs about Schedular, for any number of threads and tasks.            *)
(***************************************************************************)
EXTENDS Schedular, FiniteSetTheorems, NaturalsInduction, SequenceTheorems, TLAPS

-----------------------------------------------------------------------------
(***************************************************************************)
(* The inductive invariant.                                                *)
(***************************************************************************)

BaseOps == {"poll", "clear", "drain", "free"} \cup TreeOps
TaskOps == {"drive", "waker", "remove", "future", "detach", "token", "requeue"}
FrameSet == [op : Ops \cup TreeOps, task : Tasks \cup {Null}]

In(q, x) == \E i \in 1..Len(q) : q[i] = x

\* In the calls c, respectively in those under way, op is called on the task t.
OnIn(c, op, t) == \E i \in 1..Len(c) : c[i].op = op /\ c[i].task = t
On(op, t) == OnIn(calls, op, t)

\* What may be below the call a, and what directly below it.  Of drive, remove and detach
\* there is one at most, with nothing between it and poll but the waker of the task that
\* is driven; of poll and clear of the root likewise, and they are not called by poll.
Above(a, b) ==
  /\ a.op \in BaseOps \cup {"waker"} => b.op \in BaseOps
  /\ a.op \in {"drive", "remove", "detach"} => b.op \in BaseOps \cup {"waker"}
  /\ b.op \notin {"remove", "token"}
  /\ a.op \in {"future", "requeue"} => ~(b.op = a.op /\ b.task = a.task)
  /\ a.op = "token" => ~(b.op = "requeue" /\ b.task = a.task)
  /\ a.op \in TreeOps => b.op \notin {"root", "rootClear", "poll"}
Upon(a, b) ==
  /\ a.op = "drive" => b.op = "waker" /\ b.task = a.task
  /\ a.op \in TaskOps \cup TreeOps => b.op \notin {"drain", "free"}

\* The call f may be made on top of the calls c.
MayCall(f, c) ==
  /\ \/ f.op \in BaseOps /\ f.task = Null
     \/ f.op \in TaskOps /\ f.task \in Tasks
  /\ \A i \in 1..Len(c) : Above(f, c[i])
  /\ IF Len(c) = 0 THEN f.op # "drive" ELSE Upon(f, c[1])

CallsNest(c) ==
  /\ \A i \in 1..Len(c) : \/ c[i].op \in BaseOps /\ c[i].task = Null
                          \/ c[i].op \in TaskOps /\ c[i].task \in Tasks
  /\ \A i, j \in 1..Len(c) : i < j => Above(c[i], c[j])
  /\ \A i \in 1..Len(c) : IF i = Len(c) THEN c[i].op # "drive" ELSE Upon(c[i], c[i + 1])

\* What a call says of its task.
CallsTell ==
  \A t \in Tasks :
    /\ On("drive", t) => task[t].done = "Running"
    /\ On("remove", t) => task[t].done \in {"Running", "Cancelled"}
    /\ On("detach", t) => task[t].done = "Done"
    /\ On("token", t) \/ On("requeue", t) => task[t].token = Null /\ task[t].done # "absent"
    /\ On("waker", t) => task[t].done # "absent"
    /\ On("future", t) <=> task[t].done \in {"Cancelled", "Done"} /\ task[t].dropped = 0
    /\ On("future", t) /\ task[t].done = "Done" => On("detach", t)

\* s is the list of all tasks, forwards and backwards.
IsList(s) ==
  /\ s \in Seq(Tasks) /\ list.len = Len(s)
  /\ \A i, j \in 1..Len(s) : s[i] = s[j] => i = j
  /\ list.next = IF Len(s) = 0 THEN Null ELSE s[1]
  /\ list.prev = IF Len(s) = 0 THEN Null ELSE s[Len(s)]
  /\ \A i \in 1..Len(s) :
       /\ task[s[i]].next = IF i = Len(s) THEN Null ELSE s[i + 1]
       /\ task[s[i]].prev = IF i = 1 THEN Null ELSE s[i - 1]

Listed(s) ==
  \A t \in Tasks : In(s, t) <=> task[t].done \in {"Running", "Cancelled"} \/ On("detach", t)

\* The list has the youngest task first.  The future that holds the token of a task is
\* older, and so is every future below the calls for a token.
OlderBelow(f, c, s) ==
  f.op \in {"token", "future"} =>
    \A k \in 1..Len(c), i, j \in 1..Len(s) :
      c[k].op \in {"drive", "future"} /\ f.task = s[i] /\ c[k].task = s[j] => i < j
Nested(c, s) ==
  \A m, k \in 1..Len(c), i, j \in 1..Len(s) :
    /\ m < k /\ c[m].op \in {"token", "future"} /\ c[k].op \in {"drive", "future"}
    /\ c[m].task = s[i] /\ c[k].task = s[j]
    => i < j
HolderOlder(s) == \A i, j \in 1..Len(s) : task[s[i]].token = s[j] => i < j

\* The future that holds the token of a running task is not dropped yet.
HolderKnown ==
  \A t \in Tasks : task[t].done = "Running" =>
    \/ task[t].token = Outside \/ On("token", t)
    \/ /\ task[t].token \in Tasks
       /\ task[task[t].token].done = "Running" \/ On("future", task[t].token)

EmptyAtEnd(s) ==
  /\ ~live => Len(s) = 0
  /\ Len(calls) >= 1 /\ calls[1].op \in {"drain", "free"} => Len(s) = 0

Core(s) ==
  /\ CallsNest(calls) /\ CallsTell
  /\ IsList(s) /\ Listed(s) /\ HolderOlder(s) /\ Nested(calls, s)
  /\ HolderKnown /\ EmptyAtEnd(s)

TasksTell ==
  \A t \in Tasks :
    /\ task[t].dropped \in {0, 1}
    /\ task[t].done \in {"absent", "Running"} => task[t].dropped = 0
    /\ task[t].done = "Cancelled" => task[t].cancelled
    /\ task[t].cancelled => task[t].done # "Running"
    /\ task[t].token \in Tasks => task[task[t].token].done # "absent"
    /\ task[t].done = "absent" =>
         /\ task[t].token = Null /\ task[t].wakers = 0
         /\ ~task[t].queued /\ ~task[t].cancelled

\* Who has marked a task as queued: it is in the queue, or one thread is on the way to put
\* it there.
Marked ==
  /\ \A i, j \in 1..Len(fifo) : fifo[i] = fifo[j] => i = j
  /\ \A i \in 1..Len(fifo) : task[fifo[i]].queued
  /\ \A th \in Threads :
       /\ thread[th].pc \in {"idle", "wake"} => thread[th].job = Null
       /\ thread[th].pc \in {"upgrade", "push", "link"} =>
            thread[th].job \in Tasks /\ task[thread[th].job].queued
       /\ thread[th].pc \in {"upgrade", "push"} => ~In(fifo, thread[th].job)
       /\ thread[th].pc = "link" => thread[th].job \in linking
  /\ \A th, u \in Threads : thread[th].job = thread[u].job /\ thread[th].job # Null => th = u
  /\ \A t \in linking :
       In(fifo, t) /\ \E th \in Threads : thread[th].pc = "link" /\ thread[th].job = t

\* Owners, with the list s.
TokenOut(t) == task[t].token # Null \/ On("token", t) \/ On("requeue", t)
Waking(t) == \E th \in Threads : thread[th].job = t /\ thread[th].pc # "link"
OwnersIn(s, t) ==
  One(In(s, t)) + One(In(fifo, t)) + One(TokenOut(t)) + task[t].wakers + One(Waking(t))
    + One(On("waker", t))

\* poll may have lost the count that the queue had of a task: the task was cancelled and
\* has left the queue, and its mark keeps it from going there again.
Skipped(t) == task[t].cancelled /\ task[t].queued /\ ~In(fifo, t) /\ ~Waking(t)

Counted(s) ==
  \A t \in Tasks :
    /\ task[t].count >= OwnersIn(s, t) /\ task[t].count <= OwnersIn(s, t) + 1
    /\ ~Skipped(t) => task[t].count = OwnersIn(s, t)

\* The types, without the bound on the length of the list.
Typed ==
  /\ task \in [Tasks -> TaskRecords]
  /\ list \in [next : Tasks \cup {Null}, prev : Tasks \cup {Null}, len : Nat]
  /\ calls \in Seq(FrameSet)
  /\ turn \in [iteration : Nat, yielded : 0..2]
  /\ registered \in BOOLEAN /\ woken \in BOOLEAN /\ live \in BOOLEAN
  /\ thread \in [Threads -> [pc : {"idle", "upgrade", "push", "link", "wake"},
                             job : Tasks \cup {Null}]]
  /\ fifo \in Seq(Tasks) /\ linking \in SUBSET Tasks

InvAt(s) == Core(s) /\ TasksTell /\ Marked /\ Counted(s)

SchedInv == Typed /\ \E s \in Seq(Tasks) : InvAt(s)

-----------------------------------------------------------------------------
\* One entry of a function gets another value.
LEMMA OneEntry ==
  ASSUME NEW S, NEW R, NEW f \in [S -> R], NEW k \in S, NEW n \in R
  PROVE  /\ [f EXCEPT ![k] = n] \in [S -> R] /\ [f EXCEPT ![k] = n][k] = n
         /\ \A x \in S : x # k => [f EXCEPT ![k] = n][x] = f[x]
OBVIOUS

-----------------------------------------------------------------------------
(***************************************************************************)
(* The calls under way.                                                    *)
(***************************************************************************)

\* A call on top of others.
LEMMA ConsFacts ==
  ASSUME NEW r \in Seq(FrameSet), NEW f \in FrameSet
  PROVE  /\ Cons(f, r) \in Seq(FrameSet) /\ Cons(f, r) # <<>>
         /\ Len(r) \in Nat /\ Len(Cons(f, r)) = Len(r) + 1 /\ Cons(f, r)[1] = f
         /\ \A i \in 1..Len(r) : Cons(f, r)[i + 1] = r[i]
<1>1. <<f>> \in Seq(FrameSet) /\ Len(<<f>>) = 1 /\ <<f>>[1] = f
  OBVIOUS
<1>2. Len(r) \in Nat
  BY LenProperties
<1>3. /\ <<f>> \o r \in Seq(FrameSet)
      /\ Len(<<f>> \o r) = Len(<<f>>) + Len(r)
      /\ \A i \in 1..(Len(<<f>>) + Len(r)) :
           (<<f>> \o r)[i] = IF i <= Len(<<f>>) THEN <<f>>[i] ELSE r[i - Len(<<f>>)]
  BY <1>1, ConcatProperties
<1> DEFINE c == <<f>> \o r
<1>4. /\ c \in Seq(FrameSet) /\ Len(c) = 1 + Len(r)
      /\ \A i \in 1..(1 + Len(r)) : c[i] = IF i <= 1 THEN <<f>>[i] ELSE r[i - 1]
  BY <1>1, <1>3
<1> HIDE DEF c
<1>5. c[1] = f /\ Len(c) = Len(r) + 1 /\ \A i \in 1..Len(r) : c[i + 1] = r[i]
  BY <1>1, <1>2, <1>4
<1>6. c # <<>>
  BY <1>2, <1>4
<1>7. c = Cons(f, r)
  BY DEF c, Cons
<1> QED
  BY <1>2, <1>4, <1>5, <1>6, <1>7

\* What is on: the call on top or one below it.
LEMMA OnCons ==
  ASSUME NEW r \in Seq(FrameSet), NEW f \in FrameSet, NEW op, NEW t
  PROVE  OnIn(Cons(f, r), op, t) <=> (f.op = op /\ f.task = t) \/ OnIn(r, op, t)
<1> DEFINE c == Cons(f, r)
<1>1. /\ Len(r) \in Nat /\ Len(c) = Len(r) + 1 /\ c[1] = f
      /\ \A i \in 1..Len(r) : c[i + 1] = r[i]
  BY ConsFacts
<1> HIDE DEF c
<1>2. ASSUME OnIn(c, op, t) PROVE (f.op = op /\ f.task = t) \/ OnIn(r, op, t)
  <2>1. PICK i \in 1..Len(c) : c[i].op = op /\ c[i].task = t
    BY <1>2 DEF OnIn
  <2>2. CASE i = 1
    BY <1>1, <2>1, <2>2
  <2>3. CASE i # 1
    <3>1. i - 1 \in 1..Len(r) /\ c[(i - 1) + 1] = c[i]
      BY <1>1, <2>3
    <3>2. r[i - 1] = c[i]
      BY <1>1, <3>1
    <3> QED
      BY <2>1, <3>1, <3>2 DEF OnIn
  <2> QED
    BY <2>2, <2>3
<1>3. ASSUME f.op = op, f.task = t PROVE OnIn(c, op, t)
  <2>1. 1 \in 1..Len(c)
    BY <1>1
  <2> QED
    BY <1>1, <1>3, <2>1 DEF OnIn
<1>4. ASSUME OnIn(r, op, t) PROVE OnIn(c, op, t)
  <2>1. PICK i \in 1..Len(r) : r[i].op = op /\ r[i].task = t
    BY <1>4 DEF OnIn
  <2>2. i + 1 \in 1..Len(c) /\ c[i + 1] = r[i]
    BY <1>1
  <2> QED
    BY <2>1, <2>2 DEF OnIn
<1> QED
  BY <1>2, <1>3, <1>4 DEF c

\* Calls nest if the ones below do and the one on top may be made on them.
LEMMA NestCons ==
  ASSUME NEW r \in Seq(FrameSet), NEW f \in FrameSet
  PROVE  CallsNest(Cons(f, r)) <=> CallsNest(r) /\ MayCall(f, r)
<1> DEFINE c == Cons(f, r)
<1>1. PICK n \in Nat : n = Len(r)
  BY LenProperties
<1>2. /\ Len(r) = n /\ Len(c) = n + 1 /\ c[1] = f
      /\ \A i \in 1..n : c[i + 1] = r[i]
  BY <1>1, ConsFacts
<1> HIDE DEF c
<1>3. \A i \in 1..(n + 1) : i = 1 \/ (i - 1 \in 1..n /\ c[i] = r[i - 1])
  <2> SUFFICES ASSUME NEW i \in 1..(n + 1), i # 1 PROVE i - 1 \in 1..n /\ c[i] = r[i - 1]
    OBVIOUS
  <2>1. i - 1 \in 1..n /\ (i - 1) + 1 = i
    OBVIOUS
  <2> QED
    BY <1>2, <2>1
<1>4. ASSUME CallsNest(c) PROVE CallsNest(r) /\ MayCall(f, r)
  <2>1. \A i \in 1..n : i + 1 \in 1..(n + 1) /\ (i + 1 = n + 1 <=> i = n) /\ 1 < i + 1
    OBVIOUS
  <2>2. \A i \in 1..n : \/ r[i].op \in BaseOps /\ r[i].task = Null
                        \/ r[i].op \in TaskOps /\ r[i].task \in Tasks
    BY <1>2, <1>4, <2>1 DEF CallsNest
  <2>3. \A i, j \in 1..n : i < j => Above(r[i], r[j])
    <3> SUFFICES ASSUME NEW i \in 1..n, NEW j \in 1..n, i < j PROVE Above(r[i], r[j])
      OBVIOUS
    <3>1. i + 1 < j + 1 /\ i + 1 \in 1..(n + 1) /\ j + 1 \in 1..(n + 1)
      OBVIOUS
    <3>2. Above(c[i + 1], c[j + 1])
      BY <1>2, <1>4, <3>1 DEF CallsNest
    <3> QED
      BY <1>2, <3>2
  <2>4. \A i \in 1..n : IF i = n THEN r[i].op # "drive" ELSE Upon(r[i], r[i + 1])
    <3> SUFFICES ASSUME NEW i \in 1..n
                 PROVE  IF i = n THEN r[i].op # "drive" ELSE Upon(r[i], r[i + 1])
      OBVIOUS
    <3>1. IF i + 1 = n + 1 THEN c[i + 1].op # "drive" ELSE Upon(c[i + 1], c[(i + 1) + 1])
      BY <1>2, <1>4, <2>1 DEF CallsNest
    <3>2. i # n => i + 1 \in 1..n
      OBVIOUS
    <3> QED
      BY <1>2, <2>1, <3>1, <3>2
  <2>5. 1 \in 1..(n + 1)
    OBVIOUS
  <2>6. \/ f.op \in BaseOps /\ f.task = Null
        \/ f.op \in TaskOps /\ f.task \in Tasks
    BY <1>2, <1>4, <2>5 DEF CallsNest
  <2>7. \A i \in 1..n : Above(f, r[i])
    <3> SUFFICES ASSUME NEW i \in 1..n PROVE Above(f, r[i])
      OBVIOUS
    <3>1. Above(c[1], c[i + 1])
      BY <1>2, <1>4, <2>1, <2>5 DEF CallsNest
    <3> QED
      BY <1>2, <3>1
  <2>8. IF n = 0 THEN f.op # "drive" ELSE Upon(f, r[1])
    <3>1. IF 1 = n + 1 THEN c[1].op # "drive" ELSE Upon(c[1], c[1 + 1])
      BY <1>2, <1>4, <2>5 DEF CallsNest
    <3>2. n # 0 => 1 \in 1..n
      OBVIOUS
    <3> QED
      BY <1>2, <3>1, <3>2
  <2> QED
    BY <1>2, <2>2, <2>3, <2>4, <2>6, <2>7, <2>8 DEF CallsNest, MayCall
<1>5. ASSUME CallsNest(r), MayCall(f, r) PROVE CallsNest(c)
  <2>1. \A i \in 1..(n + 1) : \/ c[i].op \in BaseOps /\ c[i].task = Null
                              \/ c[i].op \in TaskOps /\ c[i].task \in Tasks
    BY <1>2, <1>3, <1>5 DEF CallsNest, MayCall
  <2>2. ASSUME NEW i \in 1..(n + 1), NEW j \in 1..(n + 1), i < j PROVE Above(c[i], c[j])
    <3>1. j - 1 \in 1..n /\ c[j] = r[j - 1]
      BY <1>3, <2>2
    <3>2. CASE i = 1
      BY <1>2, <1>5, <3>1, <3>2 DEF MayCall
    <3>3. CASE i # 1
      <4>1. i - 1 \in 1..n /\ c[i] = r[i - 1] /\ i - 1 < j - 1
        BY <1>3, <2>2, <3>3
      <4> QED
        BY <1>2, <1>5, <3>1, <4>1 DEF CallsNest
    <3> QED
      BY <3>2, <3>3
  <2>3. ASSUME NEW i \in 1..(n + 1)
        PROVE  IF i = n + 1 THEN c[i].op # "drive" ELSE Upon(c[i], c[i + 1])
    <3>1. CASE i = 1
      <4>1. n # 0 => 1 \in 1..n /\ c[i + 1] = r[1]
        BY <1>2, <3>1
      <4> QED
        BY <1>2, <1>5, <3>1, <4>1 DEF MayCall
    <3>2. CASE i # 1
      <4>1. i - 1 \in 1..n /\ c[i] = r[i - 1] /\ (i = n + 1 <=> i - 1 = n)
        BY <1>3, <3>2
      <4>2. i # n + 1 => i \in 1..n /\ c[i + 1] = r[i] /\ (i - 1) + 1 = i
        BY <1>2, <3>2
      <4>3. IF i - 1 = n THEN r[i - 1].op # "drive" ELSE Upon(r[i - 1], r[(i - 1) + 1])
        BY <1>2, <1>5, <4>1 DEF CallsNest
      <4> QED
        BY <4>1, <4>2, <4>3
    <3> QED
      BY <3>1, <3>2
  <2> QED
    BY <1>2, <2>1, <2>2, <2>3 DEF CallsNest
<1> QED
  BY <1>4, <1>5 DEF c

\* The same for the ages of the tasks that are called.
LEMMA NestedCons ==
  ASSUME NEW r \in Seq(FrameSet), NEW f \in FrameSet, NEW s \in Seq(Tasks)
  PROVE  Nested(Cons(f, r), s) <=> Nested(r, s) /\ OlderBelow(f, r, s)
<1> DEFINE c == Cons(f, r)
<1>1. PICK n \in Nat : n = Len(r)
  BY LenProperties
<1>2. /\ Len(r) = n /\ Len(c) = n + 1 /\ c[1] = f
      /\ \A i \in 1..n : c[i + 1] = r[i]
  BY <1>1, ConsFacts
<1> HIDE DEF c
<1>3. \A i \in 1..n : i + 1 \in 1..(n + 1) /\ 1 < i + 1 /\ 1 \in 1..(n + 1)
  OBVIOUS
<1>4. ASSUME Nested(c, s) PROVE Nested(r, s)
  <2> SUFFICES ASSUME NEW m \in 1..n, NEW k \in 1..n, NEW i \in 1..Len(s), NEW j \in 1..Len(s),
                      m < k, r[m].op \in {"token", "future"}, r[k].op \in {"drive", "future"},
                      r[m].task = s[i], r[k].task = s[j]
               PROVE  i < j
    BY <1>2 DEF Nested
  <2>1. m + 1 \in 1..(n + 1) /\ k + 1 \in 1..(n + 1) /\ m + 1 < k + 1
    OBVIOUS
  <2>2. c[m + 1] = r[m] /\ c[k + 1] = r[k]
    BY <1>2
  <2> QED
    BY <1>2, <1>4, <2>1, <2>2 DEF Nested
<1>5. ASSUME Nested(c, s) PROVE OlderBelow(f, r, s)
  <2> SUFFICES ASSUME f.op \in {"token", "future"},
                      NEW k \in 1..n, NEW i \in 1..Len(s), NEW j \in 1..Len(s),
                      r[k].op \in {"drive", "future"}, f.task = s[i], r[k].task = s[j]
               PROVE  i < j
    BY <1>2 DEF OlderBelow
  <2>1. 1 \in 1..(n + 1) /\ k + 1 \in 1..(n + 1) /\ 1 < k + 1 /\ c[1] = f /\ c[k + 1] = r[k]
    BY <1>2, <1>3
  <2> QED
    BY <1>2, <1>5, <2>1 DEF Nested
<1>6. ASSUME Nested(r, s), OlderBelow(f, r, s) PROVE Nested(c, s)
  <2> SUFFICES ASSUME NEW m \in 1..(n + 1), NEW k \in 1..(n + 1),
                      NEW i \in 1..Len(s), NEW j \in 1..Len(s),
                      m < k, c[m].op \in {"token", "future"}, c[k].op \in {"drive", "future"},
                      c[m].task = s[i], c[k].task = s[j]
               PROVE  i < j
    BY <1>2 DEF Nested
  <2>1. k - 1 \in 1..n /\ c[(k - 1) + 1] = r[k - 1] /\ (k - 1) + 1 = k
    BY <1>2
  <2>2. CASE m = 1
    BY <1>2, <1>6, <2>1, <2>2 DEF OlderBelow
  <2>3. CASE m # 1
    <3>1. m - 1 \in 1..n /\ c[(m - 1) + 1] = r[m - 1] /\ (m - 1) + 1 = m /\ m - 1 < k - 1
      BY <1>2, <2>3
    <3>2. r[m - 1] = c[m] /\ r[k - 1] = c[k]
      BY <2>1, <3>1
    <3>3. \A y, z \in 1..n, p, q \in 1..Len(s) :
            /\ y < z /\ r[y].op \in {"token", "future"} /\ r[z].op \in {"drive", "future"}
            /\ r[y].task = s[p] /\ r[z].task = s[q]
            => p < q
      BY <1>2, <1>6 DEF Nested
    <3> QED
      BY <2>1, <3>1, <3>2, <3>3
  <2> QED
    BY <2>2, <2>3
<1> QED
  BY <1>4, <1>5, <1>6 DEF c

\* What Frame gives.
LEMMA FrameFacts ==
  ASSUME NEW op \in Ops \cup TreeOps, NEW t \in Tasks \cup {Null}
  PROVE  Frame(op, t) \in FrameSet /\ Frame(op, t).op = op /\ Frame(op, t).task = t
BY DEF Frame, FrameSet

\* The call on top and the calls below it.
LEMMA RunningIs ==
  ASSUME calls \in Seq(FrameSet), NEW op, NEW t, Running(op, t)
  PROVE  /\ Frame(op, t) \in FrameSet /\ Frame(op, t).op = op /\ Frame(op, t).task = t
         /\ Tail(calls) \in Seq(FrameSet) /\ calls = Cons(Frame(op, t), Tail(calls))
<1> DEFINE f == Frame(op, t)
           r == Tail(calls)
           c == Cons(f, r)
<1>1. calls # <<>> /\ Head(calls) = f
  BY DEF Running
<1>2. f = calls[1] /\ r \in Seq(FrameSet) /\ Len(r) = Len(calls) - 1
      /\ Len(calls) \in Nat /\ Len(calls) >= 1
  BY <1>1, HeadTailProperties, LenProperties, EmptySeq
<1>3. f \in FrameSet
  BY <1>2, ElementOfSeq
<1>4. /\ c \in Seq(FrameSet) /\ Len(c) = Len(r) + 1 /\ c[1] = f
      /\ \A i \in 1..Len(r) : c[i + 1] = r[i]
  BY <1>2, <1>3, ConsFacts
<1>5. \A i \in 1..Len(r) : r[i] = calls[i + 1]
  BY <1>1, <1>2, HeadTailProperties
<1> HIDE DEF c, r
<1>6. ASSUME NEW i \in 1..Len(c) PROVE c[i] = calls[i]
  <2>1. CASE i = 1
    BY <1>2, <1>4, <2>1
  <2>2. CASE i # 1
    <3>1. i - 1 \in 1..Len(r) /\ (i - 1) + 1 = i
      BY <1>2, <1>4, <2>2
    <3> QED
      BY <1>4, <1>5, <3>1
  <2> QED
    BY <2>1, <2>2
<1>7. c = calls
  BY <1>2, <1>4, <1>6, SeqEqual
<1>8. f.op = op /\ f.task = t
  BY DEF Frame
<1> QED
  BY <1>2, <1>3, <1>7, <1>8 DEF c, r

\* The calls that Calls and Become leave, one by one.
LEMMA ConcatIs ==
  ASSUME NEW r \in Seq(FrameSet), NEW f \in FrameSet, NEW g \in FrameSet
  PROVE  /\ <<>> \o r = r /\ <<f>> \o r = Cons(f, r)
         /\ <<f, g>> \o r = Cons(f, Cons(g, r))
         /\ <<>> \in Seq(FrameSet) /\ <<f>> = Cons(f, <<>>) /\ <<f, g>> = Cons(f, Cons(g, <<>>))
<1>1. <<>> \o r = r /\ <<f>> \o r = Cons(f, r)
  BY DEF Cons
<1>2. ASSUME NEW c \in Seq(FrameSet) PROVE <<f, g>> \o c = Cons(f, Cons(g, c))
  <2>1. <<f, g>> = <<f>> \o <<g>>
    <3> DEFINE a == <<f, g>>
               b == <<f>> \o <<g>>
    <3>1. a \in Seq(FrameSet) /\ Len(a) = 2 /\ a[1] = f /\ a[2] = g
      OBVIOUS
    <3>2. <<g>> \in Seq(FrameSet) /\ Len(<<g>>) = 1 /\ <<g>>[1] = g
      OBVIOUS
    <3>3. b = Cons(f, <<g>>)
      BY DEF Cons
    <3>4. b \in Seq(FrameSet) /\ Len(b) = 2 /\ b[1] = f /\ b[1 + 1] = g
      BY <3>2, <3>3, ConsFacts
    <3> HIDE DEF a, b
    <3>5. \A i \in 1..2 : a[i] = b[i]
      BY <3>1, <3>4
    <3>6. a = b
      BY <3>1, <3>4, <3>5, SeqEqual
    <3> QED
      BY <3>6 DEF a, b
  <2>2. (<<f>> \o <<g>>) \o c = <<f>> \o (<<g>> \o c)
    BY ConcatAssociative
  <2> QED
    BY <2>1, <2>2 DEF Cons
<1>3. <<>> \in Seq(FrameSet) /\ <<f>> \o <<>> = <<f>> /\ <<f, g>> \o <<>> = <<f, g>>
  BY ConcatEmptySeq
<1>4. <<f>> = Cons(f, <<>>)
  BY <1>3 DEF Cons
<1> QED
  BY <1>1, <1>2, <1>3, <1>4

\* No calls at all.
LEMMA NoCalls ==
  /\ CallsNest(<<>>) /\ \A s : Nested(<<>>, s)
  /\ \A op, t : ~OnIn(<<>>, op, t)
  /\ \A f : OlderBelow(f, <<>>, <<>>)
<1>1. Len(<<>>) = 0
  OBVIOUS
<1> QED
  BY <1>1 DEF CallsNest, Nested, OnIn, OlderBelow

\* What is left of a task that a step does not touch, as far as Core is concerned.
SameTask(t) ==
  /\ task'[t].done = task[t].done /\ task'[t].dropped = task[t].dropped
  /\ task'[t].token = task[t].token
  /\ task'[t].next = task[t].next /\ task'[t].prev = task[t].prev

\* A step that changes the calls only.
LEMMA CallsChange ==
  ASSUME NEW s, Core(s), UNCHANGED list, ~live' => Len(s) = 0,
         \A t \in Tasks : SameTask(t),
         CallsNest(calls'), Nested(calls', s),
         \A t \in Tasks :
           /\ On("future", t)' <=> On("future", t)
           /\ On("detach", t)' <=> On("detach", t)
           /\ On("token", t)' => On("token", t)
           /\ On("requeue", t)' => On("requeue", t)
           /\ On("token", t) /\ task[t].done = "Running" => On("token", t)'
           /\ On("drive", t)' => task[t].done = "Running"
           /\ On("remove", t)' => task[t].done \in {"Running", "Cancelled"}
           /\ On("waker", t)' => task[t].done # "absent",
         Len(calls') >= 1 /\ calls'[1].op \in {"drain", "free"} => Len(s) = 0
  PROVE  Core(s)'
<1>1. CallsTell'
  BY DEF Core, CallsTell, SameTask
<1>2. \A i \in 1..Len(s) : s[i] \in Tasks
  BY ElementOfSeq DEF Core, IsList
<1>3. IsList(s)'
  BY <1>2 DEF Core, IsList, SameTask
<1>4. Listed(s)'
  BY DEF Core, Listed, SameTask
<1>5. HolderOlder(s)'
  BY <1>2 DEF Core, HolderOlder, SameTask
<1>6. HolderKnown'
  BY DEF Core, HolderKnown, SameTask
<1>7. EmptyAtEnd(s)'
  BY DEF Core, EmptyAtEnd
<1> QED
  BY <1>1, <1>3, <1>4, <1>5, <1>6, <1>7 DEF Core

\* A step that leaves the calls and all that Core is about.
LEMMA CoreKept ==
  ASSUME NEW s, Core(s), UNCHANGED <<calls, list, live>>, \A t \in Tasks : SameTask(t)
  PROVE  Core(s)'
<1>1. \A op, t : On(op, t)' <=> On(op, t)
  BY DEF On, OnIn
<1>2. CallsNest(calls') /\ Nested(calls', s)
  BY DEF Core
<1>3. /\ ~live' => Len(s) = 0
      /\ Len(calls') >= 1 /\ calls'[1].op \in {"drain", "free"} => Len(s) = 0
  BY DEF Core, EmptyAtEnd
<1>4. CallsTell
  BY DEF Core
<1> QED
  BY <1>1, <1>2, <1>3, <1>4, CallsChange DEF CallsTell

-----------------------------------------------------------------------------
(***************************************************************************)
(* The queue and the marks.                                                *)
(***************************************************************************)

\* A step that leaves the queue and the threads and takes no mark away.
LEMMA MarkedKept ==
  ASSUME Typed, Marked, UNCHANGED <<fifo, linking, thread>>,
         \A t \in Tasks : task[t].queued => task'[t].queued
  PROVE  Marked'
<1>1. \A i \in 1..Len(fifo) : fifo[i] \in Tasks
  BY ElementOfSeq DEF Typed
<1> QED
  BY <1>1 DEF Marked, In

\* The first of the queue is taken.
LEMMA Got ==
  ASSUME Typed, Marked, Get
  PROVE  /\ Head(fifo) \in Tasks /\ fifo' \in Seq(Tasks) /\ linking' = linking
         /\ In(fifo, Head(fifo)) /\ ~In(fifo', Head(fifo)) /\ task[Head(fifo)].queued
         /\ \A x : x # Head(fifo) => (In(fifo', x) <=> In(fifo, x))
         /\ \A i, j \in 1..Len(fifo') : fifo'[i] = fifo'[j] => i = j
         /\ \A th \in Threads : thread[th].job # Head(fifo)
<1> DEFINE h == Head(fifo)
<1>1. fifo \in Seq(Tasks) /\ fifo # <<>> /\ fifo' = Tail(fifo) /\ h \notin linking /\ linking' = linking
  BY DEF Typed, Get
<1>2. PICK n \in Nat : Len(fifo) = n + 1
  <2>1. Len(fifo) \in Nat /\ Len(fifo) # 0
    BY <1>1, LenProperties, EmptySeq
  <2>2. Len(fifo) - 1 \in Nat /\ Len(fifo) = (Len(fifo) - 1) + 1
    BY <2>1
  <2> QED
    BY <2>2
<1>3. fifo[1] = h /\ fifo' \in Seq(Tasks) /\ Len(fifo') = Len(fifo) - 1
  BY <1>1, HeadTailProperties
<1>4. \A i \in 1..Len(fifo') : fifo'[i] = fifo[i + 1]
  BY <1>1, HeadTailProperties
<1>5. 1 \in 1..Len(fifo) /\ Len(fifo') = n /\ \A i \in 1..n : i + 1 \in 1..Len(fifo) /\ i + 1 # 1
  BY <1>2, <1>3
<1>6. h \in Tasks
  BY <1>1, <1>3, <1>5, ElementOfSeq
<1>7. \A i, j \in 1..Len(fifo) : fifo[i] = fifo[j] => i = j
  BY DEF Marked
<1>8. ASSUME In(fifo', h) PROVE FALSE
  <2>1. PICK i \in 1..n : fifo'[i] = h
    BY <1>5, <1>8 DEF In
  <2>2. fifo[i + 1] = fifo[1]
    BY <1>3, <1>4, <1>5, <2>1
  <2> QED
    BY <1>5, <1>7, <2>2
<1>9. ASSUME NEW x, x # h, In(fifo, x) PROVE In(fifo', x)
  <2>1. PICK i \in 1..(n + 1) : fifo[i] = x
    BY <1>2, <1>9 DEF In
  <2>2. i # 1
    BY <1>3, <1>9, <2>1
  <2>3. i - 1 \in 1..n /\ (i - 1) + 1 = i
    BY <2>2
  <2>4. fifo'[i - 1] = x
    BY <1>4, <1>5, <2>1, <2>3
  <2> QED
    BY <1>5, <2>3, <2>4 DEF In
<1>10. ASSUME NEW x, In(fifo', x) PROVE In(fifo, x)
  <2>1. PICK i \in 1..n : fifo'[i] = x
    BY <1>5, <1>10 DEF In
  <2>2. fifo[i + 1] = x
    BY <1>4, <1>5, <2>1
  <2> QED
    BY <1>5, <2>2 DEF In
<1>11. ASSUME NEW i \in 1..n, NEW j \in 1..n, fifo'[i] = fifo'[j] PROVE i = j
  <2>1. fifo[i + 1] = fifo[j + 1]
    BY <1>4, <1>5, <1>11
  <2>2. i + 1 = j + 1
    BY <1>5, <1>7, <2>1
  <2> QED
    BY <2>2
<1>12. In(fifo, h) /\ task[h].queued
  BY <1>3, <1>5 DEF In, Marked
<1>13. ASSUME NEW th \in Threads, thread[th].job = h PROVE FALSE
  <2>1. h # Null
    BY <1>6, SchedularAssumption
  <2>2. thread[th].pc \in {"idle", "upgrade", "push", "link", "wake"}
    BY DEF Typed
  <2> QED
    BY <1>1, <1>12, <1>13, <2>1, <2>2 DEF Marked
<1> QED
  BY <1>1, <1>3, <1>5, <1>6, <1>8, <1>9, <1>10, <1>11, <1>12, <1>13

\* After that the marks are right whether or not the mark of the first is taken away.
LEMMA MarkedGot ==
  ASSUME Typed, Marked, Get, UNCHANGED thread,
         \A t \in Tasks : t # Head(fifo) /\ task[t].queued => task'[t].queued
  PROVE  Marked'
<1> DEFINE h == Head(fifo)
<1>1. /\ fifo' \in Seq(Tasks) /\ linking' = linking /\ ~In(fifo', h)
      /\ \A x : x # h => (In(fifo', x) <=> In(fifo, x))
      /\ \A i, j \in 1..Len(fifo') : fifo'[i] = fifo'[j] => i = j
      /\ \A th \in Threads : thread[th].job # h
  BY Got
<1>2. h \notin linking
  BY DEF Get
<1>3. \A i \in 1..Len(fifo') : fifo'[i] \in Tasks
  BY <1>1, ElementOfSeq
<1> HIDE DEF h
<1>4. \A x \in Tasks : In(fifo, x) => task[x].queued
  BY DEF Marked, In
<1>5. ASSUME NEW i \in 1..Len(fifo') PROVE task'[fifo'[i]].queued
  <2>1. In(fifo', fifo'[i])
    BY DEF In
  <2> QED
    BY <1>1, <1>3, <1>4, <2>1 DEF h
<1>6. \A th \in Threads :
       /\ thread[th].pc \in {"idle", "wake"} => thread[th].job = Null
       /\ thread[th].pc \in {"upgrade", "push", "link"} =>
            thread[th].job \in Tasks /\ task'[thread[th].job].queued
       /\ thread[th].pc \in {"upgrade", "push"} => ~In(fifo', thread[th].job)
       /\ thread[th].pc = "link" => thread[th].job \in linking'
  BY <1>1 DEF Marked, h
<1>7. \A t \in linking' :
        In(fifo', t) /\ \E th \in Threads : thread[th].pc = "link" /\ thread[th].job = t
  BY <1>1, <1>2 DEF Marked
<1>8. \A th, u \in Threads : thread[th].job = thread[u].job /\ thread[th].job # Null => th = u
  BY DEF Marked
<1> QED
  BY <1>1, <1>5, <1>6, <1>7, <1>8 DEF Marked

\* A task that is not marked is put into the queue.
LEMMA PutLast ==
  ASSUME Typed, Marked, NEW x \in Tasks, ~In(fifo, x), fifo' = Append(fifo, x)
  PROVE  /\ fifo' \in Seq(Tasks) /\ In(fifo', x)
         /\ \A y : y # x => (In(fifo', y) <=> In(fifo, y))
         /\ \A i, j \in 1..Len(fifo') : fifo'[i] = fifo'[j] => i = j
<1>1. PICK n \in Nat : Len(fifo) = n
  BY LenProperties DEF Typed
<1>2. /\ fifo' \in Seq(Tasks) /\ Len(fifo') = n + 1 /\ fifo'[n + 1] = x
      /\ \A i \in 1..n : fifo'[i] = fifo[i]
  BY <1>1, AppendProperties DEF Typed
<1>3. \A i \in 1..(n + 1) : i = n + 1 \/ i \in 1..n
  OBVIOUS
<1>4. \A i \in 1..n : i \in 1..(n + 1) /\ fifo[i] # x
  BY <1>1 DEF In
<1>5. n + 1 \in 1..(n + 1)
  OBVIOUS
<1>6. In(fifo', x)
  BY <1>2, <1>5 DEF In
<1>7. ASSUME NEW y, y # x PROVE In(fifo', y) <=> In(fifo, y)
  BY <1>1, <1>2, <1>3, <1>4, <1>7 DEF In
<1>8. \A i, j \in 1..n : fifo[i] = fifo[j] => i = j
  BY <1>1 DEF Marked
<1>9. \A i, j \in 1..(n + 1) : fifo'[i] = fifo'[j] => i = j
  BY <1>2, <1>3, <1>4, <1>8
<1> QED
  BY <1>2, <1>6, <1>7, <1>9

\* Nobody is about to queue a task without a mark.
LEMMA NotMarked ==
  ASSUME Typed, Marked, NEW x \in Tasks, ~task[x].queued
  PROVE  ~In(fifo, x) /\ x \notin linking /\ \A th \in Threads : thread[th].job # x
<1>1. ~In(fifo, x)
  BY DEF Marked, In
<1>2. x # Null
  BY SchedularAssumption
<1>3. \A th \in Threads : thread[th].pc \in {"idle", "upgrade", "push", "link", "wake"}
  BY DEF Typed
<1>4. \A th \in Threads : thread[th].job # x
  BY <1>2, <1>3 DEF Marked
<1> QED
  BY <1>1, <1>4 DEF Marked

\* push by the thread that has the Schedular.
LEMMA MarkedPut ==
  ASSUME Typed, Marked, NEW x \in Tasks, ~task[x].queued, PushOwn(x), UNCHANGED thread,
         task'[x].queued, \A t \in Tasks : task[t].queued => task'[t].queued
  PROVE  Marked'
<1>1. fifo' = Append(fifo, x) /\ linking' = linking
  BY DEF PushOwn
<1>2. ~In(fifo, x) /\ x \notin linking /\ \A th \in Threads : thread[th].job # x
  BY NotMarked
<1>3. /\ fifo' \in Seq(Tasks) /\ In(fifo', x)
      /\ \A y : y # x => (In(fifo', y) <=> In(fifo, y))
      /\ \A i, j \in 1..Len(fifo') : fifo'[i] = fifo'[j] => i = j
  BY <1>1, <1>2, PutLast
<1>4. \A y \in Tasks : In(fifo, y) => task[y].queued
  BY DEF Marked, In
<1>5. \A i \in 1..Len(fifo') : fifo'[i] \in Tasks
  BY <1>3, ElementOfSeq
<1>6. ASSUME NEW i \in 1..Len(fifo') PROVE task'[fifo'[i]].queued
  <2>1. In(fifo', fifo'[i])
    BY DEF In
  <2> QED
    BY <1>3, <1>4, <1>5, <2>1
<1>7. \A th \in Threads :
       /\ thread[th].pc \in {"idle", "wake"} => thread[th].job = Null
       /\ thread[th].pc \in {"upgrade", "push", "link"} =>
            thread[th].job \in Tasks /\ task'[thread[th].job].queued
       /\ thread[th].pc \in {"upgrade", "push"} => ~In(fifo', thread[th].job)
       /\ thread[th].pc = "link" => thread[th].job \in linking'
  BY <1>1, <1>2, <1>3 DEF Marked
<1>8. \A t \in linking' :
        In(fifo', t) /\ \E th \in Threads : thread[th].pc = "link" /\ thread[th].job = t
  BY <1>1, <1>2, <1>3 DEF Marked
<1>9. \A th, u \in Threads : thread[th].job = thread[u].job /\ thread[th].job # Null => th = u
  BY DEF Marked
<1> QED
  BY <1>3, <1>6, <1>7, <1>8, <1>9 DEF Marked

-----------------------------------------------------------------------------
(***************************************************************************)
(* The counts.                                                             *)
(***************************************************************************)

\* A step leaves the owners of a task and its count.
SameOwners(s, r, t) ==
  /\ task'[t].count = task[t].count /\ task'[t].wakers = task[t].wakers
  /\ task'[t].cancelled = task[t].cancelled
  /\ task[t].cancelled /\ task[t].queued => task'[t].queued
  /\ In(r, t) <=> In(s, t)
  /\ In(fifo', t) <=> In(fifo, t)
  /\ TokenOut(t)' <=> TokenOut(t)
  /\ Waking(t)' <=> Waking(t)
  /\ On("waker", t)' <=> On("waker", t)

\* The owners of a task are a number.
LEMMA OwnersNumber ==
  ASSUME Typed, NEW s, NEW t \in Tasks
  PROVE  OwnersIn(s, t) \in Nat /\ task[t].wakers \in Nat /\ task[t].count \in Nat
<1>1. task[t].wakers \in Nat /\ task[t].count \in Nat
  BY DEF Typed, TaskRecords
<1>2. /\ One(In(s, t)) \in Nat /\ One(In(fifo, t)) \in Nat /\ One(TokenOut(t)) \in Nat
      /\ One(Waking(t)) \in Nat /\ One(On("waker", t)) \in Nat
  BY DEF One
<1> QED
  BY <1>1, <1>2 DEF OwnersIn

\* Whoever owns a task keeps it from being freed.
LEMMA OwnedCount ==
  ASSUME Typed, NEW s, Counted(s), NEW t \in Tasks,
         \/ In(s, t) \/ In(fifo, t) \/ TokenOut(t) \/ task[t].wakers > 0 \/ Waking(t)
         \/ On("waker", t)
  PROVE  task[t].count >= 1
<1>1. task[t].wakers \in Nat /\ task[t].count \in Nat /\ task[t].count >= OwnersIn(s, t)
  BY OwnersNumber DEF Counted
<1>2. OwnersIn(s, t) >= 1
  BY <1>1 DEF OwnersIn, One
<1>3. OwnersIn(s, t) \in Nat
  BY OwnersNumber
<1> QED
  BY <1>1, <1>2, <1>3

\* A step that changes the count of x by d and its owners by as many.
LEMMA CountedStep ==
  ASSUME Typed, NEW s, NEW r, Counted(s), NEW x \in Tasks, NEW d \in Int,
         \A t \in Tasks : t # x => SameOwners(s, r, t),
         task'[x].count = task[x].count + d, Skipped(x) => Skipped(x)',
         OwnersIn(r, x)' = OwnersIn(s, x) + d
  PROVE  Counted(r)'
<1>1. ASSUME NEW t \in Tasks, t # x PROVE OwnersIn(r, t)' = OwnersIn(s, t)
  BY <1>1 DEF SameOwners, OwnersIn, One
<1>2. ASSUME NEW t \in Tasks, t # x PROVE Skipped(t) => Skipped(t)'
  BY <1>2 DEF SameOwners, Skipped
<1>3. OwnersIn(s, x) \in Nat /\ task[x].count \in Nat
  BY OwnersNumber
<1>4. /\ task[x].count >= OwnersIn(s, x) /\ task[x].count <= OwnersIn(s, x) + 1
      /\ ~Skipped(x) => task[x].count = OwnersIn(s, x)
  BY DEF Counted
<1>5. /\ task'[x].count >= OwnersIn(r, x)' /\ task'[x].count <= OwnersIn(r, x)' + 1
      /\ ~Skipped(x)' => task'[x].count = OwnersIn(r, x)'
  BY <1>3, <1>4
<1>6. ASSUME NEW t \in Tasks, t # x
      PROVE  /\ task'[t].count >= OwnersIn(r, t)' /\ task'[t].count <= OwnersIn(r, t)' + 1
             /\ ~Skipped(t)' => task'[t].count = OwnersIn(r, t)'
  <2>1. task'[t].count = task[t].count
    BY <1>6 DEF SameOwners
  <2> QED
    BY <1>1, <1>2, <1>6, <2>1 DEF Counted
<1> QED
  BY <1>5, <1>6 DEF Counted

\* The queue loses a cancelled task, and the count is not given back.
LEMMA CountedSkip ==
  ASSUME Typed, NEW s, Counted(s), NEW x \in Tasks,
         \A t \in Tasks : t # x => SameOwners(s, s, t),
         task'[x].count = task[x].count, ~Skipped(x), Skipped(x)',
         OwnersIn(s, x)' = OwnersIn(s, x) - 1
  PROVE  Counted(s)'
<1>1. ASSUME NEW t \in Tasks, t # x PROVE OwnersIn(s, t)' = OwnersIn(s, t)
  BY <1>1 DEF SameOwners, OwnersIn, One
<1>2. ASSUME NEW t \in Tasks, t # x PROVE Skipped(t) => Skipped(t)'
  BY <1>2 DEF SameOwners, Skipped
<1>3. OwnersIn(s, x) \in Nat /\ task[x].count \in Nat
  BY OwnersNumber
<1>4. task[x].count = OwnersIn(s, x)
  BY DEF Counted
<1>5. /\ task'[x].count >= OwnersIn(s, x)' /\ task'[x].count <= OwnersIn(s, x)' + 1
      /\ ~Skipped(x)' => task'[x].count = OwnersIn(s, x)'
  BY <1>3, <1>4
<1>6. ASSUME NEW t \in Tasks, t # x
      PROVE  /\ task'[t].count >= OwnersIn(s, t)' /\ task'[t].count <= OwnersIn(s, t)' + 1
             /\ ~Skipped(t)' => task'[t].count = OwnersIn(s, t)'
  <2>1. task'[t].count = task[t].count
    BY <1>6 DEF SameOwners
  <2> QED
    BY <1>1, <1>2, <1>6, <2>1 DEF Counted
<1> QED
  BY <1>5, <1>6 DEF Counted

\* A step that changes no owner.
LEMMA CountedKept ==
  ASSUME NEW s, NEW r, Counted(s), \A t \in Tasks : SameOwners(s, r, t)
  PROVE  Counted(r)'
<1>1. ASSUME NEW t \in Tasks PROVE OwnersIn(r, t)' = OwnersIn(s, t)
  BY DEF SameOwners, OwnersIn, One
<1>2. ASSUME NEW t \in Tasks PROVE Skipped(t) => Skipped(t)'
  BY DEF SameOwners, Skipped
<1>3. ASSUME NEW t \in Tasks
      PROVE  /\ task'[t].count >= OwnersIn(r, t)' /\ task'[t].count <= OwnersIn(r, t)' + 1
             /\ ~Skipped(t)' => task'[t].count = OwnersIn(r, t)'
  <2>1. task'[t].count = task[t].count
    BY DEF SameOwners
  <2> QED
    BY <1>1, <1>2, <2>1 DEF Counted
<1> QED
  BY <1>3 DEF Counted

\* The calls under way are the same.
LEMMA OnKept ==
  ASSUME UNCHANGED calls
  PROVE  \A op, t : On(op, t)' <=> On(op, t)
BY DEF On, OnIn

\* No owner of t is affected.
LEMMA OwnersKept ==
  ASSUME NEW s, NEW t, UNCHANGED <<thread, fifo>>,
         /\ task'[t].count = task[t].count /\ task'[t].wakers = task[t].wakers
         /\ task'[t].cancelled = task[t].cancelled
         /\ (task[t].cancelled /\ task[t].queued => task'[t].queued)
         /\ (task'[t].token # Null <=> task[t].token # Null)
         /\ \A op \in {"token", "requeue", "waker"} : On(op, t)' <=> On(op, t)
  PROVE  SameOwners(s, s, t)
<1>1. TokenOut(t)' <=> TokenOut(t)
  BY DEF TokenOut
<1>2. Waking(t)' <=> Waking(t)
  BY DEF Waking
<1> QED
  BY <1>1, <1>2 DEF SameOwners

\* What the tasks tell of themselves stays true.
LEMMA TasksTellKept ==
  ASSUME TasksTell,
         \A t \in Tasks :
           /\ task'[t].done = task[t].done /\ task'[t].dropped = task[t].dropped
           /\ task'[t].token = task[t].token /\ task'[t].cancelled = task[t].cancelled,
         \A t \in Tasks : task[t].done = "absent" =>
           task'[t].wakers = task[t].wakers /\ task'[t].queued = task[t].queued
  PROVE  TasksTell'
BY DEF TasksTell

-----------------------------------------------------------------------------
(***************************************************************************)
(* Steps that change neither the calls nor the list: wakers and threads.   *)
(***************************************************************************)

\* What changes in a task of which only count, wakers and mark may change.
Untouched(t) == SameTask(t) /\ task'[t].cancelled = task[t].cancelled

\* A waker is about only for a task that was pushed, and so with a drive.
LEMMA WakerOfTask ==
  ASSUME NEW s, InvAt(s), NEW t \in Tasks, task[t].wakers > 0 \/ On("drive", t)
  PROVE  task[t].done # "absent"
<1>1. CASE On("drive", t)
  BY <1>1 DEF InvAt, Core, CallsTell
<1>2. CASE task[t].wakers > 0
  <2>1. task[t].done = "absent" => task[t].wakers = 0
    BY DEF InvAt, TasksTell
  <2> QED
    BY <1>2, <2>1
<1> QED
  BY <1>1, <1>2

\* The call on top is under way.
LEMMA RunningOn ==
  ASSUME calls \in Seq(FrameSet), NEW op, NEW t, Running(op, t)
  PROVE  /\ On(op, t) /\ Len(calls) >= 1 /\ 1 \in 1..Len(calls)
         /\ calls[1].op = op /\ calls[1].task = t
<1>1. /\ Frame(op, t) \in FrameSet /\ Frame(op, t).op = op /\ Frame(op, t).task = t
      /\ Tail(calls) \in Seq(FrameSet) /\ calls = Cons(Frame(op, t), Tail(calls))
  BY RunningIs
<1>2. PICK r \in Seq(FrameSet) : calls = Cons(Frame(op, t), r)
  BY <1>1
<1>3. Len(r) \in Nat /\ Len(calls) = Len(r) + 1 /\ calls[1] = Frame(op, t)
  BY <1>1, <1>2, ConsFacts
<1>4. Len(calls) >= 1 /\ 1 \in 1..Len(calls)
  BY <1>3
<1> QED
  BY <1>1, <1>3, <1>4 DEF On, OnIn

\* schedular_clone.
LEMMA CloneKeeps ==
  ASSUME Typed, NEW s, InvAt(s), NEW t \in Tasks, CloneWaker(t)
  PROVE  Typed' /\ InvAt(s)'
<1>1. /\ \A x \in Tasks : task[x] \in TaskRecords
      /\ task' = [x \in Tasks |-> [task[x] EXCEPT !.wakers = @ + One(x = t),
                                                  !.count = @ + One(x = t)]]
      /\ UNCHANGED <<list, calls, rest>>
  BY DEF CloneWaker, schedular_clone, Typed
<1>2. \A x \in Tasks :
        /\ task'[x] \in TaskRecords /\ Untouched(x) /\ task'[x].queued = task[x].queued
        /\ x # t => task'[x].count = task[x].count /\ task'[x].wakers = task[x].wakers
        /\ x = t => task'[x].count = task[x].count + 1 /\ task'[x].wakers = task[x].wakers + 1
  <2> SUFFICES ASSUME NEW x \in Tasks
               PROVE  /\ task'[x] \in TaskRecords /\ Untouched(x) /\ task'[x].queued = task[x].queued
                      /\ x # t => task'[x].count = task[x].count /\ task'[x].wakers = task[x].wakers
                      /\ x = t => /\ task'[x].count = task[x].count + 1
                                 /\ task'[x].wakers = task[x].wakers + 1
    OBVIOUS
  <2>1. PICK d \in Nat : d = One(x = t) /\ (x = t => d = 1) /\ (x # t => d = 0)
    BY DEF One
  <2>2. task'[x] = [task[x] EXCEPT !.wakers = @ + d, !.count = @ + d]
    BY <1>1, <2>1
  <2>3. PICK r \in TaskRecords : r = task[x]
    BY <1>1
  <2>4. PICK w \in Nat, c \in Nat : w = r.wakers + d /\ c = r.count + d
    BY DEF TaskRecords
  <2>5. PICK n : n = task'[x] /\ n = [r EXCEPT !.wakers = w, !.count = c]
    BY <2>2, <2>3, <2>4
  <2>6. n \in TaskRecords
    BY <2>5 DEF TaskRecords
  <2>7. /\ n.wakers = w /\ n.count = c
        /\ n.queued = r.queued /\ n.done = r.done /\ n.next = r.next /\ n.prev = r.prev
        /\ n.dropped = r.dropped /\ n.token = r.token /\ n.cancelled = r.cancelled
    BY <2>5 DEF TaskRecords
  <2>8. r.wakers \in Nat /\ r.count \in Nat
    BY DEF TaskRecords
  <2> QED
    BY <2>1, <2>3, <2>4, <2>5, <2>6, <2>7, <2>8 DEF Untouched, SameTask
<1>3. task' \in [Tasks -> TaskRecords]
  BY <1>1, <1>2
<1>4. Typed'
  BY <1>1, <1>3 DEF Typed, rest, queueVars, wakeVars
<1>5. UNCHANGED <<calls, list, live, thread, fifo, linking>>
  BY <1>1 DEF rest, queueVars
<1>6. Core(s)'
  BY <1>2, <1>5, CoreKept DEF InvAt, Untouched
<1>7. Running("drive", t) \/ task[t].wakers > 0
  BY DEF CloneWaker
<1>8. task[t].done # "absent"
  BY <1>7, RunningOn, WakerOfTask DEF Typed
<1>9. TasksTell'
  BY <1>2, <1>8, TasksTellKept DEF InvAt, Untouched, SameTask
<1>10. Marked'
  BY <1>2, <1>5, MarkedKept DEF InvAt
<1>11. \A op, x : On(op, x)' <=> On(op, x)
  BY <1>5, OnKept
<1>12. \A x \in Tasks : x # t => SameOwners(s, s, x)
  BY <1>2, <1>5, <1>11, OwnersKept DEF Untouched, SameTask
<1>13. OwnersIn(s, t)' = OwnersIn(s, t) + 1
  <2>1. TokenOut(t)' <=> TokenOut(t)
    BY <1>2, <1>11 DEF TokenOut, Untouched, SameTask
  <2>2. Waking(t)' <=> Waking(t)
    BY <1>5 DEF Waking
  <2>3. task[t].wakers \in Nat /\ task'[t].wakers = task[t].wakers + 1
    BY <1>2, OwnersNumber
  <2> QED
    BY <1>5, <1>11, <2>1, <2>2, <2>3 DEF OwnersIn, One
<1>14. Counted(s)'
  <2>1. Waking(t)' <=> Waking(t)
    BY <1>5 DEF Waking
  <2>2. Skipped(t) => Skipped(t)'
    BY <1>2, <1>5, <2>1 DEF Skipped, Untouched
  <2>3. 1 \in Int /\ task'[t].count = task[t].count + 1
    BY <1>2
  <2> QED
    BY <1>12, <1>13, <2>2, <2>3, CountedStep DEF InvAt
<1> QED
  BY <1>4, <1>6, <1>9, <1>10, <1>14 DEF InvAt

\* A step leaves the counts, the owners and the marks of all tasks but x.
Others(x) ==
  \A t \in Tasks : t # x =>
    /\ task'[t].count = task[t].count /\ task'[t].wakers = task[t].wakers
    /\ task'[t].queued = task[t].queued
    /\ (In(fifo', t) <=> In(fifo, t)) /\ (Waking(t)' <=> Waking(t))

\* The count of x and the owners in the queue, in wakers and in threads change by d.
Gains(x, d) ==
  /\ task'[x].count = task[x].count + d
  /\ One(In(fifo', x)) + task'[x].wakers + One(Waking(x)')
       = One(In(fifo, x)) + task[x].wakers + One(Waking(x)) + d

\* A step of a waker: the calls and the list stay, and at most one task, x, gains or loses
\* owners, d of them.
LEMMA AsideKeeps ==
  ASSUME Typed, NEW s, InvAt(s), UNCHANGED <<calls, list, live>>, Typed', Marked',
         \A t \in Tasks : Untouched(t),
         NEW x \in Tasks, NEW d \in Int,
         Others(x), Gains(x, d), Skipped(x) => Skipped(x)',
         task[x].done = "absent" => task'[x].wakers = task[x].wakers
                                    /\ task'[x].queued = task[x].queued
  PROVE  InvAt(s)'
<1>1. Core(s)'
  BY CoreKept DEF InvAt, Untouched
<1>2. TasksTell'
  BY TasksTellKept DEF InvAt, Untouched, SameTask, Others
<1>3. \A op, t : On(op, t)' <=> On(op, t)
  BY OnKept
<1>4. \A t \in Tasks : TokenOut(t)' <=> TokenOut(t)
  BY <1>3 DEF TokenOut, Untouched, SameTask
<1>5. \A t \in Tasks : t # x => SameOwners(s, s, t)
  BY <1>3, <1>4 DEF SameOwners, Untouched, Others
<1>6. task[x].wakers \in Nat /\ task'[x].wakers \in Nat /\ OwnersIn(s, x) \in Nat
  BY OwnersNumber DEF Typed, TaskRecords
<1>7. OwnersIn(s, x)' = OwnersIn(s, x) + d
  <2>1. PICK a \in Nat : a = One(In(s, x))
    BY DEF One
  <2>2. PICK b \in Nat : b = One(TokenOut(x)) /\ b = One(TokenOut(x)')
    BY <1>4 DEF One
  <2>3. PICK c \in Nat : c = One(On("waker", x)) /\ c = One(On("waker", x)')
    BY <1>3 DEF One
  <2>4. PICK e \in Nat, f \in Nat : e = One(In(fifo, x)) /\ f = One(In(fifo', x))
    BY DEF One
  <2>5. PICK g \in Nat, h \in Nat : g = One(Waking(x)) /\ h = One(Waking(x)')
    BY DEF One
  <2>6. PICK u \in Nat, v \in Nat : u = task[x].wakers /\ v = task'[x].wakers
    BY <1>6
  <2>7. OwnersIn(s, x) = a + e + b + u + g + c
    BY <2>1, <2>2, <2>3, <2>4, <2>5, <2>6 DEF OwnersIn
  <2>8. OwnersIn(s, x)' = a + f + b + v + h + c
    BY <2>1, <2>2, <2>3, <2>4, <2>5, <2>6 DEF OwnersIn
  <2>9. f + v + h = e + u + g + d
    BY <2>4, <2>5, <2>6 DEF Gains
  <2>10. a + f + b + v + h + c = (a + e + b + u + g + c) + d
    BY <2>9
  <2> QED
    BY <2>7, <2>8, <2>10
<1>8. Counted(s)'
  BY <1>5, <1>7, CountedStep DEF InvAt, Gains
<1> QED
  BY <1>1, <1>2, <1>8 DEF InvAt

\* schedular_drop.
LEMMA DroppedWaker ==
  ASSUME Typed, NEW t \in Tasks, task[t].wakers > 0, task[t].count >= 1,
         task' = schedular_drop(task, t)
  PROVE  /\ task' \in [Tasks -> TaskRecords]
         /\ \A x \in Tasks :
              /\ Untouched(x) /\ task'[x].queued = task[x].queued
              /\ x # t => task'[x].count = task[x].count /\ task'[x].wakers = task[x].wakers
              /\ x = t => /\ task'[x].count = task[x].count - 1
                          /\ task'[x].wakers = task[x].wakers - 1
<1>1. /\ \A x \in Tasks : task[x] \in TaskRecords
      /\ task' = [x \in Tasks |-> [task[x] EXCEPT !.wakers = @ - One(x = t),
                                                  !.count = @ - One(x = t)]]
  BY DEF schedular_drop, Typed
<1>2. ASSUME NEW x \in Tasks
      PROVE  /\ task'[x] \in TaskRecords /\ Untouched(x) /\ task'[x].queued = task[x].queued
             /\ x # t => task'[x].count = task[x].count /\ task'[x].wakers = task[x].wakers
             /\ x = t => /\ task'[x].count = task[x].count - 1
                         /\ task'[x].wakers = task[x].wakers - 1
  <2>1. PICK d \in Nat : d = One(x = t) /\ (x = t => d = 1) /\ (x # t => d = 0)
    BY DEF One
  <2>2. task'[x] = [task[x] EXCEPT !.wakers = @ - d, !.count = @ - d]
    BY <1>1, <2>1
  <2>3. PICK r \in TaskRecords : r = task[x]
    BY <1>1
  <2>4. r.wakers \in Nat /\ r.count \in Nat
    BY DEF TaskRecords
  <2>5. PICK w \in Nat, c \in Nat : w = r.wakers - d /\ c = r.count - d
    BY <2>1, <2>3, <2>4
  <2>6. PICK n : n = task'[x] /\ n = [r EXCEPT !.wakers = w, !.count = c]
    BY <2>2, <2>3, <2>5
  <2>7. n \in TaskRecords
    BY <2>6 DEF TaskRecords
  <2>8. /\ n.wakers = w /\ n.count = c
        /\ n.queued = r.queued /\ n.done = r.done /\ n.next = r.next /\ n.prev = r.prev
        /\ n.dropped = r.dropped /\ n.token = r.token /\ n.cancelled = r.cancelled
    BY <2>6 DEF TaskRecords
  <2> QED
    BY <2>1, <2>3, <2>4, <2>5, <2>6, <2>7, <2>8 DEF Untouched, SameTask
<1>3. task' \in [Tasks -> TaskRecords]
  BY <1>1, <1>2
<1> QED
  BY <1>2, <1>3

LEMMA DropKeeps ==
  ASSUME Typed, NEW s, InvAt(s), NEW t \in Tasks, task[t].wakers > 0,
         task' = schedular_drop(task, t), UNCHANGED <<list, calls, rest>>
  PROVE  Typed' /\ InvAt(s)'
<1>1. task[t].count >= 1
  BY OwnedCount DEF InvAt
<1>2. /\ task' \in [Tasks -> TaskRecords]
      /\ \A x \in Tasks :
           /\ Untouched(x) /\ task'[x].queued = task[x].queued
           /\ x # t => task'[x].count = task[x].count /\ task'[x].wakers = task[x].wakers
           /\ x = t => /\ task'[x].count = task[x].count - 1
                       /\ task'[x].wakers = task[x].wakers - 1
  BY <1>1, DroppedWaker
<1>3. Typed'
  BY <1>2 DEF Typed, rest, queueVars, wakeVars
<1>4. UNCHANGED <<calls, list, live, thread, fifo, linking>>
  BY DEF rest, queueVars
<1>5. Marked'
  BY <1>2, <1>4, MarkedKept DEF InvAt
<1>6. task[t].done # "absent"
  BY WakerOfTask
<1>7. \A x \in Tasks : Waking(x)' <=> Waking(x)
  BY <1>4 DEF Waking
<1>8. Others(t)
  BY <1>2, <1>4, <1>7 DEF Others
<1>9. Gains(t, -1)
  <2>1. /\ task[t].wakers \in Nat /\ task'[t].wakers = task[t].wakers - 1
        /\ task[t].count \in Nat /\ task'[t].count = task[t].count - 1
    BY <1>2, OwnersNumber
  <2>2. PICK e \in Nat : e = One(In(fifo, t)) /\ e = One(In(fifo', t))
    BY <1>4 DEF One
  <2>3. PICK g \in Nat : g = One(Waking(t)) /\ g = One(Waking(t)')
    BY <1>7 DEF One
  <2> QED
    BY <2>1, <2>2, <2>3 DEF Gains
<1>10. InvAt(s)'
  <2>1. -1 \in Int
    OBVIOUS
  <2>2. Skipped(t) => Skipped(t)'
    BY <1>2, <1>4, <1>7 DEF Skipped, Untouched
  <2> QED
    BY <1>2, <1>3, <1>4, <1>5, <1>6, <1>8, <1>9, <2>1, <2>2, AsideKeeps
<1> QED
  BY <1>3, <1>10

-----------------------------------------------------------------------------
(***************************************************************************)
(* The threads that wake a task.                                           *)
(***************************************************************************)

\* One thread goes on; who is waking a task after that.
Threaded(th, p, j) ==
  /\ thread' \in [Threads -> [pc : {"idle", "upgrade", "push", "link", "wake"},
                              job : Tasks \cup {Null}]]
  /\ thread'[th].pc = p /\ thread'[th].job = j
  /\ \A u \in Threads : u # th => thread'[u] = thread[u]

LEMMA ThreadedTo ==
  ASSUME Typed, NEW th \in Threads, NEW p \in {"idle", "upgrade", "push", "link", "wake"},
         NEW j \in Tasks \cup {Null}, thread' = [thread EXCEPT ![th] = [pc |-> p, job |-> j]]
  PROVE  Threaded(th, p, j)
BY DEF Typed, Threaded

LEMMA ThreadedOn ==
  ASSUME Typed, NEW th \in Threads, NEW p \in {"idle", "upgrade", "push", "link", "wake"},
         thread' = [thread EXCEPT ![th].pc = p]
  PROVE  Threaded(th, p, thread[th].job)
BY DEF Typed, Threaded

\* Other threads have other jobs.
LEMMA WakingIs ==
  ASSUME Typed, Marked, NEW th \in Threads, NEW p, NEW j, Threaded(th, p, j)
  PROVE  /\ \A x \in Tasks : x # j /\ x # thread[th].job => (Waking(x)' <=> Waking(x))
         /\ \A x \in Tasks : x = thread[th].job =>
              /\ Waking(x) <=> thread[th].pc # "link"
              /\ Waking(x)' <=> x = j /\ p # "link"
<1>1. ASSUME NEW x \in Tasks, x # j, x # thread[th].job PROVE Waking(x)' <=> Waking(x)
  BY <1>1 DEF Waking, Threaded
<1>2. ASSUME NEW x \in Tasks, x = thread[th].job
      PROVE  /\ Waking(x) <=> thread[th].pc # "link"
             /\ Waking(x)' <=> x = j /\ p # "link"
  <2>1. x # Null
    BY SchedularAssumption
  <2>2. \A u \in Threads : u # th => thread[u].job # x
    BY <1>2, <2>1 DEF Marked
  <2> QED
    BY <1>2, <2>2 DEF Waking, Threaded
<1> QED
  BY <1>1, <1>2

\* A thread marks a task and is going to push it.
LEMMA MarkedTake ==
  ASSUME Typed, Marked, NEW th \in Threads, NEW x \in Tasks, ~task[x].queued,
         thread[th].pc = "idle", Threaded(th, "upgrade", x), UNCHANGED <<fifo, linking>>,
         task'[x].queued, \A t \in Tasks : task[t].queued => task'[t].queued
  PROVE  Marked' /\ Waking(x)' /\ ~Waking(x) /\ \A t \in Tasks : t # x => (Waking(t)' <=> Waking(t))
<1>1. ~In(fifo, x) /\ x \notin linking /\ \A u \in Threads : thread[u].job # x
  BY NotMarked
<1>2. \A i \in 1..Len(fifo) : fifo[i] \in Tasks
  BY ElementOfSeq DEF Typed
<1>3. \A i \in 1..Len(fifo) : task'[fifo[i]].queued
  BY <1>2 DEF Marked
<1>4. thread[th].job = Null
  BY DEF Marked
<1>5. \A u \in Threads :
       /\ thread'[u].pc \in {"idle", "wake"} => thread'[u].job = Null
       /\ thread'[u].pc \in {"upgrade", "push", "link"} =>
            thread'[u].job \in Tasks /\ task'[thread'[u].job].queued
       /\ thread'[u].pc \in {"upgrade", "push"} => ~In(fifo, thread'[u].job)
       /\ thread'[u].pc = "link" => thread'[u].job \in linking
  BY <1>1 DEF Marked, Threaded
<1>6. \A u, v \in Threads :
        thread'[u].job = thread'[v].job /\ thread'[u].job # Null => u = v
  BY <1>1 DEF Marked, Threaded
<1>7. \A t \in linking :
        In(fifo, t) /\ \E u \in Threads : thread'[u].pc = "link" /\ thread'[u].job = t
  BY DEF Marked, Threaded
<1>8. Marked'
  BY <1>3, <1>5, <1>6, <1>7 DEF Marked
<1>9. Waking(x)' /\ ~Waking(x)
  BY <1>1 DEF Waking, Threaded
<1>10. \A t \in Tasks : t # Null
  BY SchedularAssumption
<1>11. \A t \in Tasks : t # x => (Waking(t)' <=> Waking(t))
  BY <1>4, <1>10, WakingIs
<1> QED
  BY <1>8, <1>9, <1>11

\* decr_task.
LEMMA DecrTask ==
  ASSUME Typed, NEW t \in Tasks, task[t].count >= 1, task' = decr_task(task, t)
  PROVE  /\ task' \in [Tasks -> TaskRecords]
         /\ \A x \in Tasks :
              /\ Untouched(x) /\ task'[x].queued = task[x].queued
              /\ task'[x].wakers = task[x].wakers
              /\ x # t => task'[x].count = task[x].count
         /\ task'[t].count = task[t].count - 1
<1>1. PICK r \in TaskRecords : r = task[t]
  BY DEF Typed
<1>2. r.count \in Nat
  BY DEF TaskRecords
<1>3. PICK c \in Nat : c = r.count - 1
  BY <1>1, <1>2
<1>4. PICK n : n = [r EXCEPT !.count = c]
  OBVIOUS
<1>5. n \in TaskRecords
  BY <1>4 DEF TaskRecords
<1>6. /\ n.count = c /\ n.wakers = r.wakers
      /\ n.queued = r.queued /\ n.done = r.done /\ n.next = r.next /\ n.prev = r.prev
      /\ n.dropped = r.dropped /\ n.token = r.token /\ n.cancelled = r.cancelled
  BY <1>4 DEF TaskRecords
<1>7. task' = [task EXCEPT ![t] = n]
  BY <1>1, <1>3, <1>4 DEF decr_task
<1>8. /\ task' \in [Tasks -> TaskRecords] /\ task'[t] = n
      /\ \A x \in Tasks : x # t => task'[x] = task[x]
  BY <1>5, <1>7 DEF Typed
<1> QED
  BY <1>1, <1>3, <1>6, <1>8 DEF Untouched, SameTask

\* The mark of schedular_wake_ref with the count for the queue.
LEMMA IncrMarked ==
  ASSUME Typed, NEW t \in Tasks, task' = incr_task([task EXCEPT ![t].queued = TRUE], t)
  PROVE  /\ task' \in [Tasks -> TaskRecords]
         /\ \A x \in Tasks :
              /\ Untouched(x) /\ task'[x].wakers = task[x].wakers
              /\ x # t => task'[x].count = task[x].count /\ task'[x].queued = task[x].queued
         /\ task'[t].count = task[t].count + 1 /\ task'[t].queued
<1>1. PICK r \in TaskRecords : r = task[t]
  BY DEF Typed
<1>2. PICK c \in Nat : c = r.count + 1
  BY DEF TaskRecords
<1>3. PICK n : n = [r EXCEPT !.queued = TRUE, !.count = c]
  OBVIOUS
<1>4. n \in TaskRecords
  BY <1>3 DEF TaskRecords
<1>5. /\ n.count = c /\ n.wakers = r.wakers
      /\ n.queued = TRUE /\ n.done = r.done /\ n.next = r.next /\ n.prev = r.prev
      /\ n.dropped = r.dropped /\ n.token = r.token /\ n.cancelled = r.cancelled
  BY <1>3 DEF TaskRecords
<1>6. PICK m : m = [task EXCEPT ![t] = [r EXCEPT !.queued = TRUE]]
  OBVIOUS
<1>7. m[t] = [r EXCEPT !.queued = TRUE] /\ DOMAIN m = Tasks /\ \A x \in Tasks : x # t => m[x] = task[x]
  BY <1>6 DEF Typed
<1>8. m[t].count = r.count
  BY <1>7 DEF TaskRecords
<1>9. task' = [m EXCEPT ![t] = [m[t] EXCEPT !.count = m[t].count + 1]]
  BY <1>1, <1>6 DEF incr_task
<1>10. [m[t] EXCEPT !.count = m[t].count + 1] = n
  BY <1>2, <1>3, <1>7, <1>8
<1>11. m \in [Tasks -> TaskRecords]
  <2>1. [r EXCEPT !.queued = TRUE] \in TaskRecords
    BY DEF TaskRecords
  <2> QED
    BY <1>6, <2>1 DEF Typed
<1>12. task' = [m EXCEPT ![t] = n]
  BY <1>9, <1>10
<1>13. /\ task' \in [Tasks -> TaskRecords] /\ task'[t] = n
       /\ \A x \in Tasks : x # t => task'[x] = task[x]
  BY <1>4, <1>7, <1>11, <1>12
<1> QED
  BY <1>1, <1>2, <1>5, <1>13 DEF Untouched, SameTask

\* schedular_wake.
LEMMA WakeKeeps ==
  ASSUME Typed, NEW s, InvAt(s), NEW th \in Threads, NEW t \in Tasks, schedular_wake(th, t)
  PROVE  Typed' /\ InvAt(s)'
<1>1. /\ thread[th].pc = "idle" /\ task[t].wakers > 0
      /\ UNCHANGED <<list, calls, turn, wakeVars, live, queueVars>>
  BY DEF schedular_wake, Wakes
<1>2. CASE task[t].queued
  <2>1. task' = schedular_drop(task, t) /\ UNCHANGED thread
    BY <1>2 DEF schedular_wake, Wakes
  <2>2. UNCHANGED <<list, calls, rest>>
    BY <1>1, <2>1 DEF rest
  <2> QED
    BY <1>1, <2>1, <2>2, DropKeeps
<1>3. CASE ~task[t].queued
  <2>1. /\ task' = [task EXCEPT ![t].wakers = @ - 1, ![t].queued = TRUE]
        /\ thread' = [thread EXCEPT ![th] = [pc |-> "upgrade", job |-> t]]
    BY <1>3 DEF schedular_wake, Wakes
  <2>2. Threaded(th, "upgrade", t)
    BY <2>1, ThreadedTo
  <2>3. PICK r \in TaskRecords : r = task[t]
    BY DEF Typed
  <2>4. PICK w \in Nat : w = r.wakers - 1
    <3>1. r.wakers \in Nat
      BY DEF TaskRecords
    <3> QED
      BY <1>1, <2>3, <3>1
  <2>5. PICK n : n = [r EXCEPT !.wakers = w, !.queued = TRUE]
    OBVIOUS
  <2>6. n \in TaskRecords
    BY <2>5 DEF TaskRecords
  <2>7. /\ n.wakers = w /\ n.queued = TRUE /\ n.count = r.count
        /\ n.done = r.done /\ n.next = r.next /\ n.prev = r.prev
        /\ n.dropped = r.dropped /\ n.token = r.token /\ n.cancelled = r.cancelled
    BY <2>5 DEF TaskRecords
  <2>8. task' = [task EXCEPT ![t] = n]
    <3> DEFINE m == [task EXCEPT ![t] = [r EXCEPT !.wakers = w]]
    <3>1. task' = [m EXCEPT ![t] = [m[t] EXCEPT !.queued = TRUE]]
      BY <2>1, <2>3, <2>4
    <3>2. m[t] = [r EXCEPT !.wakers = w]
      BY DEF Typed
    <3>3. [m[t] EXCEPT !.queued = TRUE] = n
      BY <2>5, <3>2
    <3>4. task' = [m EXCEPT ![t] = n]
      BY <3>1, <3>3
    <3> QED
      BY <3>4 DEF Typed
  <2>9. /\ task' \in [Tasks -> TaskRecords] /\ task'[t] = n
        /\ \A x \in Tasks : x # t => task'[x] = task[x]
    BY <2>6, <2>8 DEF Typed
  <2>10. /\ \A x \in Tasks : Untouched(x) /\ task'[x].count = task[x].count
         /\ \A x \in Tasks : x # t => /\ task'[x].wakers = task[x].wakers
                                      /\ task'[x].queued = task[x].queued
         /\ task'[t].queued /\ task'[t].wakers = task[t].wakers - 1
    BY <2>3, <2>4, <2>7, <2>9 DEF Untouched, SameTask
  <2>11. UNCHANGED <<calls, list, live, fifo, linking>>
    BY <1>1 DEF queueVars
  <2>12. Typed'
    BY <1>1, <2>2, <2>9 DEF Typed, queueVars, wakeVars, Threaded
  <2>13. /\ Marked' /\ Waking(t)' /\ ~Waking(t)
         /\ \A x \in Tasks : x # t => (Waking(x)' <=> Waking(x))
    BY <1>1, <1>3, <2>2, <2>10, <2>11, MarkedTake DEF InvAt
  <2>14. task[t].done # "absent"
    BY <1>1, WakerOfTask
  <2>15. Others(t)
    BY <2>10, <2>11, <2>13 DEF Others
  <2>16. Gains(t, 0)
    <3>1. task[t].wakers \in Nat /\ task[t].count \in Nat
      BY OwnersNumber
    <3>2. PICK e \in Nat : e = One(In(fifo, t)) /\ e = One(In(fifo', t))
      BY <2>11 DEF One
    <3>3. One(Waking(t)) = 0 /\ One(Waking(t)') = 1
      BY <2>13 DEF One
    <3> QED
      BY <2>10, <3>1, <3>2, <3>3 DEF Gains
  <2>17. Skipped(t) => Skipped(t)'
    BY <1>3 DEF Skipped
  <2>18. InvAt(s)'
    BY <2>10, <2>11, <2>12, <2>13, <2>14, <2>15, <2>16, <2>17, AsideKeeps
  <2> QED
    BY <2>12, <2>18
<1> QED
  BY <1>2, <1>3

\* schedular_wake_ref.
LEMMA WakeRefKeeps ==
  ASSUME Typed, NEW s, InvAt(s), NEW th \in Threads, NEW t \in Tasks, schedular_wake_ref(th, t)
  PROVE  Typed' /\ InvAt(s)'
<1>1. /\ thread[th].pc = "idle" /\ task[t].wakers > 0 /\ ~task[t].queued
      /\ task' = incr_task([task EXCEPT ![t].queued = TRUE], t)
      /\ thread' = [thread EXCEPT ![th] = [pc |-> "upgrade", job |-> t]]
      /\ UNCHANGED <<list, calls, turn, wakeVars, live, queueVars>>
  BY DEF schedular_wake_ref
<1>2. Threaded(th, "upgrade", t)
  BY <1>1, ThreadedTo
<1>3. /\ task' \in [Tasks -> TaskRecords]
      /\ \A x \in Tasks :
           /\ Untouched(x) /\ task'[x].wakers = task[x].wakers
           /\ x # t => task'[x].count = task[x].count /\ task'[x].queued = task[x].queued
      /\ task'[t].count = task[t].count + 1 /\ task'[t].queued
  BY <1>1, IncrMarked
<1>4. UNCHANGED <<calls, list, live, fifo, linking>>
  BY <1>1 DEF queueVars
<1>5. Typed'
  BY <1>1, <1>2, <1>3 DEF Typed, queueVars, wakeVars, Threaded
<1>6. /\ Marked' /\ Waking(t)' /\ ~Waking(t)
      /\ \A x \in Tasks : x # t => (Waking(x)' <=> Waking(x))
  BY <1>1, <1>2, <1>3, <1>4, MarkedTake DEF InvAt
<1>7. task[t].done # "absent"
  BY <1>1, WakerOfTask
<1>8. Gains(t, 1)
  <2>1. task[t].wakers \in Nat
    BY OwnersNumber
  <2>2. PICK e \in Nat : e = One(In(fifo, t)) /\ e = One(In(fifo', t))
    BY <1>4 DEF One
  <2>3. One(Waking(t)) = 0 /\ One(Waking(t)') = 1
    BY <1>6 DEF One
  <2> QED
    BY <1>3, <2>1, <2>2, <2>3 DEF Gains
<1>9. Others(t)
  BY <1>3, <1>4, <1>6 DEF Others
<1>10. Skipped(t) => Skipped(t)'
  BY <1>1 DEF Skipped
<1>11. InvAt(s)'
  BY <1>3, <1>4, <1>5, <1>6, <1>7, <1>8, <1>9, <1>10, AsideKeeps
<1> QED
  BY <1>5, <1>11

\* The upgrade of the Weak<Queue>.
LEMMA UpgradeKeeps ==
  ASSUME Typed, NEW s, InvAt(s), NEW th \in Threads, Upgrade(th)
  PROVE  Typed' /\ InvAt(s)'
<1>1. /\ thread[th].pc = "upgrade"
      /\ UNCHANGED <<list, calls, turn, wakeVars, live, queueVars>>
  BY DEF Upgrade
<1>2. UNCHANGED <<calls, list, live, fifo, linking>>
  BY <1>1 DEF queueVars
<1>3. PICK t \in Tasks : t = thread[th].job /\ task[t].queued /\ ~In(fifo, t)
  BY <1>1 DEF InvAt, Marked
<1>4. ASSUME NEW p, NEW j, Threaded(th, p, j), task' \in [Tasks -> TaskRecords],
             (p = "push" /\ j = t) \/ (p = "idle" /\ j = Null),
             \A x \in Tasks : task'[x].queued = task[x].queued
      PROVE  Typed' /\ Marked'
  <2>1. Typed'
    BY <1>1, <1>4 DEF Typed, queueVars, wakeVars, Threaded
  <2>2. \A i \in 1..Len(fifo) : fifo[i] \in Tasks /\ task'[fifo[i]].queued
    BY <1>4, ElementOfSeq DEF Typed, InvAt, Marked
  <2>3. \A u \in Threads :
         /\ thread'[u].pc \in {"idle", "wake"} => thread'[u].job = Null
         /\ thread'[u].pc \in {"upgrade", "push", "link"} =>
              thread'[u].job \in Tasks /\ task'[thread'[u].job].queued
         /\ thread'[u].pc \in {"upgrade", "push"} => ~In(fifo, thread'[u].job)
         /\ thread'[u].pc = "link" => thread'[u].job \in linking
    BY <1>3, <1>4 DEF InvAt, Marked, Threaded
  <2>4. \A u, v \in Threads :
          thread'[u].job = thread'[v].job /\ thread'[u].job # Null => u = v
    BY <1>3, <1>4 DEF InvAt, Marked, Threaded
  <2>5. \A x \in linking :
          In(fifo, x) /\ \E u \in Threads : thread'[u].pc = "link" /\ thread'[u].job = x
    BY <1>1, <1>4 DEF InvAt, Marked, Threaded
  <2>6. \A i, j_1 \in 1..Len(fifo) : fifo[i] = fifo[j_1] => i = j_1
    BY DEF InvAt, Marked
  <2> QED
    BY <1>2, <2>1, <2>2, <2>3, <2>4, <2>5, <2>6 DEF Marked
<1>5. CASE QueueLives
  <2>1. thread' = [thread EXCEPT ![th].pc = "push"] /\ UNCHANGED task
    BY <1>5 DEF Upgrade
  <2>2. Threaded(th, "push", t)
    BY <1>3, <2>1, ThreadedOn
  <2>3. task' \in [Tasks -> TaskRecords] /\ \A x \in Tasks : task'[x] = task[x]
    BY <2>1 DEF Typed
  <2>4. Typed' /\ Marked'
    BY <1>4, <2>2, <2>3
  <2>5. \A x \in Tasks : Untouched(x)
    BY <2>3 DEF Untouched, SameTask
  <2>6. \A x \in Tasks : Waking(x)' <=> Waking(x)
    BY <1>3, <1>1, <2>2, WakingIs DEF InvAt
  <2>7. Others(t)
    BY <1>2, <2>3, <2>6 DEF Others
  <2>8. Gains(t, 0)
    <3>1. task[t].wakers \in Nat /\ task[t].count \in Nat
      BY <1>3, OwnersNumber
    <3>2. PICK e \in Nat : e = One(In(fifo, t)) /\ e = One(In(fifo', t))
      BY <1>2 DEF One
    <3>3. PICK g \in Nat : g = One(Waking(t)) /\ g = One(Waking(t)')
      BY <1>3, <2>6 DEF One
    <3> QED
      BY <1>3, <2>3, <3>1, <3>2, <3>3 DEF Gains
  <2>9. Skipped(t) => Skipped(t)'
    BY <1>2, <1>3, <2>3, <2>6 DEF Skipped
  <2>10. InvAt(s)'
    BY <1>2, <1>3, <2>3, <2>4, <2>5, <2>7, <2>8, <2>9, AsideKeeps
  <2> QED
    BY <2>4, <2>10
<1>6. CASE ~QueueLives
  <2>1. thread' = [thread EXCEPT ![th] = Idle] /\ task' = decr_task(task, t)
    BY <1>3, <1>6 DEF Upgrade
  <2>2. Threaded(th, "idle", Null)
    BY <2>1, ThreadedTo DEF Idle
  <2>3. Waking(t) /\ ~Waking(t)' /\ \A x \in Tasks : x # t => (Waking(x)' <=> Waking(x))
    <3>1. \A x \in Tasks : x # Null
      BY SchedularAssumption
    <3> QED
      BY <1>1, <1>3, <2>2, <3>1, WakingIs DEF InvAt
  <2>4. task[t].count >= 1
    BY <1>3, <2>3, OwnedCount DEF InvAt
  <2>5. /\ task' \in [Tasks -> TaskRecords]
        /\ \A x \in Tasks :
             /\ Untouched(x) /\ task'[x].queued = task[x].queued
             /\ task'[x].wakers = task[x].wakers
             /\ x # t => task'[x].count = task[x].count
        /\ task'[t].count = task[t].count - 1
    BY <1>3, <2>1, <2>4, DecrTask
  <2>6. Typed' /\ Marked'
    BY <1>4, <2>2, <2>5
  <2>7. Others(t)
    BY <1>2, <2>3, <2>5 DEF Others
  <2>8. Gains(t, -1)
    <3>1. task[t].wakers \in Nat /\ task[t].count \in Nat
      BY <1>3, OwnersNumber
    <3>2. PICK e \in Nat : e = One(In(fifo, t)) /\ e = One(In(fifo', t))
      BY <1>2 DEF One
    <3>3. One(Waking(t)) = 1 /\ One(Waking(t)') = 0
      BY <2>3 DEF One
    <3> QED
      BY <1>3, <2>5, <3>1, <3>2, <3>3 DEF Gains
  <2>9. InvAt(s)'
    <3>1. -1 \in Int
      OBVIOUS
    <3>2. Skipped(t) => Skipped(t)'
      BY <2>3 DEF Skipped
    <3> QED
      BY <1>2, <1>3, <2>5, <2>6, <2>7, <2>8, <3>1, <3>2, AsideKeeps
  <2> QED
    BY <2>6, <2>9
<1> QED
  BY <1>5, <1>6

\* The swap in push.
LEMMA PushKeeps ==
  ASSUME Typed, NEW s, InvAt(s), NEW th \in Threads, PushTask(th)
  PROVE  Typed' /\ InvAt(s)'
<1>1. thread[th].pc = "push"
  BY DEF PushTask
<1>2. PICK t \in Tasks : t = thread[th].job /\ task[t].queued /\ ~In(fifo, t)
  BY <1>1 DEF InvAt, Marked
<1>3. /\ thread[th].pc = "push" /\ fifo' = Append(fifo, t) /\ linking' = linking \cup {t}
      /\ thread' = [thread EXCEPT ![th].pc = "link"]
      /\ UNCHANGED <<task, list, calls, turn, wakeVars, live>>
  BY <1>2 DEF PushTask, Swap
<1>4. Threaded(th, "link", t)
  BY <1>3, <1>2, ThreadedOn
<1>5. /\ fifo' \in Seq(Tasks) /\ In(fifo', t)
      /\ \A y : y # t => (In(fifo', y) <=> In(fifo, y))
      /\ \A i, j \in 1..Len(fifo') : fifo'[i] = fifo'[j] => i = j
  BY <1>3, <1>2, PutLast DEF InvAt
<1>6. Typed'
  BY <1>3, <1>2, <1>4, <1>5 DEF Typed, wakeVars, Threaded
<1>7. Marked'
  <2>1. \A y \in Tasks : In(fifo, y) => task[y].queued
    BY DEF InvAt, Marked, In
  <2>2. \A i \in 1..Len(fifo') : fifo'[i] \in Tasks
    BY <1>5, ElementOfSeq
  <2>3. ASSUME NEW i \in 1..Len(fifo') PROVE task'[fifo'[i]].queued
    <3>1. In(fifo', fifo'[i])
      BY DEF In
    <3> QED
      BY <1>3, <1>2, <1>5, <2>1, <2>2, <3>1
  <2>4. \A u \in Threads : u # th => thread[u].job # t
    <3>1. t # Null
      BY <1>2, SchedularAssumption
    <3> QED
      BY <1>2, <3>1 DEF InvAt, Marked
  <2>5. \A u \in Threads :
         /\ thread'[u].pc \in {"idle", "wake"} => thread'[u].job = Null
         /\ thread'[u].pc \in {"upgrade", "push", "link"} =>
              thread'[u].job \in Tasks /\ task'[thread'[u].job].queued
         /\ thread'[u].pc \in {"upgrade", "push"} => ~In(fifo', thread'[u].job)
         /\ thread'[u].pc = "link" => thread'[u].job \in linking'
    BY <1>3, <1>2, <1>4, <1>5, <2>4 DEF InvAt, Marked, Threaded
  <2>6. \A u, v \in Threads :
          thread'[u].job = thread'[v].job /\ thread'[u].job # Null => u = v
    BY <1>2, <1>4 DEF InvAt, Marked, Threaded
  <2>7. ASSUME NEW x \in linking'
        PROVE  In(fifo', x) /\ \E u \in Threads : thread'[u].pc = "link" /\ thread'[u].job = x
    <3>1. CASE x = t
      BY <1>4, <1>5, <3>1 DEF Threaded
    <3>2. CASE x # t
      <4>1. x \in linking
        BY <1>3, <2>7, <3>2
      <4>2. PICK u \in Threads : thread[u].pc = "link" /\ thread[u].job = x
        BY <4>1 DEF InvAt, Marked
      <4>3. u # th
        BY <1>3, <4>2
      <4>4. In(fifo', x)
        BY <1>5, <3>2, <4>1 DEF InvAt, Marked
      <4> QED
        BY <1>4, <4>2, <4>3, <4>4 DEF Threaded
    <3> QED
      BY <3>1, <3>2
  <2> QED
    BY <1>5, <2>3, <2>5, <2>6, <2>7 DEF Marked
<1>8. Waking(t) /\ ~Waking(t)' /\ \A x \in Tasks : x # t => (Waking(x)' <=> Waking(x))
  BY <1>3, <1>2, <1>4, WakingIs DEF InvAt
<1>9. \A x \in Tasks : task'[x] = task[x] /\ Untouched(x)
  BY <1>3 DEF Untouched, SameTask
<1>10. Others(t)
  BY <1>5, <1>8, <1>9 DEF Others
<1>11. Gains(t, 0)
  <2>1. task[t].wakers \in Nat /\ task[t].count \in Nat
    BY <1>2, OwnersNumber
  <2>2. One(In(fifo, t)) = 0 /\ One(In(fifo', t)) = 1
    BY <1>2, <1>5 DEF One
  <2>3. One(Waking(t)) = 1 /\ One(Waking(t)') = 0
    BY <1>8 DEF One
  <2> QED
    BY <1>2, <1>9, <2>1, <2>2, <2>3 DEF Gains
<1>12. Skipped(t) => Skipped(t)'
  BY <1>8 DEF Skipped
<1>13. InvAt(s)'
  BY <1>3, <1>2, <1>6, <1>7, <1>9, <1>10, <1>11, <1>12, AsideKeeps
<1> QED
  BY <1>6, <1>13

\* The link in push, and what the thread does after it.
LEMMA LinkKeeps ==
  ASSUME Typed, NEW s, InvAt(s), NEW th \in Threads, LinkTask(th)
  PROVE  Typed' /\ InvAt(s)'
<1>1. thread[th].pc = "link"
  BY DEF LinkTask
<1>2. PICK t \in Tasks : t = thread[th].job /\ task[t].queued /\ t # Null
  BY <1>1, SchedularAssumption DEF InvAt, Marked
<1>3. /\ thread[th].pc = "link" /\ t \in linking /\ linking' = linking \ {t} /\ fifo' = fifo
      /\ thread' = [thread EXCEPT ![th] = [pc |-> "wake", job |-> Null]]
      /\ UNCHANGED <<task, list, calls, turn, wakeVars, live>>
  BY <1>2 DEF LinkTask, Link
<1>4. Threaded(th, "wake", Null)
  BY <1>3, ThreadedTo
<1>5. Typed'
  BY <1>3, <1>2, <1>4 DEF Typed, wakeVars, Threaded
<1>6. Marked'
  <2>1. \A u \in Threads : u # th => thread[u].job # t
    BY <1>2 DEF InvAt, Marked
  <2>2. \A u \in Threads :
         /\ thread'[u].pc \in {"idle", "wake"} => thread'[u].job = Null
         /\ thread'[u].pc \in {"upgrade", "push", "link"} =>
              thread'[u].job \in Tasks /\ task[thread'[u].job].queued
         /\ thread'[u].pc \in {"upgrade", "push"} => ~In(fifo, thread'[u].job)
         /\ thread'[u].pc = "link" => thread'[u].job \in linking'
    BY <1>3, <1>4, <2>1 DEF InvAt, Marked, Threaded
  <2>3. \A u, v \in Threads :
          thread'[u].job = thread'[v].job /\ thread'[u].job # Null => u = v
    BY <1>4 DEF InvAt, Marked, Threaded
  <2>4. ASSUME NEW x \in linking'
        PROVE  In(fifo, x) /\ \E u \in Threads : thread'[u].pc = "link" /\ thread'[u].job = x
    <3>1. x \in linking /\ x # t
      BY <1>3, <2>4
    <3>2. PICK u \in Threads : thread[u].pc = "link" /\ thread[u].job = x
      BY <3>1 DEF InvAt, Marked
    <3>3. u # th
      BY <1>2, <3>1, <3>2
    <3> QED
      BY <1>4, <3>1, <3>2, <3>3 DEF Threaded, InvAt, Marked
  <2>5. /\ \A i, j \in 1..Len(fifo) : fifo[i] = fifo[j] => i = j
        /\ \A i \in 1..Len(fifo) : task[fifo[i]].queued
    BY DEF InvAt, Marked
  <2> QED
    BY <1>3, <2>2, <2>3, <2>4, <2>5 DEF Marked
<1>7. \A x \in Tasks : Waking(x)' <=> Waking(x)
  <2>1. \A x \in Tasks : x # Null
    BY SchedularAssumption
  <2> QED
    BY <1>3, <1>4, <2>1, WakingIs DEF InvAt
<1>8. \A x \in Tasks : task'[x] = task[x] /\ Untouched(x)
  BY <1>3 DEF Untouched, SameTask
<1>9. Others(t)
  BY <1>3, <1>7, <1>8 DEF Others
<1>10. Gains(t, 0)
  <2>1. task[t].wakers \in Nat /\ task[t].count \in Nat
    BY <1>2, OwnersNumber
  <2>2. PICK e \in Nat : e = One(In(fifo, t)) /\ e = One(In(fifo', t))
    BY <1>3 DEF One
  <2>3. PICK g \in Nat : g = One(Waking(t)) /\ g = One(Waking(t)')
    BY <1>2, <1>7 DEF One
  <2> QED
    BY <1>2, <1>8, <2>1, <2>2, <2>3 DEF Gains
<1>11. Skipped(t) => Skipped(t)'
  BY <1>3, <1>2, <1>7, <1>8 DEF Skipped
<1>12. InvAt(s)'
  BY <1>3, <1>2, <1>5, <1>6, <1>8, <1>9, <1>10, <1>11, AsideKeeps
<1> QED
  BY <1>5, <1>12

\* The wake of the task that polls the Schedular.
LEMMA WakeSchedularKeeps ==
  ASSUME Typed, NEW s, InvAt(s), NEW th \in Threads, WakeSchedular(th)
  PROVE  Typed' /\ InvAt(s)'
<1>1. /\ thread[th].pc = "wake" /\ thread' = [thread EXCEPT ![th] = Idle]
      /\ woken' = (woken \/ registered) /\ registered' = FALSE
      /\ UNCHANGED <<task, list, calls, turn, live, queueVars>>
  BY DEF WakeSchedular, WakePoller
<1>2. Threaded(th, "idle", Null) /\ thread[th].job = Null
  BY <1>1, ThreadedTo DEF Idle, InvAt, Marked
<1>3. UNCHANGED <<calls, list, live, fifo, linking>>
  BY <1>1 DEF queueVars
<1>4. Typed'
  BY <1>1, <1>2 DEF Typed, queueVars, Threaded
<1>5. Marked'
  <2>1. \A u \in Threads :
         /\ thread'[u].pc \in {"idle", "wake"} => thread'[u].job = Null
         /\ thread'[u].pc \in {"upgrade", "push", "link"} =>
              thread'[u].job \in Tasks /\ task[thread'[u].job].queued
         /\ thread'[u].pc \in {"upgrade", "push"} => ~In(fifo, thread'[u].job)
         /\ thread'[u].pc = "link" => thread'[u].job \in linking
    BY <1>1, <1>2 DEF InvAt, Marked, Threaded
  <2>2. \A u, v \in Threads :
          thread'[u].job = thread'[v].job /\ thread'[u].job # Null => u = v
    BY <1>2 DEF InvAt, Marked, Threaded
  <2>3. \A x \in linking :
          In(fifo, x) /\ \E u \in Threads : thread'[u].pc = "link" /\ thread'[u].job = x
    BY <1>1, <1>2 DEF InvAt, Marked, Threaded
  <2>4. /\ \A i, j \in 1..Len(fifo) : fifo[i] = fifo[j] => i = j
        /\ \A i \in 1..Len(fifo) : task[fifo[i]].queued
    BY DEF InvAt, Marked
  <2> QED
    BY <1>1, <1>3, <2>1, <2>2, <2>3, <2>4 DEF Marked
<1>6. \A x \in Tasks : Waking(x)' <=> Waking(x)
  <2>1. \A x \in Tasks : x # Null
    BY SchedularAssumption
  <2> QED
    BY <1>2, <2>1, WakingIs DEF InvAt
<1>7. Core(s)'
  BY <1>1, <1>3, CoreKept DEF InvAt, SameTask
<1>8. TasksTell'
  BY <1>1 DEF InvAt, TasksTell
<1>9. \A op, t : On(op, t)' <=> On(op, t)
  BY <1>3, OnKept
<1>10. \A t \in Tasks : SameOwners(s, s, t)
  BY <1>1, <1>3, <1>6, <1>9 DEF SameOwners, TokenOut
<1>11. Counted(s)'
  BY <1>10, CountedKept DEF InvAt
<1> QED
  BY <1>4, <1>5, <1>7, <1>8, <1>11 DEF InvAt

\* A task that is driven wakes a task.
LEMMA DriveWakesKeeps ==
  ASSUME Typed, NEW s, InvAt(s), NEW t \in Tasks, NEW x \in Tasks, DriveWakes(t, x)
  PROVE  Typed' /\ InvAt(s)'
<1>1. /\ Running("drive", t) /\ (x = t \/ task[x].wakers > 0) /\ ~task[x].queued
      /\ task' = incr_task([task EXCEPT ![x].queued = TRUE], x)
      /\ fifo' = Append(fifo, x) /\ linking' = linking
      /\ woken' = (woken \/ registered) /\ registered' = FALSE
      /\ UNCHANGED <<list, calls, turn, live, thread>>
  BY DEF DriveWakes, PushOwn, WakePoller
<1>2. /\ task' \in [Tasks -> TaskRecords]
      /\ \A y \in Tasks :
           /\ Untouched(y) /\ task'[y].wakers = task[y].wakers
           /\ y # x => task'[y].count = task[y].count /\ task'[y].queued = task[y].queued
      /\ task'[x].count = task[x].count + 1 /\ task'[x].queued
  BY <1>1, IncrMarked
<1>3. ~In(fifo, x)
  BY <1>1, NotMarked DEF InvAt
<1>4. /\ fifo' \in Seq(Tasks) /\ In(fifo', x)
      /\ \A y : y # x => (In(fifo', y) <=> In(fifo, y))
  BY <1>1, <1>3, PutLast DEF InvAt
<1>5. Typed'
  BY <1>1, <1>2, <1>4 DEF Typed
<1>6. Marked'
  BY <1>1, <1>2, MarkedPut DEF InvAt, PushOwn
<1>7. \A y \in Tasks : Waking(y)' <=> Waking(y)
  BY <1>1 DEF Waking
<1>8. task[x].done # "absent"
  <2>1. On("drive", t)
    BY <1>1, RunningOn DEF Typed
  <2> QED
    BY <1>1, <2>1, WakerOfTask
<1>9. Others(x)
  BY <1>2, <1>4, <1>7 DEF Others
<1>10. Gains(x, 1)
  <2>1. task[x].wakers \in Nat /\ task[x].count \in Nat
    BY OwnersNumber
  <2>2. One(In(fifo, x)) = 0 /\ One(In(fifo', x)) = 1
    BY <1>3, <1>4 DEF One
  <2>3. PICK g \in Nat : g = One(Waking(x)) /\ g = One(Waking(x)')
    BY <1>7 DEF One
  <2> QED
    BY <1>2, <2>1, <2>2, <2>3 DEF Gains
<1>11. Skipped(x) => Skipped(x)'
  BY <1>1 DEF Skipped
<1>12. InvAt(s)'
  BY <1>1, <1>2, <1>5, <1>6, <1>8, <1>9, <1>10, <1>11, AsideKeeps
<1> QED
  BY <1>5, <1>12

\* The count of the queue is given back: PollDone and DrainValue.
LEMMA GetKeeps ==
  ASSUME Typed, NEW s, InvAt(s), NEW t \in Tasks, Get, t = Head(fifo),
         task' = decr_task(task, t), UNCHANGED <<list, calls, turn, wakeVars, live, thread>>
  PROVE  Typed' /\ InvAt(s)'
<1>1. /\ fifo' \in Seq(Tasks) /\ linking' = linking
      /\ In(fifo, t) /\ ~In(fifo', t)
      /\ \A x : x # t => (In(fifo', x) <=> In(fifo, x))
  BY Got DEF InvAt
<1>2. task[t].count >= 1
  BY <1>1, OwnedCount DEF InvAt
<1>3. /\ task' \in [Tasks -> TaskRecords]
      /\ \A x \in Tasks :
           /\ Untouched(x) /\ task'[x].queued = task[x].queued
           /\ task'[x].wakers = task[x].wakers
           /\ x # t => task'[x].count = task[x].count
      /\ task'[t].count = task[t].count - 1
  BY <1>2, DecrTask
<1>4. Typed'
  BY <1>1, <1>3 DEF Typed, wakeVars
<1>5. Marked'
  BY <1>3, MarkedGot DEF InvAt
<1>6. \A x \in Tasks : Waking(x)' <=> Waking(x)
  BY DEF Waking
<1>7. Others(t)
  BY <1>1, <1>3, <1>6 DEF Others
<1>8. Gains(t, -1)
  <2>1. task[t].wakers \in Nat /\ task[t].count \in Nat
    BY OwnersNumber
  <2>2. One(In(fifo, t)) = 1 /\ One(In(fifo', t)) = 0
    BY <1>1 DEF One
  <2>3. PICK g \in Nat : g = One(Waking(t)) /\ g = One(Waking(t)')
    BY <1>6 DEF One
  <2> QED
    BY <1>3, <2>1, <2>2, <2>3 DEF Gains
<1>9. InvAt(s)'
  <2>1. -1 \in Int
    OBVIOUS
  <2>2. Skipped(t) => Skipped(t)'
    BY <1>1 DEF Skipped
  <2> QED
    BY <1>3, <1>4, <1>5, <1>7, <1>8, <2>1, <2>2, AsideKeeps
<1> QED
  BY <1>4, <1>9

-----------------------------------------------------------------------------
(***************************************************************************)
(* Steps that change the calls and leave the list and the futures: poll,   *)
(* and the loops of clear.                                                 *)
(***************************************************************************)

\* The call on top, and what is known of the calls r below it.
TopOf(s, f, r) ==
  /\ f \in FrameSet /\ r \in Seq(FrameSet) /\ calls = Cons(f, r) /\ Tail(calls) = r
  /\ CallsNest(r) /\ MayCall(f, r) /\ Nested(r, s) /\ OlderBelow(f, r, s)
  /\ Len(r) \in Nat /\ Len(calls) = Len(r) + 1 /\ calls[1] = f
  /\ \A op, x : On(op, x) <=> (f.op = op /\ f.task = x) \/ OnIn(r, op, x)

LEMMA TopFacts ==
  ASSUME Typed, NEW s, Core(s), NEW op, NEW t, Running(op, t)
  PROVE  \E f, r : TopOf(s, f, r) /\ f.op = op /\ f.task = t
<1>1. PICK f \in FrameSet, r \in Seq(FrameSet) :
        f.op = op /\ f.task = t /\ calls = Cons(f, r) /\ Tail(calls) = r
  <2>1. calls \in Seq(FrameSet)
    BY DEF Typed
  <2>2. /\ Frame(op, t) \in FrameSet /\ Frame(op, t).op = op /\ Frame(op, t).task = t
        /\ Tail(calls) \in Seq(FrameSet) /\ calls = Cons(Frame(op, t), Tail(calls))
    BY <2>1, RunningIs
  <2> QED
    BY <2>2, Zenon
<1>2. CallsNest(r) /\ MayCall(f, r)
  BY <1>1, NestCons DEF Core
<1>3. s \in Seq(Tasks)
  BY DEF Core, IsList
<1>4. Nested(r, s) /\ OlderBelow(f, r, s)
  BY <1>1, <1>3, NestedCons DEF Core
<1>5. Len(r) \in Nat /\ Len(calls) = Len(r) + 1 /\ calls[1] = f
  BY <1>1, ConsFacts
<1>6. \A o, x : On(o, x) <=> (f.op = o /\ f.task = x) \/ OnIn(r, o, x)
  BY <1>1, OnCons DEF On
<1> QED
  BY <1>1, <1>2, <1>4, <1>5, <1>6 DEF TopOf

\* A call on top of the call f.
LEMMA MayCallOn ==
  ASSUME NEW r \in Seq(FrameSet), NEW f \in FrameSet, NEW g,
         \/ g.op \in BaseOps /\ g.task = Null
         \/ g.op \in TaskOps /\ g.task \in Tasks,
         Above(g, f), Upon(g, f), \A i \in 1..Len(r) : Above(g, r[i])
  PROVE  MayCall(g, Cons(f, r))
<1> DEFINE c == Cons(f, r)
<1>1. /\ Len(r) \in Nat /\ Len(c) = Len(r) + 1 /\ c[1] = f
      /\ \A i \in 1..Len(r) : c[i + 1] = r[i]
  BY ConsFacts
<1> HIDE DEF c
<1>2. ASSUME NEW i \in 1..Len(c) PROVE Above(g, c[i])
  <2>1. CASE i = 1
    BY <1>1, <2>1
  <2>2. CASE i # 1
    <3>1. i - 1 \in 1..Len(r) /\ (i - 1) + 1 = i
      BY <1>1, <2>2
    <3> QED
      BY <1>1, <3>1
  <2> QED
    BY <2>1, <2>2
<1>3. Len(c) # 0
  BY <1>1
<1> QED
  BY <1>1, <1>2, <1>3 DEF MayCall, c

\* Calls that are about no task.
OnlyBases(c) == \A i \in 1..Len(c) : c[i].op \in BaseOps

LEMMA BasesOn ==
  ASSUME NEW c, OnlyBases(c)
  PROVE  /\ \A op \in TaskOps : \A x : ~OnIn(c, op, x)
         /\ \A s : Nested(c, s)
         /\ \A f, s : OlderBelow(f, c, s)
<1>1. \A op \in TaskOps : op \notin BaseOps
  BY DEF TaskOps, BaseOps, TreeOps
<1>2. "token" \in TaskOps /\ "future" \in TaskOps /\ "drive" \in TaskOps
  BY DEF TaskOps
<1> QED
  BY <1>1, <1>2 DEF OnlyBases, OnIn, Nested, OlderBelow

\* Below poll, clear and the like, and below the waker of a drive, are only such calls.
LEMMA BelowBase ==
  ASSUME NEW f, NEW r, MayCall(f, r), f.op \in BaseOps \cup {"waker"}
  PROVE  OnlyBases(r)
BY DEF MayCall, Above, OnlyBases

LEMMA BasesCons ==
  ASSUME NEW f \in FrameSet, NEW r \in Seq(FrameSet), f.op \in BaseOps, OnlyBases(r)
  PROVE  OnlyBases(Cons(f, r))
<1> DEFINE c == Cons(f, r)
<1>1. /\ Len(r) \in Nat /\ Len(c) = Len(r) + 1 /\ c[1] = f
      /\ \A i \in 1..Len(r) : c[i + 1] = r[i]
  BY ConsFacts
<1> HIDE DEF c
<1>2. ASSUME NEW i \in 1..Len(c) PROVE c[i].op \in BaseOps
  <2>1. CASE i = 1
    BY <1>1, <2>1
  <2>2. CASE i # 1
    <3>1. i - 1 \in 1..Len(r) /\ (i - 1) + 1 = i
      BY <1>1, <2>2
    <3> QED
      BY <1>1, <3>1 DEF OnlyBases
  <2> QED
    BY <2>1, <2>2
<1> QED
  BY <1>2 DEF OnlyBases, c

\* Only calls that are about no task come and go.
LEMMA BasesKeep ==
  ASSUME NEW s, InvAt(s), UNCHANGED <<task, list, thread, fifo, linking>>, ~live' => Len(s) = 0,
         OnlyBases(calls), OnlyBases(calls'), CallsNest(calls'),
         Len(calls') >= 1 /\ calls'[1].op \in {"drain", "free"} => Len(s) = 0
  PROVE  InvAt(s)'
<1>1. \A op \in TaskOps : \A t : ~On(op, t) /\ ~On(op, t)'
  <2>1. \A op \in TaskOps : \A t : ~OnIn(calls, op, t) /\ ~OnIn(calls', op, t)
    BY BasesOn
  <2> QED
    BY <2>1 DEF On, OnIn
<1>2. Nested(calls', s)
  BY BasesOn
<1>3. {"drive", "waker", "remove", "future", "detach", "token", "requeue"} \subseteq TaskOps
  BY DEF TaskOps
<1>4. \A t \in Tasks : SameTask(t)
  BY DEF SameTask
<1>5. Core(s)'
  BY <1>1, <1>2, <1>3, <1>4, CallsChange DEF InvAt
<1>6. TasksTell' /\ Marked'
  BY DEF InvAt, TasksTell, Marked
<1>7. \A t \in Tasks : SameOwners(s, s, t)
  BY <1>1, <1>3, OwnersKept
<1>8. Counted(s)'
  BY <1>7, CountedKept DEF InvAt
<1> QED
  BY <1>5, <1>6, <1>8 DEF InvAt

\* A call that is about no task ends, and those below it go on.
LEMMA BasePops ==
  ASSUME Typed, NEW s, InvAt(s), NEW op \in BaseOps, Running(op, Null),
         UNCHANGED <<task, list, thread, fifo, linking>>, ~live' => Len(s) = 0,
         (calls' = Tail(calls) /\ Len(s) = 0) \/ calls' = <<>>
  PROVE  InvAt(s)' /\ calls' \in Seq(FrameSet)
<1>1. PICK f, r : TopOf(s, f, r) /\ f.op = op /\ f.task = Null
  BY TopFacts DEF InvAt
<1>2. OnlyBases(r)
  BY <1>1, BelowBase DEF TopOf
<1>3. OnlyBases(calls)
  BY <1>1, <1>2, BasesCons DEF TopOf
<1>4. <<>> \in Seq(FrameSet) /\ Len(<<>>) = 0
  OBVIOUS
<1>5. OnlyBases(<<>>)
  BY <1>4 DEF OnlyBases
<1>6. CASE calls' = Tail(calls) /\ Len(s) = 0
  BY <1>1, <1>2, <1>3, <1>6, BasesKeep DEF TopOf
<1>7. CASE calls' = <<>>
  BY <1>3, <1>4, <1>5, <1>7, NoCalls, BasesKeep
<1> QED
  BY <1>6, <1>7

\* The list is empty when all_next says so.
LEMMA ListEmpty ==
  ASSUME NEW s, Core(s), list.next = Null
  PROVE  Len(s) = 0
<1>1. s \in Seq(Tasks) /\ Len(s) \in Nat /\ (Len(s) # 0 => s[1] = Null)
  BY LenProperties DEF Core, IsList
<1>2. Null \notin Tasks
  BY SchedularAssumption
<1>3. Len(s) # 0 => 1 \in 1..Len(s)
  BY <1>1
<1>4. Len(s) # 0 => s[1] \in Tasks
  BY <1>1, <1>3, ElementOfSeq
<1> QED
  BY <1>1, <1>2, <1>4

LEMMA PollEmptyKeeps ==
  ASSUME Typed, NEW s, InvAt(s), PollEmpty
  PROVE  Typed' /\ InvAt(s)'
<1>1. /\ Running("poll", Null) /\ calls' = EmptyReturns /\ turn' = NoTurn
      /\ UNCHANGED <<task, list, wakeVars, live, thread, queueVars>>
  BY DEF PollEmpty, Return
<1>2. (calls' = Tail(calls) /\ Len(s) = 0) \/ calls' = <<>>
  BY <1>1, ListEmpty DEF EmptyReturns, InvAt
<1>3. ~live' => Len(s) = 0
  BY <1>1 DEF InvAt, Core, EmptyAtEnd
<1>4. "poll" \in BaseOps
  BY DEF BaseOps
<1>5. InvAt(s)' /\ calls' \in Seq(FrameSet)
  BY <1>1, <1>2, <1>3, <1>4, BasePops DEF queueVars
<1>6. Typed'
  BY <1>1, <1>5 DEF Typed, wakeVars, queueVars, NoTurn
<1> QED
  BY <1>5, <1>6

LEMMA PollInconsistantKeeps ==
  ASSUME Typed, NEW s, InvAt(s), PollInconsistant
  PROVE  Typed' /\ InvAt(s)'
<1>1. /\ Running("poll", Null) /\ calls' = <<>> /\ turn' = NoTurn /\ woken' = TRUE
      /\ UNCHANGED <<task, list, registered, live, thread, queueVars>>
  BY DEF PollInconsistant, Return
<1>2. ~live' => Len(s) = 0
  BY <1>1 DEF InvAt, Core, EmptyAtEnd
<1>3. "poll" \in BaseOps
  BY DEF BaseOps
<1>4. InvAt(s)' /\ calls' \in Seq(FrameSet)
  BY <1>1, <1>2, <1>3, BasePops DEF queueVars
<1>5. Typed'
  BY <1>1, <1>4 DEF Typed, queueVars, NoTurn
<1> QED
  BY <1>4, <1>5

\* clear and drain have to do with an empty list in the end.
LEMMA AtEnd ==
  ASSUME Typed, NEW s, InvAt(s), NEW op \in {"drain", "free"}, Running(op, Null)
  PROVE  Len(s) = 0
<1>1. Len(calls) >= 1 /\ calls[1].op = op
  BY RunningOn DEF Typed
<1> QED
  BY <1>1 DEF InvAt, Core, EmptyAtEnd

LEMMA DrainEmptyKeeps ==
  ASSUME Typed, NEW s, InvAt(s), DrainEmpty
  PROVE  Typed' /\ InvAt(s)'
<1>1. Running("drain", Null) /\ calls' = <<>> \o Tail(calls) /\ UNCHANGED <<task, list, rest>>
  BY DEF DrainEmpty, Become
<1>2. UNCHANGED <<task, list, live, thread, fifo, linking>>
  BY <1>1 DEF rest, queueVars
<1>3. Len(s) = 0 /\ "drain" \in BaseOps
  BY <1>1, AtEnd DEF BaseOps
<1>4. calls' = Tail(calls)
  BY <1>1, RunningIs, ConcatIs DEF Typed
<1>5. InvAt(s)' /\ calls' \in Seq(FrameSet)
  BY <1>1, <1>2, <1>3, <1>4, BasePops
<1>6. Typed'
  BY <1>1, <1>5 DEF Typed, rest, wakeVars, queueVars
<1> QED
  BY <1>5, <1>6

LEMMA FreeKeeps ==
  ASSUME Typed, NEW s, InvAt(s), Free
  PROVE  Typed' /\ InvAt(s)'
<1>1. /\ Running("free", Null) /\ calls' = <<>> \o Tail(calls) /\ live' = FALSE
      /\ UNCHANGED <<task, list, turn, wakeVars, thread, queueVars>>
  BY DEF Free, Become
<1>2. UNCHANGED <<task, list, thread, fifo, linking>>
  BY <1>1 DEF queueVars
<1>3. Len(s) = 0 /\ "free" \in BaseOps
  BY <1>1, AtEnd DEF BaseOps
<1>4. calls' = Tail(calls)
  BY <1>1, RunningIs, ConcatIs DEF Typed
<1>5. InvAt(s)' /\ calls' \in Seq(FrameSet)
  BY <1>1, <1>2, <1>3, <1>4, BasePops
<1>6. Typed'
  BY <1>1, <1>5 DEF Typed, wakeVars, queueVars
<1> QED
  BY <1>5, <1>6

\* clear and its loops, alone or before the drop of the Schedular.
LEMMA ClearNests ==
  /\ ClearCalls \in Seq(FrameSet) /\ OnlyBases(ClearCalls) /\ CallsNest(ClearCalls)
  /\ DropCalls \in Seq(FrameSet) /\ OnlyBases(DropCalls) /\ CallsNest(DropCalls)
  /\ Len(ClearCalls) >= 1 /\ ClearCalls[1].op = "clear"
  /\ Len(DropCalls) >= 1 /\ DropCalls[1].op = "clear"
<1>1. {"clear", "drain", "free"} \subseteq BaseOps /\ BaseOps \subseteq Ops \cup TreeOps
  BY DEF BaseOps, Ops
<1>2. {"clear", "drain", "free"} \cap (TaskOps \cup TreeOps) = {}
  BY DEF TaskOps, TreeOps
<1>3. PICK c \in FrameSet, d \in FrameSet, f \in FrameSet :
        /\ c = Frame("clear", Null) /\ c.op = "clear" /\ c.task = Null
        /\ d = Frame("drain", Null) /\ d.op = "drain" /\ d.task = Null
        /\ f = Frame("free", Null) /\ f.op = "free" /\ f.task = Null
  BY <1>1, FrameFacts
<1>4. PICK e \in Seq(FrameSet) : e = <<>> /\ Len(e) = 0
  <2>1. <<>> \in Seq(FrameSet) /\ Len(<<>>) = 0
    OBVIOUS
  <2> QED
    BY <2>1, Zenon
<1>5. CallsNest(e) /\ OnlyBases(e)
  BY <1>4, NoCalls DEF OnlyBases
<1>6. ASSUME NEW g \in FrameSet, NEW r \in Seq(FrameSet), CallsNest(r), OnlyBases(r),
             g.op \in {"clear", "drain", "free"}, g.task = Null,
             r = e \/ \E h \in FrameSet, q \in Seq(FrameSet) : r = Cons(h, q)
      PROVE  /\ Cons(g, r) \in Seq(FrameSet) /\ OnlyBases(Cons(g, r)) /\ CallsNest(Cons(g, r))
             /\ Len(Cons(g, r)) >= 1 /\ Cons(g, r)[1] = g
  <2>1. /\ Cons(g, r) \in Seq(FrameSet) /\ Len(r) \in Nat /\ Len(Cons(g, r)) = Len(r) + 1
        /\ Cons(g, r)[1] = g
    BY ConsFacts
  <2>2. OnlyBases(Cons(g, r))
    BY <1>1, <1>6, BasesCons
  <2>3. MayCall(g, r)
    <3>1. g.op \in BaseOps /\ g.op # "drive" /\ g.op \notin TaskOps \cup TreeOps
      BY <1>1, <1>2, <1>6
    <3>2. \A i \in 1..Len(r) : r[i].op \in BaseOps
      BY <1>6 DEF OnlyBases
    <3>3. \A i \in 1..Len(r) : Above(g, r[i])
      BY <1>6, <3>1, <3>2 DEF Above, BaseOps, TreeOps
    <3> QED
      BY <1>6, <3>1, <3>3 DEF MayCall, Upon
  <2>4. CallsNest(Cons(g, r))
    BY <1>6, <2>3, NestCons
  <2> QED
    BY <2>1, <2>2, <2>4
<1>7. /\ Cons(d, e) \in Seq(FrameSet) /\ OnlyBases(Cons(d, e)) /\ CallsNest(Cons(d, e))
      /\ Cons(f, e) \in Seq(FrameSet) /\ OnlyBases(Cons(f, e)) /\ CallsNest(Cons(f, e))
  BY <1>3, <1>4, <1>5, <1>6
<1>8. PICK de \in Seq(FrameSet), fe \in Seq(FrameSet) : de = Cons(d, e) /\ fe = Cons(f, e)
  BY <1>7
<1>9. Cons(d, fe) \in Seq(FrameSet) /\ OnlyBases(Cons(d, fe)) /\ CallsNest(Cons(d, fe))
  BY <1>3, <1>4, <1>6, <1>7, <1>8
<1>10. PICK dfe \in Seq(FrameSet) : dfe = Cons(d, fe)
  BY <1>9
<1>11. /\ Cons(c, de) \in Seq(FrameSet) /\ OnlyBases(Cons(c, de)) /\ CallsNest(Cons(c, de))
       /\ Len(Cons(c, de)) >= 1 /\ Cons(c, de)[1] = c
  BY <1>3, <1>4, <1>6, <1>7, <1>8
<1>12. /\ Cons(c, dfe) \in Seq(FrameSet) /\ OnlyBases(Cons(c, dfe)) /\ CallsNest(Cons(c, dfe))
       /\ Len(Cons(c, dfe)) >= 1 /\ Cons(c, dfe)[1] = c
  BY <1>3, <1>6, <1>8, <1>9, <1>10
<1>13. ClearCalls = Cons(c, de)
  <2>1. <<c, d>> = Cons(c, Cons(d, <<>>))
    BY <1>4, ConcatIs
  <2> QED
    BY <1>3, <1>4, <1>8, <2>1, Zenon DEF ClearCalls
<1>14. DropCalls = Cons(c, dfe)
  <2>1. <<f>> = fe
    BY <1>4, <1>8, ConcatIs
  <2>2. <<c, d>> \o fe = Cons(c, Cons(d, fe))
    BY ConcatIs
  <2> QED
    BY <1>3, <1>10, <2>1, <2>2 DEF DropCalls, ClearCalls
<1> QED
  BY <1>3, <1>11, <1>12, <1>13, <1>14

\* poll, clear and drop are called.
LEMMA UseCallsKeeps ==
  ASSUME Typed, NEW s, InvAt(s), calls = <<>>, NEW cs \in {ClearCalls, DropCalls}, Calls(cs),
         UNCHANGED <<task, list, rest>>
  PROVE  Typed' /\ InvAt(s)'
<1>1. /\ cs \in Seq(FrameSet) /\ OnlyBases(cs) /\ CallsNest(cs)
      /\ Len(cs) >= 1 /\ cs[1].op = "clear"
  BY ClearNests
<1>2. calls' = cs
  BY <1>1, ConcatEmptySeq DEF Calls
<1>3. Len(<<>>) = 0
  OBVIOUS
<1>4. OnlyBases(calls)
  BY <1>3 DEF OnlyBases
<1>5. UNCHANGED <<task, list, live, thread, fifo, linking>>
  BY DEF rest, queueVars
<1>6. ~live' => Len(s) = 0
  BY <1>5 DEF InvAt, Core, EmptyAtEnd
<1>7. InvAt(s)'
  BY <1>1, <1>2, <1>4, <1>5, <1>6, BasesKeep
<1>8. Typed'
  BY <1>1, <1>2 DEF Typed, rest, wakeVars, queueVars
<1> QED
  BY <1>7, <1>8

LEMMA StartPollKeeps ==
  ASSUME Typed, NEW s, InvAt(s), calls = <<>>, StartPoll(<<>>), woken' = FALSE
  PROVE  Typed' /\ InvAt(s)'
<1>1. UNCHANGED <<task, list, turn, live, thread, fifo, linking>>
  BY DEF StartPoll, queueVars
<1>2. PICK e \in Seq(FrameSet) : e = <<>> /\ Len(e) = 0 /\ CallsNest(e) /\ OnlyBases(e)
  <2>1. <<>> \in Seq(FrameSet) /\ Len(<<>>) = 0
    OBVIOUS
  <2>2. OnlyBases(<<>>)
    BY <2>1 DEF OnlyBases
  <2>3. CallsNest(<<>>)
    BY NoCalls
  <2> QED
    BY <2>1, <2>2, <2>3, Zenon
<1>3. PICK p \in FrameSet : p = Frame("poll", Null) /\ p.op = "poll" /\ p.task = Null
  BY FrameFacts DEF Ops
<1>4. "poll" \in BaseOps /\ "poll" \notin TaskOps \cup TreeOps
  BY DEF BaseOps, TaskOps, TreeOps
<1>5. MayCall(p, e)
  BY <1>2, <1>3, <1>4 DEF MayCall
<1>6. Cons(p, e) \in Seq(FrameSet) /\ CallsNest(Cons(p, e)) /\ OnlyBases(Cons(p, e))
      /\ Cons(p, e)[1] = p
  BY <1>2, <1>3, <1>4, <1>5, NestCons, BasesCons, ConsFacts
<1>7. (calls' = e /\ registered' = registered) \/ (calls' = Cons(p, e) /\ registered' = TRUE)
  <2>1. <<>> \o <<>> = <<>> /\ <<p>> \o <<>> = <<p>> /\ <<p>> = Cons(p, e)
    BY <1>2, ConcatIs
  <2>2. (<<p>> \o <<>>) \o <<>> = <<p>>
    BY <2>1
  <2> QED
    BY <1>2, <1>3, <2>1, <2>2 DEF StartPoll, Calls
<1>8. calls' \in Seq(FrameSet) /\ CallsNest(calls') /\ OnlyBases(calls')
      /\ (Len(calls') >= 1 => calls'[1].op = "poll")
  <2>1. CASE calls' = e
    <3>1. ~(Len(calls') >= 1)
      BY <1>2, <2>1
    <3> QED
      BY <1>2, <2>1, <3>1
  <2>2. CASE calls' = Cons(p, e)
    BY <1>3, <1>6, <2>2
  <2> QED
    BY <1>7, <2>1, <2>2
<1>9. ~live' => Len(s) = 0
  BY <1>1 DEF InvAt, Core, EmptyAtEnd
<1>10. InvAt(s)'
  BY <1>1, <1>2, <1>8, <1>9, BasesKeep
<1>11. Typed'
  BY <1>1, <1>7, <1>8 DEF Typed
<1> QED
  BY <1>10, <1>11

\* pop_task_all is called for a task in the list.
LEMMA RemoveCalled ==
  ASSUME Typed, NEW s, Core(s), NEW x \in Tasks, NEW op \in {"poll", "clear"}, Running(op, Null),
         task[x].done \in {"Running", "Cancelled"},
         Calls(<<Frame("remove", x)>>), UNCHANGED <<task, list, live>>
  PROVE  /\ Core(s)' /\ calls' \in Seq(FrameSet)
         /\ \A o \in {"token", "requeue", "waker"} : \A t : On(o, t)' <=> On(o, t)
<1>1. PICK f, r : TopOf(s, f, r) /\ f.op = op /\ f.task = Null
  BY TopFacts
<1>2. PICK c \in Seq(FrameSet) : c = calls
  BY DEF Typed
<1>3. op \in BaseOps /\ op \notin TaskOps
  BY DEF BaseOps, TaskOps
<1>4. OnlyBases(r)
  BY <1>1, <1>3, BelowBase DEF TopOf
<1>5. PICK g \in FrameSet : g = Frame("remove", x) /\ g.op = "remove" /\ g.task = x
  BY FrameFacts DEF Ops
<1>6. calls' = Cons(g, c)
  BY <1>2, <1>5, ConcatIs DEF Calls
<1>7. Above(g, f) /\ Upon(g, f)
  BY <1>1, <1>3, <1>5 DEF Above, Upon, TreeOps
<1>8. \A i \in 1..Len(r) : Above(g, r[i])
  <2>1. \A o \in BaseOps : o \notin {"remove", "token"}
    BY DEF BaseOps, TreeOps
  <2> QED
    BY <1>4, <1>5, <2>1 DEF Above, TreeOps, OnlyBases
<1>9. MayCall(g, c)
  <2>1. g.op \in TaskOps /\ g.task \in Tasks
    BY <1>5 DEF TaskOps
  <2> QED
    BY <1>1, <1>2, <1>7, <1>8, <2>1, MayCallOn DEF TopOf
<1>10. Cons(g, c) \in Seq(FrameSet) /\ CallsNest(Cons(g, c)) /\ Cons(g, c)[1] = g
  BY <1>2, <1>9, NestCons, ConsFacts DEF Core
<1>11. OlderBelow(g, c, s) /\ s \in Seq(Tasks)
  BY <1>5 DEF OlderBelow, Core, IsList
<1>12. Nested(Cons(g, c), s)
  BY <1>2, <1>11, NestedCons DEF Core
<1>13. \A o, t : On(o, t)' <=> (o = "remove" /\ t = x) \/ On(o, t)
  <2>1. \A o, t : OnIn(Cons(g, c), o, t) <=> (g.op = o /\ g.task = t) \/ OnIn(c, o, t)
    BY OnCons
  <2>2. \A o, t : On(o, t)' <=> OnIn(Cons(g, c), o, t)
    BY <1>6 DEF On, OnIn
  <2> QED
    BY <1>2, <1>5, <2>1, <2>2 DEF On
<1>14. /\ ~live' => Len(s) = 0
       /\ Len(calls') >= 1 /\ calls'[1].op \in {"drain", "free"} => Len(s) = 0
  BY <1>5, <1>6, <1>10 DEF Core, EmptyAtEnd
<1>15. CallsTell
  BY DEF Core
<1>16. \A t \in Tasks : SameTask(t)
  BY DEF SameTask
<1>17. Core(s)'
  BY <1>6, <1>10, <1>12, <1>13, <1>14, <1>15, <1>16, CallsChange DEF CallsTell
<1> QED
  BY <1>6, <1>10, <1>13, <1>17

\* The task at the front of the list can be removed when no task is.
LEMMA FirstListed ==
  ASSUME NEW s, Core(s), OnlyBases(calls), list.next # Null
  PROVE  list.next \in Tasks /\ task[list.next].done \in {"Running", "Cancelled"}
<1>1. s \in Seq(Tasks) /\ Len(s) \in Nat /\ Len(s) # 0 /\ list.next = s[1]
  BY LenProperties DEF Core, IsList
<1>2. 1 \in 1..Len(s)
  BY <1>1
<1>3. s[1] \in Tasks /\ In(s, s[1])
  BY <1>1, <1>2, ElementOfSeq DEF In
<1>4. "detach" \in TaskOps
  BY DEF TaskOps
<1>5. ~On("detach", s[1])
  BY <1>4, BasesOn DEF On
<1> QED
  BY <1>1, <1>3, <1>5 DEF Core, Listed

LEMMA ClearListKeeps ==
  ASSUME Typed, NEW s, InvAt(s), ClearList
  PROVE  Typed' /\ InvAt(s)'
<1>1. Running("clear", Null) /\ UNCHANGED <<task, list, rest>>
  BY DEF ClearList
<1>2. UNCHANGED <<task, list, live, thread, fifo, linking>>
  BY <1>1 DEF rest, queueVars
<1>3. "clear" \in BaseOps
  BY DEF BaseOps
<1>4. CASE list.next = Null
  <2>1. calls' = <<>> \o Tail(calls)
    BY <1>4 DEF ClearList, Become
  <2>2. calls' = Tail(calls)
    BY <1>1, <2>1, RunningIs, ConcatIs DEF Typed
  <2>3. Len(s) = 0
    BY <1>4, ListEmpty DEF InvAt
  <2>4. InvAt(s)' /\ calls' \in Seq(FrameSet)
    BY <1>1, <1>2, <1>3, <2>2, <2>3, BasePops
  <2> QED
    BY <1>1, <2>4 DEF Typed, rest, wakeVars, queueVars
<1>5. CASE list.next # Null
  <2>1. Calls(<<Frame("remove", list.next)>>)
    BY <1>5 DEF ClearList
  <2>2. OnlyBases(calls)
    <3>1. PICK f, r : TopOf(s, f, r) /\ f.op = "clear" /\ f.task = Null
      BY <1>1, TopFacts DEF InvAt
    <3> QED
      BY <1>3, <3>1, BelowBase, BasesCons DEF TopOf
  <2>3. PICK x \in Tasks : x = list.next /\ task[x].done \in {"Running", "Cancelled"}
    BY <1>5, <2>2, FirstListed DEF InvAt
  <2>4. Calls(<<Frame("remove", x)>>)
    BY <2>1, <2>3
  <2>5. /\ Core(s)' /\ calls' \in Seq(FrameSet)
        /\ \A o \in {"token", "requeue", "waker"} : \A t : On(o, t)' <=> On(o, t)
    BY <1>1, <1>2, <2>3, <2>4, RemoveCalled DEF InvAt
  <2>6. TasksTell' /\ Marked'
    BY <1>2 DEF InvAt, TasksTell, Marked
  <2>7. \A t \in Tasks : SameOwners(s, s, t)
    BY <1>2, <2>5, OwnersKept
  <2>8. Counted(s)'
    BY <2>7, CountedKept DEF InvAt
  <2>9. Typed'
    BY <1>1, <2>5 DEF Typed, rest, wakeVars, queueVars
  <2> QED
    BY <2>5, <2>6, <2>8, <2>9 DEF InvAt
<1> QED
  BY <1>4, <1>5

LEMMA PollCancelledKeeps ==
  ASSUME Typed, NEW s, InvAt(s), NEW t \in Tasks, PollCancelled(t)
  PROVE  Typed' /\ InvAt(s)'
<1>1. /\ Running("poll", Null) /\ Get /\ t = Head(fifo) /\ task[t].done = "Cancelled"
      /\ Calls(<<Frame("remove", t)>>) /\ UNCHANGED <<task, list, turn, wakeVars, live, thread>>
  BY DEF PollCancelled, Popped
<1>2. /\ Core(s)' /\ calls' \in Seq(FrameSet)
      /\ \A o \in {"token", "requeue", "waker"} : \A x : On(o, x)' <=> On(o, x)
  BY <1>1, RemoveCalled DEF InvAt
<1>3. /\ fifo' \in Seq(Tasks) /\ linking' = linking
      /\ In(fifo, t) /\ ~In(fifo', t)
      /\ \A x : x # t => (In(fifo', x) <=> In(fifo, x))
  BY <1>1, Got DEF InvAt
<1>4. TasksTell'
  BY <1>1 DEF InvAt, TasksTell
<1>5. Marked'
  BY <1>1, MarkedGot DEF InvAt
<1>6. \A x \in Tasks : (TokenOut(x)' <=> TokenOut(x)) /\ (Waking(x)' <=> Waking(x))
  BY <1>1, <1>2 DEF TokenOut, Waking
<1>7. \A x \in Tasks : x # t => SameOwners(s, s, x)
  BY <1>1, <1>2, <1>3, <1>6 DEF SameOwners
<1>8. task[t].cancelled /\ task'[t].cancelled
  BY <1>1 DEF InvAt, TasksTell
<1>9. OwnersIn(s, t)' = OwnersIn(s, t) - 1
  <2>1. PICK w \in Nat : w = task[t].wakers /\ w = task'[t].wakers
    BY <1>1, OwnersNumber
  <2>2. One(In(fifo, t)) = 1 /\ One(In(fifo', t)) = 0
    BY <1>3 DEF One
  <2>3. PICK a \in Nat : a = One(In(s, t))
    BY DEF One
  <2>4. PICK b \in Nat : b = One(TokenOut(t)) /\ b = One(TokenOut(t)')
    BY <1>6 DEF One
  <2>5. PICK g \in Nat : g = One(Waking(t)) /\ g = One(Waking(t)')
    BY <1>6 DEF One
  <2>6. PICK c \in Nat : c = One(On("waker", t)) /\ c = One(On("waker", t)')
    BY <1>2 DEF One
  <2>7. OwnersIn(s, t) = a + 1 + b + w + g + c /\ OwnersIn(s, t)' = a + 0 + b + w + g + c
    BY <2>1, <2>2, <2>3, <2>4, <2>5, <2>6 DEF OwnersIn
  <2> QED
    BY <2>7
<1>10. Counted(s)'
  <2>1. PICK i \in 1..Len(fifo) : fifo[i] = t
    BY <1>3 DEF In
  <2>2. task[t].queued
    BY <2>1 DEF InvAt, Marked
  <2>3. ~Waking(t)
    BY <1>3, SchedularAssumption DEF InvAt, Marked, Waking, Typed
  <2>4. ~Skipped(t) /\ Skipped(t)'
    BY <1>1, <1>3, <1>6, <1>8, <2>2, <2>3 DEF Skipped
  <2>5. task'[t].count = task[t].count
    BY <1>1
  <2> QED
    BY <1>7, <1>9, <2>4, <2>5, CountedSkip DEF InvAt
<1>11. Typed'
  BY <1>1, <1>2, <1>3 DEF Typed, wakeVars
<1> QED
  BY <1>2, <1>4, <1>5, <1>10, <1>11 DEF InvAt

\* The waker that poll drives a task with is dropped.
LEMMA DropPollWakerKeeps ==
  ASSUME Typed, NEW s, InvAt(s), NEW t \in Tasks, DropPollWaker(t)
  PROVE  Typed' /\ InvAt(s)'
<1>1. /\ Running("waker", t) /\ task' = decr_task(task, t) /\ calls' = <<>> \o Tail(calls)
      /\ UNCHANGED <<list, rest>>
  BY DEF DropPollWaker, Become
<1>2. UNCHANGED <<list, live, thread, fifo, linking>>
  BY <1>1 DEF rest, queueVars
<1>3. PICK f, r : TopOf(s, f, r) /\ f.op = "waker" /\ f.task = t
  BY <1>1, TopFacts DEF InvAt
<1>4. calls' = r /\ r \in Seq(FrameSet)
  BY <1>1, <1>3, ConcatIs DEF TopOf
<1>5. OnlyBases(r) /\ \A op \in TaskOps : \A x : ~OnIn(r, op, x)
  BY <1>3, BelowBase, BasesOn DEF TopOf
<1>6. {"drive", "waker", "remove", "future", "detach", "token", "requeue"} = TaskOps
  BY DEF TaskOps
<1>7. \A op \in TaskOps : \A x : ~On(op, x)' /\ (On(op, x) <=> op = "waker" /\ x = t)
  <2>1. \A op, x : On(op, x)' <=> OnIn(r, op, x)
    BY <1>4 DEF On, OnIn
  <2> QED
    BY <1>3, <1>5, <2>1 DEF TopOf
<1>8. On("waker", t) /\ ~On("waker", t)'
  BY <1>6, <1>7
<1>9. task[t].count >= 1
  BY <1>8, OwnedCount DEF InvAt
<1>10. /\ task' \in [Tasks -> TaskRecords]
       /\ \A x \in Tasks :
            /\ Untouched(x) /\ task'[x].queued = task[x].queued
            /\ task'[x].wakers = task[x].wakers
            /\ x # t => task'[x].count = task[x].count
       /\ task'[t].count = task[t].count - 1
  BY <1>1, <1>9, DecrTask
<1>11. Typed'
  BY <1>1, <1>4, <1>10 DEF Typed, rest, wakeVars, queueVars
<1>12. Core(s)'
  <2>1. CallsNest(r) /\ Nested(r, s)
    BY <1>3 DEF TopOf
  <2>2. ~live' => Len(s) = 0
    BY <1>2 DEF InvAt, Core, EmptyAtEnd
  <2>3. Len(r) >= 1 => r[1].op \notin {"drain", "free"}
    <3>1. Len(r) \in Nat /\ MayCall(f, r)
      BY <1>3 DEF TopOf
    <3>2. Len(r) >= 1 => Len(r) # 0
      BY <3>1
    <3> QED
      BY <1>3, <3>1, <3>2 DEF MayCall, Upon, TaskOps
  <2>4. \A x \in Tasks : SameTask(x)
    BY <1>10 DEF Untouched
  <2> QED
    BY <1>2, <1>4, <1>6, <1>7, <2>1, <2>2, <2>3, <2>4, CallsChange DEF InvAt
<1>13. TasksTell'
  BY <1>10, TasksTellKept DEF InvAt, Untouched, SameTask
<1>14. Marked'
  BY <1>2, <1>10, MarkedKept DEF InvAt
<1>15. \A x \in Tasks : (TokenOut(x)' <=> TokenOut(x)) /\ (Waking(x)' <=> Waking(x))
  BY <1>2, <1>6, <1>7, <1>10 DEF TokenOut, Waking, Untouched, SameTask
<1>16. \A x \in Tasks : x # t => SameOwners(s, s, x)
  BY <1>2, <1>6, <1>7, <1>10, <1>15 DEF SameOwners, Untouched
<1>17. OwnersIn(s, t)' = OwnersIn(s, t) + (-1) /\ OwnersIn(s, t) \in Nat
  <2>1. PICK w \in Nat : w = task[t].wakers /\ w = task'[t].wakers
    BY <1>10, OwnersNumber
  <2>2. One(On("waker", t)) = 1 /\ One(On("waker", t)') = 0
    BY <1>8 DEF One
  <2>3. PICK a \in Nat : a = One(In(s, t))
    BY DEF One
  <2>4. PICK b \in Nat : b = One(TokenOut(t)) /\ b = One(TokenOut(t)')
    BY <1>15 DEF One
  <2>5. PICK g \in Nat : g = One(Waking(t)) /\ g = One(Waking(t)')
    BY <1>15 DEF One
  <2>6. PICK c \in Nat : c = One(In(fifo, t)) /\ c = One(In(fifo', t))
    BY <1>2 DEF One
  <2>7. OwnersIn(s, t) = a + c + b + w + g + 1 /\ OwnersIn(s, t)' = a + c + b + w + g + 0
    BY <2>1, <2>2, <2>3, <2>4, <2>5, <2>6 DEF OwnersIn
  <2> QED
    BY <2>7
<1>18. Counted(s)'
  <2>1. task'[t].count = task[t].count + (-1) /\ -1 \in Int
    <3>1. task[t].count \in Nat
      BY OwnersNumber
    <3> QED
      BY <1>10, <3>1
  <2>2. Skipped(t) => Skipped(t)'
    BY <1>2, <1>10, <1>15 DEF Skipped, Untouched
  <2> QED
    BY <1>16, <1>17, <2>1, <2>2, CountedStep DEF InvAt
<1> QED
  BY <1>11, <1>12, <1>13, <1>14, <1>18 DEF InvAt

\* A task is driven: its waker is below, and no other call is about a task.
WakerBelow(f, r, t) ==
  /\ f.op = "drive" /\ f.task = t /\ r[1].op = "waker"
  /\ \A op \in TaskOps : \A x : OnIn(r, op, x) <=> op = "waker" /\ x = t

LEMMA DriveTop ==
  ASSUME Typed, NEW s, Core(s), NEW t \in Tasks, Running("drive", t)
  PROVE  /\ \E f, r : TopOf(s, f, r) /\ WakerBelow(f, r, t)
         /\ \A op \in TaskOps : \A x : On(op, x) <=> op \in {"drive", "waker"} /\ x = t
         /\ task[t].done = "Running"
<1>1. PICK f, r : TopOf(s, f, r) /\ f.op = "drive" /\ f.task = t
  BY TopFacts
<1>2. PICK n \in Nat : n = Len(r)
  BY <1>1 DEF TopOf
<1>3. n # 0 /\ r[1].op = "waker" /\ r[1].task = t
  BY <1>1, <1>2 DEF TopOf, MayCall, Upon
<1>4. 1 \in 1..n
  BY <1>3
<1>5. \A i \in 1..n : i # 1 => r[i].op \in BaseOps
  <2> SUFFICES ASSUME NEW i \in 1..n, i # 1 PROVE r[i].op \in BaseOps
    OBVIOUS
  <2>1. 1 < i
    OBVIOUS
  <2>2. Above(r[1], r[i])
    BY <1>1, <1>2, <1>4, <2>1 DEF TopOf, CallsNest
  <2> QED
    BY <1>3, <2>2 DEF Above
<1>6. \A op \in TaskOps : op \notin BaseOps
  BY DEF TaskOps, BaseOps, TreeOps
<1>7. \A op \in TaskOps : \A x : OnIn(r, op, x) <=> op = "waker" /\ x = t
  BY <1>2, <1>3, <1>4, <1>5, <1>6 DEF OnIn
<1>8. \A op \in TaskOps : \A x : On(op, x) <=> op \in {"drive", "waker"} /\ x = t
  <2>1. "drive" \in TaskOps
    BY DEF TaskOps
  <2> QED
    BY <1>1, <1>7, <2>1 DEF TopOf
<1>9. task[t].done = "Running"
  <2>1. On("drive", t)
    BY RunningOn DEF Typed
  <2> QED
    BY <2>1 DEF Core, CallsTell
<1> QED
  BY <1>1, <1>3, <1>7, <1>8, <1>9 DEF WakerBelow

\* The calls after a step.
LEMMA OnNext ==
  ASSUME NEW c, calls' = c
  PROVE  \A op, x : On(op, x)' <=> OnIn(c, op, x)
BY DEF On, OnIn

\* The drive of t ends: its waker is still to be dropped, and perhaps the task is removed
\* before that.
LEMMA DriveEnds ==
  ASSUME Typed, NEW s, InvAt(s), NEW t \in Tasks, Running("drive", t),
         UNCHANGED <<task, list, live, thread, fifo, linking>>, calls' \in Seq(FrameSet),
         CallsNest(calls'),
         \A op \in TaskOps : \A x : On(op, x)' =>
           (op = "waker" \/ op = "remove") /\ x = t,
         On("waker", t)', Len(calls') >= 1 => calls'[1].op \in {"waker", "remove"}
  PROVE  InvAt(s)'
<1>1. /\ \A op \in TaskOps : \A x : On(op, x) <=> op \in {"drive", "waker"} /\ x = t
      /\ task[t].done = "Running"
  BY DriveTop DEF InvAt
<1>2. {"drive", "waker", "remove", "future", "detach", "token", "requeue"} = TaskOps
  BY DEF TaskOps
<1>3. Nested(calls', s)
  <2>1. \A m \in 1..Len(calls') : calls'[m].op \notin {"token", "future"}
    <3> SUFFICES ASSUME NEW m \in 1..Len(calls'), calls'[m].op \in {"token", "future"}
                 PROVE  FALSE
      OBVIOUS
    <3>1. OnIn(calls', calls'[m].op, calls'[m].task)
      BY DEF OnIn
    <3>2. \A op \in TaskOps : \A x : OnIn(calls', op, x) => (op = "waker" \/ op = "remove") /\ x = t
      BY DEF On, OnIn
    <3> QED
      BY <1>2, <3>1, <3>2
  <2> QED
    BY <2>1 DEF Nested
<1>4. Core(s)'
  <2>1. /\ ~live' => Len(s) = 0
        /\ Len(calls') >= 1 => calls'[1].op \notin {"drain", "free"}
    BY DEF InvAt, Core, EmptyAtEnd
  <2>2. \A x \in Tasks : SameTask(x)
    BY DEF SameTask
  <2> QED
    BY <1>1, <1>2, <1>3, <2>1, <2>2, CallsChange DEF InvAt
<1>5. TasksTell' /\ Marked'
  BY DEF InvAt, TasksTell, Marked
<1>6. \A x \in Tasks : SameOwners(s, s, x)
  BY <1>1, <1>2, OwnersKept
<1>7. Counted(s)'
  BY <1>6, CountedKept DEF InvAt
<1> QED
  BY <1>4, <1>5, <1>7 DEF InvAt

\* Calls without any but waker below.
LEMMA DriveCalls ==
  ASSUME NEW t \in Tasks
  PROVE  \E w \in FrameSet, g \in FrameSet, d \in FrameSet :
           /\ w = Frame("waker", t) /\ w.op = "waker" /\ w.task = t
           /\ g = Frame("remove", t) /\ g.op = "remove" /\ g.task = t
           /\ d = Frame("drive", t) /\ d.op = "drive" /\ d.task = t
BY FrameFacts DEF Ops

LEMMA DriveReadyKeeps ==
  ASSUME Typed, NEW s, InvAt(s), NEW t \in Tasks, DriveReady(t)
  PROVE  Typed' /\ InvAt(s)'
<1>1. /\ Running("drive", t) /\ calls' = <<Frame("remove", t)>> \o Tail(calls)
      /\ UNCHANGED <<task, list, rest>>
  BY DEF DriveReady, Become
<1>2. UNCHANGED <<task, list, live, thread, fifo, linking>>
  BY <1>1 DEF rest, queueVars
<1>3. PICK f, r : TopOf(s, f, r) /\ WakerBelow(f, r, t)
  BY <1>1, DriveTop DEF InvAt
<1>4. /\ f.op = "drive" /\ f.task = t /\ r[1].op = "waker"
      /\ \A op \in TaskOps : \A x : OnIn(r, op, x) <=> op = "waker" /\ x = t
  BY <1>3 DEF WakerBelow
<1>5. PICK g \in FrameSet : g = Frame("remove", t) /\ g.op = "remove" /\ g.task = t
  BY DriveCalls
<1>6. calls' = Cons(g, r)
  <2>1. r \in Seq(FrameSet) /\ Tail(calls) = r
    BY <1>3 DEF TopOf
  <2>2. <<g>> \o r = Cons(g, r)
    BY <2>1, ConcatIs
  <2> QED
    BY <1>1, <1>5, <2>1, <2>2
<1>7. MayCall(g, r)
  <2>1. "remove" \in TaskOps /\ "drive" \in TaskOps
    BY DEF TaskOps
  <2>2. \A i \in 1..Len(r) : Above(g, r[i])
    <3>1. \A i \in 1..Len(r) : Above(f, r[i])
      BY <1>3 DEF TopOf, MayCall
    <3>2. g.op \notin BaseOps \cup {"waker"}
      BY <1>5 DEF BaseOps, TreeOps
    <3> QED
      BY <1>4, <1>5, <3>1, <3>2 DEF Above, TreeOps
  <2>3. IF Len(r) = 0 THEN g.op # "drive" ELSE Upon(g, r[1])
    BY <1>3, <1>4, <1>5, <2>1 DEF TopOf, MayCall, Upon
  <2> QED
    BY <1>5, <2>1, <2>2, <2>3 DEF MayCall
<1>8. Cons(g, r) \in Seq(FrameSet) /\ CallsNest(Cons(g, r)) /\ Cons(g, r)[1] = g
  BY <1>3, <1>7, NestCons, ConsFacts DEF TopOf
<1>9. \A op, x : On(op, x)' <=> (g.op = op /\ g.task = x) \/ OnIn(r, op, x)
  <2>1. \A op, x : OnIn(Cons(g, r), op, x) <=> (g.op = op /\ g.task = x) \/ OnIn(r, op, x)
    BY <1>3, OnCons DEF TopOf
  <2> QED
    BY <1>6, <2>1, OnNext
<1>10. "waker" \in TaskOps
  BY DEF TaskOps
<1>11. InvAt(s)'
  BY <1>1, <1>2, <1>4, <1>5, <1>6, <1>8, <1>9, <1>10, DriveEnds
<1>12. Typed'
  BY <1>1, <1>6, <1>8 DEF Typed, rest, wakeVars, queueVars
<1> QED
  BY <1>11, <1>12

\* The calls c are on t alone, and what they are.
Left(c, ops, t) ==
  /\ c \in Seq(FrameSet) /\ CallsNest(c) /\ c[1].op \in ops
  /\ \A op, x : OnIn(c, op, x) <=> op \in ops /\ x = t

\* Only the waker of t is left of the calls, or its removal with it.
LEMMA WakerLeft ==
  ASSUME NEW t \in Tasks
  PROVE  /\ Left(<<Frame("waker", t)>>, {"waker"}, t)
         /\ Left(<<Frame("remove", t), Frame("waker", t)>>, {"remove", "waker"}, t)
<1>1. PICK e \in Seq(FrameSet) : e = <<>> /\ Len(e) = 0 /\ CallsNest(e)
                                 /\ \A op, x : ~OnIn(e, op, x)
  <2>1. <<>> \in Seq(FrameSet) /\ Len(<<>>) = 0
    OBVIOUS
  <2> QED
    BY <2>1, NoCalls, Zenon
<1>2. {"waker", "remove"} \subseteq TaskOps /\ {"waker", "remove"} \cap BaseOps = {}
  BY DEF TaskOps, BaseOps, TreeOps
<1>3. PICK w \in FrameSet, g \in FrameSet :
        /\ w = Frame("waker", t) /\ w.op = "waker" /\ w.task = t
        /\ g = Frame("remove", t) /\ g.op = "remove" /\ g.task = t
  BY DriveCalls
<1>4. MayCall(w, e)
  BY <1>1, <1>2, <1>3 DEF MayCall
<1>5. PICK we \in Seq(FrameSet) : we = Cons(w, e) /\ CallsNest(we) /\ we[1] = w
  <2>1. Cons(w, e) \in Seq(FrameSet) /\ CallsNest(Cons(w, e)) /\ Cons(w, e)[1] = w
    BY <1>1, <1>4, NestCons, ConsFacts
  <2> QED
    BY <2>1, Zenon
<1>6. \A op, x : OnIn(we, op, x) <=> op \in {"waker"} /\ x = t
  <2>1. \A op, x : OnIn(we, op, x) <=> (w.op = op /\ w.task = x) \/ OnIn(e, op, x)
    BY <1>5, OnCons
  <2> QED
    BY <1>1, <1>3, <2>1
<1>7. Above(g, w) /\ Upon(g, w)
  BY <1>2, <1>3 DEF Above, Upon
<1>8. MayCall(g, we)
  <2>1. g.op \in TaskOps /\ g.task \in Tasks /\ \A i \in 1..Len(e) : Above(g, e[i])
    BY <1>1, <1>2, <1>3
  <2> QED
    BY <1>5, <1>7, <2>1, MayCallOn
<1>9. PICK gwe \in Seq(FrameSet) : gwe = Cons(g, we) /\ CallsNest(gwe) /\ gwe[1] = g
  <2>1. Cons(g, we) \in Seq(FrameSet) /\ CallsNest(Cons(g, we)) /\ Cons(g, we)[1] = g
    BY <1>5, <1>8, NestCons, ConsFacts
  <2> QED
    BY <2>1, Zenon
<1>10. \A op, x : OnIn(gwe, op, x) <=> op \in {"remove", "waker"} /\ x = t
  <2>1. \A op, x : OnIn(gwe, op, x) <=> (g.op = op /\ g.task = x) \/ OnIn(we, op, x)
    BY <1>9, OnCons
  <2> QED
    BY <1>3, <1>6, <2>1
<1>11. <<Frame("waker", t)>> = we /\ <<Frame("remove", t), Frame("waker", t)>> = gwe
  <2>1. <<w>> = Cons(w, <<>>) /\ <<g, w>> = Cons(g, Cons(w, <<>>))
    BY <1>1, ConcatIs
  <2> QED
    BY <1>1, <1>3, <1>5, <1>9, <2>1, Zenon
<1>12. Left(we, {"waker"}, t) /\ Left(gwe, {"remove", "waker"}, t)
  BY <1>3, <1>5, <1>6, <1>9, <1>10 DEF Left
<1> QED
  BY <1>11, <1>12, Zenon

LEMMA DrivePanicKeeps ==
  ASSUME Typed, NEW s, InvAt(s), NEW t \in Tasks, DrivePanic(t)
  PROVE  Typed' /\ InvAt(s)'
<1>1. /\ Running("drive", t) /\ turn' = NoTurn
      /\ calls' = <<Frame("remove", t), Frame("waker", t)>>
      /\ UNCHANGED <<task, list, wakeVars, live, thread, queueVars>>
  BY DEF DrivePanic, Return
<1>2. Left(calls', {"remove", "waker"}, t)
  BY <1>1, WakerLeft, Zenon
<1>3. \A op, x : On(op, x)' <=> op \in {"remove", "waker"} /\ x = t
  BY <1>2 DEF On, OnIn, Left
<1>4. calls' \in Seq(FrameSet) /\ CallsNest(calls') /\ calls'[1].op \in {"remove", "waker"}
  BY <1>2 DEF Left
<1>5. InvAt(s)'
  BY <1>1, <1>3, <1>4, DriveEnds DEF queueVars
<1>6. Typed'
  BY <1>1, <1>4 DEF Typed, wakeVars, queueVars, NoTurn
<1> QED
  BY <1>5, <1>6

LEMMA DrivePendingKeeps ==
  ASSUME Typed, NEW s, InvAt(s), NEW t \in Tasks, DrivePending(t)
  PROVE  Typed' /\ InvAt(s)'
<1>1. /\ Running("drive", t)
      /\ UNCHANGED <<task, list, registered, live, thread, fifo, linking>>
  BY DEF DrivePending, queueVars
<1>2. CASE BudgetUsed(t)
  <2>1. calls' = <<Frame("waker", t)>> /\ turn' = NoTurn /\ woken' = TRUE
    BY <1>2 DEF DrivePending, Return
  <2>2. Left(calls', {"waker"}, t)
    BY <2>1, WakerLeft, Zenon
  <2>3. \A op, x : On(op, x)' <=> op \in {"waker"} /\ x = t
    BY <2>2 DEF On, OnIn, Left
  <2>4. calls' \in Seq(FrameSet) /\ CallsNest(calls') /\ calls'[1].op \in {"waker"}
    BY <2>2 DEF Left
  <2>5. InvAt(s)'
    BY <1>1, <2>3, <2>4, DriveEnds
  <2>6. Typed'
    BY <1>1, <2>1, <2>4 DEF Typed, NoTurn
  <2> QED
    BY <2>5, <2>6
<1>3. CASE ~BudgetUsed(t)
  <2>1. /\ turn' = [turn EXCEPT !.yielded = @ + One(task[t].queued)]
        /\ calls' = <<>> \o Tail(calls) /\ UNCHANGED woken
    BY <1>3 DEF DrivePending, Become
  <2>2. turn' \in [iteration : Nat, yielded : 0..2]
    <3>1. turn \in [iteration : Nat, yielded : 0..2]
      BY DEF Typed
    <3>2. PICK o \in Nat : o = One(task[t].queued)
      BY DEF One
    <3>3. ~(turn.yielded + o > 2)
      BY <1>3, <3>2 DEF BudgetUsed
    <3>4. turn' = [turn EXCEPT !.yielded = turn.yielded + o]
      BY <2>1, <3>2
    <3>5. turn.yielded \in 0..2
      BY <3>1
    <3>6. turn.yielded + o \in 0..2
      BY <3>3, <3>5
    <3> QED
      BY <3>1, <3>4, <3>6
  <2>3. PICK f, r : TopOf(s, f, r) /\ WakerBelow(f, r, t)
    BY <1>1, DriveTop DEF InvAt
  <2>4. /\ f.op = "drive" /\ f.task = t /\ r[1].op = "waker"
        /\ \A op \in TaskOps : \A x : OnIn(r, op, x) <=> op = "waker" /\ x = t
    BY <2>3 DEF WakerBelow
  <2>5. calls' = r /\ r \in Seq(FrameSet) /\ CallsNest(r)
    BY <2>1, <2>3, ConcatIs DEF TopOf
  <2>6. \A op, x : On(op, x)' <=> OnIn(r, op, x)
    BY <2>5, OnNext
  <2>7. "waker" \in TaskOps
    BY DEF TaskOps
  <2>8. InvAt(s)'
    BY <1>1, <2>3, <2>4, <2>5, <2>6, <2>7, DriveEnds
  <2>9. Typed'
    BY <1>1, <2>1, <2>2, <2>5 DEF Typed
  <2> QED
    BY <2>8, <2>9
<1> QED
  BY <1>2, <1>3

\* A task that is driven can be marked again.
LEMMA UnmarkedTask ==
  ASSUME Typed, NEW t \in Tasks, task' = [task EXCEPT ![t].queued = FALSE]
  PROVE  /\ task' \in [Tasks -> TaskRecords]
         /\ \A x \in Tasks :
              /\ Untouched(x) /\ task'[x].wakers = task[x].wakers
              /\ task'[x].count = task[x].count
              /\ x # t => task'[x].queued = task[x].queued
<1>1. PICK q \in TaskRecords : q = task[t]
  BY DEF Typed
<1>2. PICK n : n = [q EXCEPT !.queued = FALSE]
  OBVIOUS
<1>3. n \in TaskRecords
  BY <1>2 DEF TaskRecords
<1>4. /\ n.count = q.count /\ n.wakers = q.wakers
      /\ n.done = q.done /\ n.next = q.next /\ n.prev = q.prev
      /\ n.dropped = q.dropped /\ n.token = q.token /\ n.cancelled = q.cancelled
  BY <1>2 DEF TaskRecords
<1>5. task' = [task EXCEPT ![t] = n]
  BY <1>1, <1>2
<1>6. /\ task' \in [Tasks -> TaskRecords] /\ task'[t] = n
      /\ \A x \in Tasks : x # t => task'[x] = task[x]
  <2>1. task \in [Tasks -> TaskRecords]
    BY DEF Typed
  <2> QED
    BY ONLY <1>3, <1>5, <2>1, OneEntry
<1> QED
  BY <1>1, <1>4, <1>6 DEF Untouched, SameTask

\* A task is popped and driven.
LEMMA PollTaskKeeps ==
  ASSUME Typed, NEW s, InvAt(s), NEW t \in Tasks, PollTask(t)
  PROVE  Typed' /\ InvAt(s)'
<1>1. /\ Running("poll", Null) /\ Get /\ t = Head(fifo) /\ task[t].done = "Running"
      /\ task' = [task EXCEPT ![t].queued = FALSE]
      /\ turn' = [turn EXCEPT !.iteration = @ + 1]
      /\ calls' = <<Frame("drive", t), Frame("waker", t)>> \o calls
      /\ UNCHANGED <<list, wakeVars, live, thread>>
  BY DEF PollTask, Popped, Drivable, Calls
<1>2. PICK f, r : TopOf(s, f, r) /\ f.op = "poll" /\ f.task = Null
  BY <1>1, TopFacts DEF InvAt
<1>3. PICK c \in Seq(FrameSet) : c = calls
  BY DEF Typed
<1>4. "poll" \in BaseOps
  BY DEF BaseOps
<1>5. OnlyBases(c)
  BY <1>2, <1>3, <1>4, BelowBase, BasesCons DEF TopOf
<1>6. PICK w \in FrameSet, g \in FrameSet, d \in FrameSet :
        /\ w = Frame("waker", t) /\ w.op = "waker" /\ w.task = t
        /\ g = Frame("remove", t) /\ g.op = "remove" /\ g.task = t
        /\ d = Frame("drive", t) /\ d.op = "drive" /\ d.task = t
  BY DriveCalls
<1>7. calls' = Cons(d, Cons(w, c))
  <2>1. <<d, w>> \o c = Cons(d, Cons(w, c))
    BY ConcatIs
  <2> QED
    BY <1>1, <1>3, <1>6, <2>1
<1>8. {"drive", "waker", "remove", "future", "detach", "token", "requeue"} = TaskOps
  BY DEF TaskOps
<1>9. \A o \in BaseOps : o \notin {"remove", "token"} /\ o \notin TaskOps
  BY DEF BaseOps, TreeOps, TaskOps
<1>10. MayCall(w, c)
  <2>1. \A i \in 1..Len(c) : Above(w, c[i])
    BY <1>5, <1>6, <1>9 DEF Above, TreeOps, OnlyBases
  <2>2. Upon(w, c[1])
    BY <1>2, <1>3, <1>6 DEF Upon, TopOf
  <2> QED
    BY <1>6, <1>8, <2>1, <2>2 DEF MayCall
<1>11. PICK wc \in Seq(FrameSet) : wc = Cons(w, c) /\ CallsNest(wc)
  BY <1>3, <1>10, NestCons, ConsFacts DEF InvAt, Core
<1>12. MayCall(d, wc)
  <2>1. \A i \in 1..Len(c) : Above(d, c[i])
    BY <1>5, <1>6, <1>8, <1>9 DEF Above, TreeOps, OnlyBases
  <2>2. Above(d, w) /\ Upon(d, w)
    BY <1>6, <1>8, <1>9 DEF Above, Upon
  <2> QED
    BY <1>6, <1>8, <1>11, <2>1, <2>2, MayCallOn
<1>13. /\ Cons(d, wc) \in Seq(FrameSet) /\ CallsNest(Cons(d, wc)) /\ Cons(d, wc)[1] = d
  BY <1>11, <1>12, NestCons, ConsFacts
<1>14. \A op \in TaskOps : \A x : ~On(op, x) /\ (On(op, x)' <=> op \in {"drive", "waker"} /\ x = t)
  <2>1. \A op, x : OnIn(Cons(d, wc), op, x) <=> (d.op = op /\ d.task = x) \/ OnIn(wc, op, x)
    BY OnCons
  <2>2. \A op, x : OnIn(wc, op, x) <=> (w.op = op /\ w.task = x) \/ OnIn(c, op, x)
    BY <1>11, OnCons
  <2>3. \A op \in TaskOps : \A x : ~OnIn(c, op, x)
    BY <1>5, BasesOn
  <2>4. \A op, x : On(op, x)' <=> OnIn(Cons(d, wc), op, x)
    BY <1>7, <1>11, OnNext
  <2> QED
    BY <1>3, <1>6, <2>1, <2>2, <2>3, <2>4 DEF On
<1>15. /\ task' \in [Tasks -> TaskRecords]
       /\ \A x \in Tasks :
            /\ Untouched(x) /\ task'[x].wakers = task[x].wakers
            /\ task'[x].count = task[x].count
            /\ x # t => task'[x].queued = task[x].queued
  BY <1>1, UnmarkedTask
<1>16. /\ fifo' \in Seq(Tasks) /\ linking' = linking
       /\ In(fifo, t) /\ ~In(fifo', t)
       /\ \A x : x # t => (In(fifo', x) <=> In(fifo, x))
  BY <1>1, Got DEF InvAt
<1>17. Marked'
  BY <1>1, <1>15, MarkedGot DEF InvAt
<1>18. Core(s)'
  <2>1. Nested(Cons(d, wc), s)
    <3>1. OlderBelow(w, c, s) /\ OlderBelow(d, wc, s) /\ s \in Seq(Tasks)
      BY <1>6 DEF OlderBelow, InvAt, Core, IsList
    <3>2. Nested(wc, s)
      BY <1>3, <1>11, <3>1, NestedCons DEF InvAt, Core
    <3> QED
      BY <3>1, <3>2, NestedCons
  <2>2. \A x \in Tasks : SameTask(x)
    BY <1>15 DEF Untouched
  <2>3. ~live' => Len(s) = 0
    BY <1>1 DEF InvAt, Core, EmptyAtEnd
  <2>4. calls' = Cons(d, wc) /\ calls'[1].op = "drive"
    BY <1>6, <1>7, <1>11, <1>13
  <2> QED
    BY <1>1, <1>8, <1>13, <1>14, <2>1, <2>2, <2>3, <2>4, CallsChange DEF InvAt
<1>19. TasksTell'
  BY <1>1, <1>15, TasksTellKept DEF InvAt, Untouched, SameTask
<1>20. \A x \in Tasks : (TokenOut(x)' <=> TokenOut(x)) /\ (Waking(x)' <=> Waking(x))
  BY <1>1, <1>8, <1>14, <1>15 DEF TokenOut, Waking, Untouched, SameTask
<1>21. \A x \in Tasks : x # t => SameOwners(s, s, x)
  BY <1>8, <1>14, <1>15, <1>16, <1>20 DEF SameOwners, Untouched
<1>22. OwnersIn(s, t)' = OwnersIn(s, t) + 0 /\ OwnersIn(s, t) \in Nat
  <2>1. PICK m \in Nat : m = task[t].wakers /\ m = task'[t].wakers
    BY <1>15, OwnersNumber
  <2>2. One(On("waker", t)) = 0 /\ One(On("waker", t)') = 1
    BY <1>8, <1>14 DEF One
  <2>3. PICK a \in Nat : a = One(In(s, t))
    BY DEF One
  <2>4. PICK b \in Nat : b = One(TokenOut(t)) /\ b = One(TokenOut(t)')
    BY <1>20 DEF One
  <2>5. PICK e \in Nat : e = One(Waking(t)) /\ e = One(Waking(t)')
    BY <1>20 DEF One
  <2>6. One(In(fifo, t)) = 1 /\ One(In(fifo', t)) = 0
    BY <1>16 DEF One
  <2>7. OwnersIn(s, t) = a + 1 + b + m + e + 0 /\ OwnersIn(s, t)' = a + 0 + b + m + e + 1
    BY <2>1, <2>2, <2>3, <2>4, <2>5, <2>6 DEF OwnersIn
  <2> QED
    BY <2>7
<1>23. Counted(s)'
  <2>1. task'[t].count = task[t].count + 0 /\ 0 \in Int
    <3>1. task[t].count \in Nat
      BY OwnersNumber
    <3> QED
      BY <1>15, <3>1
  <2>2. Skipped(t) => Skipped(t)'
    BY <1>16 DEF Skipped
  <2> QED
    BY <1>21, <1>22, <2>1, <2>2, CountedStep DEF InvAt
<1>24. Typed'
  <2>1. turn' \in [iteration : Nat, yielded : 0..2]
    <3>1. PICK u \in [iteration : Nat, yielded : 0..2] : u = turn
      BY DEF Typed
    <3>2. turn' = [u EXCEPT !.iteration = u.iteration + 1] /\ u.iteration + 1 \in Nat
      BY <1>1, <3>1
    <3> QED
      BY <3>2
  <2> QED
    BY <1>1, <1>7, <1>11, <1>13, <1>15, <1>16, <2>1 DEF Typed, wakeVars
<1> QED
  BY <1>17, <1>18, <1>19, <1>23, <1>24 DEF InvAt

-----------------------------------------------------------------------------
(***************************************************************************)
(* CancelTokens and futures.                                               *)
(***************************************************************************)

\* The call g is made on the calls c.
LEMMA Pushed ==
  ASSUME NEW c \in Seq(FrameSet), CallsNest(c), NEW g \in FrameSet, MayCall(g, c),
         calls' = <<g>> \o c, NEW s \in Seq(Tasks), Nested(c, s), OlderBelow(g, c, s)
  PROVE  /\ calls' \in Seq(FrameSet) /\ CallsNest(calls') /\ Nested(calls', s)
         /\ calls'[1] = g
         /\ \A op, x : On(op, x)' <=> (g.op = op /\ g.task = x) \/ OnIn(c, op, x)
<1>1. calls' = Cons(g, c)
  BY ConcatIs
<1>2. /\ Cons(g, c) \in Seq(FrameSet) /\ CallsNest(Cons(g, c)) /\ Nested(Cons(g, c), s)
      /\ Cons(g, c)[1] = g
  BY ConsFacts, NestCons, NestedCons
<1>3. \A op, x : OnIn(Cons(g, c), op, x) <=> (g.op = op /\ g.task = x) \/ OnIn(c, op, x)
  BY OnCons
<1> QED
  BY <1>1, <1>2, <1>3, OnNext

\* The call g is made on the calls c, with h to come after it.
LEMMA PushedTwo ==
  ASSUME NEW c \in Seq(FrameSet), CallsNest(c), NEW g \in FrameSet, NEW h \in FrameSet,
         MayCall(h, c), MayCall(g, Cons(h, c)),
         calls' = <<g, h>> \o c, NEW s \in Seq(Tasks), Nested(c, s), OlderBelow(h, c, s),
         OlderBelow(g, Cons(h, c), s)
  PROVE  /\ calls' \in Seq(FrameSet) /\ CallsNest(calls') /\ Nested(calls', s)
         /\ calls'[1] = g
         /\ \A op, x : On(op, x)' <=>
              \/ g.op = op /\ g.task = x
              \/ h.op = op /\ h.task = x
              \/ OnIn(c, op, x)
<1>1. calls' = Cons(g, Cons(h, c))
  BY ConcatIs
<1>2. Cons(h, c) \in Seq(FrameSet) /\ CallsNest(Cons(h, c)) /\ Nested(Cons(h, c), s)
  BY ConsFacts, NestCons, NestedCons
<1>3. PICK d \in Seq(FrameSet) : d = Cons(h, c)
  BY <1>2
<1>4. /\ Cons(g, d) \in Seq(FrameSet) /\ CallsNest(Cons(g, d)) /\ Nested(Cons(g, d), s)
      /\ Cons(g, d)[1] = g
  BY <1>2, <1>3, ConsFacts, NestCons, NestedCons
<1>5. \A op, x : OnIn(Cons(g, d), op, x) <=> (g.op = op /\ g.task = x) \/ OnIn(d, op, x)
  BY OnCons
<1>6. \A op, x : OnIn(d, op, x) <=> (h.op = op /\ h.task = x) \/ OnIn(c, op, x)
  BY <1>3, OnCons
<1>7. \A op, x : On(op, x)' <=> OnIn(Cons(g, d), op, x)
  BY <1>1, <1>3, OnNext
<1> QED
  BY <1>1, <1>3, <1>4, <1>5, <1>6, <1>7

\* Only the call on top removes a task or drops a token.
LEMMA OnTopOnly ==
  ASSUME NEW f, NEW r, MayCall(f, r)
  PROVE  /\ \A x : ~OnIn(r, "remove", x) /\ ~OnIn(r, "token", x)
         /\ f.op \in {"future", "requeue"} => ~OnIn(r, f.op, f.task)
         /\ f.op = "token" => ~OnIn(r, "requeue", f.task)
<1>1. \A i \in 1..Len(r) : Above(f, r[i])
  BY DEF MayCall
<1> QED
  BY <1>1 DEF OnIn, Above

\* A call about a task is not made on drain or free.
LEMMA NotAtEnd ==
  ASSUME NEW f, NEW r, MayCall(f, r), Len(r) \in Nat, f.op \in TaskOps
  PROVE  Len(r) >= 1 => r[1].op \notin {"drain", "free"}
<1>1. Len(r) >= 1 => Len(r) # 0
  OBVIOUS
<1> QED
  BY <1>1 DEF MayCall, Upon

\* What is left of a future that is being dropped is in the list.
LEMMA FutureListed ==
  ASSUME NEW s, Core(s), NEW t \in Tasks, On("future", t) \/ On("drive", t)
  PROVE  \E i \in 1..Len(s) : s[i] = t
<1>1. CASE On("drive", t)
  BY <1>1 DEF Core, CallsTell, Listed, In
<1>2. CASE On("future", t)
  <2>1. /\ task[t].done \in {"Cancelled", "Done"}
        /\ task[t].done = "Done" => On("detach", t)
    BY <1>2 DEF Core, CallsTell
  <2>2. In(s, t)
    BY <2>1 DEF Core, Listed
  <2> QED
    BY <2>2 DEF In
<1> QED
  BY <1>1, <1>2

\* Who may drop the token of c: the future that holds it, when it is driven or dropped, or
\* code outside of the Schedular.
MayDropToken(c) ==
  \/ \E h \in Tasks : task[c].token = h /\ (Running("drive", h) \/ Running("future", h))
  \/ calls = <<>> \/ Running("root", Null) \/ Running("rootClear", Null)

\* The drop of a token may be called.
LEMMA TokenCall ==
  ASSUME Typed, NEW s, InvAt(s), NEW c \in Tasks, task[c].token # Null, MayDropToken(c),
         NEW g \in FrameSet, g.op = "token", g.task = c
  PROVE  MayCall(g, calls) /\ OlderBelow(g, calls, s)
<1>1. ~On("requeue", c)
  BY DEF InvAt, Core, CallsTell
<1>2. g.op \in TaskOps /\ g.op \notin BaseOps
  BY DEF TaskOps, BaseOps, TreeOps
<1>3. ASSUME NEW f, NEW r, TopOf(s, f, r), f.op \notin {"remove", "token", "drain", "free"}
      PROVE  MayCall(g, calls)
  <2>1. \A i \in 1..Len(r) : Above(f, r[i])
    BY <1>3 DEF TopOf, MayCall
  <2>2. ~OnIn(r, "requeue", c) /\ ~(f.op = "requeue" /\ f.task = c)
    BY <1>1, <1>3 DEF TopOf
  <2>3. \A i \in 1..Len(r) : Above(g, r[i])
    BY <1>2, <2>1, <2>2 DEF Above, TreeOps, OnIn
  <2>4. Above(g, f) /\ Upon(g, f)
    BY <1>2, <1>3, <2>2 DEF Above, TreeOps, Upon
  <2> QED
    BY <1>2, <1>3, <2>3, <2>4, MayCallOn DEF TopOf
<1>4. CASE calls = <<>>
  <2>1. Len(calls) = 0
    BY <1>4
  <2> QED
    BY <1>2, <2>1 DEF MayCall, OlderBelow
<1>5. CASE \E op \in {"root", "rootClear"} : Running(op, Null)
  <2>1. PICK op \in {"root", "rootClear"} : Running(op, Null)
    BY <1>5
  <2>2. PICK f, r : TopOf(s, f, r) /\ f.op = op /\ f.task = Null
    BY <2>1, TopFacts DEF InvAt
  <2>3. f.op \in BaseOps /\ f.op \notin {"remove", "token", "drain", "free"}
    BY <2>2 DEF BaseOps, TreeOps
  <2>4. OnlyBases(calls)
    BY <2>2, <2>3, BelowBase, BasesCons DEF TopOf
  <2> QED
    BY <1>3, <2>2, <2>3, <2>4, BasesOn
<1>6. CASE \E h \in Tasks : task[c].token = h /\ (Running("drive", h) \/ Running("future", h))
  <2>1. PICK h \in Tasks, op \in {"drive", "future"} : task[c].token = h /\ Running(op, h)
    BY <1>6
  <2>2. PICK f, r : TopOf(s, f, r) /\ f.op = op /\ f.task = h
    BY <2>1, TopFacts DEF InvAt
  <2>3. MayCall(g, calls)
    BY <1>3, <2>2
  <2>4. PICK m \in 1..Len(s) : s[m] = h
    <3>1. On(op, h)
      BY <2>2 DEF TopOf
    <3> QED
      BY <3>1, FutureListed DEF InvAt
  <2>5. ASSUME NEW k \in 1..Len(calls), NEW i \in 1..Len(s), NEW j \in 1..Len(s),
               calls[k].op \in {"drive", "future"}, c = s[i], calls[k].task = s[j]
        PROVE  i < j
    <3>1. i < m
      BY <2>1, <2>4, <2>5 DEF InvAt, Core, HolderOlder
    <3>2. CASE k = 1
      <4>1. s[j] = s[m]
        BY <2>2, <2>4, <2>5, <3>2 DEF TopOf
      <4> QED
        BY <3>1, <4>1 DEF InvAt, Core, IsList
    <3>3. CASE k # 1
      <4>1. k - 1 \in 1..Len(r) /\ (k - 1) + 1 = k
        BY <2>2, <3>3 DEF TopOf
      <4>2. calls[k] = r[k - 1]
        <5>1. f \in FrameSet /\ r \in Seq(FrameSet) /\ calls = Cons(f, r)
          BY <2>2 DEF TopOf
        <5>2. \A l \in 1..Len(r) : calls[l + 1] = r[l]
          BY <5>1, ConsFacts
        <5> QED
          BY <4>1, <5>2
      <4>3. op = "future"
        <5>1. ASSUME op = "drive" PROVE FALSE
          <6>1. Above(f, r[k - 1])
            BY <2>2, <4>1 DEF TopOf, MayCall
          <6>2. {"drive", "future"} \cap (BaseOps \cup {"waker"}) = {}
            BY DEF BaseOps, TreeOps
          <6> QED
            BY <2>2, <2>5, <4>2, <5>1, <6>1, <6>2 DEF Above
        <5> QED
          BY <5>1
      <4>4. m < j
        BY <2>2, <2>4, <2>5, <4>1, <4>2, <4>3 DEF TopOf, OlderBelow
      <4>5. s \in Seq(Tasks) /\ Len(s) \in Nat
        BY LenProperties DEF InvAt, Core, IsList
      <4> QED
        BY <3>1, <4>4, <4>5
    <3> QED
      BY <3>2, <3>3
  <2>6. OlderBelow(g, calls, s)
    BY <2>5 DEF OlderBelow
  <2> QED
    BY <2>3, <2>6
<1> QED
  BY <1>4, <1>5, <1>6 DEF MayDropToken

\* The token of c is taken out of the future that held it.
LEMMA TokenTaken ==
  ASSUME Typed, NEW c \in Tasks, task' = [task EXCEPT ![c].token = Null]
  PROVE  /\ task' \in [Tasks -> TaskRecords]
         /\ \A x \in Tasks :
              /\ task'[x].wakers = task[x].wakers /\ task'[x].count = task[x].count
              /\ task'[x].queued = task[x].queued /\ task'[x].done = task[x].done
              /\ task'[x].dropped = task[x].dropped /\ task'[x].cancelled = task[x].cancelled
              /\ task'[x].next = task[x].next /\ task'[x].prev = task[x].prev
              /\ x # c => task'[x].token = task[x].token
         /\ task'[c].token = Null
<1>1. PICK q \in TaskRecords : q = task[c]
  BY DEF Typed
<1>2. PICK n : n = [q EXCEPT !.token = Null]
  OBVIOUS
<1>3. n \in TaskRecords
  BY <1>2 DEF TaskRecords
<1>4. /\ n.count = q.count /\ n.wakers = q.wakers /\ n.queued = q.queued
      /\ n.done = q.done /\ n.next = q.next /\ n.prev = q.prev
      /\ n.dropped = q.dropped /\ n.token = Null /\ n.cancelled = q.cancelled
  BY <1>2 DEF TaskRecords
<1>5. task' = [task EXCEPT ![c] = n]
  BY <1>1, <1>2
<1>6. /\ task' \in [Tasks -> TaskRecords] /\ task'[c] = n
      /\ \A x \in Tasks : x # c => task'[x] = task[x]
  <2>1. task \in [Tasks -> TaskRecords]
    BY DEF Typed
  <2> QED
    BY ONLY <1>3, <1>5, <2>1, OneEntry
<1> QED
  BY <1>1, <1>4, <1>6

\* A token is dropped: its call begins.
LEMMA DropTokenKeeps ==
  ASSUME Typed, NEW s, InvAt(s), NEW c \in Tasks, task[c].token # Null, MayDropToken(c),
         DropToken(c)
  PROVE  Typed' /\ InvAt(s)'
<1>1. /\ task' = [task EXCEPT ![c].token = Null] /\ calls' = <<Frame("token", c)>> \o calls
      /\ UNCHANGED <<list, rest>>
  BY DEF DropToken, Calls
<1>2. UNCHANGED <<list, turn, registered, woken, live, thread, fifo, linking>>
  BY <1>1 DEF rest, wakeVars, queueVars
<1>3. PICK g \in FrameSet : g = Frame("token", c) /\ g.op = "token" /\ g.task = c
  BY FrameFacts DEF Ops
<1>4. MayCall(g, calls) /\ OlderBelow(g, calls, s)
  BY <1>3, TokenCall
<1>5. calls \in Seq(FrameSet) /\ CallsNest(calls) /\ Nested(calls, s) /\ s \in Seq(Tasks)
  BY DEF Typed, InvAt, Core, IsList
<1>6. /\ calls' \in Seq(FrameSet) /\ CallsNest(calls') /\ Nested(calls', s) /\ calls'[1] = g
      /\ \A op, x : On(op, x)' <=> (g.op = op /\ g.task = x) \/ OnIn(calls, op, x)
  BY <1>1, <1>3, <1>4, <1>5, Pushed
<1>7. \A op, x : On(op, x)' <=> (op = "token" /\ x = c) \/ On(op, x)
  BY <1>3, <1>6 DEF On
<1>8. /\ task' \in [Tasks -> TaskRecords]
      /\ \A x \in Tasks :
           /\ task'[x].wakers = task[x].wakers /\ task'[x].count = task[x].count
           /\ task'[x].queued = task[x].queued /\ task'[x].done = task[x].done
           /\ task'[x].dropped = task[x].dropped /\ task'[x].cancelled = task[x].cancelled
           /\ task'[x].next = task[x].next /\ task'[x].prev = task[x].prev
           /\ x # c => task'[x].token = task[x].token
      /\ task'[c].token = Null
  BY <1>1, TokenTaken
<1>9. task[c].done # "absent"
  BY DEF InvAt, TasksTell
<1>10. \A i \in 1..Len(s) : s[i] \in Tasks /\ s[i] # Null
  BY <1>5, ElementOfSeq, SchedularAssumption
<1>11. CallsTell'
  BY <1>7, <1>8, <1>9 DEF InvAt, Core, CallsTell
<1>12. IsList(s)'
  BY <1>2, <1>8, <1>10 DEF InvAt, Core, IsList
<1>13. Listed(s)'
  BY <1>7, <1>8 DEF InvAt, Core, Listed
<1>14. HolderOlder(s)'
  BY <1>8, <1>10 DEF InvAt, Core, HolderOlder
<1>15. HolderKnown'
  BY <1>7, <1>8 DEF InvAt, Core, HolderKnown
<1>16. EmptyAtEnd(s)'
  BY <1>2, <1>3, <1>6 DEF InvAt, Core, EmptyAtEnd
<1>17. Core(s)'
  BY <1>6, <1>11, <1>12, <1>13, <1>14, <1>15, <1>16 DEF Core
<1>18. TasksTell'
  BY <1>8 DEF InvAt, TasksTell
<1>19. Marked'
  BY <1>2, <1>8, MarkedKept DEF InvAt
<1>20. \A x \in Tasks : SameOwners(s, s, x)
  BY <1>2, <1>7, <1>8 DEF SameOwners, TokenOut, Waking
<1>21. Counted(s)'
  BY <1>20, CountedKept DEF InvAt
<1>22. Typed'
  BY <1>2, <1>6, <1>8 DEF Typed
<1> QED
  BY <1>17, <1>18, <1>19, <1>21, <1>22 DEF InvAt

\* The call f on top ends, and nothing else that Core is about changes.
LEMMA Ended ==
  ASSUME Typed, NEW s, Core(s), NEW f, NEW r, TopOf(s, f, r), f.op \in {"token", "requeue"},
         f.task \in Tasks, f.op = "token" => task[f.task].done # "Running",
         calls' = r, UNCHANGED <<list, live>>, \A t \in Tasks : SameTask(t)
  PROVE  /\ Core(s)'
         /\ \A op, x : On(op, x)' <=> OnIn(r, op, x)
         /\ ~On("token", f.task)' /\ ~On("requeue", f.task)' /\ task'[f.task].token = Null
         /\ \A x : x # f.task => \A op : On(op, x)' <=> On(op, x)
         /\ On("waker", f.task)' <=> On("waker", f.task)
<1>1. \A op, x : On(op, x)' <=> OnIn(r, op, x)
  BY OnNext
<1>2. \A op, x : On(op, x) <=> (f.op = op /\ f.task = x) \/ On(op, x)'
  BY <1>1 DEF TopOf
<1>3. ~On("token", f.task)' /\ ~On("requeue", f.task)'
  BY <1>1, OnTopOnly DEF TopOf
<1>4. CallsNest(calls') /\ Nested(calls', s)
  BY DEF TopOf
<1>5. Len(calls') >= 1 => calls'[1].op \notin {"drain", "free"}
  BY NotAtEnd DEF TopOf, TaskOps
<1>6. ~live' => Len(s) = 0
  BY DEF Core, EmptyAtEnd
<1>7. CallsTell
  BY DEF Core
<1>8. Core(s)'
  BY <1>2, <1>4, <1>5, <1>6, <1>7, CallsChange DEF CallsTell
<1>9. task'[f.task].token = Null
  BY <1>2, <1>7 DEF CallsTell, SameTask
<1> QED
  BY <1>1, <1>2, <1>3, <1>8, <1>9

\* The token of a task that is done or cancelled.
LEMMA CancelDone ==
  ASSUME Typed, NEW s, InvAt(s), NEW t \in Tasks, Running("token", t),
         task[t].done \in {"Cancelled", "Done"},
         task' = decr_task(task, t), Become(<<>>), UNCHANGED <<list, rest>>
  PROVE  Typed' /\ InvAt(s)'
<1>1. PICK f, r : TopOf(s, f, r) /\ f.op = "token" /\ f.task = t
  BY TopFacts DEF InvAt
<1>2. calls' = r /\ r \in Seq(FrameSet)
  BY <1>1, ConcatIs DEF TopOf, Become
<1>3. UNCHANGED <<list, turn, registered, woken, live, thread, fifo, linking>>
  BY DEF rest, wakeVars, queueVars
<1>4. On("token", t)
  BY <1>1 DEF TopOf
<1>5. TokenOut(t) /\ task[t].count >= 1
  BY <1>4, OwnedCount DEF InvAt, TokenOut
<1>6. /\ task' \in [Tasks -> TaskRecords]
      /\ \A x \in Tasks :
           /\ Untouched(x) /\ task'[x].queued = task[x].queued
           /\ task'[x].wakers = task[x].wakers
           /\ x # t => task'[x].count = task[x].count
      /\ task'[t].count = task[t].count - 1
  BY <1>5, DecrTask
<1>7. Typed'
  BY <1>2, <1>3, <1>6 DEF Typed
<1>8. \A x \in Tasks : SameTask(x)
  BY <1>6 DEF Untouched
<1>9. /\ Core(s)'
      /\ ~On("token", t)' /\ ~On("requeue", t)' /\ task'[t].token = Null
      /\ \A x : x # t => \A op : On(op, x)' <=> On(op, x)
      /\ On("waker", t)' <=> On("waker", t)
  BY <1>1, <1>2, <1>3, <1>8, Ended DEF InvAt
<1>10. TasksTell'
  BY <1>6, TasksTellKept DEF InvAt, Untouched, SameTask
<1>11. Marked'
  BY <1>3, <1>6, MarkedKept DEF InvAt
<1>12. \A x \in Tasks : Waking(x)' <=> Waking(x)
  BY <1>3 DEF Waking
<1>13. ~TokenOut(t)'
  BY <1>9 DEF TokenOut
<1>14. \A x \in Tasks : x # t => SameOwners(s, s, x)
  BY <1>3, <1>6, <1>9, <1>12 DEF SameOwners, Untouched, SameTask, TokenOut
<1>15. OwnersIn(s, t)' = OwnersIn(s, t) + (-1) /\ OwnersIn(s, t) \in Nat
  <2>1. PICK w \in Nat : w = task[t].wakers /\ w = task'[t].wakers
    BY <1>6, OwnersNumber
  <2>2. PICK h \in Nat : h = One(On("waker", t)) /\ h = One(On("waker", t)')
    BY <1>9 DEF One
  <2>3. PICK a \in Nat : a = One(In(s, t))
    BY DEF One
  <2>4. One(TokenOut(t)) = 1 /\ One(TokenOut(t)') = 0
    BY <1>5, <1>13 DEF One
  <2>5. PICK g \in Nat : g = One(Waking(t)) /\ g = One(Waking(t)')
    BY <1>12 DEF One
  <2>6. PICK c \in Nat : c = One(In(fifo, t)) /\ c = One(In(fifo', t))
    BY <1>3 DEF One
  <2>7. OwnersIn(s, t) = a + c + 1 + w + g + h /\ OwnersIn(s, t)' = a + c + 0 + w + g + h
    BY <2>1, <2>2, <2>3, <2>4, <2>5, <2>6 DEF OwnersIn
  <2> QED
    BY <2>7
<1>16. Counted(s)'
  <2>1. task'[t].count = task[t].count + (-1) /\ -1 \in Int
    <3>1. task[t].count \in Nat
      BY OwnersNumber
    <3> QED
      BY <1>6, <3>1
  <2>2. Skipped(t) => Skipped(t)'
    BY <1>3, <1>6, <1>12 DEF Skipped, Untouched
  <2> QED
    BY <1>14, <1>15, <2>1, <2>2, CountedStep DEF InvAt
<1> QED
  BY <1>7, <1>9, <1>10, <1>11, <1>16 DEF InvAt

\* A step that leaves the list and the holders of tokens.
LEMMA ListKept ==
  ASSUME NEW s, Core(s), UNCHANGED list,
         \A t \in Tasks : /\ task'[t].next = task[t].next /\ task'[t].prev = task[t].prev
                          /\ task'[t].token = task[t].token
  PROVE  IsList(s)' /\ HolderOlder(s)'
<1>1. \A i \in 1..Len(s) : s[i] \in Tasks
  BY ElementOfSeq DEF Core, IsList
<1>2. IsList(s)'
  BY <1>1 DEF Core, IsList
<1>3. HolderOlder(s)'
  BY <1>1 DEF Core, HolderOlder
<1> QED
  BY <1>2, <1>3

\* The calls that cancel a running task t may be made in the place of its token.
LEMMA CancelCalls ==
  ASSUME Typed, NEW s, InvAt(s), NEW t \in Tasks, task[t].done = "Running",
         NEW f, NEW r, TopOf(s, f, r), f.op = "token", f.task = t,
         NEW g \in FrameSet, g.op = "future", g.task = t,
         NEW h \in FrameSet, h.op = "requeue", h.task = t
  PROVE  /\ MayCall(h, r) /\ MayCall(g, Cons(h, r))
         /\ OlderBelow(h, r, s) /\ OlderBelow(g, Cons(h, r), s)
         /\ ~OnIn(r, "drive", t) /\ ~OnIn(r, "future", t)
<1>1. /\ f \in FrameSet /\ r \in Seq(FrameSet) /\ MayCall(f, r) /\ OlderBelow(f, r, s)
      /\ Len(r) \in Nat /\ \A op, x : OnIn(r, op, x) => On(op, x)
  BY DEF TopOf
<1>2. ~OnIn(r, "future", t)
  BY <1>1 DEF InvAt, Core, CallsTell
<1>3. PICK i \in 1..Len(s) : s[i] = t
  BY DEF InvAt, Core, Listed, In
<1>4. ~OnIn(r, "drive", t)
  <2>1. s \in Seq(Tasks)
    BY DEF InvAt, Core, IsList
  <2>2. Len(s) \in Nat
    BY <2>1, LenProperties
  <2>3. ~(i < i)
    BY <1>3, <2>2
  <2> QED
    BY <1>1, <1>3, <2>3 DEF OnIn, OlderBelow
<1>5. /\ g.op \in TaskOps /\ h.op \in TaskOps
      /\ g.op \notin BaseOps \cup TreeOps /\ h.op \notin BaseOps \cup TreeOps
  BY DEF TaskOps, BaseOps, TreeOps
<1>6. \A k \in 1..Len(r) : Above(f, r[k])
  BY <1>1 DEF MayCall
<1>7. \A k \in 1..Len(r) : Above(h, r[k])
  BY <1>5, <1>6 DEF Above
<1>8. \A k \in 1..Len(r) : Above(g, r[k])
  BY <1>2, <1>5, <1>6 DEF Above, OnIn
<1>9. Len(r) # 0 => r[1].op \notin {"drain", "free"}
  BY <1>1, NotAtEnd DEF TaskOps
<1>10. MayCall(h, r)
  BY <1>5, <1>7, <1>9 DEF MayCall, Upon
<1>11. Above(g, h) /\ Upon(g, h)
  BY <1>5 DEF Above, Upon
<1>12. MayCall(g, Cons(h, r))
  BY <1>1, <1>5, <1>8, <1>11, MayCallOn
<1>13. OlderBelow(h, r, s)
  BY DEF OlderBelow
<1>14. OlderBelow(g, Cons(h, r), s)
  <2>1. /\ Len(Cons(h, r)) = Len(r) + 1 /\ Cons(h, r)[1] = h
        /\ \A l \in 1..Len(r) : Cons(h, r)[l + 1] = r[l]
    BY <1>1, ConsFacts
  <2>2. PICK c : c = Cons(h, r)
    OBVIOUS
  <2>3. /\ Len(c) = Len(r) + 1 /\ c[1] = h /\ \A l \in 1..Len(r) : c[l + 1] = r[l]
    BY <2>1, <2>2
  <2>4. ASSUME NEW k \in 1..Len(c), NEW a \in 1..Len(s), NEW b \in 1..Len(s),
               c[k].op \in {"drive", "future"}, g.task = s[a], c[k].task = s[b]
        PROVE  a < b
    <3>1. k # 1
      BY <2>3, <2>4
    <3>2. k - 1 \in 1..Len(r) /\ (k - 1) + 1 = k
      BY <1>1, <2>3, <3>1
    <3>3. c[k] = r[k - 1]
      BY <2>3, <3>2
    <3> QED
      BY <1>1, <2>4, <3>2, <3>3 DEF OlderBelow
  <2>5. OlderBelow(g, c, s)
    BY <2>4 DEF OlderBelow
  <2> QED
    BY <2>2, <2>5
<1> QED
  BY <1>2, <1>4, <1>10, <1>12, <1>13, <1>14

\* The task t is cancelled.
LEMMA CancelledTask ==
  ASSUME Typed, NEW t \in Tasks,
         task' = [task EXCEPT ![t].done = "Cancelled", ![t].cancelled = TRUE]
  PROVE  /\ task' \in [Tasks -> TaskRecords]
         /\ \A x \in Tasks :
              /\ task'[x].wakers = task[x].wakers /\ task'[x].count = task[x].count
              /\ task'[x].queued = task[x].queued /\ task'[x].token = task[x].token
              /\ task'[x].dropped = task[x].dropped
              /\ task'[x].next = task[x].next /\ task'[x].prev = task[x].prev
              /\ x # t => task'[x].done = task[x].done /\ task'[x].cancelled = task[x].cancelled
         /\ task'[t].done = "Cancelled" /\ task'[t].cancelled = TRUE
<1>1. PICK q \in TaskRecords : q = task[t]
  BY DEF Typed
<1>2. PICK n : n = [q EXCEPT !.done = "Cancelled", !.cancelled = TRUE]
  OBVIOUS
<1>3. n \in TaskRecords
  BY <1>2 DEF TaskRecords
<1>4. /\ n.count = q.count /\ n.wakers = q.wakers /\ n.queued = q.queued
      /\ n.done = "Cancelled" /\ n.next = q.next /\ n.prev = q.prev
      /\ n.dropped = q.dropped /\ n.token = q.token /\ n.cancelled = TRUE
  BY <1>2 DEF TaskRecords
<1>5. task' = [task EXCEPT ![t] = n]
  BY <1>1, <1>2 DEF Typed
<1>6. task \in [Tasks -> TaskRecords]
  BY DEF Typed
<1>7. /\ task' \in [Tasks -> TaskRecords] /\ task'[t] = n
      /\ \A x \in Tasks : x # t => task'[x] = task[x]
  BY <1>3, <1>5, <1>6
<1> QED
  BY <1>1, <1>4, <1>7

\* The token of a running task cancels it.
LEMMA CancelRunning ==
  ASSUME Typed, NEW s, InvAt(s), NEW t \in Tasks, Running("token", t),
         task[t].done = "Running",
         task' = [task EXCEPT ![t].done = "Cancelled", ![t].cancelled = TRUE],
         Become(<<Frame("future", t), Frame("requeue", t)>>), UNCHANGED <<list, rest>>
  PROVE  Typed' /\ InvAt(s)'
<1>1. PICK f, r : TopOf(s, f, r) /\ f.op = "token" /\ f.task = t
  BY TopFacts DEF InvAt
<1>2. PICK g \in FrameSet, h \in FrameSet :
        /\ g = Frame("future", t) /\ g.op = "future" /\ g.task = t
        /\ h = Frame("requeue", t) /\ h.op = "requeue" /\ h.task = t
  <2>1. /\ Frame("future", t) \in FrameSet /\ Frame("future", t).op = "future"
        /\ Frame("future", t).task = t
    BY FrameFacts DEF Ops
  <2>2. /\ Frame("requeue", t) \in FrameSet /\ Frame("requeue", t).op = "requeue"
        /\ Frame("requeue", t).task = t
    BY FrameFacts DEF Ops
  <2> QED
    BY <2>1, <2>2, Zenon
<1>3. calls' = <<g, h>> \o r
  BY <1>1, <1>2 DEF Become, TopOf
<1>4. /\ MayCall(h, r) /\ MayCall(g, Cons(h, r))
      /\ OlderBelow(h, r, s) /\ OlderBelow(g, Cons(h, r), s)
      /\ ~OnIn(r, "drive", t) /\ ~OnIn(r, "future", t)
  BY <1>1, <1>2, CancelCalls
<1>5. r \in Seq(FrameSet) /\ CallsNest(r) /\ Nested(r, s) /\ s \in Seq(Tasks) /\ MayCall(f, r)
  BY <1>1 DEF TopOf, InvAt, Core, IsList
<1>6. /\ calls' \in Seq(FrameSet) /\ CallsNest(calls') /\ Nested(calls', s)
      /\ calls'[1] = g
      /\ \A op, x : On(op, x)' <=>
           \/ g.op = op /\ g.task = x
           \/ h.op = op /\ h.task = x
           \/ OnIn(r, op, x)
  BY <1>2, <1>3, <1>4, <1>5, PushedTwo
<1>7. \A x : ~OnIn(r, "remove", x) /\ ~OnIn(r, "token", x)
  BY <1>5, OnTopOnly
<1>8. /\ \A op, x : On(op, x) <=> (op = "token" /\ x = t) \/ OnIn(r, op, x)
      /\ \A op, x : On(op, x)' <=> (op \in {"future", "requeue"} /\ x = t) \/ OnIn(r, op, x)
  BY <1>1, <1>2, <1>6 DEF TopOf
<1>9. /\ \A x : x # t => \A op : On(op, x)' <=> On(op, x)
      /\ \A op : op \notin {"future", "requeue", "token"} => (On(op, t)' <=> On(op, t))
      /\ On("future", t)' /\ On("requeue", t)' /\ On("token", t) /\ ~On("token", t)'
      /\ ~On("drive", t)' /\ ~On("remove", t)'
  BY <1>4, <1>7, <1>8
<1>10. UNCHANGED <<list, turn, registered, woken, live, thread, fifo, linking>>
  BY DEF rest, wakeVars, queueVars
<1>11. /\ task' \in [Tasks -> TaskRecords]
       /\ \A x \in Tasks :
            /\ task'[x].wakers = task[x].wakers /\ task'[x].count = task[x].count
            /\ task'[x].queued = task[x].queued /\ task'[x].token = task[x].token
            /\ task'[x].dropped = task[x].dropped
            /\ task'[x].next = task[x].next /\ task'[x].prev = task[x].prev
            /\ x # t => task'[x].done = task[x].done /\ task'[x].cancelled = task[x].cancelled
       /\ task'[t].done = "Cancelled" /\ task'[t].cancelled = TRUE
  BY CancelledTask
<1>12. task[t].dropped = 0 /\ task[t].token = Null
  BY <1>9 DEF InvAt, Core, CallsTell, TasksTell
<1>13. CallsTell'
  <2>1. ~On("detach", t)
    BY DEF InvAt, Core, CallsTell
  <2> QED
    BY <1>9, <1>11, <1>12, <2>1 DEF InvAt, Core, CallsTell
<1>14. IsList(s)' /\ HolderOlder(s)'
  BY <1>10, <1>11, ListKept DEF InvAt
<1>15. Listed(s)'
  BY <1>9, <1>11 DEF InvAt, Core, Listed
<1>16. HolderKnown'
  BY <1>9, <1>11 DEF InvAt, Core, HolderKnown
<1>17. EmptyAtEnd(s)'
  BY <1>2, <1>6, <1>10 DEF InvAt, Core, EmptyAtEnd
<1>18. Core(s)'
  BY <1>6, <1>13, <1>14, <1>15, <1>16, <1>17 DEF Core
<1>19. TasksTell'
  BY <1>11, <1>12 DEF InvAt, TasksTell
<1>20. Marked'
  BY <1>10, <1>11, MarkedKept DEF InvAt
<1>21. \A x \in Tasks : (Waking(x)' <=> Waking(x)) /\ (TokenOut(x)' <=> TokenOut(x))
  BY <1>9, <1>10, <1>11 DEF Waking, TokenOut
<1>22. \A x \in Tasks : x # t => SameOwners(s, s, x)
  BY <1>9, <1>10, <1>11, <1>21 DEF SameOwners
<1>23. OwnersIn(s, t)' = OwnersIn(s, t) /\ OwnersIn(s, t) \in Nat
  BY <1>9, <1>10, <1>11, <1>21, OwnersNumber DEF OwnersIn, One
<1>24. Counted(s)'
  <2>1. /\ task'[t].count = task[t].count + 0 /\ 0 \in Int
        /\ OwnersIn(s, t)' = OwnersIn(s, t) + 0
    BY <1>11, <1>23, OwnersNumber
  <2>2. Skipped(t) => Skipped(t)'
    BY <1>10, <1>11, <1>21 DEF Skipped
  <2> QED
    BY <1>22, <2>1, <2>2, CountedStep DEF InvAt
<1>25. Typed'
  BY <1>6, <1>10, <1>11 DEF Typed
<1> QED
  BY <1>18, <1>19, <1>20, <1>24, <1>25 DEF InvAt

\* CancelToken::drop.
LEMMA CancelKeeps ==
  ASSUME Typed, NEW s, InvAt(s), NEW t \in Tasks, CancelToken_drop(t)
  PROVE  Typed' /\ InvAt(s)'
<1>1. /\ Running("token", t) /\ UNCHANGED <<list, rest>>
      /\ IF task[t].done \in {"Cancelled", "Done"}
         THEN task' = decr_task(task, t) /\ Become(<<>>)
         ELSE /\ task' = [task EXCEPT ![t].done = "Cancelled", ![t].cancelled = TRUE]
              /\ Become(<<Frame("future", t), Frame("requeue", t)>>)
  BY DEF CancelToken_drop, Cancel
<1>2. CASE task[t].done \in {"Cancelled", "Done"}
  BY <1>1, <1>2, CancelDone
<1>3. CASE task[t].done \notin {"Cancelled", "Done"}
  <2>1. On("token", t)
    BY <1>1, RunningOn DEF Typed
  <2>2. task[t].done # "absent"
    BY <2>1 DEF InvAt, Core, CallsTell
  <2>3. task[t].done \in {"absent", "Running", "Cancelled", "Done"}
    BY DEF Typed, TaskRecords
  <2>4. task[t].done = "Running"
    BY <1>3, <2>2, <2>3
  <2> QED
    BY <1>1, <1>3, <2>4, CancelRunning
<1> QED
  BY <1>2, <1>3

\* A task is marked, and loses a count or not.
LEMMA MarkTask ==
  ASSUME Typed, NEW t \in Tasks, task[t].count >= 1, NEW d \in {0, -1},
         \/ d = 0 /\ task' = [task EXCEPT ![t].queued = TRUE]
         \/ d = -1 /\ task' = decr_task([task EXCEPT ![t].queued = TRUE], t)
  PROVE  /\ task' \in [Tasks -> TaskRecords]
         /\ \A x \in Tasks :
              /\ Untouched(x) /\ task'[x].wakers = task[x].wakers
              /\ x # t => task'[x].count = task[x].count /\ task'[x].queued = task[x].queued
         /\ task'[t].count = task[t].count + d /\ task'[t].queued
<1>1. PICK r \in TaskRecords : r = task[t]
  BY DEF Typed
<1>2. PICK c \in Nat : c = r.count + d
  <2>1. r.count \in Nat /\ r.count >= 1
    BY <1>1 DEF TaskRecords
  <2> QED
    BY <2>1
<1>3. PICK n : n = [r EXCEPT !.queued = TRUE, !.count = c]
  OBVIOUS
<1>4. n \in TaskRecords
  BY <1>3 DEF TaskRecords
<1>5. /\ n.count = c /\ n.wakers = r.wakers /\ n.queued = TRUE
      /\ n.done = r.done /\ n.next = r.next /\ n.prev = r.prev
      /\ n.dropped = r.dropped /\ n.token = r.token /\ n.cancelled = r.cancelled
  BY <1>3 DEF TaskRecords
<1>6. task' = [task EXCEPT ![t] = n]
  <2>1. CASE d = 0
    <3>1. c = r.count
      BY <1>2, <2>1 DEF TaskRecords
    <3>2. n = [r EXCEPT !.queued = TRUE]
      BY <1>3, <3>1 DEF TaskRecords
    <3> QED
      BY <1>1, <2>1, <3>2
  <2>2. CASE d = -1
    <3>1. c = r.count - 1
      BY <1>2, <2>2 DEF TaskRecords
    <3>2. PICK m : m = [r EXCEPT !.queued = TRUE]
      OBVIOUS
    <3>3. m \in TaskRecords /\ m.count = r.count
      BY <3>2 DEF TaskRecords
    <3>4. n = [m EXCEPT !.count = c]
      BY <1>3, <3>2 DEF TaskRecords
    <3>5. PICK ts : ts = [task EXCEPT ![t] = m] /\ ts \in [Tasks -> TaskRecords]
      <4>1. [task EXCEPT ![t] = m] \in [Tasks -> TaskRecords]
        BY <3>3 DEF Typed
      <4> QED
        BY <4>1, Zenon
    <3>6. ts = [task EXCEPT ![t].queued = TRUE] /\ ts[t] = m
      BY <1>1, <3>2, <3>5 DEF Typed
    <3>7. task' = decr_task(ts, t)
      BY <2>2, <3>6
    <3>8. task' = [ts EXCEPT ![t] = [m EXCEPT !.count = m.count - 1]]
      BY <3>6, <3>7 DEF decr_task
    <3>9. task' = [ts EXCEPT ![t] = n]
      BY <3>1, <3>3, <3>4, <3>8
    <3> QED
      BY <3>5, <3>9 DEF Typed
  <2> QED
    BY <2>1, <2>2
<1>7. /\ task' \in [Tasks -> TaskRecords] /\ task'[t] = n
      /\ \A x \in Tasks : x # t => task'[x] = task[x]
  BY <1>4, <1>6 DEF Typed
<1> QED
  BY <1>1, <1>2, <1>5, <1>7 DEF Untouched, SameTask

\* The end of CancelToken::drop: the count of the token goes to the queue or is given back.
LEMMA RequeueKeeps ==
  ASSUME Typed, NEW s, InvAt(s), NEW t \in Tasks, Requeue(t)
  PROVE  Typed' /\ InvAt(s)'
<1>1. PICK p \in BOOLEAN : p = (~task[t].queued /\ QueueLives)
  OBVIOUS
<1>2. /\ Running("requeue", t) /\ Become(<<>>) /\ UNCHANGED <<list, turn, live, thread>>
      /\ p => task' = [task EXCEPT ![t].queued = TRUE] /\ WakePoller /\ PushOwn(t)
      /\ ~p => /\ task' = decr_task([task EXCEPT ![t].queued = TRUE], t)
               /\ UNCHANGED <<wakeVars, queueVars>>
  BY <1>1 DEF Requeue, RequeueTaking
<1>3. PICK f, r : TopOf(s, f, r) /\ f.op = "requeue" /\ f.task = t
  BY <1>2, TopFacts DEF InvAt
<1>4. calls' = r /\ r \in Seq(FrameSet)
  BY <1>2, <1>3, ConcatIs DEF TopOf, Become
<1>5. On("requeue", t)
  BY <1>3 DEF TopOf
<1>6. TokenOut(t) /\ task[t].count >= 1 /\ task[t].done # "absent"
  BY <1>5, OwnedCount DEF InvAt, TokenOut, Core, CallsTell
<1>7. PICK d \in {0, -1} : (d = 0 <=> p)
  BY <1>1
<1>8. /\ task' \in [Tasks -> TaskRecords]
      /\ \A x \in Tasks :
           /\ Untouched(x) /\ task'[x].wakers = task[x].wakers
           /\ x # t => task'[x].count = task[x].count /\ task'[x].queued = task[x].queued
      /\ task'[t].count = task[t].count + d /\ task'[t].queued
  <2>1. \/ d = 0 /\ task' = [task EXCEPT ![t].queued = TRUE]
        \/ d = -1 /\ task' = decr_task([task EXCEPT ![t].queued = TRUE], t)
    BY <1>2, <1>7
  <2> QED
    BY <1>6, <2>1, MarkTask
<1>9. \A x \in Tasks : SameTask(x)
  BY <1>8 DEF Untouched
<1>10. /\ Core(s)'
       /\ ~On("token", t)' /\ ~On("requeue", t)' /\ task'[t].token = Null
       /\ \A x : x # t => \A op : On(op, x)' <=> On(op, x)
       /\ On("waker", t)' <=> On("waker", t)
  BY <1>2, <1>3, <1>4, <1>9, Ended DEF InvAt
<1>11. TasksTell'
  BY <1>6, <1>8, TasksTellKept DEF InvAt, Untouched, SameTask
<1>12. /\ fifo' \in Seq(Tasks) /\ linking' = linking
       /\ \A x \in Tasks : x # t => (In(fifo', x) <=> In(fifo, x))
       /\ p => ~In(fifo, t) /\ In(fifo', t)
       /\ ~p => (In(fifo', t) <=> In(fifo, t))
       /\ Marked' /\ registered' \in BOOLEAN /\ woken' \in BOOLEAN
  <2>1. CASE p
    <3>1. fifo' = Append(fifo, t) /\ linking' = linking /\ ~task[t].queued
      BY <1>1, <1>2, <2>1 DEF PushOwn
    <3>2. ~In(fifo, t)
      BY <3>1, NotMarked DEF InvAt
    <3>3. /\ fifo' \in Seq(Tasks) /\ In(fifo', t)
          /\ \A y : y # t => (In(fifo', y) <=> In(fifo, y))
      BY <3>1, <3>2, PutLast DEF InvAt
    <3>4. Marked'
      BY <1>2, <1>8, <2>1, <3>1, MarkedPut DEF InvAt
    <3>5. registered' \in BOOLEAN /\ woken' \in BOOLEAN
      BY <1>2, <2>1 DEF WakePoller
    <3> QED
      BY <2>1, <3>1, <3>2, <3>3, <3>4, <3>5
  <2>2. CASE ~p
    <3>1. UNCHANGED <<registered, woken, fifo, linking, thread>>
      BY <1>2, <2>2 DEF wakeVars, queueVars
    <3>2. Marked'
      BY <1>8, <3>1, MarkedKept DEF InvAt
    <3> QED
      BY <2>2, <3>1, <3>2 DEF Typed
  <2> QED
    BY <2>1, <2>2
<1>13. \A x \in Tasks : Waking(x)' <=> Waking(x)
  BY <1>2 DEF Waking
<1>14. ~TokenOut(t)'
  BY <1>10 DEF TokenOut
<1>15. \A x \in Tasks : x # t => SameOwners(s, s, x)
  BY <1>8, <1>10, <1>12, <1>13 DEF SameOwners, Untouched, SameTask, TokenOut
<1>16. OwnersIn(s, t)' = OwnersIn(s, t) + d /\ OwnersIn(s, t) \in Nat
  <2>1. PICK w \in Nat : w = task[t].wakers /\ w = task'[t].wakers
    BY <1>8, OwnersNumber
  <2>2. PICK h \in Nat : h = One(On("waker", t)) /\ h = One(On("waker", t)')
    BY <1>10 DEF One
  <2>3. PICK a \in Nat : a = One(In(s, t))
    BY DEF One
  <2>4. One(TokenOut(t)) = 1 /\ One(TokenOut(t)') = 0
    BY <1>6, <1>14 DEF One
  <2>5. PICK g \in Nat : g = One(Waking(t)) /\ g = One(Waking(t)')
    BY <1>13 DEF One
  <2>6. PICK b \in Nat, c \in Nat : b = One(In(fifo, t)) /\ c = One(In(fifo', t))
    BY DEF One
  <2>7. c = b + 1 + d
    BY <1>7, <1>12, <2>6 DEF One
  <2>8. OwnersIn(s, t) = a + b + 1 + w + g + h /\ OwnersIn(s, t)' = a + c + 0 + w + g + h
    BY <2>1, <2>2, <2>3, <2>4, <2>5, <2>6 DEF OwnersIn
  <2> QED
    BY <2>7, <2>8
<1>17. Counted(s)'
  <2>1. task'[t].count = task[t].count + d /\ d \in Int
    <3>1. task[t].count \in Nat
      BY OwnersNumber
    <3> QED
      BY <1>8, <3>1
  <2>2. Skipped(t) => Skipped(t)'
    BY <1>1, <1>8, <1>12, <1>13 DEF Skipped, Untouched
  <2> QED
    BY <1>15, <1>16, <2>1, <2>2, CountedStep DEF InvAt
<1>18. Typed'
  BY <1>2, <1>4, <1>8, <1>12 DEF Typed
<1> QED
  BY <1>10, <1>11, <1>12, <1>17, <1>18 DEF InvAt

\* What calls there are with the removal, the detaching or the drive of t on top.
LEMMA RemoveTop ==
  ASSUME NEW s, NEW t \in Tasks, NEW f, NEW r, TopOf(s, f, r),
         f.op \in {"remove", "detach"}, f.task = t
  PROVE  /\ \A i \in 1..Len(r) : r[i].op \in BaseOps \cup {"waker"}
         /\ \A op \in TaskOps : op # "waker" => \A x : ~OnIn(r, op, x)
         /\ Len(r) # 0 => r[1].op \notin {"drain", "free"}
<1>1. \A i \in 1..Len(r) : Above(f, r[i])
  BY DEF TopOf, MayCall
<1>2. \A i \in 1..Len(r) : r[i].op \in BaseOps \cup {"waker"}
  BY <1>1 DEF Above
<1>3. \A op \in TaskOps : op \notin BaseOps
  BY DEF TaskOps, BaseOps, TreeOps
<1>4. \A op \in TaskOps : op # "waker" => \A x : ~OnIn(r, op, x)
  BY <1>2, <1>3 DEF OnIn
<1>5. Len(r) # 0 => r[1].op \notin {"drain", "free"}
  BY NotAtEnd DEF TopOf, TaskOps
<1> QED
  BY <1>2, <1>4, <1>5

\* The calls of pop_task_all for t.
LEMMA RemoveCalls ==
  ASSUME Typed, NEW s \in Seq(Tasks), NEW t \in Tasks, NEW f, NEW r, TopOf(s, f, r),
         f.op = "remove", f.task = t, NEW b \in BOOLEAN,
         Become(IF b THEN <<Frame("future", t), Frame("detach", t)>> ELSE <<Frame("detach", t)>>)
  PROVE  /\ calls' \in Seq(FrameSet) /\ CallsNest(calls') /\ Nested(calls', s)
         /\ calls'[1].op \in {"future", "detach"}
         /\ \A op, x : On(op, x)' <=>
              \/ op = "detach" /\ x = t
              \/ op = "future" /\ x = t /\ b
              \/ OnIn(r, op, x)
<1>1. PICK g \in FrameSet, h \in FrameSet :
        /\ g = Frame("future", t) /\ g.op = "future" /\ g.task = t
        /\ h = Frame("detach", t) /\ h.op = "detach" /\ h.task = t
  <2>1. /\ Frame("future", t) \in FrameSet /\ Frame("future", t).op = "future"
        /\ Frame("future", t).task = t
    BY FrameFacts DEF Ops
  <2>2. /\ Frame("detach", t) \in FrameSet /\ Frame("detach", t).op = "detach"
        /\ Frame("detach", t).task = t
    BY FrameFacts DEF Ops
  <2> QED
    BY <2>1, <2>2, Zenon
<1>2. r \in Seq(FrameSet) /\ CallsNest(r) /\ Nested(r, s) /\ Tail(calls) = r /\ Len(r) \in Nat
  BY DEF TopOf
<1>3. calls' = IF b THEN <<g, h>> \o r ELSE <<h>> \o r
  BY <1>1, <1>2 DEF Become
<1>4. /\ \A i \in 1..Len(r) : r[i].op \in BaseOps \cup {"waker"}
      /\ Len(r) # 0 => r[1].op \notin {"drain", "free"}
  BY RemoveTop
<1>5. /\ g.op \in TaskOps /\ h.op \in TaskOps
      /\ g.op \notin BaseOps \cup TreeOps /\ h.op \notin BaseOps \cup TreeOps
      /\ \A op \in BaseOps \cup {"waker"} : op \notin {"remove", "token", "future", "drive"}
  BY <1>1 DEF TaskOps, BaseOps, TreeOps
<1>6. \A k \in 1..Len(r) : Above(h, r[k]) /\ Above(g, r[k])
  BY <1>1, <1>4, <1>5 DEF Above
<1>7. MayCall(h, r)
  BY <1>1, <1>4, <1>5, <1>6 DEF MayCall, Upon
<1>8. Above(g, h) /\ Upon(g, h)
  BY <1>1, <1>5 DEF Above, Upon
<1>9. MayCall(g, Cons(h, r))
  BY <1>1, <1>2, <1>5, <1>6, <1>8, MayCallOn
<1>10. OlderBelow(h, r, s)
  BY <1>1 DEF OlderBelow
<1>11. OlderBelow(g, Cons(h, r), s)
  <2>1. /\ Len(Cons(h, r)) = Len(r) + 1 /\ Cons(h, r)[1] = h
        /\ \A l \in 1..Len(r) : Cons(h, r)[l + 1] = r[l]
    BY <1>2, ConsFacts
  <2>2. PICK c : c = Cons(h, r)
    OBVIOUS
  <2>3. /\ Len(c) = Len(r) + 1 /\ c[1] = h /\ \A l \in 1..Len(r) : c[l + 1] = r[l]
    BY <2>1, <2>2
  <2>4. ASSUME NEW k \in 1..Len(c) PROVE c[k].op \notin {"drive", "future"}
    <3>1. CASE k = 1
      BY <1>1, <2>3, <3>1
    <3>2. CASE k # 1
      <4>1. k - 1 \in 1..Len(r) /\ (k - 1) + 1 = k
        BY <1>2, <2>3, <3>2
      <4>2. c[k] = r[k - 1]
        BY <2>3, <4>1
      <4> QED
        BY <1>4, <1>5, <4>1, <4>2
    <3> QED
      BY <3>1, <3>2
  <2>5. OlderBelow(g, c, s)
    BY <2>4 DEF OlderBelow
  <2> QED
    BY <2>2, <2>5
<1>12. CASE b
  <2>1. calls' = <<g, h>> \o r
    BY <1>3, <1>12
  <2>2. /\ calls' \in Seq(FrameSet) /\ CallsNest(calls') /\ Nested(calls', s)
        /\ calls'[1] = g
        /\ \A op, x : On(op, x)' <=>
             \/ g.op = op /\ g.task = x
             \/ h.op = op /\ h.task = x
             \/ OnIn(r, op, x)
    BY <1>2, <1>7, <1>9, <1>10, <1>11, <2>1, PushedTwo
  <2> QED
    BY <1>1, <1>12, <2>2
<1>13. CASE ~b
  <2>1. calls' = <<h>> \o r
    BY <1>3, <1>13
  <2>2. /\ calls' \in Seq(FrameSet) /\ CallsNest(calls') /\ Nested(calls', s)
        /\ calls'[1] = h
        /\ \A op, x : On(op, x)' <=> (h.op = op /\ h.task = x) \/ OnIn(r, op, x)
    BY <1>2, <1>7, <1>10, <2>1, Pushed
  <2> QED
    BY <1>1, <1>13, <2>2
<1> QED
  BY <1>12, <1>13

\* The task t is done.
LEMMA DoneTask ==
  ASSUME Typed, NEW t \in Tasks, task' = [task EXCEPT ![t].queued = TRUE, ![t].done = "Done"]
  PROVE  /\ task' \in [Tasks -> TaskRecords]
         /\ \A x \in Tasks :
              /\ task'[x].wakers = task[x].wakers /\ task'[x].count = task[x].count
              /\ task'[x].cancelled = task[x].cancelled /\ task'[x].token = task[x].token
              /\ task'[x].dropped = task[x].dropped
              /\ task'[x].next = task[x].next /\ task'[x].prev = task[x].prev
              /\ x # t => task'[x].done = task[x].done /\ task'[x].queued = task[x].queued
         /\ task'[t].done = "Done" /\ task'[t].queued = TRUE
<1>1. PICK q \in TaskRecords : q = task[t]
  BY DEF Typed
<1>2. PICK n : n = [q EXCEPT !.queued = TRUE, !.done = "Done"]
  OBVIOUS
<1>3. n \in TaskRecords
  BY <1>2 DEF TaskRecords
<1>4. /\ n.count = q.count /\ n.wakers = q.wakers /\ n.queued = TRUE
      /\ n.done = "Done" /\ n.next = q.next /\ n.prev = q.prev
      /\ n.dropped = q.dropped /\ n.token = q.token /\ n.cancelled = q.cancelled
  BY <1>2 DEF TaskRecords
<1>5. task' = [task EXCEPT ![t] = n]
  BY <1>1, <1>2 DEF Typed
<1>6. task \in [Tasks -> TaskRecords]
  BY DEF Typed
<1>7. /\ task' \in [Tasks -> TaskRecords] /\ task'[t] = n
      /\ \A x \in Tasks : x # t => task'[x] = task[x]
  BY <1>3, <1>5, <1>6
<1> QED
  BY <1>1, <1>4, <1>7

\* pop_task_all.
LEMMA RemoveKeeps ==
  ASSUME Typed, NEW s, InvAt(s), NEW t \in Tasks, pop_task_all(t)
  PROVE  Typed' /\ InvAt(s)'
<1>1. PICK b \in BOOLEAN : b = (task[t].done = "Running")
  OBVIOUS
<1>2. /\ Running("remove", t) /\ UNCHANGED <<list, rest>>
      /\ task' = [task EXCEPT ![t].queued = TRUE, ![t].done = "Done"]
      /\ Become(IF b THEN <<Frame("future", t), Frame("detach", t)>> ELSE <<Frame("detach", t)>>)
  BY <1>1 DEF pop_task_all, RemoveTask
<1>3. PICK f, r : TopOf(s, f, r) /\ f.op = "remove" /\ f.task = t
  BY <1>2, TopFacts DEF InvAt
<1>4. s \in Seq(Tasks)
  BY DEF InvAt, Core, IsList
<1>5. /\ calls' \in Seq(FrameSet) /\ CallsNest(calls') /\ Nested(calls', s)
      /\ calls'[1].op \in {"future", "detach"}
      /\ \A op, x : On(op, x)' <=>
           \/ op = "detach" /\ x = t
           \/ op = "future" /\ x = t /\ b
           \/ OnIn(r, op, x)
  BY <1>2, <1>3, <1>4, RemoveCalls
<1>6. /\ \A op \in TaskOps : op # "waker" => \A x : ~OnIn(r, op, x)
      /\ \A op \in TaskOps : \A x : On(op, x) <=>
           (op = "remove" /\ x = t) \/ (op = "waker" /\ OnIn(r, "waker", x))
  <2>1. TopOf(s, f, r) /\ f.op \in {"remove", "detach"} /\ f.task = t
    BY <1>3
  <2>2. \A op \in TaskOps : op # "waker" => \A x : ~OnIn(r, op, x)
    BY <2>1, RemoveTop
  <2>3. \A op, x : On(op, x) <=> (f.op = op /\ f.task = x) \/ OnIn(r, op, x)
    BY <2>1 DEF TopOf
  <2> QED
    BY <1>3, <2>2, <2>3
<1>7. /\ \A x : On("waker", x)' <=> On("waker", x)
      /\ \A op \in {"drive", "token", "requeue"} : \A x : ~On(op, x) /\ ~On(op, x)'
      /\ \A op \in {"future", "detach"} : \A x : ~On(op, x)
      /\ \A x : ~On("remove", x)'
      /\ \A x : On("detach", x)' <=> x = t
      /\ \A x : On("future", x)' <=> x = t /\ b
      /\ On("remove", t)
  BY <1>5, <1>6 DEF TaskOps
<1>8. UNCHANGED <<list, turn, registered, woken, live, thread, fifo, linking>>
  BY <1>2 DEF rest, wakeVars, queueVars
<1>9. /\ task' \in [Tasks -> TaskRecords]
      /\ \A x \in Tasks :
           /\ task'[x].wakers = task[x].wakers /\ task'[x].count = task[x].count
           /\ task'[x].cancelled = task[x].cancelled /\ task'[x].token = task[x].token
           /\ task'[x].dropped = task[x].dropped
           /\ task'[x].next = task[x].next /\ task'[x].prev = task[x].prev
           /\ x # t => task'[x].done = task[x].done /\ task'[x].queued = task[x].queued
      /\ task'[t].done = "Done" /\ task'[t].queued = TRUE
  BY <1>2, DoneTask
<1>10. /\ task[t].done \in {"Running", "Cancelled"}
       /\ b <=> task[t].dropped = 0
  <2>1. task[t].done \in {"Running", "Cancelled"}
    BY <1>7 DEF InvAt, Core, CallsTell
  <2>2. task[t].done = "Running" => task[t].dropped = 0
    BY DEF InvAt, TasksTell
  <2>3. task[t].done = "Cancelled" => task[t].dropped # 0
    BY <1>7 DEF InvAt, Core, CallsTell
  <2> QED
    BY <1>1, <2>1, <2>2, <2>3
<1>11. CallsTell'
  BY <1>7, <1>9, <1>10 DEF InvAt, Core, CallsTell
<1>12. IsList(s)' /\ HolderOlder(s)'
  BY <1>8, <1>9, ListKept DEF InvAt
<1>13. Listed(s)'
  BY <1>7, <1>9, <1>10 DEF InvAt, Core, Listed
<1>14. HolderKnown'
  <2>1. ASSUME NEW x \in Tasks, task'[x].done = "Running"
        PROVE  \/ task'[x].token = Outside \/ On("token", x)'
               \/ /\ task'[x].token \in Tasks
                  /\ task'[task'[x].token].done = "Running" \/ On("future", task[x].token)'
    <3>1. x # t /\ task[x].done = "Running" /\ task'[x].token = task[x].token
      BY <1>9, <2>1
    <3>2. CASE task[x].token = Outside
      BY <3>1, <3>2
    <3>3. CASE task[x].token # Outside
      <4>1. /\ task[x].token \in Tasks
            /\ task[task[x].token].done = "Running" \/ On("future", task[x].token)
        BY <1>7, <3>1, <3>3 DEF InvAt, Core, HolderKnown
      <4>2. task[task[x].token].done = "Running"
        BY <1>7, <4>1
      <4>3. CASE task[x].token = t
        BY <1>1, <1>7, <3>1, <4>2, <4>3
      <4>4. CASE task[x].token # t
        BY <1>9, <3>1, <4>1, <4>2, <4>4
      <4> QED
        BY <4>3, <4>4
    <3> QED
      BY <3>2, <3>3
  <2> QED
    BY <1>9, <2>1 DEF HolderKnown
<1>15. EmptyAtEnd(s)'
  BY <1>5, <1>8 DEF InvAt, Core, EmptyAtEnd
<1>16. Core(s)'
  BY <1>5, <1>11, <1>12, <1>13, <1>14, <1>15 DEF Core
<1>17. TasksTell'
  BY <1>9, <1>10 DEF InvAt, TasksTell
<1>18. Marked'
  BY <1>8, <1>9, MarkedKept DEF InvAt
<1>19. \A x \in Tasks : (Waking(x)' <=> Waking(x)) /\ (TokenOut(x)' <=> TokenOut(x))
  BY <1>7, <1>8, <1>9 DEF Waking, TokenOut
<1>20. \A x \in Tasks : SameOwners(s, s, x)
  BY <1>7, <1>8, <1>9, <1>19 DEF SameOwners
<1>21. Counted(s)'
  BY <1>20, CountedKept DEF InvAt
<1>22. Typed'
  BY <1>5, <1>8, <1>9 DEF Typed
<1> QED
  BY <1>16, <1>17, <1>18, <1>21, <1>22 DEF InvAt

\* The future of t is dropped.
LEMMA FutureGone ==
  ASSUME Typed, NEW t \in Tasks, task[t].dropped = 0, task' = [task EXCEPT ![t].dropped = @ + 1]
  PROVE  /\ task' \in [Tasks -> TaskRecords]
         /\ \A x \in Tasks :
              /\ task'[x].wakers = task[x].wakers /\ task'[x].count = task[x].count
              /\ task'[x].cancelled = task[x].cancelled /\ task'[x].token = task[x].token
              /\ task'[x].done = task[x].done /\ task'[x].queued = task[x].queued
              /\ task'[x].next = task[x].next /\ task'[x].prev = task[x].prev
              /\ x # t => task'[x].dropped = task[x].dropped
         /\ task'[t].dropped = 1
<1>1. PICK q \in TaskRecords : q = task[t]
  BY DEF Typed
<1>2. PICK n : n = [q EXCEPT !.dropped = 1]
  OBVIOUS
<1>3. n \in TaskRecords
  BY <1>2 DEF TaskRecords
<1>4. /\ n.count = q.count /\ n.wakers = q.wakers /\ n.queued = q.queued
      /\ n.done = q.done /\ n.next = q.next /\ n.prev = q.prev
      /\ n.dropped = 1 /\ n.token = q.token /\ n.cancelled = q.cancelled
  BY <1>2 DEF TaskRecords
<1>5. q.dropped + 1 = 1
  BY <1>1
<1>6. task' = [task EXCEPT ![t] = [q EXCEPT !.dropped = q.dropped + 1]]
  BY <1>1
<1>7. task' = [task EXCEPT ![t] = n]
  BY <1>2, <1>5, <1>6
<1>8. task \in [Tasks -> TaskRecords]
  BY DEF Typed
<1>9. /\ task' \in [Tasks -> TaskRecords] /\ task'[t] = n
      /\ \A x \in Tasks : x # t => task'[x] = task[x]
  BY <1>3, <1>7, <1>8
<1> QED
  BY <1>1, <1>4, <1>9

\* drop_task: the future of t is gone.
LEMMA DropTaskKeeps ==
  ASSUME Typed, NEW s, InvAt(s), NEW t \in Tasks, drop_task(t)
  PROVE  Typed' /\ InvAt(s)'
<1>1. /\ Running("future", t) /\ Held(t) = {} /\ UNCHANGED <<list, rest>>
      /\ task' = [task EXCEPT ![t].dropped = @ + 1] /\ Become(<<>>)
  BY DEF drop_task
<1>2. PICK f, r : TopOf(s, f, r) /\ f.op = "future" /\ f.task = t
  BY <1>1, TopFacts DEF InvAt
<1>3. calls' = r /\ r \in Seq(FrameSet) /\ MayCall(f, r) /\ CallsNest(r) /\ Nested(r, s)
  BY <1>1, <1>2, ConcatIs DEF TopOf, Become
<1>4. \A op, x : On(op, x)' <=> OnIn(r, op, x)
  BY <1>3, OnNext
<1>5. \A op, x : On(op, x) <=> (f.op = op /\ f.task = x) \/ OnIn(r, op, x)
  BY <1>2 DEF TopOf
<1>6. ~OnIn(r, "future", t)
  BY <1>2, <1>3, OnTopOnly
<1>7. /\ \A op, x : op # "future" \/ x # t => (On(op, x)' <=> On(op, x))
      /\ On("future", t) /\ ~On("future", t)'
  BY <1>2, <1>4, <1>5, <1>6
<1>8. UNCHANGED <<list, turn, registered, woken, live, thread, fifo, linking>>
  BY <1>1 DEF rest, wakeVars, queueVars
<1>9. task[t].done \in {"Cancelled", "Done"} /\ task[t].dropped = 0
  BY <1>7 DEF InvAt, Core, CallsTell
<1>10. /\ task' \in [Tasks -> TaskRecords]
       /\ \A x \in Tasks :
            /\ task'[x].wakers = task[x].wakers /\ task'[x].count = task[x].count
            /\ task'[x].cancelled = task[x].cancelled /\ task'[x].token = task[x].token
            /\ task'[x].done = task[x].done /\ task'[x].queued = task[x].queued
            /\ task'[x].next = task[x].next /\ task'[x].prev = task[x].prev
            /\ x # t => task'[x].dropped = task[x].dropped
       /\ task'[t].dropped = 1
  BY <1>1, <1>9, FutureGone
<1>11. CallsTell'
  BY <1>7, <1>10 DEF InvAt, Core, CallsTell
<1>12. IsList(s)' /\ HolderOlder(s)'
  BY <1>8, <1>10, ListKept DEF InvAt
<1>13. Listed(s)'
  BY <1>7, <1>10 DEF InvAt, Core, Listed
<1>14. HolderKnown'
  <2>1. \A x \in Tasks : task[x].token # t
    BY <1>1 DEF Held
  <2> QED
    BY <1>7, <1>10, <2>1 DEF InvAt, Core, HolderKnown
<1>15. EmptyAtEnd(s)'
  <2>1. Len(r) >= 1 => r[1].op \notin {"drain", "free"}
    BY <1>2, NotAtEnd DEF TopOf, TaskOps
  <2> QED
    BY <1>3, <1>8, <2>1 DEF InvAt, Core, EmptyAtEnd
<1>16. Core(s)'
  BY <1>3, <1>11, <1>12, <1>13, <1>14, <1>15 DEF Core
<1>17. TasksTell'
  BY <1>9, <1>10 DEF InvAt, TasksTell
<1>18. Marked'
  BY <1>8, <1>10, MarkedKept DEF InvAt
<1>19. \A x \in Tasks : (Waking(x)' <=> Waking(x)) /\ (TokenOut(x)' <=> TokenOut(x))
  BY <1>7, <1>8, <1>10 DEF Waking, TokenOut
<1>20. \A x \in Tasks : SameOwners(s, s, x)
  BY <1>7, <1>8, <1>10, <1>19 DEF SameOwners
<1>21. Counted(s)'
  BY <1>20, CountedKept DEF InvAt
<1>22. Typed'
  BY <1>3, <1>8, <1>10 DEF Typed
<1> QED
  BY <1>16, <1>17, <1>18, <1>21, <1>22 DEF InvAt

-----------------------------------------------------------------------------
(***************************************************************************)
(* The list of all tasks.                                                  *)
(***************************************************************************)

\* q is s without the task at m.
Without(q, s, m) ==
  /\ q \in Seq(Tasks) /\ Len(q) = Len(s) - 1
  /\ \A i \in 1..Len(q) : q[i] = IF i < m THEN s[i] ELSE s[i + 1]

LEMMA WithoutExists ==
  ASSUME NEW s \in Seq(Tasks), NEW m \in 1..Len(s)
  PROVE  \E q : Without(q, s, m)
<1>1. PICK n \in Nat : Len(s) = n + 1
  <2>1. Len(s) \in Nat /\ Len(s) - 1 \in Nat /\ Len(s) = (Len(s) - 1) + 1
    BY LenProperties
  <2> QED
    BY <2>1
<1>2. \A i \in 1..n : i \in 1..Len(s) /\ i + 1 \in 1..Len(s)
  BY <1>1
<1>3. \A i \in 1..n : (IF i < m THEN s[i] ELSE s[i + 1]) \in Tasks
  BY <1>2, ElementOfSeq
<1>4. [i \in 1..n |-> IF i < m THEN s[i] ELSE s[i + 1]] \in Seq(Tasks)
  BY <1>3
<1>5. PICK q : q = [i \in 1..n |-> IF i < m THEN s[i] ELSE s[i + 1]] /\ q \in Seq(Tasks)
  BY <1>4, Zenon
<1>6. Len(q) = n
  BY <1>5
<1> QED
  BY <1>1, <1>5, <1>6 DEF Without

\* Where the tasks of q are in s.
InPlace(q, s, m) ==
  \A i \in 1..Len(q) : \E k \in 1..Len(s) :
    q[i] = s[k] /\ k # m /\ k = (IF i < m THEN i ELSE i + 1)

LEMMA WithoutAt ==
  ASSUME NEW s \in Seq(Tasks), NEW m \in 1..Len(s), NEW q, Without(q, s, m),
         \A i, j \in 1..Len(s) : s[i] = s[j] => i = j
  PROVE  /\ InPlace(q, s, m)
         /\ \A x : In(q, x) <=> In(s, x) /\ x # s[m]
         /\ \A i, j \in 1..Len(q) : q[i] = q[j] => i = j
<1>1. PICK n \in Nat : Len(s) = n + 1 /\ Len(q) = n
  <2>1. Len(s) \in Nat /\ Len(s) - 1 \in Nat /\ Len(s) = (Len(s) - 1) + 1
    BY LenProperties
  <2> QED
    BY <2>1 DEF Without
<1>2. \A i \in 1..n : q[i] = IF i < m THEN s[i] ELSE s[i + 1]
  BY <1>1 DEF Without
<1>3. m \in 1..(n + 1)
  BY <1>1
<1>4. ASSUME NEW i \in 1..n
      PROVE  \E k \in 1..(n + 1) : q[i] = s[k] /\ k # m /\ k = (IF i < m THEN i ELSE i + 1)
  <2>1. CASE i < m
    <3>1. i \in 1..(n + 1) /\ i # m
      BY <1>3, <2>1
    <3> QED
      BY <1>2, <2>1, <3>1
  <2>2. CASE ~(i < m)
    <3>1. i + 1 \in 1..(n + 1) /\ i + 1 # m
      BY <1>3, <2>2
    <3> QED
      BY <1>2, <2>2, <3>1
  <2> QED
    BY <2>1, <2>2
<1>5. ASSUME NEW k \in 1..(n + 1), k # m
      PROVE  \E i \in 1..n : q[i] = s[k] /\ k = (IF i < m THEN i ELSE i + 1)
  <2>1. CASE k < m
    <3>1. k \in 1..n
      BY <1>3, <2>1
    <3> QED
      BY <1>2, <2>1, <3>1
  <2>2. CASE ~(k < m)
    <3>1. k - 1 \in 1..n /\ ~(k - 1 < m) /\ (k - 1) + 1 = k
      BY <1>3, <1>5, <2>2
    <3> QED
      BY <1>2, <3>1
  <2> QED
    BY <2>1, <2>2
<1>6. \A i, j \in 1..(n + 1) : s[i] = s[j] => i = j
  BY <1>1
<1>7. ASSUME NEW x PROVE In(q, x) <=> In(s, x) /\ x # s[m]
  <2>1. ASSUME In(q, x) PROVE In(s, x) /\ x # s[m]
    <3>1. PICK i \in 1..n : q[i] = x
      BY <1>1, <2>1 DEF In
    <3>2. PICK k \in 1..(n + 1) : x = s[k] /\ k # m
      BY <1>4, <3>1
    <3> QED
      BY <1>1, <1>3, <1>6, <3>2 DEF In
  <2>2. ASSUME In(s, x), x # s[m] PROVE In(q, x)
    <3>1. PICK k \in 1..(n + 1) : s[k] = x
      BY <1>1, <2>2 DEF In
    <3>2. k # m
      BY <2>2, <3>1
    <3>3. PICK i \in 1..n : q[i] = s[k]
      BY <1>5, <3>2
    <3> QED
      BY <1>1, <3>1, <3>3 DEF In
  <2> QED
    BY <2>1, <2>2
<1>8. ASSUME NEW i \in 1..n, NEW j \in 1..n, q[i] = q[j] PROVE i = j
  <2>1. PICK k \in 1..(n + 1) : q[i] = s[k] /\ k = (IF i < m THEN i ELSE i + 1)
    BY <1>4
  <2>2. PICK l \in 1..(n + 1) : q[j] = s[l] /\ l = (IF j < m THEN j ELSE j + 1)
    BY <1>4
  <2>3. k = l
    BY <1>6, <1>8, <2>1, <2>2
  <2> QED
    BY <1>3, <2>1, <2>2, <2>3
<1> QED
  BY <1>1, <1>4, <1>7, <1>8 DEF InPlace

\* The tasks, and the fields of the list, once t is out of it.
LEMMA DetachTask ==
  ASSUME Typed, NEW t \in Tasks, Detach(t), task[t].count >= 1, list.len >= 1
  PROVE  /\ task' \in [Tasks -> TaskRecords]
         /\ \A x \in Tasks :
              /\ task'[x].wakers = task[x].wakers /\ task'[x].dropped = task[x].dropped
              /\ task'[x].cancelled = task[x].cancelled /\ task'[x].token = task[x].token
              /\ task'[x].done = task[x].done /\ task'[x].queued = task[x].queued
              /\ task'[x].prev = IF x = task[t].next THEN task[t].prev ELSE task[x].prev
              /\ task'[x].next = IF x = task[t].prev THEN task[t].next ELSE task[x].next
              /\ x # t => task'[x].count = task[x].count
         /\ task'[t].count = task[t].count - 1
         /\ list' \in [next : Tasks \cup {Null}, prev : Tasks \cup {Null}, len : Nat]
         /\ list'.next = IF task[t].prev = Null THEN task[t].next ELSE list.next
         /\ list'.prev = IF task[t].next = Null THEN task[t].prev ELSE list.prev
         /\ list'.len = list.len - 1
<1>1. PICK a \in Tasks \cup {Null}, b \in Tasks \cup {Null} : a = task[t].next /\ b = task[t].prev
  BY DEF Typed, TaskRecords
<1>2. PICK out : out = [x \in Tasks |-> [task[x] EXCEPT !.prev = IF x = a THEN b ELSE @,
                                                        !.next = IF x = b THEN a ELSE @]]
  OBVIOUS
<1>3. task' = decr_task(out, t) /\ list' = ListWithout(t)
  BY <1>1, <1>2 DEF Detach
<1>4. ASSUME NEW x \in Tasks
      PROVE  /\ out[x] \in TaskRecords
             /\ out[x].wakers = task[x].wakers /\ out[x].dropped = task[x].dropped
             /\ out[x].cancelled = task[x].cancelled /\ out[x].token = task[x].token
             /\ out[x].done = task[x].done /\ out[x].queued = task[x].queued
             /\ out[x].count = task[x].count
             /\ out[x].prev = (IF x = a THEN b ELSE task[x].prev)
             /\ out[x].next = (IF x = b THEN a ELSE task[x].next)
  <2>1. PICK r \in TaskRecords : r = task[x]
    BY DEF Typed
  <2>2. PICK p \in Tasks \cup {Null}, e \in Tasks \cup {Null} :
          p = (IF x = a THEN b ELSE r.prev) /\ e = (IF x = b THEN a ELSE r.next)
    BY <1>1 DEF TaskRecords
  <2>3. PICK n : n = [r EXCEPT !.prev = p, !.next = e]
    OBVIOUS
  <2>4. out[x] = n
    <3>1. out[x] = [r EXCEPT !.prev = (IF x = a THEN b ELSE r.prev),
                             !.next = (IF x = b THEN a ELSE r.next)]
      BY <1>2, <2>1 DEF TaskRecords
    <3> QED
      BY <2>2, <2>3, <3>1
  <2>5. n \in TaskRecords
    BY <2>3 DEF TaskRecords
  <2>6. /\ n.count = r.count /\ n.wakers = r.wakers /\ n.queued = r.queued
        /\ n.done = r.done /\ n.next = e /\ n.prev = p
        /\ n.dropped = r.dropped /\ n.token = r.token /\ n.cancelled = r.cancelled
    BY <2>3 DEF TaskRecords
  <2> QED
    BY <2>1, <2>2, <2>4, <2>5, <2>6
<1>5. out \in [Tasks -> TaskRecords]
  BY <1>2, <1>4
<1>6. PICK r \in TaskRecords : r = out[t]
  BY <1>4
<1>7. PICK c \in Nat : c = r.count - 1 /\ r.count = task[t].count
  <2>1. r.count \in Nat /\ r.count = task[t].count
    BY <1>4, <1>6 DEF TaskRecords
  <2>2. r.count - 1 \in Nat
    BY <2>1
  <2> QED
    BY <2>1, <2>2
<1>8. PICK n : n = [r EXCEPT !.count = c]
  OBVIOUS
<1>9. n \in TaskRecords
  BY <1>8 DEF TaskRecords
<1>10. /\ n.count = c /\ n.wakers = r.wakers /\ n.queued = r.queued
       /\ n.done = r.done /\ n.next = r.next /\ n.prev = r.prev
       /\ n.dropped = r.dropped /\ n.token = r.token /\ n.cancelled = r.cancelled
  BY <1>8 DEF TaskRecords
<1>11. task' = [out EXCEPT ![t] = n]
  <2>1. task' = [out EXCEPT ![t] = [r EXCEPT !.count = r.count - 1]]
    BY <1>3, <1>6 DEF decr_task
  <2> QED
    BY <1>7, <1>8, <2>1
<1>12. /\ task' \in [Tasks -> TaskRecords] /\ task'[t] = n
       /\ \A x \in Tasks : x # t => task'[x] = out[x]
  BY <1>5, <1>9, <1>11
<1>13. \A x \in Tasks :
         /\ task'[x].wakers = out[x].wakers /\ task'[x].dropped = out[x].dropped
         /\ task'[x].cancelled = out[x].cancelled /\ task'[x].token = out[x].token
         /\ task'[x].done = out[x].done /\ task'[x].queued = out[x].queued
         /\ task'[x].prev = out[x].prev /\ task'[x].next = out[x].next
         /\ x # t => task'[x].count = out[x].count
  BY <1>6, <1>10, <1>12
<1>14. /\ list' = [next |-> IF b = Null THEN a ELSE list.next,
                   prev |-> IF a = Null THEN b ELSE list.prev, len |-> list.len - 1]
       /\ list.next \in Tasks \cup {Null} /\ list.prev \in Tasks \cup {Null} /\ list.len \in Nat
  BY <1>1, <1>3 DEF ListWithout, Typed
<1>15. /\ list' \in [next : Tasks \cup {Null}, prev : Tasks \cup {Null}, len : Nat]
       /\ list'.next = (IF b = Null THEN a ELSE list.next)
       /\ list'.prev = (IF a = Null THEN b ELSE list.prev)
       /\ list'.len = list.len - 1
  <2>1. list.len - 1 \in Nat
    BY <1>14
  <2> QED
    BY <1>14, <2>1
<1> QED
  BY <1>1, <1>4, <1>7, <1>10, <1>12, <1>13, <1>15

\* t, which is at m, is taken out of the list s.
Unlinks(s, m, t) ==
  /\ \A x \in Tasks :
       /\ task'[x].prev = IF x = task[t].next THEN task[t].prev ELSE task[x].prev
       /\ task'[x].next = IF x = task[t].prev THEN task[t].next ELSE task[x].next
       /\ task'[x].token = task[x].token
  /\ list'.next = IF task[t].prev = Null THEN task[t].next ELSE list.next
  /\ list'.prev = IF task[t].next = Null THEN task[t].prev ELSE list.prev
  /\ list'.len = list.len - 1
  /\ m \in 1..Len(s) /\ s[m] = t

LEMMA UnlinkedList ==
  ASSUME NEW s, IsList(s), HolderOlder(s), NEW t \in Tasks, NEW m, Unlinks(s, m, t),
         NEW q, Without(q, s, m)
  PROVE  IsList(q)' /\ HolderOlder(q)'
<1>1. s \in Seq(Tasks) /\ \A i, j \in 1..Len(s) : s[i] = s[j] => i = j
  BY DEF IsList
<1>2. PICK n \in Nat : Len(s) = n + 1 /\ Len(q) = n
  <2>1. Len(s) \in Nat /\ m \in 1..Len(s)
    BY <1>1, LenProperties DEF Unlinks
  <2>2. Len(s) - 1 \in Nat /\ Len(s) = (Len(s) - 1) + 1
    BY <2>1
  <2> QED
    BY <2>2 DEF Without
<1>3. m \in 1..(n + 1) /\ s[m] = t
  BY <1>2 DEF Unlinks
<1>4. \A i \in 1..(n + 1) : s[i] \in Tasks /\ s[i] # Null
  BY <1>1, <1>2, ElementOfSeq, SchedularAssumption
<1>5. \A i \in 1..n : q[i] = IF i < m THEN s[i] ELSE s[i + 1]
  BY <1>2 DEF Without
<1>6. \A i, j \in 1..(n + 1) : s[i] = s[j] => i = j
  BY <1>1, <1>2
<1>7. \A i \in 1..(n + 1) :
        /\ task[s[i]].next = IF i = n + 1 THEN Null ELSE s[i + 1]
        /\ task[s[i]].prev = IF i = 1 THEN Null ELSE s[i - 1]
  BY <1>2 DEF IsList
<1>8. /\ task[t].next = (IF m = n + 1 THEN Null ELSE s[m + 1])
      /\ task[t].prev = (IF m = 1 THEN Null ELSE s[m - 1])
  BY <1>3, <1>7
<1>9. /\ m # n + 1 => m + 1 \in 1..(n + 1) /\ s[m + 1] # Null
      /\ m # 1 => m - 1 \in 1..(n + 1) /\ s[m - 1] # Null
  <2>1. m # n + 1 => m + 1 \in 1..(n + 1)
    BY <1>3
  <2>2. m # 1 => m - 1 \in 1..(n + 1)
    BY <1>3
  <2> QED
    BY <1>4, <2>1, <2>2
<1>10. /\ list.len = n + 1 /\ list.next = s[1] /\ list.prev = s[n + 1]
  <2>1. n + 1 # 0
    OBVIOUS
  <2> QED
    BY <1>2, <2>1 DEF IsList
<1>11. list'.len = n
  BY <1>10 DEF Unlinks
<1>12. list'.next = IF n = 0 THEN Null ELSE q[1]
  <2>1. CASE m = 1
    <3>1. list'.next = (IF 1 = n + 1 THEN Null ELSE s[1 + 1])
      BY <1>8, <2>1 DEF Unlinks
    <3>2. n # 0 => 1 \in 1..n /\ ~(1 < m)
      BY <2>1
    <3>3. 1 = n + 1 <=> n = 0
      OBVIOUS
    <3> QED
      BY <1>5, <3>1, <3>2, <3>3
  <2>2. CASE m # 1
    <3>1. list'.next = s[1]
      BY <1>8, <1>9, <1>10, <2>2 DEF Unlinks
    <3>2. 1 \in 1..n /\ 1 < m /\ n # 0
      BY <1>3, <2>2
    <3> QED
      BY <1>5, <3>1, <3>2
  <2> QED
    BY <2>1, <2>2
<1>13. list'.prev = IF n = 0 THEN Null ELSE q[n]
  <2>1. CASE m = n + 1
    <3>1. list'.prev = (IF m = 1 THEN Null ELSE s[m - 1])
      BY <1>8, <2>1 DEF Unlinks
    <3>2. m - 1 = n /\ (m = 1 <=> n = 0)
      BY <2>1
    <3>3. n # 0 => n \in 1..n /\ n < m
      BY <2>1
    <3> QED
      BY <1>5, <3>1, <3>2, <3>3
  <2>2. CASE m # n + 1
    <3>1. list'.prev = s[n + 1]
      BY <1>8, <1>9, <1>10, <2>2 DEF Unlinks
    <3>2. n \in 1..n /\ ~(n < m) /\ n # 0
      BY <1>3, <2>2
    <3> QED
      BY <1>5, <3>1, <3>2
  <2> QED
    BY <2>1, <2>2
<1>14. InPlace(q, s, m)
  <2>1. m \in 1..Len(s)
    BY DEF Unlinks
  <2> QED
    BY <1>1, <2>1, WithoutAt
<1>15. \A i \in 1..n : \E k \in 1..(n + 1) :
         q[i] = s[k] /\ k # m /\ k = (IF i < m THEN i ELSE i + 1)
  BY <1>2, <1>14 DEF InPlace
<1>16. ASSUME NEW i \in 1..n
       PROVE  /\ task'[q[i]].next = IF i = n THEN Null ELSE q[i + 1]
              /\ task'[q[i]].prev = IF i = 1 THEN Null ELSE q[i - 1]
  <2>1. PICK k \in 1..(n + 1) : k = (IF i < m THEN i ELSE i + 1) /\ q[i] = s[k] /\ k # m
    BY <1>15
  <2>2. s[k] \in Tasks
    BY <1>4
  <2>3. task'[s[k]].next = IF i = n THEN Null ELSE q[i + 1]
    <3>1. CASE k = m - 1
      <4>1. m # 1 /\ s[k] = task[t].prev
        BY <1>8, <2>1, <3>1
      <4>2. task'[s[k]].next = task[t].next
        BY <2>2, <4>1 DEF Unlinks
      <4>3. i = m - 1 /\ (i = n <=> m = n + 1)
        BY <1>3, <2>1, <3>1
      <4>4. i # n => i + 1 \in 1..n /\ ~(i + 1 < m) /\ (i + 1) + 1 = m + 1
        BY <1>3, <4>3
      <4>5. i # n => q[i + 1] = s[m + 1]
        BY <1>5, <4>4
      <4> QED
        BY <1>8, <4>2, <4>3, <4>5
    <3>2. CASE k # m - 1
      <4>1. s[k] # task[t].prev
        <5>1. CASE m = 1
          BY <1>4, <1>8, <5>1
        <5>2. CASE m # 1
          BY <1>6, <1>8, <1>9, <3>2, <5>2
        <5> QED
          BY <5>1, <5>2
      <4>2. task'[s[k]].next = task[s[k]].next
        BY <2>2, <4>1 DEF Unlinks
      <4>3. task[s[k]].next = IF k = n + 1 THEN Null ELSE s[k + 1]
        BY <1>7
      <4>4. CASE i < m
        <5>1. k = i /\ i < m - 1 /\ k # n + 1 /\ i # n /\ i + 1 \in 1..n /\ i + 1 < m
          BY <1>3, <2>1, <3>2, <4>4
        <5>2. q[i + 1] = s[k + 1]
          BY <1>5, <5>1
        <5> QED
          BY <4>2, <4>3, <5>1, <5>2
      <4>5. CASE ~(i < m)
        <5>1. k = i + 1 /\ (k = n + 1 <=> i = n)
          BY <2>1, <4>5
        <5>2. i # n => i + 1 \in 1..n /\ ~(i + 1 < m)
          BY <1>3, <4>5
        <5>3. i # n => q[i + 1] = s[k + 1]
          BY <1>5, <5>1, <5>2
        <5> QED
          BY <4>2, <4>3, <5>1, <5>3
      <4> QED
        BY <4>4, <4>5
    <3> QED
      BY <3>1, <3>2
  <2>4. task'[s[k]].prev = IF i = 1 THEN Null ELSE q[i - 1]
    <3>1. CASE k = m + 1
      <4>1. m # n + 1 /\ s[k] = task[t].next
        BY <1>3, <1>8, <2>1, <3>1
      <4>2. task'[s[k]].prev = task[t].prev
        BY <2>2, <4>1 DEF Unlinks
      <4>3. i = m
        BY <1>3, <2>1, <3>1
      <4>4. i # 1 => i - 1 \in 1..n /\ i - 1 < m
        BY <1>3, <4>3
      <4>5. i # 1 => q[i - 1] = s[m - 1]
        BY <1>5, <4>3, <4>4
      <4> QED
        BY <1>8, <4>2, <4>3, <4>5
    <3>2. CASE k # m + 1
      <4>1. s[k] # task[t].next
        <5>1. CASE m = n + 1
          BY <1>4, <1>8, <5>1
        <5>2. CASE m # n + 1
          BY <1>6, <1>8, <1>9, <3>2, <5>2
        <5> QED
          BY <5>1, <5>2
      <4>2. task'[s[k]].prev = task[s[k]].prev
        BY <2>2, <4>1 DEF Unlinks
      <4>3. task[s[k]].prev = IF k = 1 THEN Null ELSE s[k - 1]
        BY <1>7
      <4>4. CASE i < m
        <5>1. k = i
          BY <2>1, <4>4
        <5>2. i # 1 => i - 1 \in 1..n /\ i - 1 < m
          BY <1>3, <4>4
        <5>3. i # 1 => q[i - 1] = s[k - 1]
          BY <1>5, <5>1, <5>2
        <5> QED
          BY <4>2, <4>3, <5>1, <5>3
      <4>5. CASE ~(i < m)
        <5>1. k = i + 1 /\ i > m /\ k # 1 /\ i # 1 /\ k - 1 = i
          BY <1>3, <2>1, <3>2, <4>5
        <5>2. i - 1 \in 1..n /\ ~(i - 1 < m) /\ (i - 1) + 1 = i
          BY <1>3, <5>1
        <5>3. q[i - 1] = s[k - 1]
          BY <1>5, <5>1, <5>2
        <5> QED
          BY <4>2, <4>3, <5>1, <5>3
      <4> QED
        BY <4>4, <4>5
    <3> QED
      BY <3>1, <3>2
  <2> QED
    BY <2>1, <2>3, <2>4
<1>17. q \in Seq(Tasks) /\ \A i, j \in 1..n : q[i] = q[j] => i = j
  BY <1>1, <1>2, <1>3, WithoutAt DEF Without
<1>18. IsList(q)'
  BY <1>2, <1>11, <1>12, <1>13, <1>16, <1>17 DEF IsList
<1>19. ASSUME NEW i \in 1..n, NEW j \in 1..n, task'[q[i]].token = q[j] PROVE i < j
  <2>1. PICK k \in 1..(n + 1) : k = (IF i < m THEN i ELSE i + 1) /\ q[i] = s[k]
    BY <1>15
  <2>2. PICK l \in 1..(n + 1) : l = (IF j < m THEN j ELSE j + 1) /\ q[j] = s[l]
    BY <1>15
  <2>3. task[s[k]].token = s[l]
    BY <1>4, <1>19, <2>1, <2>2 DEF Unlinks
  <2>4. k < l
    BY <1>2, <2>3 DEF HolderOlder
  <2> QED
    BY <1>3, <2>1, <2>2, <2>4
<1>20. HolderOlder(q)'
  BY <1>2, <1>19 DEF HolderOlder
<1> QED
  BY <1>18, <1>20

\* The end of pop_task_all: the task leaves the list.
LEMMA DetachKeeps ==
  ASSUME Typed, NEW s, InvAt(s), NEW t \in Tasks, Detach(t)
  PROVE  Typed' /\ \E q \in Seq(Tasks) : InvAt(q)'
<1>1. Running("detach", t) /\ Become(<<>>) /\ UNCHANGED rest
  BY DEF Detach
<1>2. PICK f, r : TopOf(s, f, r) /\ f.op = "detach" /\ f.task = t
  BY <1>1, TopFacts DEF InvAt
<1>3. calls' = r /\ r \in Seq(FrameSet) /\ CallsNest(r)
  BY <1>1, <1>2, ConcatIs DEF TopOf, Become
<1>4. /\ \A i \in 1..Len(r) : r[i].op \in BaseOps \cup {"waker"}
      /\ Len(r) # 0 => r[1].op \notin {"drain", "free"}
  <2>1. TopOf(s, f, r) /\ f.op \in {"remove", "detach"} /\ f.task = t
    BY <1>2
  <2> QED
    BY <2>1, RemoveTop
<1>5. \A op \in TaskOps : op # "waker" => \A x : ~OnIn(r, op, x)
  <2>1. TopOf(s, f, r) /\ f.op \in {"remove", "detach"} /\ f.task = t
    BY <1>2
  <2> QED
    BY <2>1, RemoveTop
<1>6. \A op, x : On(op, x)' <=> OnIn(r, op, x)
  BY <1>3, OnNext
<1>7. \A op, x : On(op, x) <=> (f.op = op /\ f.task = x) \/ OnIn(r, op, x)
  BY <1>2 DEF TopOf
<1>8. /\ \A x : On("waker", x)' <=> On("waker", x)
      /\ \A op \in {"drive", "token", "requeue", "remove", "future"} : \A x :
           ~On(op, x) /\ ~On(op, x)'
      /\ \A x : (On("detach", x) <=> x = t) /\ ~On("detach", x)'
  BY <1>2, <1>5, <1>6, <1>7 DEF TaskOps
<1>9. UNCHANGED <<turn, registered, woken, live, thread, fifo, linking>>
  BY <1>1 DEF rest, wakeVars, queueVars
<1>10. task[t].done = "Done" /\ In(s, t)
  BY <1>8 DEF InvAt, Core, CallsTell, Listed
<1>11. PICK m \in 1..Len(s) : s[m] = t
  BY <1>10 DEF In
<1>12. IsList(s) /\ HolderOlder(s) /\ Listed(s) /\ s \in Seq(Tasks) /\ Len(s) \in Nat
  BY LenProperties DEF InvAt, Core, IsList
<1>13. list.len >= 1 /\ task[t].count >= 1
  <2>1. list.len >= 1
    BY <1>11, <1>12 DEF IsList
  <2> QED
    BY <1>10, <2>1, OwnedCount DEF InvAt
<1>14. /\ task' \in [Tasks -> TaskRecords]
       /\ \A x \in Tasks :
            /\ task'[x].wakers = task[x].wakers /\ task'[x].dropped = task[x].dropped
            /\ task'[x].cancelled = task[x].cancelled /\ task'[x].token = task[x].token
            /\ task'[x].done = task[x].done /\ task'[x].queued = task[x].queued
            /\ task'[x].prev = IF x = task[t].next THEN task[t].prev ELSE task[x].prev
            /\ task'[x].next = IF x = task[t].prev THEN task[t].next ELSE task[x].next
            /\ x # t => task'[x].count = task[x].count
       /\ task'[t].count = task[t].count - 1
       /\ list' \in [next : Tasks \cup {Null}, prev : Tasks \cup {Null}, len : Nat]
       /\ list'.next = IF task[t].prev = Null THEN task[t].next ELSE list.next
       /\ list'.prev = IF task[t].next = Null THEN task[t].prev ELSE list.prev
       /\ list'.len = list.len - 1
  BY <1>13, DetachTask
<1>15. Unlinks(s, m, t)
  BY <1>11, <1>14 DEF Unlinks
<1>16. PICK q : Without(q, s, m)
  BY <1>12, WithoutExists
<1>17. IsList(q)' /\ HolderOlder(q)' /\ q \in Seq(Tasks)
  BY <1>12, <1>15, <1>16, UnlinkedList DEF Without
<1>18. \A x : In(q, x) <=> In(s, x) /\ x # t
  <2>1. \A i, j \in 1..Len(s) : s[i] = s[j] => i = j
    BY <1>12 DEF IsList
  <2> QED
    BY <1>11, <1>12, <1>16, <2>1, WithoutAt
<1>19. Listed(q)'
  BY <1>8, <1>10, <1>12, <1>14, <1>18 DEF Listed
<1>20. CallsTell'
  BY <1>8, <1>14 DEF InvAt, Core, CallsTell
<1>21. Nested(calls', q)
  <2>1. \A op \in BaseOps \cup {"waker"} : op \notin {"token", "future"}
    BY DEF BaseOps, TreeOps
  <2> QED
    BY <1>3, <1>4, <2>1 DEF Nested
<1>22. HolderKnown'
  BY <1>8, <1>14 DEF InvAt, Core, HolderKnown
<1>23. EmptyAtEnd(q)'
  <2>1. Len(s) # 0
    BY <1>11, <1>12
  <2>2. live
    BY <2>1 DEF InvAt, Core, EmptyAtEnd
  <2>3. Len(r) >= 1 => Len(r) # 0
    OBVIOUS
  <2> QED
    BY <1>3, <1>4, <1>9, <2>2, <2>3 DEF EmptyAtEnd
<1>24. Core(q)'
  BY <1>3, <1>17, <1>19, <1>20, <1>21, <1>22, <1>23 DEF Core
<1>25. TasksTell'
  BY <1>14 DEF InvAt, TasksTell
<1>26. Marked'
  BY <1>9, <1>14, MarkedKept DEF InvAt
<1>27. \A x \in Tasks : (Waking(x)' <=> Waking(x)) /\ (TokenOut(x)' <=> TokenOut(x))
  BY <1>8, <1>9, <1>14 DEF Waking, TokenOut
<1>28. \A x \in Tasks : x # t => SameOwners(s, q, x)
  BY <1>8, <1>9, <1>14, <1>18, <1>27 DEF SameOwners
<1>29. OwnersIn(q, t)' = OwnersIn(s, t) + (-1) /\ OwnersIn(s, t) \in Nat
  <2>1. PICK w \in Nat : w = task[t].wakers /\ w = task'[t].wakers
    BY <1>14, OwnersNumber
  <2>2. PICK h \in Nat : h = One(On("waker", t)) /\ h = One(On("waker", t)')
    BY <1>8 DEF One
  <2>3. One(In(s, t)) = 1 /\ One(In(q, t)) = 0
    BY <1>10, <1>18 DEF One
  <2>4. PICK a \in Nat : a = One(TokenOut(t)) /\ a = One(TokenOut(t)')
    BY <1>27 DEF One
  <2>5. PICK g \in Nat : g = One(Waking(t)) /\ g = One(Waking(t)')
    BY <1>27 DEF One
  <2>6. PICK c \in Nat : c = One(In(fifo, t)) /\ c = One(In(fifo', t))
    BY <1>9 DEF One
  <2>7. OwnersIn(s, t) = 1 + c + a + w + g + h /\ OwnersIn(q, t)' = 0 + c + a + w + g + h
    BY <2>1, <2>2, <2>3, <2>4, <2>5, <2>6 DEF OwnersIn
  <2> QED
    BY <2>7
<1>30. Counted(q)'
  <2>1. task'[t].count = task[t].count + (-1) /\ -1 \in Int
    <3>1. task[t].count \in Nat
      BY OwnersNumber
    <3> QED
      BY <1>14, <3>1
  <2>2. Skipped(t) => Skipped(t)'
    BY <1>9, <1>14, <1>27 DEF Skipped
  <2> QED
    BY <1>28, <1>29, <2>1, <2>2, CountedStep DEF InvAt
<1>31. Typed'
  BY <1>3, <1>9, <1>14 DEF Typed
<1>32. InvAt(q)'
  BY <1>24, <1>25, <1>26, <1>30 DEF InvAt
<1> QED
  BY <1>17, <1>31, <1>32

\* Who may push a task, and what for: the holder h of its token is code outside or a
\* running task, as is the task w that the new task is to wake.
MayPush(h, w) ==
  /\ h = Outside \/ (h \in Tasks /\ task[h].done = "Running")
  /\ w = Null \/ (w \in Tasks /\ task[w].done = "Running")
  /\ live /\ (Len(calls) >= 1 => calls[1].op \notin {"drain", "free"})

\* The tasks once t is pushed, with the list that starts with n.
LEMMA PushedTask ==
  ASSUME Typed, NEW t \in Tasks, NEW h \in Tasks \cup {Outside}, NEW w, w # t,
         NEW n \in Tasks \cup {Null}, n = list.next, n # t, push_cancellable(t, h, w)
  PROVE  /\ task' \in [Tasks -> TaskRecords]
         /\ \A x \in Tasks : x # t =>
              /\ task'[x].queued = task[x].queued /\ task'[x].done = task[x].done
              /\ task'[x].dropped = task[x].dropped /\ task'[x].token = task[x].token
              /\ task'[x].cancelled = task[x].cancelled /\ task'[x].next = task[x].next
              /\ task'[x].prev = IF x = n THEN t ELSE task[x].prev
              /\ task'[x].wakers = task[x].wakers + One(x = w)
              /\ task'[x].count = task[x].count + One(x = w)
         /\ task'[t].queued /\ task'[t].done = "Running" /\ task'[t].dropped = 0
         /\ task'[t].token = h /\ ~task'[t].cancelled /\ task'[t].next = n
         /\ task'[t].prev = Null /\ task'[t].wakers = 0 /\ task'[t].count = 3
<1>1. PICK new : new = [NoTask EXCEPT !.queued = TRUE, !.done = "Running", !.token = h, !.count = 3]
  OBVIOUS
<1>2. /\ new \in TaskRecords /\ new.queued = TRUE /\ new.done = "Running" /\ new.dropped = 0
      /\ new.token = h /\ new.cancelled = FALSE /\ new.next = Null /\ new.prev = Null
      /\ new.wakers = 0 /\ new.count = 3
  BY <1>1 DEF NoTask, TaskRecords
<1>3. PICK cl : cl = schedular_clone(task, w)
  OBVIOUS
<1>4. PICK ts : ts = [cl EXCEPT ![t] = new]
  OBVIOUS
<1>5. task' = [x \in Tasks |-> [ts[x] EXCEPT !.next = IF x = t THEN n ELSE @,
                                             !.prev = IF x = n THEN t ELSE @]]
  <2>1. task' = push_task_to_all(ts, t)
    BY <1>1, <1>3, <1>4 DEF push_cancellable
  <2> QED
    BY <2>1 DEF push_task_to_all
<1>6. cl = [x \in Tasks |-> [task[x] EXCEPT !.wakers = @ + One(x = w), !.count = @ + One(x = w)]]
  BY <1>3 DEF schedular_clone
<1>7. ASSUME NEW x \in Tasks, x # t
      PROVE  /\ task'[x] \in TaskRecords
             /\ task'[x].queued = task[x].queued /\ task'[x].done = task[x].done
             /\ task'[x].dropped = task[x].dropped /\ task'[x].token = task[x].token
             /\ task'[x].cancelled = task[x].cancelled /\ task'[x].next = task[x].next
             /\ task'[x].prev = (IF x = n THEN t ELSE task[x].prev)
             /\ task'[x].wakers = task[x].wakers + One(x = w)
             /\ task'[x].count = task[x].count + One(x = w)
  <2>1. PICK d \in Nat : d = One(x = w)
    BY DEF One
  <2>2. PICK r \in TaskRecords : r = task[x]
    BY DEF Typed
  <2>3. PICK a \in Nat, c \in Nat : a = r.wakers + d /\ c = r.count + d
    BY DEF TaskRecords
  <2>4. PICK k : k = [r EXCEPT !.wakers = a, !.count = c]
    OBVIOUS
  <2>5. k \in TaskRecords
    BY <2>4 DEF TaskRecords
  <2>6. /\ k.wakers = a /\ k.count = c
        /\ k.queued = r.queued /\ k.done = r.done /\ k.next = r.next /\ k.prev = r.prev
        /\ k.dropped = r.dropped /\ k.token = r.token /\ k.cancelled = r.cancelled
    BY <2>4 DEF TaskRecords
  <2>7. cl[x] = k
    <3>1. cl[x] = [r EXCEPT !.wakers = r.wakers + d, !.count = r.count + d]
      BY <1>6, <2>1, <2>2 DEF TaskRecords
    <3> QED
      BY <2>3, <2>4, <3>1
  <2>8. ts[x] = k
    BY <1>4, <1>6, <1>7, <2>7
  <2>9. PICK p \in Tasks \cup {Null} : p = IF x = n THEN t ELSE k.prev
    BY <2>5 DEF TaskRecords
  <2>10. PICK e : e = [k EXCEPT !.next = k.next, !.prev = p]
    OBVIOUS
  <2>11. e \in TaskRecords
    BY <2>5, <2>10 DEF TaskRecords
  <2>12. /\ e.wakers = k.wakers /\ e.count = k.count
         /\ e.queued = k.queued /\ e.done = k.done /\ e.next = k.next /\ e.prev = p
         /\ e.dropped = k.dropped /\ e.token = k.token /\ e.cancelled = k.cancelled
    BY <2>5, <2>10 DEF TaskRecords
  <2>13. task'[x] = e
    <3>1. task'[x] = [k EXCEPT !.next = (IF x = t THEN n ELSE k.next),
                               !.prev = (IF x = n THEN t ELSE k.prev)]
      BY <1>5, <2>5, <2>8 DEF TaskRecords
    <3> QED
      BY <1>7, <2>9, <2>10, <3>1
  <2> QED
    BY <2>1, <2>2, <2>3, <2>6, <2>9, <2>11, <2>12, <2>13
<1>8. /\ task'[t] \in TaskRecords
      /\ task'[t].queued /\ task'[t].done = "Running" /\ task'[t].dropped = 0
      /\ task'[t].token = h /\ ~task'[t].cancelled /\ task'[t].next = n
      /\ task'[t].prev = Null /\ task'[t].wakers = 0 /\ task'[t].count = 3
  <2>1. ts[t] = new
    BY <1>4, <1>6
  <2>2. PICK e : e = [new EXCEPT !.next = n, !.prev = new.prev]
    OBVIOUS
  <2>3. e \in TaskRecords
    BY <1>2, <2>2 DEF TaskRecords
  <2>4. /\ e.wakers = new.wakers /\ e.count = new.count
        /\ e.queued = new.queued /\ e.done = new.done /\ e.next = n /\ e.prev = new.prev
        /\ e.dropped = new.dropped /\ e.token = new.token /\ e.cancelled = new.cancelled
    BY <1>2, <2>2 DEF TaskRecords
  <2>5. task'[t] = e
    <3>1. task'[t] = [new EXCEPT !.next = (IF t = t THEN n ELSE new.next),
                                 !.prev = (IF t = n THEN t ELSE new.prev)]
      BY <1>2, <1>5, <2>1 DEF TaskRecords
    <3> QED
      BY <2>2, <3>1
  <2> QED
    BY <1>2, <2>3, <2>4, <2>5
<1>9. task' \in [Tasks -> TaskRecords]
  BY <1>5, <1>7, <1>8
<1> QED
  BY <1>7, <1>8, <1>9

\* A sequence of tasks with t in front of it.
LEMMA InFront ==
  ASSUME NEW s \in Seq(Tasks), NEW t \in Tasks
  PROVE  \E q \in Seq(Tasks) : /\ Len(q) = Len(s) + 1 /\ q[1] = t
                               /\ \A i \in 1..Len(s) : q[i + 1] = s[i]
<1>1. PICK n \in Nat : n = Len(s)
  BY LenProperties
<1>2. \A i \in 1..(n + 1) : i # 1 => i - 1 \in 1..n
  OBVIOUS
<1>3. \A i \in 1..(n + 1) : (IF i = 1 THEN t ELSE s[i - 1]) \in Tasks
  BY <1>1, <1>2, ElementOfSeq
<1>4. [i \in 1..(n + 1) |-> IF i = 1 THEN t ELSE s[i - 1]] \in Seq(Tasks)
  BY <1>3
<1>5. PICK q : q = [i \in 1..(n + 1) |-> IF i = 1 THEN t ELSE s[i - 1]] /\ q \in Seq(Tasks)
  BY <1>4, Zenon
<1>6. Len(q) = n + 1
  BY <1>5
<1>7. q[1] = t
  BY <1>5
<1>8. ASSUME NEW i \in 1..n PROVE q[i + 1] = s[i]
  <2>1. i + 1 \in 1..(n + 1) /\ i + 1 # 1 /\ (i + 1) - 1 = i
    OBVIOUS
  <2> QED
    BY <1>5, <2>1
<1> QED
  BY <1>1, <1>5, <1>6, <1>7, <1>8

\* t is put in front of the list s, which gives q, with the token in the hands of h.
Links(q, s, t, h) ==
  /\ q \in Seq(Tasks) /\ Len(q) = Len(s) + 1 /\ q[1] = t
  /\ \A i \in 1..Len(s) : q[i + 1] = s[i]
  /\ ~In(s, t) /\ h # t
  /\ \A x \in Tasks : x # t =>
       /\ task'[x].next = task[x].next /\ task'[x].token = task[x].token
       /\ task'[x].prev = IF x = list.next THEN t ELSE task[x].prev
       /\ task[x].token # t
  /\ task'[t].next = list.next /\ task'[t].prev = Null /\ task'[t].token = h
  /\ list'.next = t /\ list'.prev = (IF list.prev = Null THEN t ELSE list.prev)
  /\ list'.len = list.len + 1

LEMMA LinkedList ==
  ASSUME NEW s, IsList(s), HolderOlder(s), NEW t \in Tasks, NEW h, NEW q, Links(q, s, t, h)
  PROVE  IsList(q)' /\ HolderOlder(q)' /\ \A x : In(q, x) <=> x = t \/ In(s, x)
<1>1. s \in Seq(Tasks)
  BY DEF IsList
<1>2. PICK n \in Nat : n = Len(s)
  BY <1>1, LenProperties
<1>3. Len(s) = n /\ Len(q) = n + 1 /\ q[1] = t /\ \A i \in 1..n : q[i + 1] = s[i]
  BY <1>2 DEF Links
<1>4. \A i \in 1..n : s[i] \in Tasks /\ s[i] # Null /\ s[i] # t
  BY <1>1, <1>3, ElementOfSeq, SchedularAssumption DEF Links, In
<1>5. ASSUME NEW i \in 1..(n + 1), i # 1 PROVE i - 1 \in 1..n /\ q[i] = s[i - 1]
  <2>1. i - 1 \in 1..n /\ (i - 1) + 1 = i
    BY <1>5
  <2> QED
    BY <1>3, <2>1
<1>6. ASSUME NEW i \in 1..(n + 1), NEW j \in 1..(n + 1), q[i] = q[j] PROVE i = j
  <2>1. \A k, l \in 1..n : s[k] = s[l] => k = l
    BY <1>3 DEF IsList
  <2>2. CASE i = 1 \/ j = 1
    BY <1>3, <1>4, <1>5, <1>6, <2>2
  <2>3. CASE i # 1 /\ j # 1
    <3>1. i - 1 \in 1..n /\ j - 1 \in 1..n /\ s[i - 1] = s[j - 1]
      BY <1>5, <1>6, <2>3
    <3>2. i - 1 = j - 1
      BY <2>1, <3>1
    <3> QED
      BY <3>2
  <2> QED
    BY <2>2, <2>3
<1>7. list.len = n /\ list.next = (IF n = 0 THEN Null ELSE s[1])
      /\ list.prev = (IF n = 0 THEN Null ELSE s[n])
  BY <1>3 DEF IsList
<1>8. list'.len = n + 1 /\ list'.next = q[1]
  BY <1>3, <1>7 DEF Links
<1>9. list'.prev = q[n + 1]
  <2>1. CASE n = 0
    BY <1>3, <1>7, <2>1 DEF Links
  <2>2. CASE n # 0
    <3>1. n \in 1..n
      BY <2>2
    <3> QED
      BY <1>3, <1>4, <1>7, <2>2, <3>1 DEF Links
  <2> QED
    BY <2>1, <2>2
<1>10. ASSUME NEW i \in 1..(n + 1)
       PROVE  /\ task'[q[i]].next = IF i = n + 1 THEN Null ELSE q[i + 1]
              /\ task'[q[i]].prev = IF i = 1 THEN Null ELSE q[i - 1]
  <2>1. CASE i = 1
    <3>1. task'[t].next = list.next /\ task'[t].prev = Null
      BY DEF Links
    <3>2. n # 0 => 1 \in 1..n
      OBVIOUS
    <3>3. n # 0 => q[1 + 1] = s[1]
      BY <1>3, <3>2
    <3>4. 1 = n + 1 <=> n = 0
      OBVIOUS
    <3> QED
      BY <1>3, <1>7, <2>1, <3>1, <3>3, <3>4
  <2>2. CASE i # 1
    <3>1. PICK k \in 1..n : k = i - 1 /\ q[i] = s[k] /\ i = k + 1
      BY <1>5, <2>2
    <3>2. /\ task[s[k]].next = IF k = n THEN Null ELSE s[k + 1]
          /\ task[s[k]].prev = IF k = 1 THEN Null ELSE s[k - 1]
      BY <1>3 DEF IsList
    <3>3. /\ task'[s[k]].next = task[s[k]].next
          /\ task'[s[k]].prev = IF s[k] = list.next THEN t ELSE task[s[k]].prev
      BY <1>4 DEF Links
    <3>4. task'[s[k]].next = IF i = n + 1 THEN Null ELSE q[i + 1]
      <4>1. k # n => k + 1 \in 1..n
        OBVIOUS
      <4>2. k # n => q[(k + 1) + 1] = s[k + 1]
        BY <1>3, <4>1
      <4>3. i = n + 1 <=> k = n
        BY <3>1
      <4> QED
        BY <3>1, <3>2, <3>3, <4>2, <4>3
    <3>5. task'[s[k]].prev = q[i - 1]
      <4>1. list.next = s[1] /\ 1 \in 1..n
        BY <1>7
      <4>2. CASE k = 1
        BY <1>3, <3>1, <3>3, <4>1, <4>2
      <4>3. CASE k # 1
        <5>1. s[k] # s[1]
          BY <1>3, <4>1, <4>3 DEF IsList
        <5>2. k - 1 \in 1..n /\ (k - 1) + 1 = k
          BY <4>3
        <5>3. q[k] = s[k - 1]
          BY <1>3, <5>2
        <5> QED
          BY <3>1, <3>2, <3>3, <4>1, <4>3, <5>1, <5>3
      <4> QED
        BY <4>2, <4>3
    <3> QED
      BY <2>2, <3>1, <3>4, <3>5
  <2> QED
    BY <2>1, <2>2
<1>11. IsList(q)'
  <2>1. n + 1 # 0 /\ q \in Seq(Tasks)
    BY DEF Links
  <2> QED
    BY <1>3, <1>6, <1>8, <1>9, <1>10, <2>1 DEF IsList
<1>12. ASSUME NEW i \in 1..(n + 1), NEW j \in 1..(n + 1), task'[q[i]].token = q[j]
       PROVE  i < j
  <2>1. CASE i = 1
    <3>1. q[j] = h
      BY <1>3, <1>12, <2>1 DEF Links
    <3>2. j # 1
      BY <1>3, <3>1 DEF Links
    <3> QED
      BY <2>1, <3>2
  <2>2. CASE i # 1
    <3>1. i - 1 \in 1..n /\ q[i] = s[i - 1]
      BY <1>5, <2>2
    <3>2. task[s[i - 1]].token = q[j] /\ task[s[i - 1]].token # t
      BY <1>4, <1>12, <3>1 DEF Links
    <3>3. j # 1
      BY <1>3, <3>2
    <3>4. j - 1 \in 1..n /\ q[j] = s[j - 1]
      BY <1>5, <3>3
    <3>5. i - 1 < j - 1
      BY <1>3, <3>1, <3>2, <3>4 DEF HolderOlder
    <3> QED
      BY <3>5
  <2> QED
    BY <2>1, <2>2
<1>13. HolderOlder(q)'
  BY <1>3, <1>12 DEF HolderOlder
<1>14. ASSUME NEW x PROVE In(q, x) <=> x = t \/ In(s, x)
  <2>1. ASSUME In(q, x) PROVE x = t \/ In(s, x)
    <3>1. PICK i \in 1..(n + 1) : q[i] = x
      BY <1>3, <2>1 DEF In
    <3> QED
      BY <1>3, <1>5, <3>1 DEF In
  <2>2. ASSUME x = t PROVE In(q, x)
    <3>1. 1 \in 1..(n + 1)
      OBVIOUS
    <3> QED
      BY <1>3, <2>2, <3>1 DEF In
  <2>3. ASSUME In(s, x) PROVE In(q, x)
    <3>1. PICK i \in 1..n : s[i] = x
      BY <1>3, <2>3 DEF In
    <3>2. i + 1 \in 1..(n + 1) /\ q[i + 1] = x
      BY <1>3, <3>1
    <3> QED
      BY <1>3, <3>2 DEF In
  <2> QED
    BY <2>1, <2>2, <2>3
<1> QED
  BY <1>11, <1>13, <1>14

\* Nobody knows of a task that was not pushed yet.
LEMMA AbsentFacts ==
  ASSUME Typed, NEW s, InvAt(s), NEW t \in Tasks, task[t].done = "absent"
  PROVE  /\ ~In(s, t) /\ \A op \in TaskOps : ~On(op, t)
         /\ task[t].token = Null /\ task[t].wakers = 0 /\ ~task[t].queued
         /\ ~In(fifo, t) /\ \A th \in Threads : thread[th].job # t
         /\ \A x \in Tasks : task[x].token # t
<1>1. \A op \in TaskOps : ~On(op, t)
  BY DEF InvAt, Core, CallsTell, TaskOps
<1>2. ~In(s, t)
  BY <1>1 DEF InvAt, Core, Listed, TaskOps
<1>3. task[t].token = Null /\ task[t].wakers = 0 /\ ~task[t].queued
  BY DEF InvAt, TasksTell
<1>4. ~In(fifo, t) /\ \A th \in Threads : thread[th].job # t
  BY <1>3, NotMarked DEF InvAt
<1>5. \A x \in Tasks : task[x].token # t
  BY DEF InvAt, TasksTell
<1> QED
  BY <1>1, <1>2, <1>3, <1>4, <1>5

\* A step of the calls about tasks that are in s is one about tasks in q.
LEMMA NestedFront ==
  ASSUME NEW c, NEW s \in Seq(Tasks), NEW q, NEW t, Nested(c, s),
         Len(q) = Len(s) + 1, q[1] = t, \A i \in 1..Len(s) : q[i + 1] = s[i],
         \A op \in {"token", "future", "drive"} : ~OnIn(c, op, t)
  PROVE  Nested(c, q)
<1>1. PICK n \in Nat : n = Len(s)
  BY LenProperties
<1>2. ASSUME NEW i \in 1..(n + 1), NEW k \in 1..Len(c), c[k].task = q[i],
             c[k].op \in {"token", "future", "drive"}
      PROVE  i - 1 \in 1..n /\ q[i] = s[i - 1]
  <2>1. i # 1
    BY <1>2 DEF OnIn
  <2>2. i - 1 \in 1..n /\ (i - 1) + 1 = i
    BY <2>1
  <2> QED
    BY <1>1, <2>2
<1>3. ASSUME NEW m \in 1..Len(c), NEW k \in 1..Len(c), NEW i \in 1..(n + 1), NEW j \in 1..(n + 1),
             m < k, c[m].op \in {"token", "future"}, c[k].op \in {"drive", "future"},
             c[m].task = q[i], c[k].task = q[j]
      PROVE  i < j
  <2>1. i - 1 \in 1..n /\ q[i] = s[i - 1]
    BY <1>2, <1>3
  <2>2. j - 1 \in 1..n /\ q[j] = s[j - 1]
    BY <1>2, <1>3
  <2>3. i - 1 < j - 1
    BY <1>1, <1>3, <2>1, <2>2 DEF Nested
  <2> QED
    BY <2>3
<1> QED
  BY <1>1, <1>3 DEF Nested

\* push_cancellable.
LEMMA NewTaskKeeps ==
  ASSUME Typed, NEW s, InvAt(s), NEW t \in Tasks, NEW h, NEW w, MayPush(h, w),
         push_cancellable(t, h, w)
  PROVE  Typed' /\ \E q \in Seq(Tasks) : InvAt(q)'
<1>1. /\ task[t].done = "absent" /\ PushOwn(t) /\ UNCHANGED <<calls, turn, wakeVars, live, thread>>
      /\ list' = [next |-> t, prev |-> IF list.prev = Null THEN t ELSE list.prev,
                  len |-> list.len + 1]
  BY DEF push_cancellable
<1>2. /\ ~In(s, t) /\ \A op \in TaskOps : ~On(op, t)
      /\ task[t].token = Null /\ task[t].wakers = 0 /\ ~task[t].queued
      /\ ~In(fifo, t) /\ \A th \in Threads : thread[th].job # t
      /\ \A x \in Tasks : task[x].token # t
  BY <1>1, AbsentFacts
<1>3. /\ h \in Tasks \cup {Outside} /\ h # t /\ w # t /\ h # Null
      /\ h \in Tasks => task[h].done = "Running"
      /\ w \in Tasks => task[w].done = "Running"
  BY <1>1, SchedularAssumption DEF MayPush
<1>4. IsList(s) /\ HolderOlder(s) /\ Listed(s) /\ Nested(calls, s) /\ s \in Seq(Tasks)
  BY DEF InvAt, Core, IsList
<1>5. PICK n \in Tasks \cup {Null} : n = list.next /\ n # t
  <2>1. Len(s) \in Nat
    BY <1>4, LenProperties
  <2>2. Len(s) # 0 => 1 \in 1..Len(s)
    BY <2>1
  <2>3. list.next # t
    BY <1>2, <1>4, <2>2, SchedularAssumption DEF IsList, In
  <2> QED
    BY <2>3 DEF Typed
<1>6. /\ task' \in [Tasks -> TaskRecords]
      /\ \A x \in Tasks : x # t =>
           /\ task'[x].queued = task[x].queued /\ task'[x].done = task[x].done
           /\ task'[x].dropped = task[x].dropped /\ task'[x].token = task[x].token
           /\ task'[x].cancelled = task[x].cancelled /\ task'[x].next = task[x].next
           /\ task'[x].prev = IF x = n THEN t ELSE task[x].prev
           /\ task'[x].wakers = task[x].wakers + One(x = w)
           /\ task'[x].count = task[x].count + One(x = w)
      /\ task'[t].queued /\ task'[t].done = "Running" /\ task'[t].dropped = 0
      /\ task'[t].token = h /\ ~task'[t].cancelled /\ task'[t].next = n
      /\ task'[t].prev = Null /\ task'[t].wakers = 0 /\ task'[t].count = 3
  BY <1>3, <1>5, PushedTask
<1>7. PICK q \in Seq(Tasks) : /\ Len(q) = Len(s) + 1 /\ q[1] = t
                              /\ \A i \in 1..Len(s) : q[i + 1] = s[i]
  BY <1>4, InFront
<1>8. list'.next = t /\ list'.prev = (IF list.prev = Null THEN t ELSE list.prev)
      /\ list'.len = list.len + 1
      /\ list' \in [next : Tasks \cup {Null}, prev : Tasks \cup {Null}, len : Nat]
  BY <1>1 DEF Typed
<1>9. Links(q, s, t, h)
  BY <1>2, <1>3, <1>5, <1>6, <1>7, <1>8 DEF Links
<1>10. IsList(q)' /\ HolderOlder(q)' /\ \A x : In(q, x) <=> x = t \/ In(s, x)
  BY <1>4, <1>9, LinkedList
<1>11. \A op, x : On(op, x)' <=> On(op, x)
  BY <1>1, OnKept
<1>12. Nested(calls', q)
  <2>1. \A op \in {"token", "future", "drive"} : ~OnIn(calls, op, t)
    BY <1>2 DEF On, TaskOps
  <2> QED
    BY <1>1, <1>4, <1>7, <2>1, NestedFront
<1>13. CallsTell'
  BY <1>2, <1>6, <1>11 DEF InvAt, Core, CallsTell, TaskOps
<1>14. Listed(q)'
  BY <1>4, <1>6, <1>10, <1>11 DEF Listed
<1>15. HolderKnown'
  <2>1. ASSUME NEW x \in Tasks, task'[x].done = "Running"
        PROVE  \/ task'[x].token = Outside \/ On("token", x)'
               \/ /\ task'[x].token \in Tasks
                  /\ task'[task'[x].token].done = "Running" \/ On("future", task[x].token)'
    <3>1. CASE x = t
      BY <1>3, <1>6, <3>1
    <3>2. CASE x # t
      <4>1. task[x].done = "Running" /\ task'[x].token = task[x].token /\ task[x].token # t
        BY <1>2, <1>6, <2>1, <3>2
      <4>2. \/ task[x].token = Outside \/ On("token", x)
            \/ /\ task[x].token \in Tasks
               /\ task[task[x].token].done = "Running" \/ On("future", task[x].token)
        BY <4>1 DEF InvAt, Core, HolderKnown
      <4> QED
        BY <1>6, <1>11, <4>1, <4>2
    <3> QED
      BY <3>1, <3>2
  <2> QED
    BY <2>1 DEF HolderKnown
<1>16. EmptyAtEnd(q)'
  BY <1>1 DEF MayPush, EmptyAtEnd
<1>17. Core(q)'
  BY <1>1, <1>10, <1>12, <1>13, <1>14, <1>15, <1>16 DEF InvAt, Core
<1>18. TasksTell'
  <2>1. \A x \in Tasks : task[x].done = "absent" => x # w
    BY <1>3
  <2>2. \A x \in Tasks : x # w => One(x = w) = 0
    BY DEF One
  <2>3. \A x \in Tasks : x # t /\ task'[x].done = "absent" =>
          task'[x].wakers = 0 /\ task'[x].token = Null /\ ~task'[x].queued /\ ~task'[x].cancelled
    BY <1>6, <2>1, <2>2 DEF InvAt, TasksTell
  <2>4. \A x \in Tasks : task'[x].token \in Tasks => task'[task'[x].token].done # "absent"
    BY <1>3, <1>6 DEF InvAt, TasksTell
  <2>5. \A x \in Tasks :
          /\ task'[x].dropped \in {0, 1}
          /\ task'[x].done \in {"absent", "Running"} => task'[x].dropped = 0
          /\ task'[x].done = "Cancelled" => task'[x].cancelled
          /\ task'[x].cancelled => task'[x].done # "Running"
    BY <1>6 DEF InvAt, TasksTell
  <2>6. task'[t].done # "absent"
    BY <1>6
  <2> QED
    BY <2>3, <2>4, <2>5, <2>6 DEF TasksTell
<1>19. Marked'
  <2>1. \A x \in Tasks : task[x].queued => task'[x].queued
    BY <1>2, <1>6
  <2> QED
    BY <1>1, <1>2, <1>6, <2>1, MarkedPut DEF InvAt
<1>20. /\ fifo' \in Seq(Tasks) /\ In(fifo', t) /\ linking' = linking
       /\ \A y : y # t => (In(fifo', y) <=> In(fifo, y))
  BY <1>1, <1>2, PutLast DEF PushOwn, InvAt
<1>21. \A x \in Tasks : Waking(x)' <=> Waking(x)
  BY <1>1 DEF Waking
<1>22. ASSUME NEW x \in Tasks, x # t
       PROVE  /\ task'[x].count >= OwnersIn(q, x)' /\ task'[x].count <= OwnersIn(q, x)' + 1
              /\ ~Skipped(x)' => task'[x].count = OwnersIn(q, x)'
  <2>1. PICK e \in Nat : e = One(x = w)
    BY DEF One
  <2>2. PICK u \in Nat, c \in Nat : u = task[x].wakers /\ c = task[x].count
    BY OwnersNumber
  <2>3. task'[x].wakers = u + e /\ task'[x].count = c + e
    BY <1>6, <1>22, <2>1, <2>2
  <2>4. PICK a \in Nat : a = One(In(s, x)) /\ a = One(In(q, x))
    BY <1>10, <1>22 DEF One
  <2>5. PICK b \in Nat : b = One(In(fifo, x)) /\ b = One(In(fifo', x))
    BY <1>20, <1>22 DEF One
  <2>6. PICK o \in Nat : o = One(TokenOut(x)) /\ o = One(TokenOut(x)')
    <3>1. TokenOut(x)' <=> TokenOut(x)
      BY <1>6, <1>11, <1>22 DEF TokenOut
    <3> QED
      BY <3>1 DEF One
  <2>7. PICK g \in Nat : g = One(Waking(x)) /\ g = One(Waking(x)')
    BY <1>21 DEF One
  <2>8. PICK k \in Nat : k = One(On("waker", x)) /\ k = One(On("waker", x)')
    BY <1>11 DEF One
  <2>9. OwnersIn(s, x) = a + b + o + u + g + k /\ OwnersIn(q, x)' = a + b + o + (u + e) + g + k
    BY <2>2, <2>3, <2>4, <2>5, <2>6, <2>7, <2>8 DEF OwnersIn
  <2>10. /\ c >= OwnersIn(s, x) /\ c <= OwnersIn(s, x) + 1
         /\ ~Skipped(x) => c = OwnersIn(s, x)
    BY <2>2 DEF InvAt, Counted
  <2>11. Skipped(x) => Skipped(x)'
    BY <1>6, <1>20, <1>21, <1>22 DEF Skipped
  <2>12. PICK m \in Nat : m = OwnersIn(s, x) /\ OwnersIn(q, x)' = m + e
    BY <2>9
  <2> QED
    BY <2>3, <2>10, <2>11, <2>12
<1>23. task'[t].count = OwnersIn(q, t)' /\ task'[t].count = 3
  <2>1. One(In(q, t)) = 1 /\ One(In(fifo', t)) = 1
    BY <1>10, <1>20 DEF One
  <2>2. One(TokenOut(t)') = 1
    BY <1>3, <1>6 DEF One, TokenOut
  <2>3. One(Waking(t)') = 0
    BY <1>2, <1>21 DEF One, Waking
  <2>4. One(On("waker", t)') = 0
    BY <1>2, <1>11 DEF One, TaskOps
  <2>5. OwnersIn(q, t)' = 1 + 1 + 1 + 0 + 0 + 0
    BY <1>6, <2>1, <2>2, <2>3, <2>4 DEF OwnersIn
  <2> QED
    BY <1>6, <2>5
<1>24. Counted(q)'
  <2>1. task'[t].count >= OwnersIn(q, t)' /\ task'[t].count <= OwnersIn(q, t)' + 1
    BY <1>23
  <2> QED
    BY <1>22, <1>23, <2>1 DEF Counted
<1>25. Typed'
  BY <1>1, <1>6, <1>8, <1>20 DEF Typed, wakeVars
<1>26. InvAt(q)'
  BY <1>17, <1>18, <1>19, <1>24 DEF InvAt
<1> QED
  BY <1>25, <1>26

-----------------------------------------------------------------------------
(***************************************************************************)
(* Every step keeps the invariant.                                         *)
(***************************************************************************)

LEMMA InitInv == SchedInit => SchedInv
<1> SUFFICES ASSUME SchedInit PROVE SchedInv
  OBVIOUS
<1>1. PICK e : e = <<>> /\ e \in Seq(Tasks) /\ Len(e) = 0
  <2>1. <<>> \in Seq(Tasks) /\ Len(<<>>) = 0
    OBVIOUS
  <2> QED
    BY <2>1, Zenon
<1>2. /\ task = [t \in Tasks |-> NoTask]
      /\ list = [next |-> Null, prev |-> Null, len |-> 0]
      /\ calls = <<>> /\ turn = NoTurn
      /\ registered = FALSE /\ woken = TRUE /\ live = TRUE
      /\ thread = [th \in Threads |-> Idle] /\ fifo = <<>> /\ linking = {}
  BY DEF SchedInit, FifoInit
<1>3. /\ NoTask \in TaskRecords /\ NoTask.queued = FALSE /\ NoTask.done = "absent"
      /\ NoTask.next = Null /\ NoTask.prev = Null /\ NoTask.count = 0 /\ NoTask.dropped = 0
      /\ NoTask.token = Null /\ NoTask.wakers = 0 /\ NoTask.cancelled = FALSE
  BY DEF NoTask, TaskRecords
<1>4. \A t \in Tasks : task[t] = NoTask
  BY <1>2
<1>5. Typed
  <2>1. task \in [Tasks -> TaskRecords]
    BY <1>2, <1>3
  <2>2. list \in [next : Tasks \cup {Null}, prev : Tasks \cup {Null}, len : Nat]
    BY <1>2
  <2>3. calls \in Seq(FrameSet)
    BY <1>2
  <2>4. turn \in [iteration : Nat, yielded : 0..2]
    BY <1>2 DEF NoTurn
  <2>5. thread \in [Threads -> [pc : {"idle", "upgrade", "push", "link", "wake"},
                                job : Tasks \cup {Null}]]
    BY <1>2 DEF Idle
  <2>6. fifo \in Seq(Tasks)
    BY <1>2
  <2> QED
    BY <1>2, <2>1, <2>2, <2>3, <2>4, <2>5, <2>6 DEF Typed
<1>6. /\ Len(calls) = 0 /\ Len(fifo) = 0 /\ CallsNest(calls) /\ Nested(calls, e)
      /\ \A op, t : ~On(op, t)
  <2>1. Len(calls) = 0 /\ Len(fifo) = 0
    BY <1>2
  <2> QED
    BY <1>2, <2>1, NoCalls DEF On
<1>7. CallsTell /\ Listed(e) /\ HolderKnown
  <2>1. CallsTell
    BY <1>3, <1>4, <1>6 DEF CallsTell
  <2>2. Listed(e)
    BY <1>1, <1>3, <1>4, <1>6 DEF Listed, In
  <2>3. HolderKnown
    BY <1>3, <1>4 DEF HolderKnown
  <2> QED
    BY <2>1, <2>2, <2>3
<1>8. IsList(e) /\ HolderOlder(e) /\ EmptyAtEnd(e)
  BY <1>1, <1>2 DEF IsList, HolderOlder, EmptyAtEnd
<1>9. Core(e)
  BY <1>6, <1>7, <1>8 DEF Core
<1>10. TasksTell
  BY <1>3, <1>4, SchedularAssumption DEF TasksTell
<1>11. \A th \in Threads : thread[th].pc = "idle" /\ thread[th].job = Null
  BY <1>2 DEF Idle
<1>12. Marked
  BY <1>2, <1>6, <1>11 DEF Marked
<1>13. Counted(e)
  <2>1. ASSUME NEW t \in Tasks PROVE OwnersIn(e, t) = 0 /\ task[t].count = 0
    <3>1. t # Null
      BY SchedularAssumption
    <3>2. ~In(e, t) /\ ~In(fifo, t) /\ ~TokenOut(t) /\ ~Waking(t) /\ ~On("waker", t)
      BY <1>1, <1>3, <1>4, <1>6, <1>11, <3>1 DEF In, TokenOut, Waking
    <3>3. task[t].wakers = 0 /\ task[t].count = 0
      BY <1>3, <1>4
    <3> QED
      BY <3>2, <3>3 DEF OwnersIn, One
  <2>2. \A t \in Tasks : /\ task[t].count >= OwnersIn(e, t) /\ task[t].count = OwnersIn(e, t)
                         /\ task[t].count <= OwnersIn(e, t) + 1
    BY <2>1
  <2> QED
    BY <2>2 DEF Counted
<1>14. InvAt(e)
  BY <1>9, <1>10, <1>12, <1>13 DEF InvAt
<1> QED
  BY <1>1, <1>5, <1>14 DEF SchedInv

\* The calls that have begun.
LEMMA LibraryKeeps ==
  ASSUME Typed, NEW s \in Seq(Tasks), InvAt(s), Library
  PROVE  Typed' /\ \E q \in Seq(Tasks) : InvAt(q)'
<1>1. CASE PollEmpty
  BY <1>1, PollEmptyKeeps
<1>2. CASE PollInconsistant
  BY <1>2, PollInconsistantKeeps
<1>3. CASE ClearList
  BY <1>3, ClearListKeeps
<1>4. CASE DrainEmpty
  BY <1>4, DrainEmptyKeeps
<1>5. CASE Free
  BY <1>5, FreeKeeps
<1>6. ASSUME NEW t \in Tasks, PollCancelled(t) PROVE Typed' /\ InvAt(s)'
  BY <1>6, PollCancelledKeeps
<1>7. ASSUME NEW t \in Tasks, PollDone(t) \/ DrainValue(t) PROVE Typed' /\ InvAt(s)'
  <2>1. /\ Get /\ t = Head(fifo) /\ task' = decr_task(task, t)
        /\ UNCHANGED <<list, calls, turn, wakeVars, live, thread>>
    BY <1>7 DEF PollDone, DrainValue, Popped
  <2> QED
    BY <2>1, GetKeeps
<1>8. ASSUME NEW t \in Tasks, PollTask(t) PROVE Typed' /\ InvAt(s)'
  BY <1>8, PollTaskKeeps
<1>9. ASSUME NEW t \in Tasks, DropPollWaker(t) PROVE Typed' /\ InvAt(s)'
  BY <1>9, DropPollWakerKeeps
<1>10. ASSUME NEW t \in Tasks, pop_task_all(t) PROVE Typed' /\ InvAt(s)'
  BY <1>10, RemoveKeeps
<1>11. ASSUME NEW t \in Tasks, drop_task(t) PROVE Typed' /\ InvAt(s)'
  BY <1>11, DropTaskKeeps
<1>12. ASSUME NEW t \in Tasks, Detach(t) PROVE Typed' /\ \E q \in Seq(Tasks) : InvAt(q)'
  BY <1>12, DetachKeeps
<1>13. ASSUME NEW t \in Tasks, CancelToken_drop(t) PROVE Typed' /\ InvAt(s)'
  BY <1>13, CancelKeeps
<1>14. ASSUME NEW t \in Tasks, Requeue(t) PROVE Typed' /\ InvAt(s)'
  BY <1>14, RequeueKeeps
<1>15. ASSUME NEW t \in Tasks, Running("future", t), NEW c \in Held(t), DropToken(c)
       PROVE  Typed' /\ InvAt(s)'
  <2>1. c \in Tasks /\ task[c].token = t /\ t # Null
    BY SchedularAssumption DEF Held
  <2>2. MayDropToken(c)
    BY <1>15, <2>1 DEF MayDropToken
  <2> QED
    BY <1>15, <2>1, <2>2, DropTokenKeeps
<1>16. ASSUME InvAt(s)' PROVE \E q \in Seq(Tasks) : InvAt(q)'
  BY <1>16
<1> QED
  BY <1>1, <1>2, <1>3, <1>4, <1>5, <1>6, <1>7, <1>8, <1>9, <1>10, <1>11, <1>12, <1>13,
     <1>14, <1>15, <1>16 DEF Library

\* What a task does when it is driven.
LEMMA DriveKeeps ==
  ASSUME Typed, NEW s \in Seq(Tasks), InvAt(s), NEW t \in Tasks, Drive(t)
  PROVE  Typed' /\ \E q \in Seq(Tasks) : InvAt(q)'
<1>1. CASE DriveReady(t)
  BY <1>1, DriveReadyKeeps
<1>2. CASE DrivePending(t)
  BY <1>2, DrivePendingKeeps
<1>3. CASE DrivePanic(t)
  BY <1>3, DrivePanicKeeps
<1>4. ASSUME NEW c \in Tasks, DriveWakes(t, c) PROVE Typed' /\ InvAt(s)'
  BY <1>4, DriveWakesKeeps
<1>5. ASSUME Running("drive", t), NEW c \in Tasks, push_cancellable(c, t, Null)
      PROVE  Typed' /\ \E q \in Seq(Tasks) : InvAt(q)'
  <2>1. On("drive", t) /\ calls[1].op = "drive"
    BY <1>5, RunningOn DEF Typed
  <2>2. task[t].done = "Running"
    BY <2>1 DEF InvAt, Core, CallsTell
  <2>3. live
    <3>1. \E i \in 1..Len(s) : s[i] = t
      BY <2>1, FutureListed DEF InvAt
    <3>2. Len(s) # 0
      BY <3>1
    <3> QED
      BY <3>2 DEF InvAt, Core, EmptyAtEnd
  <2>4. MayPush(t, Null)
    BY <2>1, <2>2, <2>3 DEF MayPush
  <2> QED
    BY <1>5, <2>4, NewTaskKeeps
<1>6. ASSUME Running("drive", t), NEW c \in Held(t), DropToken(c)
      PROVE  Typed' /\ InvAt(s)'
  <2>1. c \in Tasks /\ task[c].token = t /\ t # Null
    BY SchedularAssumption DEF Held
  <2>2. MayDropToken(c)
    BY <1>6, <2>1 DEF MayDropToken
  <2> QED
    BY <1>6, <2>1, <2>2, DropTokenKeeps
<1>7. ASSUME InvAt(s)' PROVE \E q \in Seq(Tasks) : InvAt(q)'
  BY <1>7
<1> QED
  BY <1>1, <1>2, <1>3, <1>4, <1>5, <1>6, <1>7 DEF Drive

\* What other code does with the Schedular.
LEMMA UseKeeps ==
  ASSUME Typed, NEW s \in Seq(Tasks), InvAt(s), Use
  PROVE  Typed' /\ \E q \in Seq(Tasks) : InvAt(q)'
<1>1. calls = <<>>
  BY DEF Use
<1>2. CASE live /\ StartPoll(<<>>) /\ woken' = FALSE
  BY <1>1, <1>2, StartPollKeeps
<1>3. ASSUME NEW cs \in {ClearCalls, DropCalls}, Calls(cs), UNCHANGED <<task, list, rest>>
      PROVE  Typed' /\ InvAt(s)'
  BY <1>1, <1>3, UseCallsKeeps
<1>4. ASSUME live, NEW t \in Tasks, push_cancellable(t, Outside, Null)
      PROVE  Typed' /\ \E q \in Seq(Tasks) : InvAt(q)'
  <2>1. Len(calls) = 0
    BY <1>1
  <2>2. MayPush(Outside, Null)
    BY <1>4, <2>1 DEF MayPush
  <2> QED
    BY <1>4, <2>2, NewTaskKeeps
<1>5. ASSUME NEW t \in Held(Outside), DropToken(t) PROVE Typed' /\ InvAt(s)'
  <2>1. t \in Tasks /\ task[t].token # Null
    BY SchedularAssumption DEF Held
  <2>2. MayDropToken(t)
    BY <1>1 DEF MayDropToken
  <2> QED
    BY <1>5, <2>1, <2>2, DropTokenKeeps
<1>6. ASSUME InvAt(s)' PROVE \E q \in Seq(Tasks) : InvAt(q)'
  BY <1>6
<1> QED
  BY <1>2, <1>3, <1>4, <1>5, <1>6 DEF Use

\* Steps of nobody.
LEMMA StutterKeeps ==
  ASSUME SchedInv, UNCHANGED schedVars
  PROVE  SchedInv'
<1>1. UNCHANGED <<task, list, calls, turn, registered, woken, live, thread, fifo, linking>>
  BY DEF schedVars, rest, wakeVars, queueVars
<1>2. Typed'
  BY <1>1 DEF SchedInv, Typed
<1>3. PICK s \in Seq(Tasks) : InvAt(s)
  BY DEF SchedInv
<1>4. \A op, x : On(op, x)' <=> On(op, x)
  BY <1>1, OnKept
<1>5. Core(s)'
  BY <1>1, <1>3, CoreKept DEF InvAt, SameTask
<1>6. TasksTell' /\ Marked'
  BY <1>1, <1>3 DEF InvAt, TasksTell, Marked
<1>7. \A x \in Tasks : SameOwners(s, s, x)
  BY <1>1, <1>4, OwnersKept
<1>8. Counted(s)'
  BY <1>3, <1>7, CountedKept DEF InvAt
<1>9. InvAt(s)'
  BY <1>5, <1>6, <1>8 DEF InvAt
<1> QED
  BY <1>2, <1>9 DEF SchedInv

LEMMA StepInv == SchedInv /\ [SchedNext]_schedVars => SchedInv'
<1> SUFFICES ASSUME SchedInv, [SchedNext]_schedVars PROVE SchedInv'
  OBVIOUS
<1>1. PICK s \in Seq(Tasks) : InvAt(s)
  BY DEF SchedInv
<1>2. Typed
  BY DEF SchedInv
<1>3. ASSUME Typed', InvAt(s)' PROVE SchedInv'
  BY <1>3 DEF SchedInv
<1>4. ASSUME Typed', \E q \in Seq(Tasks) : InvAt(q)' PROVE SchedInv'
  BY <1>4 DEF SchedInv
<1>5. CASE UNCHANGED schedVars
  BY <1>5, StutterKeeps
<1>6. CASE Library
  BY <1>1, <1>2, <1>4, <1>6, LibraryKeeps
<1>7. CASE Use
  BY <1>1, <1>2, <1>4, <1>7, UseKeeps
<1>8. ASSUME NEW t \in Tasks, Drive(t) PROVE SchedInv'
  BY <1>1, <1>2, <1>4, <1>8, DriveKeeps
<1>9. ASSUME NEW t \in Tasks, CloneWaker(t) PROVE SchedInv'
  BY <1>1, <1>2, <1>3, <1>9, CloneKeeps
<1>10. ASSUME NEW t \in Tasks, DropWaker(t) PROVE SchedInv'
  BY <1>1, <1>2, <1>3, <1>10, DropKeeps DEF DropWaker
<1>11. ASSUME NEW th \in Threads, Wake(th) PROVE SchedInv'
  BY <1>1, <1>2, <1>3, <1>11, UpgradeKeeps, PushKeeps, LinkKeeps, WakeSchedularKeeps DEF Wake
<1>12. ASSUME NEW th \in Threads, NEW t \in Tasks, schedular_wake(th, t) PROVE SchedInv'
  BY <1>1, <1>2, <1>3, <1>12, WakeKeeps
<1>13. ASSUME NEW th \in Threads, NEW t \in Tasks, schedular_wake_ref(th, t) PROVE SchedInv'
  BY <1>1, <1>2, <1>3, <1>13, WakeRefKeeps
<1> QED
  BY <1>5, <1>6, <1>7, <1>8, <1>9, <1>10, <1>11, <1>12, <1>13 DEF SchedNext

\* The calls, the list of all tasks, the queue, the marks and the counts fit together in
\* every state that the operations of the Schedular and of the wakers lead to.
THEOREM SchedInvariant == SchedSpec => []SchedInv
BY InitInv, StepInv, PTL DEF SchedSpec

-----------------------------------------------------------------------------
(***************************************************************************)
(* AllTasks is the list that the invariant is about.                       *)
(***************************************************************************)

LEMMA LeastNumber ==
  ASSUME NEW T \in SUBSET Nat, T # {}
  PROVE  \E x \in T : \A y \in T : x <= y
<1> DEFINE R == OpToRel(<, Nat)
<1>1. \A x, y \in Nat : x < y => <<x, y>> \in R
  BY DEF OpToRel
<1>2. IsWellFoundedOn(R, Nat)
  BY NatLessThanWellFounded
<1> HIDE DEF R
<1>3. T \subseteq Nat
  OBVIOUS
<1>4. PICK x \in T : \A y \in T : ~ (<<y, x>> \in R)
  BY <1>2, <1>3, WFMin, Zenon
<1>5. \A y \in T : ~ (y < x)
  BY <1>1, <1>3, <1>4, Zenon
<1> QED
  BY <1>3, <1>5

\* There are not more tasks in the list than there are.
LEMMA ListFits ==
  ASSUME NEW s \in Seq(Tasks), \A i, j \in 1..Len(s) : s[i] = s[j] => i = j
  PROVE  Cardinality(Tasks) \in Nat /\ Len(s) \in Nat /\ Len(s) <= Cardinality(Tasks)
<1>1. IsFiniteSet(Tasks)
  BY SchedularAssumption
<1>2. Len(s) \in Nat /\ s \in [1..Len(s) -> Tasks]
  BY LenProperties
<1>3. s \in Injection(1..Len(s), Tasks)
  BY <1>2 DEF Injection, IsInjective
<1>4. Cardinality(1..Len(s)) <= Cardinality(Tasks)
  BY <1>1, <1>3, FS_Injection
<1>5. Cardinality(1..Len(s)) = Len(s)
  <2>1. PICK n \in Nat : n = Len(s)
    BY <1>2
  <2>2. 1 \in Int /\ n \in Int
    BY <2>1
  <2>3. Cardinality(1..n) = IF 1 > n THEN 0 ELSE n - 1 + 1
    BY <2>2, FS_Interval
  <2>4. Cardinality(1..n) = n
    BY <2>1, <2>3
  <2> QED
    BY <2>1, <2>4
<1> QED
  BY <1>1, <1>2, <1>4, <1>5, FS_CardinalityType

\* The first n tasks of the list s, written out so that the first none are the empty one.
FirstOf(s, n) == [i \in 1..n |-> s[i]]

LEMMA FirstFacts ==
  ASSUME NEW s \in Seq(Tasks), NEW n \in 0..Len(s)
  PROVE  /\ FirstOf(s, n) \in Seq(Tasks) /\ Len(FirstOf(s, n)) = n
         /\ \A i \in 1..n : FirstOf(s, n)[i] = s[i]
<1>1. Len(s) \in Nat
  BY LenProperties
<1>2. \A i \in 1..n : s[i] \in Tasks
  BY <1>1, ElementOfSeq
<1>3. n \in Nat
  BY <1>1
<1> QED
  BY <1>2, <1>3 DEF FirstOf

\* Where AllTasks starts.
AllStart == IF list.next = Null THEN <<>> ELSE <<list.next>>

\* The equation that the local function of AllTasks satisfies.
Grown(f) ==
  f = [k \in 0 .. Cardinality(Tasks) |->
         IF k = 0 THEN (IF list.next = Null THEN <<>> ELSE <<list.next>>) ELSE Further[f[k - 1]]]

LEMMA AllGrown ==
  ASSUME NEW g, Grown(g)
  PROVE  \E f : Grown(f) /\ AllTasks = f[Cardinality(Tasks)]
<1> DEFINE h == CHOOSE f : Grown(f)
<1>1. Grown(h)
  BY Zenon
<1>2. AllTasks = h[Cardinality(Tasks)]
  BY Zenon DEF AllTasks, Grown
<1> QED
  BY <1>1, <1>2, Zenon

\* One step along the list.
LEMMA FurtherIs ==
  ASSUME NEW s, IsList(s), NEW n \in 0..Len(s)
  PROVE  /\ 0 < n /\ n < Len(s) => Further[FirstOf(s, n)] = FirstOf(s, n + 1)
         /\ n = Len(s) => Further[FirstOf(s, n)] = FirstOf(s, n)
<1>1. s \in Seq(Tasks) /\ Len(s) \in Nat
  BY LenProperties DEF IsList
<1> DEFINE a == FirstOf(s, n)
<1>2. a \in Seq(Tasks) /\ Len(a) = n /\ \A i \in 1..n : a[i] = s[i]
  BY <1>1, FirstFacts
<1> HIDE DEF a
<1>3. Further[a] = IF a = <<>> \/ task[Last(a)].next = Null THEN a
                   ELSE Append(a, task[Last(a)].next)
  BY <1>2 DEF Further
<1>4. n = 0 => a = <<>>
  BY <1>2, EmptySeq
<1>5. n # 0 => a # <<>> /\ Last(a) = s[n]
  <2> SUFFICES ASSUME n # 0 PROVE a # <<>> /\ Last(a) = s[n]
    OBVIOUS
  <2>1. n \in 1..n
    BY <1>1
  <2>2. Last(a) = s[n]
    BY <1>2, <2>1 DEF Last
  <2>3. a # <<>>
    BY <1>2
  <2> QED
    BY <2>2, <2>3
<1>6. ASSUME n = Len(s) PROVE Further[a] = a
  <2>1. CASE n = 0
    BY <1>3, <1>4, <2>1
  <2>2. CASE n # 0
    <3>1. n \in 1..Len(s)
      BY <1>1, <2>2
    <3>2. task[s[n]].next = Null
      BY <1>6, <3>1 DEF IsList
    <3> QED
      BY <1>3, <1>5, <2>2, <3>2
  <2> QED
    BY <2>1, <2>2
<1>7. ASSUME 0 < n, n < Len(s) PROVE Further[a] = FirstOf(s, n + 1)
  <2>1. n \in 1..Len(s) /\ n + 1 \in 1..Len(s) /\ n # 0 /\ n # Len(s) /\ n + 1 \in 0..Len(s)
    BY <1>1, <1>7
  <2>2. task[s[n]].next = s[n + 1] /\ s[n + 1] \in Tasks /\ s[n + 1] # Null
    BY <1>1, <2>1, ElementOfSeq, SchedularAssumption DEF IsList
  <2>3. Further[a] = Append(a, s[n + 1])
    BY <1>3, <1>5, <2>1, <2>2
  <2> DEFINE b == Append(a, s[n + 1])
             c == FirstOf(s, n + 1)
  <2>4. b \in Seq(Tasks) /\ Len(b) = n + 1 /\ b[n + 1] = s[n + 1] /\ \A i \in 1..n : b[i] = a[i]
    BY <1>2, <2>2, AppendProperties
  <2>5. c \in Seq(Tasks) /\ Len(c) = n + 1 /\ \A i \in 1..(n + 1) : c[i] = s[i]
    BY <1>1, <2>1, FirstFacts
  <2> HIDE DEF b, c
  <2>6. ASSUME NEW i \in 1..(n + 1) PROVE b[i] = c[i]
    <3>1. i = n + 1 \/ i \in 1..n
      BY <2>1
    <3> QED
      BY <1>2, <2>4, <2>5, <3>1
  <2>7. b = c
    BY <2>4, <2>5, <2>6, SeqEqual
  <2> QED
    BY <2>3, <2>7 DEF b, c
<1> QED
  BY <1>6, <1>7 DEF a

\* Following the links from all_next on gives the list.
LEMMA AllTasksIs == \A s : IsList(s) => AllTasks = s
<1> SUFFICES ASSUME NEW s, IsList(s) PROVE AllTasks = s
  OBVIOUS
<1> DEFINE N == Cardinality(Tasks)
           L == Len(s)
           Upto(k) == IF k + 1 <= L THEN k + 1 ELSE L
           w == [k \in 0..N |-> FirstOf(s, Upto(k))]
<1>1. s \in Seq(Tasks) /\ N \in Nat /\ L \in Nat /\ L <= N
  BY ListFits DEF IsList
<1>2. FirstOf(s, L) = s
  <2>1. L \in 0..L
    BY <1>1
  <2>2. /\ FirstOf(s, L) \in Seq(Tasks) /\ Len(FirstOf(s, L)) = L
        /\ \A i \in 1..L : FirstOf(s, L)[i] = s[i]
    BY <1>1, <2>1, FirstFacts
  <2> QED
    BY <1>1, <2>2, SeqEqual
<1>3. FirstOf(s, Upto(0)) = AllStart
  <2>1. CASE L = 0
    <3>1. list.next = Null /\ Upto(0) = 0
      BY <2>1 DEF IsList
    <3>2. s = <<>>
      BY <1>1, <2>1, EmptySeq
    <3> QED
      BY <1>2, <2>1, <3>1, <3>2 DEF AllStart
  <2>2. CASE L # 0
    <3> DEFINE a == FirstOf(s, 1)
               b == <<s[1]>>
    <3>1. Upto(0) = 1 /\ 1 \in 0..L /\ 1 \in 1..L
      BY <1>1, <2>2
    <3>2. list.next = s[1] /\ s[1] \in Tasks /\ s[1] # Null
      BY <1>1, <2>2, <3>1, ElementOfSeq, SchedularAssumption DEF IsList
    <3>3. a \in Seq(Tasks) /\ Len(a) = 1 /\ \A i \in 1..1 : a[i] = s[i]
      BY <1>1, <3>1, FirstFacts
    <3>4. b \in Seq(Tasks) /\ Len(b) = 1 /\ b[1] = s[1]
      BY <3>2
    <3> HIDE DEF a, b
    <3>5. a = b
      BY <3>3, <3>4, SeqEqual
    <3> QED
      BY <3>1, <3>2, <3>5 DEF a, b, AllStart
  <2> QED
    BY <2>1, <2>2
<1>4. Grown(w)
  <2>1. ASSUME NEW k \in 0..N
        PROVE  w[k] = IF k = 0 THEN AllStart ELSE Further[w[k - 1]]
    <3>1. CASE k = 0
      BY <1>3, <3>1
    <3>2. CASE k # 0 /\ k + 1 <= L
      <4>1. /\ k - 1 \in 0..N /\ k \in 0..L /\ 0 < k /\ k < L
            /\ Upto(k - 1) = k /\ Upto(k) = k + 1
        BY <1>1, <3>2
      <4>2. w[k - 1] = FirstOf(s, k) /\ w[k] = FirstOf(s, k + 1)
        BY <4>1
      <4>3. Further[FirstOf(s, k)] = FirstOf(s, k + 1)
        BY <4>1, FurtherIs
      <4> QED
        BY <3>2, <4>2, <4>3
    <3>3. CASE k # 0 /\ ~(k + 1 <= L)
      <4>1. k - 1 \in 0..N /\ Upto(k - 1) = L /\ Upto(k) = L /\ L \in 0..L
        BY <1>1, <3>3
      <4>2. w[k - 1] = FirstOf(s, L) /\ w[k] = FirstOf(s, L)
        BY <4>1
      <4>3. Further[FirstOf(s, L)] = FirstOf(s, L)
        BY <4>1, FurtherIs
      <4> QED
        BY <3>3, <4>2, <4>3
    <3> QED
      BY <3>1, <3>2, <3>3
  <2> DEFINE v == [k \in 0..N |-> IF k = 0 THEN AllStart ELSE Further[w[k - 1]]]
  <2>2. w = v
    BY <2>1
  <2> HIDE DEF w
  <2> QED
    BY <2>2 DEF Grown, AllStart
<1>5. w[N] = s
  <2>1. Upto(N) = L /\ N \in 0..N
    BY <1>1
  <2> QED
    BY <1>2, <2>1
<1> HIDE DEF w
<1>6. PICK f : Grown(f) /\ AllTasks = f[N]
  BY <1>4, AllGrown
<1>7. \A k \in 0..N : f[k] = w[k]
  <2> DEFINE T == {k \in 0..N : f[k] # w[k]}
  <2> SUFFICES ASSUME T # {} PROVE FALSE
    OBVIOUS
  <2>1. T \in SUBSET Nat
    OBVIOUS
  <2>2. PICK k \in T : \A y \in T : k <= y
    BY <2>1, LeastNumber
  <2>3. k \in 0..N /\ f[k] # w[k]
    OBVIOUS
  <2>4. /\ f[k] = IF k = 0 THEN AllStart ELSE Further[f[k - 1]]
        /\ w[k] = IF k = 0 THEN AllStart ELSE Further[w[k - 1]]
    <3>1. f = [y \in 0..N |-> IF y = 0 THEN AllStart ELSE Further[f[y - 1]]]
      BY <1>6 DEF Grown, AllStart
    <3>2. w = [y \in 0..N |-> IF y = 0 THEN AllStart ELSE Further[w[y - 1]]]
      BY <1>4 DEF Grown, AllStart
    <3>3. \A y \in 0..N : f[y] = IF y = 0 THEN AllStart ELSE Further[f[y - 1]]
      BY <3>1, Zenon
    <3>4. \A y \in 0..N : w[y] = IF y = 0 THEN AllStart ELSE Further[w[y - 1]]
      BY <3>2, Zenon
    <3> QED
      BY <2>3, <3>3, <3>4
  <2>5. k # 0
    BY <2>3, <2>4
  <2>6. k - 1 \in 0..N /\ k - 1 < k
    BY <1>1, <2>3, <2>5
  <2>7. f[k - 1] = w[k - 1]
    BY <1>1, <2>2, <2>6
  <2> QED
    BY <2>3, <2>4, <2>7
<1>8. N \in 0..N
  BY <1>1
<1> QED
  BY <1>5, <1>6, <1>7, <1>8

-----------------------------------------------------------------------------
(***************************************************************************)
(* What the invariant says in the terms of Schedular.                      *)
(***************************************************************************)

\* The elements of a sequence, and whether they differ.
LEMMA InSet ==
  ASSUME NEW S, NEW q \in Seq(S)
  PROVE  /\ \A x : x \in ToSet(q) <=> In(q, x)
         /\ IsInjective(q) <=> \A i, j \in 1..Len(q) : q[i] = q[j] => i = j
<1>1. DOMAIN q = 1..Len(q)
  BY LenProperties
<1> QED
  BY <1>1 DEF ToSet, In, IsInjective

\* A call that is under way.
LEMMA DoingIs ==
  ASSUME Typed, NEW op, NEW t
  PROVE  Doing(op, t) <=> On(op, t)
<1>1. calls \in Seq(FrameSet)
  BY DEF Typed
<1>2. \A x : x \in ToSet(calls) <=> In(calls, x)
  BY <1>1, InSet
<1>3. \A i \in 1..Len(calls) : calls[i] \in FrameSet
  BY <1>1, ElementOfSeq
<1>4. \A f \in FrameSet : f = Frame(op, t) <=> f.op = op /\ f.task = t
  BY DEF FrameSet, Frame
<1> QED
  BY <1>2, <1>3, <1>4 DEF Doing, On, OnIn, In

\* At most one thread is about to push a task.
LEMMA WakingCount ==
  ASSUME Marked, NEW t \in Tasks
  PROVE  Cardinality({th \in Threads : thread[th].job = t /\ thread[th].pc # "link"})
           = One(Waking(t))
<1> DEFINE W == {th \in Threads : thread[th].job = t /\ thread[th].pc # "link"}
<1>1. CASE Waking(t)
  <2>1. PICK u \in Threads : thread[u].job = t /\ thread[u].pc # "link"
    BY <1>1 DEF Waking
  <2>2. t # Null
    BY SchedularAssumption
  <2>3. \A th \in W : th = u
    BY <2>1, <2>2 DEF Marked
  <2>4. W = {u}
    BY <2>1, <2>3
  <2>5. Cardinality({u}) = 1
    BY FS_Singleton
  <2> QED
    BY <1>1, <2>4, <2>5 DEF One
<1>2. CASE ~Waking(t)
  <2>1. W = {}
    BY <1>2 DEF Waking
  <2> QED
    BY <1>2, <2>1, FS_EmptySet DEF One
<1> QED
  BY <1>1, <1>2

\* The invariant counts the owners of a task, and the queue as one of them even when it
\* was dropped with the task in it.
LEMMA OwnersAre ==
  ASSUME Typed, NEW s \in Seq(Tasks), InvAt(s), NEW t \in Tasks
  PROVE  OwnersIn(s, t) = Owners(t) + One(LeftInQueue(t)) /\ Owners(t) \in Nat
<1>1. AllTasks = s
  BY AllTasksIs DEF InvAt, Core
<1>2. t \in ToSet(AllTasks) <=> In(s, t)
  BY <1>1, InSet
<1>3. t \in ToSet(fifo) <=> In(fifo, t)
  BY InSet DEF Typed
<1>4. (task[t].token # Null \/ Doing("token", t) \/ Doing("requeue", t)) <=> TokenOut(t)
  BY DoingIs DEF TokenOut
<1>5. Doing("waker", t) <=> On("waker", t)
  BY DoingIs
<1>6. Cardinality({th \in Threads : thread[th].job = t /\ thread[th].pc # "link"})
        = One(Waking(t))
  BY WakingCount DEF InvAt
<1>7. One(In(fifo, t)) = One(QueueLives /\ t \in ToSet(fifo)) + One(LeftInQueue(t))
  BY <1>3 DEF One, LeftInQueue
<1>8. PICK q \in Nat, l \in Nat :
        q = One(QueueLives /\ t \in ToSet(fifo)) /\ l = One(LeftInQueue(t))
  BY DEF One
<1>9. PICK a \in Nat : a = One(In(s, t)) /\ a = One(t \in ToSet(AllTasks))
  BY <1>2 DEF One
<1>10. PICK b \in Nat :
         /\ b = One(TokenOut(t))
         /\ b = One(task[t].token # Null \/ Doing("token", t) \/ Doing("requeue", t))
  BY <1>4 DEF One
<1>11. PICK w \in Nat : w = task[t].wakers
  BY OwnersNumber
<1>12. PICK g \in Nat : g = One(Waking(t))
  BY DEF One
<1>13. PICK k \in Nat : k = One(On("waker", t)) /\ k = One(Doing("waker", t))
  BY <1>5 DEF One
<1>14. Owners(t) = a + q + b + w + g + k
  BY <1>6, <1>8, <1>9, <1>10, <1>11, <1>12, <1>13 DEF Owners
<1>15. OwnersIn(s, t) = a + (q + l) + b + w + g + k
  BY <1>7, <1>8, <1>9, <1>10, <1>11, <1>12, <1>13 DEF OwnersIn
<1>16. OwnersIn(s, t) = Owners(t) + l /\ Owners(t) \in Nat
  BY <1>14, <1>15
<1> QED
  BY <1>8, <1>16

\* The future of a task exists no longer than the task is in the list.
LEMMA FutureInList ==
  ASSUME NEW s, Core(s), NEW t \in Tasks, FutureLeft(t), task \in [Tasks -> TaskRecords]
  PROVE  In(s, t)
<1>1. task[t].done \in {"Running", "Cancelled", "Done"} /\ task[t].dropped = 0
  BY DEF FutureLeft, TaskRecords
<1>2. task[t].done = "Done" => On("detach", t)
  BY <1>1 DEF Core, CallsTell
<1> QED
  BY <1>1, <1>2 DEF Core, Listed

LEMMA InvGivesTypes == SchedInv => SchedTypeOK
<1> SUFFICES ASSUME SchedInv PROVE SchedTypeOK
  OBVIOUS
<1>1. PICK s \in Seq(Tasks) : InvAt(s)
  BY DEF SchedInv
<1>2. Len(s) \in 0..Cardinality(Tasks)
  BY <1>1, ListFits DEF InvAt, Core, IsList
<1>3. list.len = Len(s)
  BY <1>1 DEF InvAt, Core, IsList
<1>4. list \in [next : Tasks \cup {Null}, prev : Tasks \cup {Null}, len : 0..Cardinality(Tasks)]
  BY <1>2, <1>3 DEF SchedInv, Typed
<1> QED
  BY <1>4 DEF SchedInv, Typed, SchedTypeOK, FrameSet

LEMMA InvGivesCounts == SchedInv => CountCoversOwners /\ CountExact
<1> SUFFICES ASSUME SchedInv PROVE CountCoversOwners /\ CountExact
  OBVIOUS
<1>1. PICK s \in Seq(Tasks) : InvAt(s)
  BY DEF SchedInv
<1>2. ASSUME NEW t \in Tasks
      PROVE  /\ task[t].count >= Owners(t) /\ task[t].count - Owners(t) \in 0..1
             /\ \/ task[t].count = Owners(t) \/ LeftInQueue(t)
                \/ task[t].cancelled /\ t \notin ToSet(fifo)
  <2>1. OwnersIn(s, t) = Owners(t) + One(LeftInQueue(t)) /\ Owners(t) \in Nat
    BY <1>1, OwnersAre DEF SchedInv
  <2>2. /\ task[t].count >= OwnersIn(s, t) /\ task[t].count <= OwnersIn(s, t) + 1
        /\ ~Skipped(t) => task[t].count = OwnersIn(s, t)
    BY <1>1 DEF InvAt, Counted
  <2>3. t \in ToSet(fifo) <=> In(fifo, t)
    BY InSet DEF SchedInv, Typed
  <2>4. task[t].count \in Nat
    BY OwnersNumber DEF SchedInv
  <2>5. CASE LeftInQueue(t)
    <3>1. ~Skipped(t)
      BY <2>3, <2>5 DEF Skipped, LeftInQueue
    <3>2. task[t].count = Owners(t) + 1
      BY <2>1, <2>2, <2>5, <3>1 DEF One
    <3> QED
      BY <2>1, <2>4, <2>5, <3>2
  <2>6. CASE ~LeftInQueue(t)
    <3>1. OwnersIn(s, t) = Owners(t)
      BY <2>1, <2>6 DEF One
    <3>2. Skipped(t) => task[t].cancelled /\ t \notin ToSet(fifo)
      BY <2>3 DEF Skipped
    <3>3. task[t].count = Owners(t) \/ task[t].count = Owners(t) + 1
      BY <2>1, <2>2, <2>4, <3>1
    <3> QED
      BY <2>1, <2>2, <2>4, <3>1, <3>2, <3>3
  <2> QED
    BY <2>5, <2>6
<1> QED
  BY <1>2 DEF CountCoversOwners, CountExact

LEMMA InvGivesList == SchedInv => ListSound
<1> SUFFICES ASSUME SchedInv PROVE ListSound
  OBVIOUS
<1>1. PICK s \in Seq(Tasks) : InvAt(s)
  BY DEF SchedInv
<1>2. IsList(s) /\ Listed(s)
  BY <1>1 DEF InvAt, Core
<1>3. AllTasks = s
  BY <1>2, AllTasksIs
<1>4. IsInjective(s) /\ \A t : t \in ToSet(s) <=> In(s, t)
  BY <1>2, InSet DEF IsList
<1>5. \A t \in Tasks : Doing("detach", t) <=> On("detach", t)
  BY DoingIs DEF SchedInv
<1>6. s = <<>> <=> Len(s) = 0
  BY EmptySeq
<1>7. Last(s) = s[Len(s)]
  BY DEF Last
<1>8. list.prev = IF s = <<>> THEN Null ELSE Last(s)
  BY <1>2, <1>6, <1>7 DEF IsList
<1>9. \A i \in 1..Len(s) : task[s[i]].prev = IF i = 1 THEN Null ELSE s[i - 1]
  BY <1>2 DEF IsList
<1>10. \A t \in Tasks : t \in ToSet(s) <=>
         task[t].done \in {"Running", "Cancelled"} \/ Doing("detach", t)
  BY <1>2, <1>4, <1>5 DEF Listed
<1>11. list.len = Len(s)
  BY <1>2 DEF IsList
<1> QED
  BY <1>3, <1>4, <1>8, <1>9, <1>10, <1>11 DEF ListSound

LEMMA InvGivesFutures == SchedInv => FutureDroppedOnce
<1> SUFFICES ASSUME SchedInv PROVE FutureDroppedOnce
  OBVIOUS
<1>1. PICK s \in Seq(Tasks) : InvAt(s)
  BY DEF SchedInv
<1>2. Typed
  BY DEF SchedInv
<1>3. ASSUME NEW t \in Tasks
      PROVE  /\ task[t].dropped <= 1
             /\ FutureLeft(t) => task[t].count > 0
             /\ Running("drive", t) => FutureLeft(t)
  <2>1. task[t].dropped <= 1
    BY <1>1 DEF InvAt, TasksTell
  <2>2. ASSUME FutureLeft(t) PROVE task[t].count > 0
    <3>1. In(s, t)
      BY <1>1, <1>2, <2>2, FutureInList DEF InvAt, Typed
    <3>2. task[t].count >= 1 /\ task[t].count \in Nat
      BY <1>1, <1>2, <3>1, OwnedCount, OwnersNumber DEF InvAt
    <3> QED
      BY <3>2
  <2>3. ASSUME Running("drive", t) PROVE FutureLeft(t)
    <3>1. task[t].done = "Running"
      BY <1>1, <1>2, <2>3, DriveTop DEF InvAt
    <3> QED
      BY <1>1, <3>1 DEF InvAt, TasksTell, FutureLeft
  <2> QED
    BY <2>1, <2>2, <2>3
<1> QED
  BY <1>3 DEF FutureDroppedOnce

LEMMA InvGivesHolder == SchedInv => HolderAlive
<1> SUFFICES ASSUME SchedInv, NEW t \in Tasks, Running("drive", t)
             PROVE  \/ task[t].token = Outside
                    \/ task[t].token \in Tasks /\ task[task[t].token].done = "Running"
  BY DEF HolderAlive
<1>1. PICK s \in Seq(Tasks) : InvAt(s)
  BY DEF SchedInv
<1>2. Typed
  BY DEF SchedInv
<1>3. /\ \A op \in TaskOps : \A x : On(op, x) <=> op \in {"drive", "waker"} /\ x = t
      /\ task[t].done = "Running"
  BY <1>1, <1>2, DriveTop DEF InvAt
<1>4. "token" \in TaskOps /\ "future" \in TaskOps
  BY DEF TaskOps
<1>5. \A x : ~On("token", x) /\ ~On("future", x)
  BY <1>3, <1>4
<1> QED
  BY <1>1, <1>3, <1>5 DEF InvAt, Core, HolderKnown

LEMMA InvGivesMarks == SchedInv => QueuedIsMarked
<1> SUFFICES ASSUME SchedInv PROVE QueuedIsMarked
  OBVIOUS
<1>1. Marked /\ fifo \in Seq(Tasks)
  BY DEF SchedInv, InvAt, Typed
<1>2. IsInjective(fifo) /\ \A t : t \in ToSet(fifo) <=> In(fifo, t)
  BY <1>1, InSet DEF Marked
<1> QED
  BY <1>1, <1>2 DEF Marked, In, QueuedIsMarked

LEMMA InvGivesEnd == SchedInv => NoFutureLeft
<1> SUFFICES ASSUME SchedInv, ~live, NEW t \in Tasks, FutureLeft(t) PROVE FALSE
  BY DEF NoFutureLeft
<1>1. PICK s \in Seq(Tasks) : InvAt(s)
  BY DEF SchedInv
<1>2. In(s, t)
  BY <1>1, FutureInList DEF SchedInv, InvAt, Typed
<1>3. Len(s) = 0
  BY <1>1 DEF InvAt, Core, EmptyAtEnd
<1> QED
  BY <1>2, <1>3 DEF In

\* The fields of the Schedular and of its tasks have their types, and len counts no more
\* tasks than there are.
THEOREM SchedTypeCorrect == SchedSpec => []SchedTypeOK
BY SchedInvariant, InvGivesTypes, PTL

\* The count of a task, which push_cancellable, poll, clear, CancelToken::drop and the
\* wakers keep by hand, is at least the number of those who can still reach the task: no
\* task is freed under them.
THEOREM CountCovers == SchedSpec => []CountCoversOwners
BY SchedInvariant, InvGivesCounts, PTL

\* The count of a task is that number, so the task is freed when the last of them lets go,
\* or one more: if poll took it out of the queue after it was cancelled, or if the queue was
\* dropped with the task in it.
THEOREM CountIsExact == SchedSpec => []CountExact
BY SchedInvariant, InvGivesCounts, PTL

\* push_task_to_all and pop_task_all keep one doubly linked list of the tasks that were
\* pushed and not detached, although pop_task_all drops futures, and with them tokens, in
\* the middle of its work.
THEOREM ListIsSound == SchedSpec => []ListSound
BY SchedInvariant, InvGivesList, PTL

\* The future of a task is dropped at most once, before the task can be freed, and is
\* there when poll drives the task.
THEOREM FutureIsDroppedOnce == SchedSpec => []FutureDroppedOnce
BY SchedInvariant, InvGivesFutures, PTL

\* poll drives a task only while the future that holds the token of the task, and with it
\* the place for the result, is there.
THEOREM HolderIsAlive == SchedSpec => []HolderAlive
BY SchedInvariant, InvGivesHolder, PTL

\* A task in the should_poll queue is marked as queued and is in it once: the assertion in
\* poll holds.
THEOREM QueuedAreMarked == SchedSpec => []QueuedIsMarked
BY SchedInvariant, InvGivesMarks, PTL

\* Once the Schedular is gone every future that was pushed has been dropped.
THEOREM NoFutureIsLeft == SchedSpec => []NoFutureLeft
BY SchedInvariant, InvGivesEnd, PTL
=============================================================================
