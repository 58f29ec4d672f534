-------------------------- MODULE TreeStackProofs --------------------------
(***************************************************************************)
(* Proofs about TreeStack, for any number of threads and tasks, on top of  *)
(* the invariant of Schedular.                                             *)
(***************************************************************************)
EXTENDS TreeStack, SchedularProofs

-----------------------------------------------------------------------------
(***************************************************************************)
(* The inductive invariant.                                                *)
(***************************************************************************)

TreeTyped ==
  /\ root \in [len : 0..MaxRoot, state : {"Base", "NewTask"}, busy : BOOLEAN]
  /\ scope \in [Tasks -> ScopeRecords]
  /\ runner \in {"none", "runner", "finish", "undefined"}
  /\ panicked \in BOOLEAN /\ work \in 0..MaxWork

\* What the calls under way say of the run.  The root is polled with an empty list unless
\* poll is to empty it first or the root has opened a scope; the root is cleared with an
\* empty list unless clear is to empty it later.
RunTells ==
  /\ runner # "none" => live
  /\ \A op \in {"loop", "root", "poll"} : On(op, Null) => runner \in {"runner", "finish"}
  /\ \A t \in Tasks : On("drive", t) => runner \in {"runner", "finish"}
  /\ \A op \in {"clear", "drain", "free", "rootClear"} : On(op, Null) => runner = "none"
  /\ On("root", Null) => root.len >= 2
  /\ On("root", Null) /\ ~root.busy /\ ~On("poll", Null) => list.next = Null
  /\ On("rootClear", Null) /\ ~On("clear", Null) => list.next = Null

\* What the state of a task says of its scope.
ScopesTell ==
  \A c \in Tasks :
    /\ task[c].token = Outside => 2 <= scope[c].level /\ scope[c].level <= root.len
    /\ task[c].token \in Tasks => task[task[c].token].dropped = 0
    /\ task[c].done = "Cancelled" => task[c].token = Null
    /\ scope[c].place = "full" => ~scope[c].asleep
    /\ task[c].done = "Running" /\ scope[c].place = "empty" /\ scope[c].asleep =>
         scope[c].notify # Null
    /\ runner # "none" /\ ~panicked =>
         /\ On("remove", c) => scope[c].place = "full" \/ task[c].done = "Cancelled"
         /\ task[c].token # Null /\ task[c].done = "Done" => scope[c].place = "full"

\* The tasks whose future has a waker of t.
Waiters(t) == {c \in Tasks : scope[c].notify = t}

\* The waker in the future of a task is one of those that are about.
WaitersCounted == \A t \in Tasks : Cardinality(Waiters(t)) <= task[t].wakers

TreeInv == SchedInv /\ TreeTyped /\ RunTells /\ ScopesTell /\ WaitersCounted

-----------------------------------------------------------------------------
(***************************************************************************)
(* Steps that leave the scopes and the run alone.                          *)
(***************************************************************************)

\* What is on in two parts of the calls.
LEMMA OnConcat ==
  ASSUME NEW p \in Seq(FrameSet), NEW c \in Seq(FrameSet), NEW op, NEW x
  PROVE  OnIn(p \o c, op, x) <=> OnIn(p, op, x) \/ OnIn(c, op, x)
<1>1. PICK k \in Nat, n \in Nat : k = Len(p) /\ n = Len(c)
  BY LenProperties
<1> DEFINE q == p \o c
<1>2. Len(q) = k + n /\ \A i \in 1..(k + n) : q[i] = IF i <= k THEN p[i] ELSE c[i - k]
  BY <1>1, ConcatProperties
<1> HIDE DEF q
<1>3. ASSUME OnIn(q, op, x) PROVE OnIn(p, op, x) \/ OnIn(c, op, x)
  <2>1. PICK i \in 1..(k + n) : q[i].op = op /\ q[i].task = x
    BY <1>2, <1>3 DEF OnIn
  <2>2. CASE i <= k
    <3>1. i \in 1..k /\ q[i] = p[i]
      BY <1>2, <2>2
    <3> QED
      BY <1>1, <2>1, <3>1 DEF OnIn
  <2>3. CASE ~(i <= k)
    <3>1. i - k \in 1..n /\ q[i] = c[i - k]
      BY <1>2, <2>3
    <3> QED
      BY <1>1, <2>1, <3>1 DEF OnIn
  <2> QED
    BY <2>2, <2>3
<1>4. ASSUME OnIn(p, op, x) PROVE OnIn(q, op, x)
  <2>1. PICK i \in 1..k : p[i].op = op /\ p[i].task = x
    BY <1>1, <1>4 DEF OnIn
  <2>2. i \in 1..(k + n) /\ q[i] = p[i]
    BY <1>2
  <2> QED
    BY <1>2, <2>1, <2>2 DEF OnIn
<1>5. ASSUME OnIn(c, op, x) PROVE OnIn(q, op, x)
  <2>1. PICK i \in 1..n : c[i].op = op /\ c[i].task = x
    BY <1>1, <1>5 DEF OnIn
  <2>2. i + k \in 1..(k + n) /\ q[i + k] = c[(i + k) - k] /\ (i + k) - k = i
    BY <1>2
  <2> QED
    BY <1>2, <2>1, <2>2 DEF OnIn
<1> QED
  BY <1>3, <1>4, <1>5 DEF q

\* The calls p are the ones in ops, all of them on the task t.
AreOn(p, ops, t) ==
  /\ p \in Seq(FrameSet)
  /\ \A op, x : OnIn(p, op, x) <=> op \in ops /\ x = t

LEMMA FramesOn ==
  ASSUME NEW t
  PROVE  /\ AreOn(<<>>, {}, t)
         /\ \A a \in Ops \cup TreeOps : t \in Tasks \cup {Null} => AreOn(<<Frame(a, t)>>, {a}, t)
         /\ \A a, b \in Ops \cup TreeOps : t \in Tasks \cup {Null} =>
              AreOn(<<Frame(a, t), Frame(b, t)>>, {a, b}, t)
<1>1. PICK e \in Seq(FrameSet) : e = <<>> /\ \A op, x : ~OnIn(e, op, x)
  <2>1. <<>> \in Seq(FrameSet)
    OBVIOUS
  <2> QED
    BY <2>1, NoCalls, Zenon
<1>2. AreOn(<<>>, {}, t)
  BY <1>1 DEF AreOn
<1>3. ASSUME NEW a \in Ops \cup TreeOps, t \in Tasks \cup {Null}
      PROVE  AreOn(<<Frame(a, t)>>, {a}, t)
  <2>1. PICK f \in FrameSet : f = Frame(a, t) /\ f.op = a /\ f.task = t
    BY <1>3, FrameFacts
  <2>2. <<f>> = Cons(f, e) /\ Cons(f, e) \in Seq(FrameSet)
    BY <1>1, ConcatIs, ConsFacts
  <2>3. \A op, x : OnIn(Cons(f, e), op, x) <=> f.op = op /\ f.task = x
    BY <1>1, OnCons
  <2> QED
    BY <2>1, <2>2, <2>3 DEF AreOn
<1>4. ASSUME NEW a \in Ops \cup TreeOps, NEW b \in Ops \cup TreeOps, t \in Tasks \cup {Null}
      PROVE  AreOn(<<Frame(a, t), Frame(b, t)>>, {a, b}, t)
  <2>1. PICK f \in FrameSet : f = Frame(a, t) /\ f.op = a /\ f.task = t
    BY <1>4, FrameFacts
  <2>2. PICK g \in FrameSet : g = Frame(b, t) /\ g.op = b /\ g.task = t
    BY <1>4, FrameFacts
  <2>3. PICK d \in Seq(FrameSet) : d = Cons(g, e)
    BY <1>1, ConsFacts
  <2>4. <<f, g>> = Cons(f, d) /\ Cons(f, d) \in Seq(FrameSet)
    BY <1>1, <2>3, ConcatIs, ConsFacts
  <2>5. \A op, x : OnIn(d, op, x) <=> g.op = op /\ g.task = x
    BY <1>1, <2>3, OnCons
  <2>6. \A op, x : OnIn(Cons(f, d), op, x) <=> (f.op = op /\ f.task = x) \/ OnIn(d, op, x)
    BY OnCons
  <2>7. \A op, x : OnIn(Cons(f, d), op, x) <=> op \in {a, b} /\ x = t
    BY <2>1, <2>2, <2>5, <2>6
  <2>8. <<Frame(a, t), Frame(b, t)>> = Cons(f, d)
    BY <2>1, <2>2, <2>4, Zenon
  <2>9. AreOn(Cons(f, d), {a, b}, t)
    BY <2>4, <2>7 DEF AreOn
  <2> QED
    BY <2>8, <2>9, Zenon
<1> QED
  BY <1>2, <1>3, <1>4

\* The call on top makes the calls p, or ends with them, or all calls end but for p.
Moves(p) == calls' = p \o calls \/ calls' = p \o Tail(calls) \/ calls' = p

LEMMA MovesOn ==
  ASSUME Typed, NEW o, NEW y, Running(o, y), NEW p, NEW ops \in SUBSET TaskOps, NEW t,
         AreOn(p, ops, t), Moves(p)
  PROVE  /\ \A op, x : On(op, x)' => On(op, x) \/ (op \in ops /\ x = t)
         /\ \A op \in BaseOps : \A x : On(op, x)' => On(op, x)
         /\ \A a \in BaseOps, b \in BaseOps :
              a # o /\ On(a, Null) /\ On(b, Null)' => On(a, Null)'
         /\ calls' = p \o calls => \A op, x : On(op, x) => On(op, x)'
         /\ calls' = p => \A op \in BaseOps : \A x : ~On(op, x)'
<1>1. /\ Frame(o, y) \in FrameSet /\ Frame(o, y).op = o /\ Frame(o, y).task = y
      /\ Tail(calls) \in Seq(FrameSet) /\ calls = Cons(Frame(o, y), Tail(calls))
      /\ calls \in Seq(FrameSet)
  BY RunningIs DEF Typed
<1>2. PICK f \in FrameSet, r \in Seq(FrameSet) :
        f.op = o /\ f.task = y /\ r = Tail(calls) /\ calls = Cons(f, r)
  BY <1>1, Zenon
<1>3. \A op, x : On(op, x) <=> (o = op /\ y = x) \/ OnIn(r, op, x)
  <2>1. \A op, x : OnIn(Cons(f, r), op, x) <=> (f.op = op /\ f.task = x) \/ OnIn(r, op, x)
    BY OnCons
  <2> QED
    BY <1>2, <2>1 DEF On
<1>4. \A op \in BaseOps : op \notin ops
  BY DEF BaseOps, TreeOps, TaskOps
<1>5. p \in Seq(FrameSet) /\ \A op, x : OnIn(p, op, x) <=> op \in ops /\ x = t
  BY DEF AreOn
<1>6. CASE calls' = p \o calls
  <2>1. \A op, x : On(op, x)' <=> OnIn(p, op, x) \/ On(op, x)
    BY <1>1, <1>5, <1>6, OnNext, OnConcat DEF On
  <2>2. calls' = p => \A op \in BaseOps : \A x : ~On(op, x)'
    BY <1>4, <1>5, OnNext
  <2> QED
    BY <1>4, <1>5, <2>1, <2>2
<1>7. CASE calls' = p \o Tail(calls)
  <2>1. \A op, x : On(op, x)' <=> OnIn(p, op, x) \/ OnIn(r, op, x)
    BY <1>2, <1>5, <1>7, OnNext, OnConcat
  <2>2. calls' = p => \A op \in BaseOps : \A x : ~On(op, x)'
    BY <1>4, <1>5, OnNext
  <2>3. calls' = p \o calls => \A op, x : On(op, x) => On(op, x)'
    BY <1>1, <1>5, OnNext, OnConcat DEF On
  <2> QED
    BY <1>3, <1>4, <1>5, <2>1, <2>2, <2>3
<1>8. CASE calls' = p
  <2>1. \A op, x : On(op, x)' <=> OnIn(p, op, x)
    BY <1>8, OnNext
  <2>2. calls' = p \o calls => \A op, x : On(op, x) => On(op, x)'
    BY <1>1, <1>5, OnNext, OnConcat DEF On
  <2> QED
    BY <1>3, <1>4, <1>5, <2>1, <2>2
<1> QED
  BY <1>6, <1>7, <1>8 DEF Moves

\* What a step may do to the calls and the list without the run being told: no call of the
\* run begins, poll and clear end only with an empty list, and nothing is pushed.
CallsQuiet ==
  /\ \A op \in BaseOps : On(op, Null)' => On(op, Null)
  /\ \A x \in Tasks : On("drive", x)' => On("drive", x) \/ On("poll", Null)
  /\ On("poll", Null) /\ On("root", Null)' => On("poll", Null)' \/ list'.next = Null
  /\ On("clear", Null) /\ On("rootClear", Null)' => On("clear", Null)' \/ list'.next = Null
  /\ list.next = Null => list'.next = Null
  /\ live /\ ~live' => On("free", Null)

\* Why pop_task_all is called: the result is there, the task is cancelled, there was a
\* panic, or everything is cleared.
MayRemove(c) ==
  \/ On("remove", c) /\ task'[c].done = task[c].done
  \/ task'[c].done = "Cancelled" \/ runner = "none" \/ scope[c].place = "full" \/ panicked'

\* What it may do to the tasks.
TasksQuiet ==
  \A c \in Tasks :
    /\ task'[c].token \in {task[c].token, Null}
    /\ task[c].dropped = 0 /\ task'[c].dropped # 0 => \A d \in Tasks : task[d].token # c
    /\ task'[c].done = "Cancelled" => task[c].done = "Cancelled" \/ task'[c].token = Null
    /\ task'[c].done = "Running" => task[c].done = "Running"
    /\ task'[c].done = "Done" => task[c].done = "Done" \/ On("remove", c)
    /\ On("remove", c)' => MayRemove(c)

WakersStay == \A t \in Tasks : task'[t].wakers >= task[t].wakers

LEMMA RunQuiet ==
  ASSUME RunTells, CallsQuiet, UNCHANGED <<root, runner>>
  PROVE  RunTells'
<1>1. \A op \in {"loop", "root", "poll", "clear", "drain", "free", "rootClear"} :
        On(op, Null)' => On(op, Null)
  BY DEF CallsQuiet, BaseOps, TreeOps
<1>2. runner # "none" => live'
  <2>1. "free" \in {"clear", "drain", "free", "rootClear"}
    OBVIOUS
  <2> QED
    BY <2>1 DEF RunTells, CallsQuiet
<1>3. \A op \in {"loop", "root", "poll"} : On(op, Null)' => runner \in {"runner", "finish"}
  BY <1>1 DEF RunTells
<1>4. \A t \in Tasks : On("drive", t)' => runner \in {"runner", "finish"}
  BY DEF RunTells, CallsQuiet
<1>5. \A op \in {"clear", "drain", "free", "rootClear"} : On(op, Null)' => runner = "none"
  BY <1>1 DEF RunTells
<1>6. On("root", Null)' => root.len >= 2
  BY <1>1 DEF RunTells
<1>7. On("root", Null)' /\ ~root.busy /\ ~On("poll", Null)' => list'.next = Null
  BY <1>1 DEF RunTells, CallsQuiet
<1>8. On("rootClear", Null)' /\ ~On("clear", Null)' => list'.next = Null
  BY <1>1 DEF RunTells, CallsQuiet
<1> QED
  BY <1>2, <1>3, <1>4, <1>5, <1>6, <1>7, <1>8 DEF RunTells

LEMMA ScopesQuiet ==
  ASSUME Typed, Typed', NEW s, InvAt(s), TasksQuiet, ScopesTell, UNCHANGED <<root, scope, runner>>,
         panicked => panicked'
  PROVE  ScopesTell'
<1> SUFFICES ASSUME NEW c \in Tasks
             PROVE  (/\ task[c].token = Outside => 2 <= scope[c].level /\ scope[c].level <= root.len
                     /\ task[c].token \in Tasks => task[task[c].token].dropped = 0
                     /\ task[c].done = "Cancelled" => task[c].token = Null
                     /\ scope[c].place = "full" => ~scope[c].asleep
                     /\ task[c].done = "Running" /\ scope[c].place = "empty" /\ scope[c].asleep =>
                          scope[c].notify # Null
                     /\ runner # "none" /\ ~panicked =>
                          /\ On("remove", c) =>
                               scope[c].place = "full" \/ task[c].done = "Cancelled"
                          /\ task[c].token # Null /\ task[c].done = "Done" =>
                               scope[c].place = "full")'
  BY DEF ScopesTell
<1>1. task'[c].token = task[c].token \/ task'[c].token = Null
  BY DEF TasksQuiet
<1>2. Null # Outside /\ Null \notin Tasks
  BY SchedularAssumption
<1>3. task'[c].token = Outside => 2 <= scope[c].level /\ scope[c].level <= root.len
  BY <1>1, <1>2 DEF ScopesTell
<1>4. task'[c].token \in Tasks => task'[task'[c].token].dropped = 0
  <2>1. SUFFICES ASSUME NEW h \in Tasks, task'[c].token = h PROVE task'[h].dropped = 0
    OBVIOUS
  <2>2. task[c].token = h /\ task[h].dropped = 0
    BY <1>1, <1>2, <2>1 DEF ScopesTell
  <2> QED
    BY <2>2 DEF TasksQuiet
<1>5. task'[c].done = "Cancelled" => task'[c].token = Null
  BY <1>1 DEF TasksQuiet, ScopesTell
<1>6. task'[c].done = "Running" /\ scope[c].place = "empty" /\ scope[c].asleep =>
        scope[c].notify # Null
  BY DEF TasksQuiet, ScopesTell
<1>7. ASSUME runner # "none", ~panicked', On("remove", c)'
      PROVE  scope[c].place = "full" \/ task'[c].done = "Cancelled"
  BY <1>7 DEF TasksQuiet, ScopesTell, MayRemove
<1>8. ASSUME runner # "none", ~panicked', task'[c].token # Null, task'[c].done = "Done"
      PROVE  scope[c].place = "full"
  <2>1. task[c].token # Null /\ ~panicked
    BY <1>1, <1>8
  <2>2. task[c].done = "Done" \/ On("remove", c)
    BY <1>8 DEF TasksQuiet
  <2>3. task[c].done # "Cancelled"
    BY <2>1 DEF ScopesTell
  <2> QED
    BY <1>8, <2>1, <2>2, <2>3 DEF ScopesTell
<1>9. scope[c].place = "full" => ~scope[c].asleep
  BY DEF ScopesTell
<1> QED
  BY <1>3, <1>4, <1>5, <1>6, <1>7, <1>8, <1>9

LEMMA WaitersQuiet ==
  ASSUME Typed, Typed', TreeTyped, WaitersCounted, WakersStay, UNCHANGED scope
  PROVE  WaitersCounted'
<1> SUFFICES ASSUME NEW t \in Tasks
             PROVE  Cardinality(Waiters(t)') <= task'[t].wakers
  BY DEF WaitersCounted
<1>1. Waiters(t)' = Waiters(t)
  BY DEF Waiters
<1>2. IsFiniteSet(Waiters(t))
  BY SchedularAssumption, FS_Subset DEF Waiters
<1>3. Cardinality(Waiters(t)) \in Nat
  BY <1>2, FS_CardinalityType
<1>4. task[t].wakers \in Nat /\ task'[t].wakers \in Nat
  BY DEF Typed, TaskRecords
<1>5. task'[t].wakers >= task[t].wakers /\ Cardinality(Waiters(t)) <= task[t].wakers
  BY DEF WakersStay, WaitersCounted
<1> QED
  BY <1>1, <1>3, <1>4, <1>5

\* A step that only marks the task or changes its count.
Kept(x) ==
  /\ task'[x].done = task[x].done /\ task'[x].token = task[x].token
  /\ task'[x].dropped = task[x].dropped /\ task'[x].wakers = task[x].wakers

LEMMA KeptQuiet ==
  ASSUME Typed, \A x \in Tasks : Kept(x), \A c \in Tasks : On("remove", c)' => MayRemove(c)
  PROVE  TasksQuiet /\ WakersStay
<1>1. \A x \in Tasks : task[x].wakers \in Nat
  BY DEF Typed, TaskRecords
<1> QED
  BY <1>1 DEF Kept, TasksQuiet, WakersStay

LEMMA SameKept ==
  ASSUME Typed, UNCHANGED task
  PROVE  \A x \in Tasks : Kept(x)
BY DEF Kept

LEMMA DecrKept ==
  ASSUME Typed, NEW t \in Tasks, task' = decr_task(task, t)
  PROVE  \A x \in Tasks : Kept(x)
<1>1. PICK q \in TaskRecords : q = task[t]
  BY DEF Typed
<1>2. PICK n : n = [q EXCEPT !.count = q.count - 1]
  OBVIOUS
<1>3. /\ n.wakers = q.wakers /\ n.done = q.done /\ n.dropped = q.dropped /\ n.token = q.token
  BY <1>2 DEF TaskRecords
<1>4. task \in [Tasks -> TaskRecords]
  BY DEF Typed
<1>5. task' = [task EXCEPT ![t] = n]
  BY <1>1, <1>2 DEF decr_task
<1>6. task'[t] = n /\ \A x \in Tasks : x # t => task'[x] = task[x]
  BY <1>4, <1>5
<1> QED
  BY <1>1, <1>3, <1>6 DEF Kept

LEMMA MarkKept ==
  ASSUME Typed, NEW t \in Tasks,
         \/ task' = [task EXCEPT ![t].queued = TRUE]
         \/ task' = decr_task([task EXCEPT ![t].queued = TRUE], t)
  PROVE  \A x \in Tasks : Kept(x)
<1>1. PICK q \in TaskRecords : q = task[t]
  BY DEF Typed
<1>2. PICK m : m = [q EXCEPT !.queued = TRUE]
  OBVIOUS
<1>3. PICK n : n = [m EXCEPT !.count = m.count - 1]
  OBVIOUS
<1>4. m \in TaskRecords
  BY <1>2 DEF TaskRecords
<1>5. m.wakers = q.wakers /\ m.done = q.done /\ m.dropped = q.dropped /\ m.token = q.token
  BY <1>2 DEF TaskRecords
<1>6. n.wakers = m.wakers /\ n.done = m.done /\ n.dropped = m.dropped /\ n.token = m.token
  BY <1>3, <1>4 DEF TaskRecords
<1>7. task \in [Tasks -> TaskRecords]
  BY DEF Typed
<1>8. PICK ts : ts = [task EXCEPT ![t] = m]
  OBVIOUS
<1>9. ts[t] = m /\ DOMAIN ts = Tasks /\ \A x \in Tasks : x # t => ts[x] = task[x]
  BY <1>7, <1>8
<1>10. task' = ts \/ task' = [ts EXCEPT ![t] = n]
  <2>1. CASE task' = [task EXCEPT ![t].queued = TRUE]
    BY <1>1, <1>2, <1>8, <2>1
  <2>2. CASE task' = decr_task([task EXCEPT ![t].queued = TRUE], t)
    <3>1. [task EXCEPT ![t].queued = TRUE] = ts
      BY <1>1, <1>2, <1>8
    <3>2. task' = decr_task(ts, t)
      BY <2>2, <3>1
    <3> QED
      BY <1>3, <1>9, <3>2 DEF decr_task
  <2> QED
    BY <2>1, <2>2
<1>11. \A x \in Tasks : x # t => task'[x] = task[x]
  BY <1>9, <1>10
<1>12. task'[t] = m \/ task'[t] = n
  BY <1>9, <1>10
<1> QED
  BY <1>1, <1>5, <1>6, <1>11, <1>12 DEF Kept

\* Steps of a call that neither ends poll or clear nor drives a task.
LEMMA StepQuiet ==
  ASSUME Typed, NEW o, NEW y, Running(o, y), NEW p, NEW ops \in SUBSET TaskOps, NEW t,
         AreOn(p, ops, t), Moves(p), "drive" \notin ops, o \notin {"poll", "clear"},
         list.next = Null => list'.next = Null, live /\ ~live' => On("free", Null)
  PROVE  CallsQuiet
<1>1. /\ \A op, x : On(op, x)' => On(op, x) \/ (op \in ops /\ x = t)
      /\ \A op \in BaseOps : \A x : On(op, x)' => On(op, x)
      /\ \A a \in BaseOps, b \in BaseOps :
           a # o /\ On(a, Null) /\ On(b, Null)' => On(a, Null)'
  BY MovesOn
<1>2. "poll" \in BaseOps /\ "clear" \in BaseOps /\ "root" \in BaseOps /\ "rootClear" \in BaseOps
  BY DEF BaseOps, TreeOps
<1> QED
  BY <1>1, <1>2 DEF CallsQuiet

\* Steps that end the list walk of clear or the loop of poll with an empty list, or poll
\* with all that called it.
LEMMA EndQuiet ==
  ASSUME Typed, NEW o \in BaseOps, Running(o, Null), UNCHANGED <<list, live>>,
         calls' = <<>> \/ (calls' = Tail(calls) /\ list.next = Null)
  PROVE  CallsQuiet /\ \A c : On("remove", c)' => On("remove", c)
<1>1. AreOn(<<>>, {}, Null) /\ {} \in SUBSET TaskOps
  BY FramesOn
<1>2. Tail(calls) \in Seq(FrameSet)
  BY RunningIs DEF Typed
<1>3. Moves(<<>>)
  BY <1>2, ConcatIs DEF Moves
<1>4. /\ \A op, x : On(op, x)' => On(op, x)
      /\ calls' = <<>> => \A op \in BaseOps : \A x : ~On(op, x)'
  <2>1. /\ \A op, x : On(op, x)' => On(op, x) \/ (op \in {} /\ x = Null)
        /\ calls' = <<>> => \A op \in BaseOps : \A x : ~On(op, x)'
    BY <1>1, <1>3, MovesOn
  <2> QED
    BY <2>1
<1>5. "poll" \in BaseOps /\ "clear" \in BaseOps /\ "root" \in BaseOps /\ "rootClear" \in BaseOps
  BY DEF BaseOps, TreeOps
<1> QED
  BY <1>4, <1>5 DEF CallsQuiet

\* Steps of poll and clear that make calls.
LEMMA CallQuiet ==
  ASSUME Typed, NEW o, NEW y, Running(o, y), NEW p, NEW ops \in SUBSET TaskOps, NEW t \in Tasks,
         AreOn(p, ops, t), calls' = p \o calls, UNCHANGED <<list, live>>,
         "drive" \in ops => On("poll", Null)
  PROVE  CallsQuiet
<1>1. /\ \A op, x : On(op, x)' => On(op, x) \/ (op \in ops /\ x = t)
      /\ \A op \in BaseOps : \A x : On(op, x)' => On(op, x)
      /\ \A op, x : On(op, x) => On(op, x)'
  BY MovesOn DEF Moves
<1> QED
  BY <1>1 DEF CallsQuiet

LEMMA SameQuiet ==
  ASSUME UNCHANGED <<calls, list, live>>
  PROVE  CallsQuiet /\ \A op, x : On(op, x)' => On(op, x)
<1>1. \A op, x : On(op, x)' <=> On(op, x)
  BY OnKept
<1> QED
  BY <1>1 DEF CallsQuiet

Quiet == CallsQuiet /\ TasksQuiet /\ WakersStay

LEMMA DropTokenQuiet ==
  ASSUME Typed, NEW o, NEW y, Running(o, y), NEW c \in Tasks, DropToken(c)
  PROVE  Quiet
<1>1. /\ task' = [task EXCEPT ![c].token = Null] /\ calls' = <<Frame("token", c)>> \o calls
      /\ UNCHANGED <<list, live>>
  BY DEF DropToken, Calls, rest
<1>2. AreOn(<<Frame("token", c)>>, {"token"}, c) /\ {"token"} \in SUBSET TaskOps
  BY FramesOn DEF Ops, TaskOps
<1>3. CallsQuiet
  <2>1. "drive" \notin {"token"}
    OBVIOUS
  <2> QED
    BY <1>1, <1>2, <2>1, CallQuiet
<1>4. \A x : On("remove", x)' => On("remove", x)
  <2>1. \A op, x : On(op, x)' => On(op, x) \/ (op \in {"token"} /\ x = c)
    BY <1>1, <1>2, MovesOn DEF Moves
  <2> QED
    BY <2>1
<1>5. /\ \A x \in Tasks :
           /\ task'[x].wakers = task[x].wakers /\ task'[x].done = task[x].done
           /\ task'[x].dropped = task[x].dropped
           /\ x # c => task'[x].token = task[x].token
      /\ task'[c].token = Null
  BY <1>1, TokenTaken
<1>6. \A x \in Tasks : task[x].wakers \in Nat
  BY DEF Typed, TaskRecords
<1> QED
  BY <1>3, <1>4, <1>5, <1>6 DEF Quiet, TasksQuiet, WakersStay, MayRemove

LEMMA RemoveQuiet ==
  ASSUME Typed, NEW s, InvAt(s), NEW t \in Tasks, pop_task_all(t)
  PROVE  Quiet
<1>1. PICK b \in BOOLEAN : b = (task[t].done = "Running")
  OBVIOUS
<1>2. /\ Running("remove", t) /\ UNCHANGED <<list, live>>
      /\ task' = [task EXCEPT ![t].queued = TRUE, ![t].done = "Done"]
      /\ Become(IF b THEN <<Frame("future", t), Frame("detach", t)>> ELSE <<Frame("detach", t)>>)
  BY <1>1 DEF pop_task_all, RemoveTask, rest
<1>3. PICK p, ops : /\ ops \in SUBSET {"future", "detach"} /\ AreOn(p, ops, t)
                    /\ calls' = p \o Tail(calls)
  <2>1. AreOn(<<Frame("future", t), Frame("detach", t)>>, {"future", "detach"}, t)
    BY FramesOn DEF Ops
  <2>2. AreOn(<<Frame("detach", t)>>, {"detach"}, t)
    BY FramesOn DEF Ops
  <2>3. CASE b = TRUE
    <3>1. calls' = <<Frame("future", t), Frame("detach", t)>> \o Tail(calls)
      BY <1>2, <2>3 DEF Become
    <3>2. {"future", "detach"} \in SUBSET {"future", "detach"}
      OBVIOUS
    <3> QED
      BY <2>1, <3>1, <3>2, Zenon
  <2>4. CASE b = FALSE
    <3>1. calls' = <<Frame("detach", t)>> \o Tail(calls)
      BY <1>2, <2>4 DEF Become
    <3>2. {"detach"} \in SUBSET {"future", "detach"}
      OBVIOUS
    <3> QED
      BY <2>2, <3>1, <3>2, Zenon
  <2> QED
    BY <2>3, <2>4
<1>4. ops \in SUBSET TaskOps /\ "drive" \notin ops /\ "remove" \notin ops
  BY <1>3 DEF TaskOps
<1>5. Moves(p)
  BY <1>3 DEF Moves
<1>6. CallsQuiet
  <2>1. Running("remove", t) /\ (list.next = Null => list'.next = Null) /\ (live /\ ~live' => On("free", Null))
    BY <1>2
  <2> QED
    BY <1>3, <1>4, <1>5, <2>1, StepQuiet
<1>7. \A x : On("remove", x)' => On("remove", x)
  <2>1. \A op, x : On(op, x)' => On(op, x) \/ (op \in ops /\ x = t)
    BY <1>2, <1>3, <1>4, <1>5, MovesOn
  <2> QED
    BY <1>4, <2>1
<1>8. ~On("remove", t)'
  <2>1. PICK f, r : TopOf(s, f, r) /\ f.op = "remove" /\ f.task = t
    BY <1>2, TopFacts DEF InvAt
  <2>2. ~OnIn(r, "remove", t) /\ r \in Seq(FrameSet) /\ calls' = p \o r
    BY <1>3, <2>1, OnTopOnly DEF TopOf
  <2>3. On("remove", t)' <=> OnIn(p, "remove", t) \/ OnIn(r, "remove", t)
    BY <1>3, <2>2, OnNext, OnConcat DEF AreOn
  <2> QED
    BY <1>3, <1>4, <2>2, <2>3 DEF AreOn
<1>9. /\ \A x \in Tasks :
           /\ task'[x].wakers = task[x].wakers /\ task'[x].token = task[x].token
           /\ task'[x].dropped = task[x].dropped
           /\ x # t => task'[x].done = task[x].done
      /\ task'[t].done = "Done"
  BY <1>2, DoneTask
<1>10. On("remove", t)
  BY <1>2, RunningOn DEF Typed
<1>11. \A x \in Tasks : task[x].wakers \in Nat
  BY DEF Typed, TaskRecords
<1>12. TasksQuiet
  BY <1>7, <1>8, <1>9, <1>10 DEF TasksQuiet, MayRemove
<1> QED
  BY <1>6, <1>9, <1>11, <1>12 DEF Quiet, WakersStay

\* A call that ends.
LEMMA PopQuiet ==
  ASSUME Typed, NEW o \in TaskOps \cup {"drain", "free"}, NEW y, Running(o, y), Become(<<>>),
         list.next = Null => list'.next = Null, live /\ ~live' => On("free", Null)
  PROVE  CallsQuiet /\ \A op, x : On(op, x)' => On(op, x)
<1>1. AreOn(<<>>, {}, y) /\ {} \in SUBSET TaskOps /\ "drive" \notin {}
  BY FramesOn
<1>2. Moves(<<>>)
  BY DEF Moves, Become
<1>3. o \notin {"poll", "clear"}
  BY DEF TaskOps
<1>4. CallsQuiet
  BY <1>1, <1>2, <1>3, StepQuiet
<1>5. \A op, x : On(op, x)' => On(op, x) \/ (op \in {} /\ x = y)
  BY <1>1, <1>2, MovesOn
<1> QED
  BY <1>4, <1>5

LEMMA DropTaskQuiet ==
  ASSUME Typed, NEW s, InvAt(s), NEW t \in Tasks, drop_task(t)
  PROVE  Quiet
<1>1. /\ Running("future", t) /\ Held(t) = {} /\ task' = [task EXCEPT ![t].dropped = @ + 1]
      /\ Become(<<>>) /\ UNCHANGED <<list, live>>
  BY DEF drop_task, rest
<1>2. CallsQuiet /\ \A op, x : On(op, x)' => On(op, x)
  BY <1>1, PopQuiet DEF TaskOps
<1>3. task[t].dropped = 0
  <2>1. On("future", t)
    BY <1>1, RunningOn DEF Typed
  <2> QED
    BY <2>1 DEF InvAt, Core, CallsTell
<1>4. \A x \in Tasks :
        /\ task'[x].wakers = task[x].wakers /\ task'[x].token = task[x].token
        /\ task'[x].done = task[x].done
        /\ x # t => task'[x].dropped = task[x].dropped
  BY <1>1, <1>3, FutureGone
<1>5. \A x \in Tasks : task[x].wakers \in Nat
  BY DEF Typed, TaskRecords
<1>6. \A d \in Tasks : task[d].token # t
  BY <1>1 DEF Held
<1> QED
  BY <1>2, <1>4, <1>5, <1>6 DEF Quiet, TasksQuiet, WakersStay, MayRemove

LEMMA DetachQuiet ==
  ASSUME Typed, NEW s, InvAt(s), NEW t \in Tasks, Detach(t)
  PROVE  Quiet
<1>1. Running("detach", t) /\ Become(<<>>) /\ UNCHANGED live
  BY DEF Detach, rest
<1>2. In(s, t)
  <2>1. On("detach", t)
    BY <1>1, RunningOn DEF Typed
  <2> QED
    BY <2>1 DEF InvAt, Core, Listed
<1>3. Len(s) \in Nat /\ Len(s) # 0 /\ list.len = Len(s)
  <2>1. s \in Seq(Tasks) /\ list.len = Len(s)
    BY DEF InvAt, Core, IsList
  <2>2. Len(s) \in Nat
    BY <2>1, LenProperties
  <2> QED
    BY <1>2, <2>1, <2>2 DEF In
<1>4. list.next # Null
  BY <1>3, ListEmpty DEF InvAt
<1>5. CallsQuiet /\ \A op, x : On(op, x)' => On(op, x)
  BY <1>1, <1>4, PopQuiet DEF TaskOps
<1>6. task[t].count >= 1 /\ list.len >= 1
  BY <1>2, <1>3, OwnedCount DEF InvAt
<1>7. \A x \in Tasks : Kept(x)
  <2>1. \A x \in Tasks :
          /\ task'[x].wakers = task[x].wakers /\ task'[x].dropped = task[x].dropped
          /\ task'[x].token = task[x].token /\ task'[x].done = task[x].done
    BY <1>6, DetachTask
  <2> QED
    BY <2>1 DEF Kept
<1>8. \A c \in Tasks : On("remove", c)' => MayRemove(c)
  BY <1>5, <1>7 DEF MayRemove, Kept
<1> QED
  BY <1>5, <1>7, <1>8, KeptQuiet DEF Quiet

LEMMA CancelQuiet ==
  ASSUME Typed, NEW s, InvAt(s), NEW t \in Tasks, CancelToken_drop(t)
  PROVE  Quiet
<1>1. Running("token", t) /\ UNCHANGED <<list, live>>
  BY DEF CancelToken_drop, Cancel, rest
<1>2. On("token", t) /\ task[t].token = Null
  <2>1. On("token", t)
    BY <1>1, RunningOn DEF Typed
  <2> QED
    BY <2>1 DEF InvAt, Core, CallsTell
<1>3. CASE task' = decr_task(task, t) /\ Become(<<>>)
  <2>1. CallsQuiet /\ \A op, x : On(op, x)' => On(op, x)
    BY <1>1, <1>3, PopQuiet DEF TaskOps
  <2>2. \A x \in Tasks : Kept(x)
    BY <1>3, DecrKept
  <2>3. \A c \in Tasks : On("remove", c)' => MayRemove(c)
    BY <2>1, <2>2 DEF MayRemove, Kept
  <2> QED
    BY <2>1, <2>2, <2>3, KeptQuiet DEF Quiet
<1>4. CASE /\ task' = [task EXCEPT ![t].done = "Cancelled", ![t].cancelled = TRUE]
           /\ Become(<<Frame("future", t), Frame("requeue", t)>>)
  <2> DEFINE p == <<Frame("future", t), Frame("requeue", t)>>
             ops == {"future", "requeue"}
  <2>1. AreOn(p, ops, t) /\ ops \in SUBSET TaskOps /\ "drive" \notin ops /\ "remove" \notin ops
    BY FramesOn DEF Ops, TaskOps
  <2>2. Moves(p)
    BY <1>4 DEF Moves, Become
  <2>3. /\ \A x \in Tasks :
             /\ task'[x].wakers = task[x].wakers /\ task'[x].token = task[x].token
             /\ task'[x].dropped = task[x].dropped
             /\ x # t => task'[x].done = task[x].done
        /\ task'[t].done = "Cancelled"
    BY <1>4, CancelledTask
  <2> HIDE DEF p, ops
  <2>4. (list.next = Null => list'.next = Null) /\ (live /\ ~live' => On("free", Null))
    BY <1>1
  <2>5. CallsQuiet
    BY <1>1, <2>1, <2>2, <2>4, StepQuiet
  <2>6. \A x : On("remove", x)' => On("remove", x)
    <3>1. \A op, x : On(op, x)' => On(op, x) \/ (op \in ops /\ x = t)
      BY <1>1, <2>1, <2>2, MovesOn
    <3> QED
      BY <2>1, <3>1
  <2>7. \A x \in Tasks : task[x].wakers \in Nat
    BY DEF Typed, TaskRecords
  <2>8. TasksQuiet
    BY <1>2, <2>3, <2>6 DEF TasksQuiet, MayRemove
  <2> QED
    BY <2>3, <2>5, <2>7, <2>8 DEF Quiet, WakersStay
<1> QED
  BY <1>3, <1>4 DEF CancelToken_drop, Cancel

LEMMA RequeueQuiet ==
  ASSUME Typed, NEW t \in Tasks, Requeue(t)
  PROVE  Quiet
<1>1. Running("requeue", t) /\ Become(<<>>) /\ UNCHANGED <<list, live>>
  BY DEF Requeue, RequeueTaking
<1>2. \/ task' = [task EXCEPT ![t].queued = TRUE]
      \/ task' = decr_task([task EXCEPT ![t].queued = TRUE], t)
  BY Zenon DEF Requeue, RequeueTaking
<1>3. CallsQuiet /\ \A op, x : On(op, x)' => On(op, x)
  BY <1>1, PopQuiet DEF TaskOps
<1>4. \A x \in Tasks : Kept(x)
  BY <1>2, MarkKept
<1>5. \A c \in Tasks : On("remove", c)' => MayRemove(c)
  BY <1>3, <1>4 DEF MayRemove, Kept
<1> QED
  BY <1>3, <1>4, <1>5, KeptQuiet DEF Quiet

LEMMA PollTaskQuiet ==
  ASSUME Typed, NEW t \in Tasks, PollTask(t)
  PROVE  Quiet
<1>1. /\ Running("poll", Null) /\ task' = [task EXCEPT ![t].queued = FALSE]
      /\ calls' = <<Frame("drive", t), Frame("waker", t)>> \o calls /\ UNCHANGED <<list, live>>
  BY DEF PollTask, Popped, Calls
<1>2. /\ AreOn(<<Frame("drive", t), Frame("waker", t)>>, {"drive", "waker"}, t)
      /\ {"drive", "waker"} \in SUBSET TaskOps
  BY FramesOn DEF Ops, TaskOps
<1>3. On("poll", Null)
  BY <1>1, RunningOn DEF Typed
<1>4. CallsQuiet
  BY <1>1, <1>2, <1>3, CallQuiet
<1>5. \A x : On("remove", x)' => On("remove", x)
  <2> DEFINE p == <<Frame("drive", t), Frame("waker", t)>>
             ops == {"drive", "waker"}
  <2>1. AreOn(p, ops, t) /\ ops \in SUBSET TaskOps /\ "remove" \notin ops
    BY <1>2
  <2>2. Moves(p)
    BY <1>1 DEF Moves
  <2> HIDE DEF p, ops
  <2>3. \A op, x : On(op, x)' => On(op, x) \/ (op \in ops /\ x = t)
    BY <1>1, <2>1, <2>2, MovesOn
  <2> QED
    BY <2>1, <2>3
<1>6. \A x \in Tasks : Kept(x)
  BY <1>1, UnmarkedTask DEF Kept, Untouched, SameTask
<1>7. \A c \in Tasks : On("remove", c)' => MayRemove(c)
  BY <1>5, <1>6 DEF MayRemove, Kept
<1> QED
  BY <1>4, <1>6, <1>7, KeptQuiet DEF Quiet

\* pop_task_all is called by poll or clear.
LEMMA CalledQuiet ==
  ASSUME Typed, NEW o, Running(o, Null), NEW t \in Tasks, Calls(<<Frame("remove", t)>>),
         UNCHANGED <<task, list, live>>, task[t].done = "Cancelled" \/ runner = "none"
  PROVE  Quiet
<1>1. AreOn(<<Frame("remove", t)>>, {"remove"}, t) /\ {"remove"} \in SUBSET TaskOps
  BY FramesOn DEF Ops, TaskOps
<1>2. CallsQuiet
  <2>1. "drive" \notin {"remove"}
    OBVIOUS
  <2> QED
    BY <1>1, <2>1, CallQuiet DEF Calls
<1>3. \A x : On("remove", x)' => On("remove", x) \/ x = t
  <2>1. \A op, x : On(op, x)' => On(op, x) \/ (op \in {"remove"} /\ x = t)
    BY <1>1, MovesOn DEF Moves, Calls
  <2> QED
    BY <2>1
<1>4. \A x \in Tasks : Kept(x)
  BY SameKept
<1>5. \A c \in Tasks : On("remove", c)' => MayRemove(c)
  BY <1>3, <1>4 DEF MayRemove, Kept
<1> QED
  BY <1>2, <1>4, <1>5, KeptQuiet DEF Quiet

\* Whatever is left to do of a call of the Schedular.
LEMMA LibraryQuiet ==
  ASSUME Typed, NEW s, InvAt(s), RunTells, Library
  PROVE  Quiet
<1>1. ASSUME CallsQuiet, \A c \in Tasks : On("remove", c)' => On("remove", c),
             \A x \in Tasks : Kept(x)
      PROVE  Quiet
  <2>1. \A c \in Tasks : On("remove", c)' => MayRemove(c)
    BY <1>1 DEF MayRemove, Kept
  <2> QED
    BY <1>1, <2>1, KeptQuiet DEF Quiet
<1>2. ASSUME NEW o \in BaseOps, Running(o, Null), UNCHANGED <<task, list, live>>,
             calls' = <<>> \/ (calls' = Tail(calls) /\ list.next = Null)
      PROVE  Quiet
  <2>1. CallsQuiet /\ \A c : On("remove", c)' => On("remove", c)
    BY <1>2, EndQuiet
  <2> QED
    BY <1>1, <1>2, <2>1, SameKept
<1>3. "poll" \in BaseOps /\ "clear" \in BaseOps
  BY DEF BaseOps
<1>4. CASE PollEmpty
  BY <1>2, <1>3, <1>4 DEF PollEmpty, Return, EmptyReturns
<1>5. CASE PollInconsistant
  BY <1>2, <1>3, <1>5 DEF PollInconsistant, Return
<1>6. CASE ClearList
  <2>1. Running("clear", Null) /\ UNCHANGED <<task, list, live>>
    BY <1>6 DEF ClearList, rest
  <2>2. Tail(calls) \in Seq(FrameSet) /\ On("clear", Null)
    BY <2>1, RunningIs, RunningOn DEF Typed
  <2>3. CASE list.next = Null
    <3>1. calls' = Tail(calls)
      BY <1>6, <2>2, <2>3, ConcatIs DEF ClearList, Become
    <3> QED
      BY <1>2, <1>3, <2>1, <2>3, <3>1
  <2>4. CASE list.next # Null
    <3>1. runner = "none"
      BY <2>2 DEF RunTells
    <3>2. list.next \in Tasks
      BY <2>4 DEF Typed
    <3>3. Calls(<<Frame("remove", list.next)>>)
      BY <1>6, <2>4 DEF ClearList
    <3> QED
      BY <2>1, <3>1, <3>2, <3>3, CalledQuiet
  <2> QED
    BY <2>3, <2>4
<1>7. CASE DrainEmpty
  <2>1. Running("drain", Null) /\ Become(<<>>) /\ UNCHANGED <<task, list, live>>
    BY <1>7 DEF DrainEmpty, rest
  <2>2. CallsQuiet /\ \A op, x : On(op, x)' => On(op, x)
    BY <2>1, PopQuiet
  <2> QED
    BY <1>1, <2>1, <2>2, SameKept
<1>8. CASE Free
  <2>1. Running("free", Null) /\ Become(<<>>) /\ UNCHANGED <<task, list>>
    BY <1>8 DEF Free
  <2>2. On("free", Null)
    BY <2>1, RunningOn DEF Typed
  <2>3. CallsQuiet /\ \A op, x : On(op, x)' => On(op, x)
    BY <2>1, <2>2, PopQuiet
  <2> QED
    BY <1>1, <2>1, <2>3, SameKept
<1>9. ASSUME NEW t \in Tasks, PollCancelled(t) PROVE Quiet
  BY <1>9, CalledQuiet DEF PollCancelled, Popped
<1>10. ASSUME NEW t \in Tasks, PollDone(t) \/ DrainValue(t) PROVE Quiet
  <2>1. task' = decr_task(task, t) /\ UNCHANGED <<calls, list, live>>
    BY <1>10 DEF PollDone, DrainValue
  <2> QED
    BY <1>1, <2>1, DecrKept, SameQuiet
<1>11. ASSUME NEW t \in Tasks, DropPollWaker(t) PROVE Quiet
  <2>1. /\ Running("waker", t) /\ Become(<<>>) /\ task' = decr_task(task, t)
        /\ UNCHANGED <<list, live>>
    BY <1>11 DEF DropPollWaker, rest
  <2>2. CallsQuiet /\ \A op, x : On(op, x)' => On(op, x)
    BY <2>1, PopQuiet DEF TaskOps
  <2> QED
    BY <1>1, <2>1, <2>2, DecrKept
<1>12. ASSUME NEW t \in Tasks, Running("future", t), \E c \in Held(t) : DropToken(c) PROVE Quiet
  BY <1>12, DropTokenQuiet DEF Held
<1> QED
  BY <1>4, <1>5, <1>6, <1>7, <1>8, <1>9, <1>10, <1>11, <1>12, PollTaskQuiet, RemoveQuiet,
     DropTaskQuiet, DetachQuiet, CancelQuiet, RequeueQuiet DEF Library

-----------------------------------------------------------------------------
(***************************************************************************)
(* The quiet steps of the tasks that are driven and of the threads.        *)
(***************************************************************************)

\* A quiet step keeps the invariant of the tree if it keeps the one of the Schedular.
LEMMA QuietKeeps ==
  ASSUME TreeInv, SchedInv', Quiet, UNCHANGED <<root, scope, runner>>,
         panicked => panicked', panicked' \in BOOLEAN, work' \in 0..MaxWork
  PROVE  TreeInv'
<1>1. Typed /\ Typed' /\ \E s : InvAt(s)
  BY DEF TreeInv, SchedInv
<1>2. TreeTyped'
  BY DEF TreeInv, TreeTyped
<1>3. RunTells'
  BY RunQuiet DEF TreeInv, Quiet
<1>4. ScopesTell'
  BY <1>1, ScopesQuiet DEF TreeInv, Quiet
<1>5. WaitersCounted'
  BY <1>1, WaitersQuiet DEF TreeInv, Quiet
<1> QED
  BY <1>2, <1>3, <1>4, <1>5 DEF TreeInv

\* work is counted up to its bound.
LEMMA WorkBound ==
  ASSUME TreeTyped, Worked
  PROVE  work' \in 0..MaxWork
BY TreeAssumption DEF TreeTyped, Worked

LEMMA TaskReadyKeeps ==
  ASSUME TreeInv, NEW t \in Tasks, TaskReady(t)
  PROVE  TreeInv'
<1>1. PICK s \in Seq(Tasks) : Typed /\ InvAt(s)
  BY DEF TreeInv, SchedInv
<1>2. /\ DriveReady(t) /\ scope[t].place = "full" /\ UNCHANGED treeVars
      /\ Running("drive", t) /\ UNCHANGED <<task, list, live>>
      /\ calls' = <<Frame("remove", t)>> \o Tail(calls)
  BY DEF TaskReady, DriveReady, rest, Become
<1>3. SchedInv'
  BY <1>1, <1>2, DriveReadyKeeps DEF SchedInv
<1> DEFINE p == <<Frame("remove", t)>>
           ops == {"remove"}
<1>4. AreOn(p, ops, t) /\ ops \in SUBSET TaskOps /\ "drive" \notin ops
  BY FramesOn DEF Ops, TaskOps
<1>5. Moves(p)
  BY <1>2 DEF Moves
<1>6. \A op : op \in ops => op = "remove"
  OBVIOUS
<1> HIDE DEF p, ops
<1>7. CallsQuiet
  <2>1. (list.next = Null => list'.next = Null) /\ (live /\ ~live' => On("free", Null))
    BY <1>2
  <2> QED
    BY <1>1, <1>2, <1>4, <1>5, <2>1, StepQuiet
<1>8. \A op, x : On(op, x)' => On(op, x) \/ (op \in ops /\ x = t)
  BY <1>1, <1>2, <1>4, <1>5, MovesOn
<1>9. \A x \in Tasks : Kept(x)
  BY <1>1, <1>2, SameKept
<1>10. \A c \in Tasks : On("remove", c)' => MayRemove(c)
  BY <1>2, <1>8, <1>9 DEF MayRemove, Kept
<1>11. Quiet
  BY <1>1, <1>7, <1>9, <1>10, KeptQuiet DEF Quiet
<1> QED
  BY <1>2, <1>3, <1>11, QuietKeeps DEF TreeInv, TreeTyped, treeVars

\* The drive of t ends with the calls p or everything does.
LEMMA DriveEndQuiet ==
  ASSUME Typed, NEW t \in Tasks, Running("drive", t), NEW p, NEW ops \in SUBSET {"remove", "waker"},
         AreOn(p, ops, t), Moves(p), UNCHANGED <<task, list, live>>,
         "remove" \in ops => panicked'
  PROVE  Quiet
<1>1. ops \in SUBSET TaskOps /\ "drive" \notin ops
  BY DEF TaskOps
<1>2. CallsQuiet
  <2>1. (list.next = Null => list'.next = Null) /\ (live /\ ~live' => On("free", Null))
    OBVIOUS
  <2> QED
    BY <1>1, <2>1, StepQuiet
<1>3. \A op, x : On(op, x)' => On(op, x) \/ (op \in ops /\ x = t)
  BY <1>1, MovesOn
<1>4. \A x \in Tasks : Kept(x)
  BY SameKept
<1>5. \A c \in Tasks : On("remove", c)' => MayRemove(c)
  BY <1>3, <1>4 DEF MayRemove, Kept
<1> QED
  BY <1>2, <1>4, <1>5, KeptQuiet DEF Quiet

LEMMA TaskPendingKeeps ==
  ASSUME TreeInv, NEW t \in Tasks, TaskPending(t)
  PROVE  TreeInv'
<1>1. PICK s \in Seq(Tasks) : Typed /\ InvAt(s)
  BY DEF TreeInv, SchedInv
<1>2. /\ DrivePending(t) /\ UNCHANGED treeVars
      /\ Running("drive", t) /\ UNCHANGED <<task, list, live>>
      /\ calls' = <<Frame("waker", t)>> \/ calls' = <<>> \o Tail(calls)
  BY DEF TaskPending, DrivePending, Return, Become
<1>3. SchedInv'
  BY <1>1, <1>2, DrivePendingKeeps DEF SchedInv
<1>4. PICK p, ops : AreOn(p, ops, t) /\ ops \in SUBSET {"waker"} /\ Moves(p)
  <2>1. AreOn(<<>>, {}, t) /\ {} \in SUBSET {"waker"}
    BY FramesOn
  <2>2. AreOn(<<Frame("waker", t)>>, {"waker"}, t) /\ {"waker"} \in SUBSET {"waker"}
    BY FramesOn DEF Ops
  <2>3. Moves(<<Frame("waker", t)>>) \/ Moves(<<>>)
    BY <1>2 DEF Moves
  <2> QED
    BY <2>1, <2>2, <2>3
<1>5. Quiet
  <2>1. ops \in SUBSET {"remove", "waker"} /\ "remove" \notin ops
    BY <1>4
  <2> QED
    BY <1>1, <1>2, <1>4, <2>1, DriveEndQuiet
<1> QED
  BY <1>2, <1>3, <1>5, QuietKeeps DEF TreeInv, TreeTyped, treeVars

LEMMA TaskPanicsKeeps ==
  ASSUME TreeInv, NEW t \in Tasks, TaskPanics(t)
  PROVE  TreeInv'
<1>1. PICK s \in Seq(Tasks) : Typed /\ InvAt(s)
  BY DEF TreeInv, SchedInv
<1>2. /\ DrivePanic(t) /\ UNCHANGED <<root, scope, runner, work>> /\ panicked' = TRUE
      /\ Running("drive", t) /\ UNCHANGED <<task, list, live>>
      /\ calls' = <<Frame("remove", t), Frame("waker", t)>>
  BY DEF TaskPanics, DrivePanic, Return
<1>3. SchedInv'
  BY <1>1, <1>2, DrivePanicKeeps DEF SchedInv
<1> DEFINE p == <<Frame("remove", t), Frame("waker", t)>>
           ops == {"remove", "waker"}
<1>4. AreOn(p, ops, t) /\ ops \in SUBSET {"remove", "waker"}
  BY FramesOn DEF Ops
<1>5. Moves(p)
  BY <1>2 DEF Moves
<1> HIDE DEF p, ops
<1>6. Quiet
  BY <1>1, <1>2, <1>4, <1>5, DriveEndQuiet
<1> QED
  BY <1>2, <1>3, <1>6, QuietKeeps DEF TreeInv, TreeTyped

LEMMA TaskWaitsKeeps ==
  ASSUME TreeInv, NEW t \in Tasks, TaskWaits(t)
  PROVE  TreeInv'
<1>1. PICK s \in Seq(Tasks) : Typed /\ InvAt(s)
  BY DEF TreeInv, SchedInv
<1>2. CloneWaker(t) \/ DriveWakes(t, t)
  BY DEF TaskWaits
<1>3. UNCHANGED <<calls, list, live>>
  BY <1>2 DEF CloneWaker, DriveWakes, rest
<1>4. SchedInv'
  BY <1>1, <1>2, CloneKeeps, DriveWakesKeeps DEF SchedInv
<1>5. CallsQuiet /\ \A op, x : On(op, x)' => On(op, x)
  BY <1>3, SameQuiet
<1>6. \A x \in Tasks :
        /\ task'[x].done = task[x].done /\ task'[x].token = task[x].token
        /\ task'[x].dropped = task[x].dropped /\ task'[x].wakers >= task[x].wakers
  <2>1. CASE CloneWaker(t)
    <3>1. SUFFICES ASSUME NEW x \in Tasks
                   PROVE  /\ task'[x].done = task[x].done /\ task'[x].token = task[x].token
                          /\ task'[x].dropped = task[x].dropped
                          /\ task'[x].wakers >= task[x].wakers
      OBVIOUS
    <3>2. PICK o \in {0, 1} : o = One(x = t)
      BY DEF One
    <3>3. PICK q \in TaskRecords : q = task[x]
      BY <1>1 DEF Typed
    <3>4. task'[x] = [q EXCEPT !.wakers = q.wakers + o, !.count = q.count + o]
      BY <2>1, <3>2, <3>3 DEF CloneWaker, schedular_clone
    <3>5. q.wakers \in Nat
      BY DEF TaskRecords
    <3> QED
      BY <3>3, <3>4, <3>5 DEF TaskRecords
  <2>2. CASE DriveWakes(t, t)
    <3>1. \A x \in Tasks : Untouched(x) /\ task'[x].wakers = task[x].wakers
      BY <1>1, <2>2, IncrMarked DEF DriveWakes
    <3>2. \A x \in Tasks : task[x].wakers \in Nat
      BY <1>1 DEF Typed, TaskRecords
    <3> QED
      BY <3>1, <3>2 DEF Untouched, SameTask
  <2> QED
    BY <1>2, <2>1, <2>2
<1>7. Quiet
  BY <1>5, <1>6 DEF Quiet, TasksQuiet, WakersStay, MayRemove
<1>8. work' \in 0..MaxWork /\ UNCHANGED <<root, scope, runner, panicked>>
  BY WorkBound DEF TaskWaits, TreeInv
<1> QED
  BY <1>4, <1>7, <1>8, QuietKeeps DEF TreeInv, TreeTyped

\* The threads that push a task.
LEMMA ThreadKeeps ==
  ASSUME TreeInv, NEW th \in Threads, Wake(th), UNCHANGED treeVars
  PROVE  TreeInv'
<1>1. PICK s \in Seq(Tasks) : Typed /\ InvAt(s)
  BY DEF TreeInv, SchedInv
<1>2. SchedInv'
  BY <1>1, UpgradeKeeps, PushKeeps, LinkKeeps, WakeSchedularKeeps DEF SchedInv, Wake
<1>3. UNCHANGED <<calls, list, live>>
  BY DEF Wake, Upgrade, PushTask, LinkTask, WakeSchedular
<1>4. CallsQuiet /\ \A op, x : On(op, x)' => On(op, x)
  BY <1>3, SameQuiet
<1>5. \A x \in Tasks : Kept(x)
  <2>1. CASE UNCHANGED task
    BY <1>1, <2>1, SameKept
  <2>2. CASE Upgrade(th) /\ task' = decr_task(task, thread[th].job)
    <3>1. thread[th].job \in Tasks
      BY <1>1, <2>2 DEF Upgrade, InvAt, Marked
    <3> QED
      BY <1>1, <2>2, <3>1, DecrKept
  <2> QED
    BY <2>1, <2>2 DEF Wake, Upgrade, PushTask, LinkTask, WakeSchedular
<1>6. \A c \in Tasks : On("remove", c)' => MayRemove(c)
  BY <1>4, <1>5 DEF MayRemove, Kept
<1>7. Quiet
  BY <1>1, <1>4, <1>5, <1>6, KeptQuiet DEF Quiet
<1> QED
  BY <1>2, <1>7, QuietKeeps DEF TreeInv, TreeTyped, treeVars

\* A ScopeFuture is dropped, with its token, by whoever may do so.
LEMMA ScopeDropKeeps ==
  ASSUME TreeInv, NEW o, NEW y, Running(o, y), NEW c \in Tasks, task[c].token # Null,
         MayDropToken(c), DropToken(c), UNCHANGED treeVars
  PROVE  TreeInv'
<1>1. PICK s \in Seq(Tasks) : Typed /\ InvAt(s)
  BY DEF TreeInv, SchedInv
<1>2. SchedInv'
  BY <1>1, DropTokenKeeps DEF SchedInv
<1>3. Quiet
  BY <1>1, DropTokenQuiet
<1> QED
  BY <1>2, <1>3, QuietKeeps DEF TreeInv, TreeTyped, treeVars

LEMMA ScopeEndKeeps ==
  ASSUME TreeInv, NEW h \in Tasks \cup {Outside}, NEW c \in Tasks,
         ScopePollRunning(h, c) \/ ScopeDrop(h, c)
  PROVE  TreeInv'
<1>1. Polled(h) /\ task[c].token = h /\ DropToken(c) /\ UNCHANGED treeVars
  BY DEF ScopePollRunning, ScopeDrop, Scopes, Held
<1>2. task[c].token # Null
  BY <1>1, SchedularAssumption
<1>3. PICK o, y : Running(o, y) /\ MayDropToken(c)
  BY <1>1 DEF Polled, MayDropToken
<1> QED
  BY <1>1, <1>2, <1>3, ScopeDropKeeps

LEMMA SchedularStepKeeps ==
  ASSUME TreeInv, SchedularStep
  PROVE  TreeInv'
<1>1. PICK s \in Seq(Tasks) : Typed /\ InvAt(s)
  BY DEF TreeInv, SchedInv
<1>2. Library /\ UNCHANGED treeVars
  BY DEF SchedularStep
<1>3. SchedInv'
  BY <1>1, <1>2, LibraryKeeps DEF SchedInv
<1>4. Quiet
  BY <1>1, <1>2, LibraryQuiet DEF TreeInv
<1> QED
  BY <1>2, <1>3, <1>4, QuietKeeps DEF TreeInv, TreeTyped, treeVars

-----------------------------------------------------------------------------
(***************************************************************************)
(* The calls of the run.                                                   *)
(***************************************************************************)

\* Calls about no task that may be under way.
BaseCalls(c) == c \in Seq(FrameSet) /\ OnlyBases(c) /\ CallsNest(c)

LEMMA NoBaseCalls == BaseCalls(<<>>) /\ \A op, x : ~OnIn(<<>>, op, x)
<1>1. <<>> \in Seq(FrameSet) /\ OnlyBases(<<>>)
  BY DEF OnlyBases
<1> QED
  BY <1>1, NoCalls DEF BaseCalls

\* One more of them.
LEMMA BaseCalled ==
  ASSUME NEW c, BaseCalls(c), NEW o \in BaseOps,
         o \in TreeOps =>
           /\ ~OnIn(c, "root", Null) /\ ~OnIn(c, "rootClear", Null) /\ ~OnIn(c, "poll", Null)
           /\ Len(c) # 0 => c[1].op \notin {"drain", "free"}
  PROVE  /\ BaseCalls(<<Frame(o, Null)>> \o c) /\ (<<Frame(o, Null)>> \o c)[1].op = o
         /\ \A op, x : OnIn(<<Frame(o, Null)>> \o c, op, x) <=>
              (op = o /\ x = Null) \/ OnIn(c, op, x)
<1>1. PICK f \in FrameSet : f = Frame(o, Null) /\ f.op = o /\ f.task = Null
  BY FrameFacts DEF BaseOps, Ops
<1>2. c \in Seq(FrameSet) /\ OnlyBases(c) /\ CallsNest(c)
  BY DEF BaseCalls
<1>3. <<f>> \o c = Cons(f, c)
  BY <1>2, ConcatIs
<1>4. Cons(f, c) \in Seq(FrameSet) /\ Cons(f, c)[1] = f /\ Len(c) \in Nat
  BY <1>2, ConsFacts
<1>5. OnlyBases(Cons(f, c))
  BY <1>1, <1>2, BasesCons
<1>6. MayCall(f, c)
  <2>1. ASSUME NEW i \in 1..Len(c) PROVE Above(f, c[i])
    <3>1. c[i].op \in BaseOps /\ c[i].task = Null
      BY <1>2 DEF OnlyBases, CallsNest, BaseOps, TreeOps, TaskOps
    <3>2. o \in TreeOps => c[i].op \notin {"root", "rootClear", "poll"}
      BY <3>1 DEF OnIn
    <3> QED
      BY <1>1, <3>1, <3>2 DEF Above, BaseOps, TreeOps
  <2>2. o # "drive" /\ o \notin TaskOps
    BY DEF BaseOps, TreeOps, TaskOps
  <2>3. Len(c) # 0 => Upon(f, c[1])
    BY <1>1, <2>2 DEF Upon
  <2> QED
    BY <1>1, <2>1, <2>2, <2>3 DEF MayCall
<1>7. CallsNest(Cons(f, c))
  BY <1>2, <1>6, NestCons
<1>8. \A op, x : OnIn(Cons(f, c), op, x) <=> (f.op = op /\ f.task = x) \/ OnIn(c, op, x)
  BY <1>2, OnCons
<1>9. BaseCalls(Cons(f, c))
  BY <1>4, <1>5, <1>7 DEF BaseCalls
<1>10. <<Frame(o, Null)>> \o c = Cons(f, c)
  BY <1>1, <1>3, Zenon
<1>11. \A op, x : OnIn(Cons(f, c), op, x) <=> (op = o /\ x = Null) \/ OnIn(c, op, x)
  BY <1>1, <1>8
<1>12. Cons(f, c)[1].op = o
  BY <1>1, <1>4
<1> QED
  BY <1>9, <1>10, <1>11, <1>12, Zenon

\* The calls below one of them.
LEMMA BaseTop ==
  ASSUME Typed, NEW s, Core(s), NEW o \in BaseOps, Running(o, Null)
  PROVE  /\ BaseCalls(calls) /\ BaseCalls(Tail(calls)) /\ On(o, Null)
         /\ \A op, x : OnIn(Tail(calls), op, x) => On(op, x)
         /\ \A op, x : On(op, x) <=> (op = o /\ x = Null) \/ OnIn(Tail(calls), op, x)
         /\ o \in TreeOps =>
              /\ ~OnIn(Tail(calls), "root", Null) /\ ~OnIn(Tail(calls), "rootClear", Null)
              /\ ~OnIn(Tail(calls), "poll", Null)
              /\ Len(Tail(calls)) # 0 => Tail(calls)[1].op \notin {"drain", "free"}
<1>1. PICK f, r : TopOf(s, f, r) /\ f.op = o /\ f.task = Null
  BY TopFacts
<1>2. OnlyBases(r)
  BY <1>1, BelowBase DEF TopOf
<1>3. BaseCalls(r) /\ r = Tail(calls)
  BY <1>1, <1>2 DEF BaseCalls, TopOf
<1>4. BaseCalls(calls)
  <2>1. calls = Cons(f, r) /\ f \in FrameSet /\ r \in Seq(FrameSet)
    BY <1>1 DEF TopOf
  <2>2. OnlyBases(Cons(f, r))
    BY <1>1, <1>2, <2>1, BasesCons
  <2> QED
    BY <2>1, <2>2 DEF BaseCalls, Core, Typed
<1>5. \A op, x : On(op, x) <=> (op = o /\ x = Null) \/ OnIn(r, op, x)
  BY <1>1 DEF TopOf
<1>6. ASSUME o \in TreeOps
      PROVE  /\ ~OnIn(r, "root", Null) /\ ~OnIn(r, "rootClear", Null) /\ ~OnIn(r, "poll", Null)
             /\ Len(r) # 0 => r[1].op \notin {"drain", "free"}
  <2>1. MayCall(f, r) /\ Len(r) \in Nat
    BY <1>1 DEF TopOf
  <2>2. \A i \in 1..Len(r) : r[i].op \notin {"root", "rootClear", "poll"}
    BY <1>1, <1>6, <2>1 DEF MayCall, Above
  <2>3. Len(r) # 0 => Upon(f, r[1])
    BY <2>1 DEF MayCall
  <2> QED
    BY <1>1, <1>6, <2>2, <2>3 DEF OnIn, Upon
<1> QED
  BY <1>3, <1>4, <1>5, <1>6

\* The calls c are the ones in ops, about no task, with the call o on top.
AreBase(c, ops, o) ==
  /\ BaseCalls(c) /\ c[1].op = o
  /\ \A op, x : OnIn(c, op, x) <=> op \in ops /\ x = Null

\* clear and its loop, with one more call after them.
LEMMA ClearThen ==
  ASSUME NEW o \in {"rootClear", "free"}
  PROVE  AreBase(ClearCalls \o <<Frame(o, Null)>>, {"clear", "drain", o}, "clear")
<1>1. PICK e : e = <<>> /\ BaseCalls(e) /\ \A op, x : ~OnIn(e, op, x)
  BY NoBaseCalls, Zenon
<1>2. o \in BaseOps /\ "clear" \in BaseOps /\ "drain" \in BaseOps
  BY DEF BaseOps, TreeOps
<1>3. Len(e) = 0
  BY <1>1
<1>4. PICK a : a = <<Frame(o, Null)>> \o e
  OBVIOUS
<1>5. BaseCalls(a) /\ \A op, x : OnIn(a, op, x) <=> op = o /\ x = Null
  <2>1. BaseCalls(a) /\ \A op, x : OnIn(a, op, x) <=> (op = o /\ x = Null) \/ OnIn(e, op, x)
    BY <1>1, <1>2, <1>3, <1>4, BaseCalled
  <2> QED
    BY <1>1, <2>1
<1>6. PICK b : b = <<Frame("drain", Null)>> \o a
  OBVIOUS
<1>7. BaseCalls(b) /\ \A op, x : OnIn(b, op, x) <=> op \in {"drain", o} /\ x = Null
  <2>1. "drain" \notin TreeOps
    BY DEF TreeOps
  <2>2. BaseCalls(b) /\ \A op, x : OnIn(b, op, x) <=> (op = "drain" /\ x = Null) \/ OnIn(a, op, x)
    BY <1>2, <1>5, <1>6, <2>1, BaseCalled
  <2> QED
    BY <1>5, <2>2
<1>8. PICK c : c = <<Frame("clear", Null)>> \o b
  OBVIOUS
<1>9. AreBase(c, {"clear", "drain", o}, "clear")
  <2>1. "clear" \notin TreeOps
    BY DEF TreeOps
  <2>2. /\ BaseCalls(c) /\ c[1].op = "clear"
        /\ \A op, x : OnIn(c, op, x) <=> (op = "clear" /\ x = Null) \/ OnIn(b, op, x)
    BY <1>2, <1>7, <1>8, <2>1, BaseCalled
  <2> QED
    BY <1>7, <2>2 DEF AreBase
<1>10. ClearCalls \o <<Frame(o, Null)>> = c
  <2>1. PICK f \in FrameSet, g \in FrameSet, h \in FrameSet :
          f = Frame("clear", Null) /\ g = Frame("drain", Null) /\ h = Frame(o, Null)
    BY FrameFacts DEF Ops, TreeOps
  <2>2. a \in Seq(FrameSet) /\ b \in Seq(FrameSet)
    BY <1>5, <1>7 DEF BaseCalls
  <2>3. <<h>> = a
    BY <1>1, <1>4, <2>1, ConcatIs
  <2>4. <<f, g>> \o a = Cons(f, Cons(g, a)) /\ <<g>> \o a = Cons(g, a) /\ <<f>> \o b = Cons(f, b)
    BY <2>2, ConcatIs
  <2>5. <<f, g>> \o <<h>> = c
    BY <1>6, <1>8, <2>1, <2>3, <2>4, Zenon
  <2> QED
    BY <2>1, <2>5, Zenon DEF ClearCalls
<1> QED
  BY <1>9, <1>10, Zenon

-----------------------------------------------------------------------------
(***************************************************************************)
(* The steps of the run.                                                   *)
(***************************************************************************)

\* Steps that change only the calls about no task keep the invariant of the Schedular.
LEMMA BaseStepKeeps ==
  ASSUME Typed, NEW s \in Seq(Tasks), InvAt(s),
         UNCHANGED <<task, list, turn, live, thread, fifo, linking>>,
         BaseCalls(calls), BaseCalls(calls'), registered' \in BOOLEAN, woken' \in BOOLEAN,
         Len(calls') # 0 => calls'[1].op \notin {"drain", "free"}
  PROVE  SchedInv'
<1>1. Typed'
  BY DEF Typed, BaseCalls
<1>2. ~live' => Len(s) = 0
  BY DEF InvAt, Core, EmptyAtEnd
<1>3. Len(calls') \in Nat
  BY LenProperties DEF BaseCalls
<1>4. Len(calls') >= 1 /\ calls'[1].op \in {"drain", "free"} => Len(s) = 0
  BY <1>3
<1>5. InvAt(s)'
  BY <1>2, <1>4, BasesKeep DEF BaseCalls
<1> QED
  BY <1>1, <1>5 DEF SchedInv

\* The future of the root gives up no scope that is left, and no run begins with one.
LevelsKept ==
  /\ \A c \in Tasks : task[c].token = Outside => scope[c].level <= root'.len
  /\ \/ (panicked => panicked') /\ (runner' # "none" => runner # "none")
     \/ \A c \in Tasks : task[c].token = Null

LEMMA RunStepKeeps ==
  ASSUME TreeInv, SchedInv', UNCHANGED <<task, scope>>, BaseCalls(calls'), TreeTyped', RunTells',
         LevelsKept
  PROVE  TreeInv'
<1>1. \A x : ~On("remove", x)'
  <2>1. \A op, x : On(op, x)' <=> OnIn(calls', op, x)
    BY OnNext
  <2> QED
    BY <2>1, BasesOn DEF BaseCalls, TaskOps
<1>2. ScopesTell'
  <2> SUFFICES ASSUME NEW c \in Tasks
               PROVE  (/\ task[c].token = Outside => 2 <= scope[c].level /\ scope[c].level <= root.len
                       /\ task[c].token \in Tasks => task[task[c].token].dropped = 0
                       /\ task[c].done = "Cancelled" => task[c].token = Null
                       /\ scope[c].place = "full" => ~scope[c].asleep
                       /\ task[c].done = "Running" /\ scope[c].place = "empty" /\ scope[c].asleep =>
                            scope[c].notify # Null
                       /\ runner # "none" /\ ~panicked =>
                            /\ On("remove", c) =>
                                 scope[c].place = "full" \/ task[c].done = "Cancelled"
                            /\ task[c].token # Null /\ task[c].done = "Done" =>
                                 scope[c].place = "full")'
    BY DEF ScopesTell
  <2>1. /\ task[c].token = Outside => 2 <= scope[c].level /\ scope[c].level <= root'.len
        /\ task[c].token \in Tasks => task[task[c].token].dropped = 0
        /\ task[c].done = "Cancelled" => task[c].token = Null
        /\ scope[c].place = "full" => ~scope[c].asleep
        /\ task[c].done = "Running" /\ scope[c].place = "empty" /\ scope[c].asleep =>
             scope[c].notify # Null
    BY DEF TreeInv, ScopesTell, LevelsKept
  <2>2. runner' # "none" /\ ~panicked' /\ task[c].token # Null /\ task[c].done = "Done" =>
          scope[c].place = "full"
    BY DEF TreeInv, ScopesTell, LevelsKept
  <2> QED
    BY <1>1, <2>1, <2>2
<1>3. WaitersCounted'
  BY DEF TreeInv, WaitersCounted, Waiters
<1> QED
  BY <1>2, <1>3 DEF TreeInv

\* The run goes on.
LEMMA RunGoes ==
  ASSUME RunTells, runner' \in {"runner", "finish"}, live',
         \A op \in {"clear", "drain", "free", "rootClear"} : ~On(op, Null)',
         On("root", Null)' => /\ root'.len >= 2
                              /\ ~root'.busy /\ ~On("poll", Null)' => list'.next = Null
  PROVE  RunTells'
BY DEF RunTells

\* All its calls have ended.
LEMMA RunRests ==
  ASSUME calls' = <<>>, runner' # "none" => live'
  PROVE  RunTells' /\ BaseCalls(calls') /\ ~(Len(calls') # 0)
<1>1. \A op, x : ~On(op, x)'
  BY OnNext, NoBaseCalls
<1>2. RunTells'
  BY <1>1 DEF RunTells
<1>3. Len(calls') = 0 /\ BaseCalls(calls')
  BY NoBaseCalls
<1> QED
  BY <1>2, <1>3

\* While there is a run nothing is cleared.
LEMMA NotClearing ==
  ASSUME RunTells, runner # "none"
  PROVE  live /\ \A op \in {"clear", "drain", "free", "rootClear"} : ~On(op, Null)
BY DEF RunTells

\* The state in which a future of the root is polled, or the loop around that goes on.
LEMMA RootTop ==
  ASSUME TreeInv, NEW o \in {"root", "loop"}, Running(o, Null)
  PROVE  /\ \E s \in Seq(Tasks) : Typed /\ InvAt(s)
         /\ BaseCalls(calls) /\ BaseCalls(Tail(calls)) /\ On(o, Null)
         /\ runner \in {"runner", "finish"} /\ live
         /\ \A op, x : OnIn(Tail(calls), op, x) => On(op, x)
         /\ ~OnIn(Tail(calls), "root", Null) /\ ~OnIn(Tail(calls), "rootClear", Null)
         /\ ~OnIn(Tail(calls), "poll", Null)
         /\ Len(Tail(calls)) # 0 => Tail(calls)[1].op \notin {"drain", "free"}
         /\ o = "root" => root.len >= 2
<1>1. PICK s \in Seq(Tasks) : Typed /\ InvAt(s)
  BY DEF TreeInv, SchedInv
<1>2. o \in BaseOps /\ o \in TreeOps
  BY DEF BaseOps, TreeOps
<1>3. /\ BaseCalls(calls) /\ BaseCalls(Tail(calls)) /\ On(o, Null)
      /\ \A op, x : OnIn(Tail(calls), op, x) => On(op, x)
      /\ ~OnIn(Tail(calls), "root", Null) /\ ~OnIn(Tail(calls), "rootClear", Null)
      /\ ~OnIn(Tail(calls), "poll", Null)
      /\ Len(Tail(calls)) # 0 => Tail(calls)[1].op \notin {"drain", "free"}
  BY <1>1, <1>2, BaseTop DEF InvAt
<1>4. runner \in {"runner", "finish"} /\ live /\ (o = "root" => root.len >= 2)
  BY <1>3 DEF TreeInv, RunTells
<1> QED
  BY <1>1, <1>3, <1>4

\* The root has the type it had.
LEMMA RootTyped ==
  ASSUME TreeTyped, NEW n \in 0..MaxRoot, NEW st \in {"Base", "NewTask"}, NEW b \in BOOLEAN,
         root' = [len |-> n, state |-> st, busy |-> b], UNCHANGED scope,
         runner' \in {"none", "runner", "finish", "undefined"}, panicked' \in BOOLEAN,
         work' \in 0..MaxWork
  PROVE  TreeTyped' /\ root'.len = n /\ root'.state = st /\ root'.busy = b
BY DEF TreeTyped

\* What the fields of the root are.
LEMMA RootIs ==
  ASSUME TreeTyped
  PROVE  /\ root = [len |-> root.len, state |-> root.state, busy |-> root.busy]
         /\ root.len \in 0..MaxRoot /\ root.state \in {"Base", "NewTask"} /\ root.busy \in BOOLEAN
BY DEF TreeTyped

\* The poll of the root ends and the call below it goes on.
LEMMA RootReturns ==
  ASSUME TreeInv, Running("root", Null), calls' = <<>> \o Tail(calls),
         UNCHANGED <<task, list, rest, scope, runner, panicked>>, TreeTyped',
         \A c \in Tasks : task[c].token = Outside => scope[c].level <= root'.len
  PROVE  TreeInv'
<1>1. PICK s \in Seq(Tasks) : Typed /\ InvAt(s)
  BY RootTop
<1>2. /\ BaseCalls(calls) /\ BaseCalls(Tail(calls))
      /\ runner \in {"runner", "finish"} /\ live
      /\ \A op, x : OnIn(Tail(calls), op, x) => On(op, x)
      /\ ~OnIn(Tail(calls), "root", Null) /\ ~OnIn(Tail(calls), "rootClear", Null)
      /\ Len(Tail(calls)) # 0 => Tail(calls)[1].op \notin {"drain", "free"}
  BY RootTop
<1>3. calls' = Tail(calls)
  BY <1>2, ConcatIs DEF BaseCalls
<1>4. BaseCalls(calls') /\ (Len(calls') # 0 => calls'[1].op \notin {"drain", "free"})
  BY <1>2, <1>3
<1>5. SchedInv'
  <2>1. /\ UNCHANGED <<task, list, turn, live, thread, fifo, linking>>
        /\ registered' \in BOOLEAN /\ woken' \in BOOLEAN
    BY <1>1 DEF rest, wakeVars, queueVars, Typed
  <2> QED
    BY <1>1, <1>2, <1>4, <2>1, BaseStepKeeps
<1>6. RunTells'
  <2>1. \A op, x : On(op, x)' <=> OnIn(Tail(calls), op, x)
    BY <1>3, OnNext
  <2>2. \A op \in {"clear", "drain", "free", "rootClear"} : ~On(op, Null)
    BY <1>2, NotClearing DEF TreeInv
  <2>3. /\ \A op \in {"clear", "drain", "free", "rootClear"} : ~On(op, Null)'
        /\ ~On("root", Null)' /\ live' /\ runner' \in {"runner", "finish"}
    BY <1>2, <2>1, <2>2 DEF rest
  <2> QED
    BY <2>3, RunGoes DEF TreeInv
<1> QED
  BY <1>4, <1>5, <1>6, RunStepKeeps DEF LevelsKept

LEMMA RootReadyKeeps ==
  ASSUME TreeInv, RootReady
  PROVE  TreeInv'
<1>1. TreeTyped /\ ScopesTell
  BY DEF TreeInv
<1>2. root.len >= 2
  BY RootTop DEF RootReady
<1>3. PICK n \in 0..MaxRoot : n = root.len - 1
  BY <1>1, <1>2, RootIs, TreeAssumption
<1>4. root' = [len |-> n, state |-> root.state, busy |-> root.busy]
  BY <1>1, <1>3, RootIs DEF RootReady
<1>5. TreeTyped' /\ root'.len = n
  <2>1. /\ UNCHANGED scope /\ runner' \in {"none", "runner", "finish", "undefined"}
        /\ panicked' \in BOOLEAN /\ work' \in 0..MaxWork
    BY <1>1 DEF RootReady, TreeTyped
  <2> QED
    BY <1>1, <1>4, <2>1, RootIs, RootTyped
<1>6. ASSUME NEW c \in Tasks, task[c].token = Outside PROVE scope[c].level <= root'.len
  <2>1. scope[c].level # root.len
    BY <1>6 DEF RootReady, Scopes, Held
  <2>2. scope[c].level <= root.len
    BY <1>1, <1>6 DEF ScopesTell
  <2>3. scope[c].level \in Nat /\ root.len \in Nat
    BY <1>1, RootIs DEF TreeTyped, ScopeRecords
  <2> QED
    BY <1>3, <1>5, <2>1, <2>2, <2>3
<1> QED
  BY <1>5, <1>6, RootReturns DEF RootReady, Become

LEMMA RootNewTaskKeeps ==
  ASSUME TreeInv, RootNewTask
  PROVE  TreeInv'
<1>1. TreeTyped /\ ScopesTell
  BY DEF TreeInv
<1>2. root' = [len |-> root.len, state |-> "Base", busy |-> root.busy]
  BY <1>1, RootIs DEF RootNewTask
<1>3. TreeTyped' /\ root'.len = root.len
  <2>1. /\ UNCHANGED scope /\ runner' \in {"none", "runner", "finish", "undefined"}
        /\ panicked' \in BOOLEAN /\ work' \in 0..MaxWork
    BY <1>1 DEF RootNewTask, TreeTyped
  <2> QED
    BY <1>1, <1>2, <2>1, RootIs, RootTyped
<1>4. \A c \in Tasks : task[c].token = Outside => scope[c].level <= root'.len
  BY <1>1, <1>3 DEF ScopesTell
<1> QED
  BY <1>3, <1>4, RootReturns DEF RootNewTask, Become

LEMMA RootRunKeeps ==
  ASSUME TreeInv, RootRun
  PROVE  TreeInv'
<1>1. TreeTyped /\ ScopesTell
  BY DEF TreeInv
<1>2. PICK n \in 0..MaxRoot : n = root.len + 1
  BY <1>1, RootIs, TreeAssumption DEF RootRun
<1>3. root' = [len |-> n, state |-> root.state, busy |-> root.busy]
  BY <1>1, <1>2, RootIs DEF RootRun
<1>4. TreeTyped' /\ root'.len = n
  <2>1. /\ UNCHANGED scope /\ runner' \in {"none", "runner", "finish", "undefined"}
        /\ panicked' \in BOOLEAN /\ work' \in 0..MaxWork
    BY <1>1, WorkBound DEF RootRun, TreeTyped
  <2> QED
    BY <1>1, <1>3, <2>1, RootIs, RootTyped
<1>5. ASSUME NEW c \in Tasks, task[c].token = Outside PROVE scope[c].level <= root'.len
  <2>1. scope[c].level <= root.len
    BY <1>1, <1>5 DEF ScopesTell
  <2>2. scope[c].level \in Nat /\ root.len \in Nat
    BY <1>1, RootIs DEF TreeTyped, ScopeRecords
  <2> QED
    BY <1>2, <1>4, <2>1, <2>2
<1> QED
  BY <1>4, <1>5, RootReturns DEF RootRun, Become

\* The StkFuture that is dropped at once.
LEMMA RootRunDroppedKeeps ==
  ASSUME TreeInv, RootRunDropped
  PROVE  TreeInv'
<1>1. TreeTyped /\ ScopesTell /\ RunTells
  BY DEF TreeInv
<1>2. /\ Running("root", Null) /\ UNCHANGED <<schedVars, scope, runner, panicked>>
  BY DEF RootRunDropped
<1>3. PICK s \in Seq(Tasks) : Typed /\ InvAt(s)
  BY DEF TreeInv, SchedInv
<1>4. BaseCalls(calls) /\ runner \in {"runner", "finish"} /\ live /\ root.len >= 2
  BY <1>2, RootTop
<1>5. UNCHANGED <<task, calls, list, live>> /\ SchedInv'
  BY <1>2, StutterKeeps DEF TreeInv, schedVars, rest
<1>6. root' = [len |-> root.len, state |-> "NewTask", busy |-> TRUE]
  BY <1>1, RootIs DEF RootRunDropped
<1>7. TreeTyped' /\ root'.len = root.len /\ root'.busy = TRUE
  <2>1. /\ UNCHANGED scope /\ runner' \in {"none", "runner", "finish", "undefined"}
        /\ panicked' \in BOOLEAN /\ work' \in 0..MaxWork
    BY <1>1, WorkBound DEF RootRunDropped, TreeTyped
  <2> QED
    BY <1>1, <1>6, <2>1, RootIs, RootTyped
<1>8. RunTells'
  <2>1. \A op, x : On(op, x)' <=> On(op, x)
    BY <1>5, OnKept
  <2>2. /\ \A op \in {"clear", "drain", "free", "rootClear"} : ~On(op, Null)'
    BY <1>1, <1>4, <2>1, NotClearing
  <2>3. runner' \in {"runner", "finish"} /\ live'
    BY <1>2, <1>4, <1>5
  <2> QED
    BY <1>1, <1>4, <1>7, <2>2, <2>3, RunGoes
<1>9. LevelsKept
  BY <1>1, <1>2, <1>7 DEF LevelsKept, ScopesTell
<1>10. BaseCalls(calls')
  BY <1>4, <1>5
<1> QED
  BY <1>2, <1>5, <1>7, <1>8, <1>9, <1>10, RunStepKeeps

\* A step after which no call is under way.
LEMMA RunStops ==
  ASSUME TreeInv, BaseCalls(calls), calls' = <<>>,
         UNCHANGED <<task, list, turn, registered, live, thread, fifo, linking, scope>>,
         woken' \in BOOLEAN, TreeTyped', runner' # "none" => live, LevelsKept
  PROVE  TreeInv'
<1>1. PICK s \in Seq(Tasks) : Typed /\ InvAt(s)
  BY DEF TreeInv, SchedInv
<1>2. RunTells' /\ BaseCalls(calls') /\ ~(Len(calls') # 0)
  BY RunRests
<1>3. SchedInv'
  <2>1. registered' \in BOOLEAN
    BY <1>1 DEF Typed
  <2> QED
    BY <1>1, <1>2, <2>1, BaseStepKeeps
<1> QED
  BY <1>2, <1>3, RunStepKeeps

LEMMA RootPendingKeeps ==
  ASSUME TreeInv, RootPending
  PROVE  TreeInv'
<1>1. TreeTyped /\ ScopesTell /\ Typed
  BY DEF TreeInv, SchedInv
<1>2. BaseCalls(calls) /\ live
  BY RootTop DEF RootPending
<1>3. /\ calls' = <<>> /\ UNCHANGED <<root, scope, runner, panicked>>
      /\ UNCHANGED <<task, list, turn, registered, live, thread, fifo, linking>>
  BY DEF RootPending, queueVars
<1>4. woken' \in BOOLEAN /\ work' \in 0..MaxWork
  BY <1>1, WorkBound DEF RootPending, Typed, TreeTyped
<1>5. TreeTyped'
  BY <1>1, <1>3, <1>4 DEF TreeTyped
<1>6. LevelsKept
  BY <1>1, <1>3 DEF LevelsKept, ScopesTell
<1> QED
  BY <1>2, <1>3, <1>4, <1>5, <1>6, RunStops

LEMMA RootPanicKeeps ==
  ASSUME TreeInv, RootRunRefused \/ RootPanics
  PROVE  TreeInv'
<1>1. TreeTyped /\ ScopesTell /\ Typed
  BY DEF TreeInv, SchedInv
<1>2. BaseCalls(calls) /\ live /\ runner \in {"runner", "finish"}
  BY RootTop DEF RootRunRefused, RootPanics
<1>3. /\ calls' = <<>> /\ UNCHANGED <<root, scope, work>> /\ panicked' = TRUE
      /\ runner' \in {runner, "undefined"}
      /\ UNCHANGED <<task, list, turn, registered, live, thread, fifo, linking, woken>>
  BY DEF RootRunRefused, RootPanics, rest, wakeVars, queueVars
<1>4. woken' \in BOOLEAN
  BY <1>1, <1>3 DEF Typed
<1>5. TreeTyped'
  BY <1>1, <1>3 DEF TreeTyped
<1>6. LevelsKept
  BY <1>1, <1>2, <1>3 DEF LevelsKept, ScopesTell
<1> QED
  BY <1>2, <1>3, <1>4, <1>5, <1>6, RunStops

LEMMA TakeResultKeeps ==
  ASSUME TreeInv, TakeResult
  PROVE  TreeInv'
<1>1. TreeTyped /\ ScopesTell /\ Typed /\ RunTells
  BY DEF TreeInv, SchedInv
<1>2. BaseCalls(calls)
  <2>1. CASE FinishLoop
    BY <2>1, RootTop DEF FinishLoop
  <2>2. CASE Step
    BY <2>2, NoBaseCalls DEF Step
  <2> QED
    BY <2>1, <2>2 DEF TakeResult
<1>3. /\ calls' = <<>> /\ UNCHANGED <<scope, panicked, work>> /\ root.len = 1
      /\ runner' \in {runner, "none"}
      /\ UNCHANGED <<task, list, turn, registered, live, thread, fifo, linking, woken>>
  BY DEF TakeResult, rest, wakeVars, queueVars
<1>4. woken' \in BOOLEAN
  BY <1>1, <1>3 DEF Typed
<1>5. root' = [len |-> 0, state |-> root.state, busy |-> root.busy]
  BY <1>1, RootIs DEF TakeResult
<1>6. TreeTyped'
  <2>1. /\ runner' \in {"none", "runner", "finish", "undefined"} /\ 0 \in 0..MaxRoot
        /\ panicked' \in BOOLEAN /\ work' \in 0..MaxWork
    BY <1>1, <1>3, TreeAssumption DEF TreeTyped
  <2> QED
    BY <1>1, <1>3, <1>5, <2>1, RootIs, RootTyped
<1>7. LevelsKept
  <2>1. ASSUME NEW c \in Tasks PROVE task[c].token # Outside
    <3>1. task[c].token = Outside => 2 <= scope[c].level /\ scope[c].level <= 1
      BY <1>1, <1>3 DEF ScopesTell
    <3>2. scope[c].level \in Nat
      BY <1>1 DEF TreeTyped, ScopeRecords
    <3> QED
      BY <3>1, <3>2
  <2> QED
    BY <1>3, <2>1 DEF LevelsKept
<1>8. runner' # "none" => live
  BY <1>1, <1>3 DEF RunTells
<1> QED
  BY <1>2, <1>3, <1>4, <1>6, <1>7, <1>8, RunStops

\* finish, and the drop of a FinishFuture.
LEMMA FinishKeeps ==
  ASSUME TreeInv, finish \/ DropFinish
  PROVE  TreeInv'
<1>1. TreeTyped /\ ScopesTell /\ Typed /\ RunTells
  BY DEF TreeInv, SchedInv
<1>2. /\ calls = <<>> /\ UNCHANGED <<calls, root, scope, panicked, work>>
      /\ runner \in {"runner", "finish"} /\ runner' \in {"finish", "none"}
      /\ UNCHANGED <<task, list, turn, registered, live, thread, fifo, linking>>
      /\ woken' \in {TRUE, woken}
  BY DEF finish, DropFinish, schedVars, rest, wakeVars, queueVars
<1>3. woken' \in BOOLEAN
  BY <1>1, <1>2 DEF Typed
<1>4. TreeTyped'
  BY <1>1, <1>2 DEF TreeTyped
<1>5. LevelsKept
  BY <1>1, <1>2 DEF LevelsKept, ScopesTell
<1>6. live /\ BaseCalls(calls) /\ calls' = <<>>
  BY <1>1, <1>2, NoBaseCalls DEF RunTells
<1> QED
  BY <1>2, <1>3, <1>4, <1>5, <1>6, RunStops

LEMMA PollFinishKeeps ==
  ASSUME TreeInv, PollFinish
  PROVE  TreeInv'
<1>1. TreeTyped /\ ScopesTell /\ Typed /\ RunTells
  BY DEF TreeInv, SchedInv
<1>2. PICK s \in Seq(Tasks) : InvAt(s)
  BY DEF TreeInv, SchedInv
<1>3. /\ calls = <<>> /\ calls' = <<Frame("loop", Null)>> \o calls /\ runner = "finish"
      /\ UNCHANGED <<root, scope, runner, panicked, work>>
      /\ UNCHANGED <<task, list, turn, registered, live, thread, fifo, linking>>
      /\ woken' = FALSE
  BY DEF PollFinish, Calls, queueVars, treeVars
<1>4. BaseCalls(calls) /\ \A op, x : ~OnIn(calls, op, x)
  BY <1>3, NoBaseCalls, Zenon
<1>5. /\ BaseCalls(calls') /\ calls'[1].op = "loop"
      /\ \A op, x : OnIn(calls', op, x) <=> (op = "loop" /\ x = Null) \/ OnIn(calls, op, x)
  <2>1. "loop" \in BaseOps /\ Len(calls) = 0
    BY <1>3 DEF BaseOps, TreeOps
  <2> QED
    BY <1>3, <1>4, <2>1, BaseCalled
<1>6. \A op, x : On(op, x)' <=> op = "loop" /\ x = Null
  <2>1. \A op, x : On(op, x)' <=> OnIn(calls', op, x)
    BY OnNext
  <2> QED
    BY <1>4, <1>5, <2>1
<1>7. SchedInv'
  <2>1. registered' \in BOOLEAN /\ woken' \in BOOLEAN
    BY <1>1, <1>3 DEF Typed
  <2>2. Len(calls') # 0 => calls'[1].op \notin {"drain", "free"}
    BY <1>5
  <2> QED
    BY <1>1, <1>2, <1>3, <1>4, <1>5, <2>1, <2>2, BaseStepKeeps
<1>8. RunTells'
  <2>1. /\ runner' \in {"runner", "finish"} /\ live' /\ ~On("root", Null)'
        /\ \A op \in {"clear", "drain", "free", "rootClear"} : ~On(op, Null)'
    BY <1>1, <1>3, <1>6 DEF RunTells
  <2> QED
    BY <1>1, <2>1, RunGoes
<1>9. TreeTyped' /\ LevelsKept
  BY <1>1, <1>3 DEF TreeTyped, LevelsKept, ScopesTell
<1> QED
  BY <1>3, <1>5, <1>7, <1>8, <1>9, RunStepKeeps

\* poll of the Schedular, and after it the top task of the root.
LEMMA DriveTopKeeps ==
  ASSUME TreeInv, drive_top_task
  PROVE  TreeInv'
<1>1. TreeTyped /\ ScopesTell /\ Typed /\ RunTells
  BY DEF TreeInv, SchedInv
<1>2. PICK s \in Seq(Tasks) : InvAt(s)
  BY DEF TreeInv, SchedInv
<1>3. /\ BaseCalls(calls) /\ runner \in {"runner", "finish"} /\ live
      /\ ~On("root", Null) /\ ~On("rootClear", Null) /\ ~On("poll", Null)
      /\ Len(calls) # 0 => calls[1].op \notin {"drain", "free"}
  <2>1. CASE FinishLoop
    <3>1. Running("loop", Null) /\ "loop" \in BaseOps /\ "loop" \in TreeOps
      BY <2>1 DEF FinishLoop, BaseOps, TreeOps
    <3>2. /\ BaseCalls(calls) /\ runner \in {"runner", "finish"} /\ live
          /\ ~OnIn(Tail(calls), "root", Null) /\ ~OnIn(Tail(calls), "poll", Null)
      BY <3>1, RootTop
    <3>3. \A op, x : On(op, x) <=> (op = "loop" /\ x = Null) \/ OnIn(Tail(calls), op, x)
      BY <1>1, <1>2, <3>1, BaseTop DEF InvAt
    <3>4. calls[1].op = "loop"
      BY <1>1, <3>1, RunningOn DEF Typed
    <3>5. ~On("rootClear", Null)
      BY <1>1, <3>2, NotClearing
    <3> QED
      BY <3>2, <3>3, <3>4, <3>5
  <2>2. CASE Step
    <3>1. calls = <<>> /\ runner = "runner"
      BY <2>2 DEF Step
    <3>2. BaseCalls(calls) /\ Len(calls) = 0 /\ \A op, x : ~OnIn(calls, op, x)
      BY <3>1, NoBaseCalls
    <3> QED
      BY <1>1, <3>1, <3>2 DEF On, RunTells
  <2> QED
    BY <2>1, <2>2 DEF drive_top_task
<1>4. /\ UNCHANGED <<woken, scope, runner, panicked, work>> /\ root.len >= 2
      /\ UNCHANGED <<task, list, turn, live, thread, fifo, linking>>
      /\ StartPoll(<<Frame("root", Null)>>)
  BY DEF drive_top_task, StartPoll, queueVars
<1>5. root' = [len |-> root.len, state |-> root.state, busy |-> FALSE]
  BY <1>1, RootIs DEF drive_top_task
<1>6. TreeTyped' /\ root'.len = root.len
  <2>1. /\ runner' \in {"none", "runner", "finish", "undefined"}
        /\ panicked' \in BOOLEAN /\ work' \in 0..MaxWork
    BY <1>1, <1>4 DEF TreeTyped
  <2> QED
    BY <1>1, <1>4, <1>5, <2>1, RootIs, RootTyped
<1>7. registered' \in BOOLEAN /\ woken' \in BOOLEAN
  BY <1>1, <1>4 DEF Typed, StartPoll
<1>8. PICK c : c = <<Frame("root", Null)>> \o calls
  OBVIOUS
<1>9. /\ BaseCalls(c) /\ c[1].op = "root"
      /\ \A op, x : OnIn(c, op, x) <=> (op = "root" /\ x = Null) \/ OnIn(calls, op, x)
  <2>1. /\ "root" \in BaseOps /\ ~OnIn(calls, "root", Null) /\ ~OnIn(calls, "rootClear", Null)
        /\ ~OnIn(calls, "poll", Null)
    BY <1>3 DEF BaseOps, TreeOps, On
  <2> QED
    BY <1>3, <1>8, <2>1, BaseCalled
<1>10. \A op \in {"clear", "drain", "free", "rootClear"} : ~OnIn(c, op, Null)
  <2>1. \A op \in {"clear", "drain", "free", "rootClear"} : ~On(op, Null)
    BY <1>1, <1>3, NotClearing
  <2> QED
    BY <1>9, <2>1 DEF On
<1>11. CASE list.next = Null
  <2>1. calls' = c
    BY <1>4, <1>8, <1>11 DEF StartPoll, Calls
  <2>2. BaseCalls(calls') /\ (Len(calls') # 0 => calls'[1].op \notin {"drain", "free"})
    BY <1>9, <2>1
  <2>3. SchedInv'
    BY <1>1, <1>2, <1>3, <1>4, <1>7, <2>2, BaseStepKeeps
  <2>4. RunTells'
    <3>1. \A op, x : On(op, x)' <=> OnIn(c, op, x)
      BY <2>1, OnNext
    <3>2. /\ runner' \in {"runner", "finish"} /\ live' /\ root'.len >= 2 /\ list'.next = Null
          /\ \A op \in {"clear", "drain", "free", "rootClear"} : ~On(op, Null)'
      BY <1>3, <1>4, <1>6, <1>10, <1>11, <3>1
    <3> QED
      BY <1>1, <3>2, RunGoes
  <2>5. LevelsKept
    BY <1>1, <1>4, <1>6 DEF LevelsKept, ScopesTell
  <2> QED
    BY <1>4, <1>6, <2>2, <2>3, <2>4, <2>5, RunStepKeeps
<1>12. CASE list.next # Null
  <2>1. PICK d : d = <<Frame("poll", Null)>> \o c
    OBVIOUS
  <2>2. /\ BaseCalls(d) /\ d[1].op = "poll"
        /\ \A op, x : OnIn(d, op, x) <=> (op = "poll" /\ x = Null) \/ OnIn(c, op, x)
    <3>1. "poll" \in BaseOps /\ "poll" \notin TreeOps
      BY DEF BaseOps, TreeOps
    <3> QED
      BY <1>9, <2>1, <3>1, BaseCalled
  <2>3. calls' = d
    <3>1. PICK f \in FrameSet, g \in FrameSet : f = Frame("poll", Null) /\ g = Frame("root", Null)
      BY FrameFacts DEF Ops, TreeOps
    <3>2. <<f>> \in Seq(FrameSet) /\ <<g>> \in Seq(FrameSet) /\ calls \in Seq(FrameSet)
      BY <1>1 DEF Typed
    <3>3. (<<f>> \o <<g>>) \o calls = <<f>> \o (<<g>> \o calls)
      BY <3>2, ConcatAssociative
    <3>4. calls' = (<<Frame("poll", Null)>> \o <<Frame("root", Null)>>) \o calls
      BY <1>4, <1>12 DEF StartPoll, Calls
    <3> QED
      BY <1>8, <2>1, <3>1, <3>3, <3>4, Zenon
  <2>4. BaseCalls(calls') /\ (Len(calls') # 0 => calls'[1].op \notin {"drain", "free"})
    BY <2>2, <2>3
  <2>5. SchedInv'
    BY <1>1, <1>2, <1>3, <1>4, <1>7, <2>4, BaseStepKeeps
  <2>6. RunTells'
    <3>1. \A op, x : On(op, x)' <=> (op = "poll" /\ x = Null) \/ OnIn(c, op, x)
      BY <2>2, <2>3, OnNext
    <3>2. /\ runner' \in {"runner", "finish"} /\ live' /\ root'.len >= 2 /\ On("poll", Null)'
          /\ \A op \in {"clear", "drain", "free", "rootClear"} : ~On(op, Null)'
      BY <1>3, <1>4, <1>6, <1>10, <3>1
    <3> QED
      BY <1>1, <3>2, RunGoes
  <2>7. LevelsKept
    BY <1>1, <1>4, <1>6 DEF LevelsKept, ScopesTell
  <2> QED
    BY <1>4, <1>6, <2>4, <2>5, <2>6, <2>7, RunStepKeeps
<1> QED
  BY <1>11, <1>12

\* The root is cleared after clear, or before it.
LEMMA ClearTells ==
  ASSUME NEW ops, AreBase(calls', ops, "clear") \/ AreBase(calls', ops, "rootClear"),
         "clear" \in ops, ops \in SUBSET {"clear", "drain", "free", "rootClear"}, runner' = "none"
  PROVE  RunTells' /\ BaseCalls(calls') /\ (Len(calls') # 0 => calls'[1].op \notin {"drain", "free"})
<1>1. \A op, x : On(op, x)' <=> op \in ops /\ x = Null
  <2>1. \A op, x : On(op, x)' <=> OnIn(calls', op, x)
    BY OnNext
  <2> QED
    BY <2>1 DEF AreBase
<1>2. /\ \A op \in {"loop", "root", "poll"} : ~On(op, Null)'
      /\ On("clear", Null)' /\ \A t \in Tasks : ~On("drive", t)'
  BY <1>1, SchedularAssumption
<1>3. RunTells'
  BY <1>2 DEF RunTells
<1> QED
  BY <1>3 DEF AreBase

LEMMA DropRunKeeps ==
  ASSUME TreeInv, DropRunner \/ DropTree
  PROVE  TreeInv'
<1>1. TreeTyped /\ ScopesTell /\ Typed
  BY DEF TreeInv, SchedInv
<1>2. PICK s \in Seq(Tasks) : InvAt(s)
  BY DEF TreeInv, SchedInv
<1>3. /\ calls = <<>> /\ runner' = "none" /\ UNCHANGED <<root, scope, panicked, work>>
      /\ UNCHANGED <<task, list, turn, registered, woken, live, thread, fifo, linking>>
  BY DEF DropRunner, DropTree, rest, wakeVars, queueVars, treeVars
<1>4. PICK ops : /\ AreBase(calls', ops, "clear") \/ AreBase(calls', ops, "rootClear")
                 /\ "clear" \in ops /\ ops \in SUBSET {"clear", "drain", "free", "rootClear"}
  <2>1. CASE DropRunner
    <3>1. PICK c : c = ClearCalls \o <<Frame("rootClear", Null)>>
      OBVIOUS
    <3>2. AreBase(c, {"clear", "drain", "rootClear"}, "clear")
      BY <3>1, ClearThen
    <3>3. c \in Seq(FrameSet)
      BY <3>2 DEF AreBase, BaseCalls
    <3>4. calls' = c \o <<>>
      BY <1>3, <2>1, <3>1 DEF DropRunner, RunnerDropCalls, Calls
    <3>5. calls' = c
      BY <3>3, <3>4, ConcatEmptySeq
    <3>6. {"clear", "drain", "rootClear"} \in SUBSET {"clear", "drain", "free", "rootClear"}
      OBVIOUS
    <3> QED
      BY <3>2, <3>5, <3>6
  <2>2. CASE DropTree
    <3>1. PICK c : c = ClearCalls \o <<Frame("free", Null)>>
      OBVIOUS
    <3>2. AreBase(c, {"clear", "drain", "free"}, "clear")
      BY <3>1, ClearThen
    <3>3. PICK d : d = <<Frame("rootClear", Null)>> \o c
      OBVIOUS
    <3>4. /\ BaseCalls(d) /\ d[1].op = "rootClear"
          /\ \A op, x : OnIn(d, op, x) <=> (op = "rootClear" /\ x = Null) \/ OnIn(c, op, x)
      <4>1. /\ "rootClear" \in BaseOps /\ BaseCalls(c) /\ c[1].op \notin {"drain", "free"}
            /\ ~OnIn(c, "root", Null) /\ ~OnIn(c, "rootClear", Null) /\ ~OnIn(c, "poll", Null)
        BY <3>2 DEF AreBase, BaseOps, TreeOps
      <4> QED
        BY <3>3, <4>1, BaseCalled
    <3>5. AreBase(d, {"clear", "drain", "free", "rootClear"}, "rootClear")
      BY <3>2, <3>4 DEF AreBase
    <3>6. d \in Seq(FrameSet)
      BY <3>4 DEF BaseCalls
    <3>7. calls' = d \o <<>>
      BY <1>3, <2>2, <3>1, <3>3 DEF DropTree, DropCalls, Calls
    <3>8. calls' = d
      BY <3>6, <3>7, ConcatEmptySeq
    <3> QED
      BY <3>5, <3>8
  <2> QED
    BY <2>1, <2>2
<1>5. RunTells' /\ BaseCalls(calls') /\ (Len(calls') # 0 => calls'[1].op \notin {"drain", "free"})
  BY <1>3, <1>4, ClearTells
<1>6. SchedInv'
  <2>1. registered' \in BOOLEAN /\ woken' \in BOOLEAN /\ BaseCalls(calls)
    BY <1>1, <1>3, NoBaseCalls DEF Typed
  <2> QED
    BY <1>1, <1>2, <1>3, <1>5, <2>1, BaseStepKeeps
<1>7. TreeTyped'
  BY <1>1, <1>3 DEF TreeTyped
<1>8. LevelsKept
  BY <1>1, <1>3 DEF LevelsKept, ScopesTell
<1> QED
  BY <1>3, <1>5, <1>6, <1>7, <1>8, RunStepKeeps

\* The end of Stack::clear of the root.
LEMMA RootCleared ==
  ASSUME TreeInv, Running("rootClear", Null), Held(Outside) = {},
         root' = (IF root.len = 0 THEN root ELSE [root EXCEPT !.len = 0, !.state = "Base"]),
         Become(<<>>), UNCHANGED <<task, list, rest, scope, runner, panicked, work>>
  PROVE  TreeInv'
<1>1. TreeTyped /\ ScopesTell /\ Typed /\ RunTells
  BY DEF TreeInv, SchedInv
<1>2. PICK s \in Seq(Tasks) : InvAt(s)
  BY DEF TreeInv, SchedInv
<1>3. "rootClear" \in BaseOps /\ "rootClear" \in TreeOps
  BY DEF BaseOps, TreeOps
<1>4. /\ BaseCalls(calls) /\ BaseCalls(Tail(calls)) /\ On("rootClear", Null)
      /\ \A op, x : OnIn(Tail(calls), op, x) => On(op, x)
      /\ ~OnIn(Tail(calls), "root", Null) /\ ~OnIn(Tail(calls), "rootClear", Null)
      /\ Len(Tail(calls)) # 0 => Tail(calls)[1].op \notin {"drain", "free"}
  BY <1>1, <1>2, <1>3, BaseTop DEF InvAt
<1>5. calls' = Tail(calls)
  BY <1>4, ConcatIs DEF BaseCalls, Become
<1>6. BaseCalls(calls') /\ (Len(calls') # 0 => calls'[1].op \notin {"drain", "free"})
  BY <1>4, <1>5
<1>7. SchedInv'
  <2>1. /\ UNCHANGED <<task, list, turn, live, thread, fifo, linking>>
        /\ registered' \in BOOLEAN /\ woken' \in BOOLEAN
    BY <1>1 DEF rest, wakeVars, queueVars, Typed
  <2> QED
    BY <1>1, <1>2, <1>4, <1>6, <2>1, BaseStepKeeps
<1>8. runner = "none"
  BY <1>1, <1>4 DEF RunTells
<1>9. RunTells'
  <2>1. \A op, x : On(op, x)' <=> OnIn(Tail(calls), op, x)
    BY <1>5, OnNext
  <2>2. /\ \A op \in {"loop", "root", "poll"} : ~On(op, Null)
        /\ \A t \in Tasks : ~On("drive", t)
    BY <1>1, <1>8 DEF RunTells
  <2>3. /\ \A op \in {"loop", "root", "poll"} : ~On(op, Null)'
        /\ ~On("rootClear", Null)' /\ \A t \in Tasks : ~On("drive", t)'
    BY <1>4, <2>1, <2>2
  <2> QED
    BY <1>8, <2>3 DEF RunTells
<1>10. PICK st \in {"Base", "NewTask"} : root' = [len |-> 0, state |-> st, busy |-> root.busy]
  <2>1. CASE root.len = 0
    BY <1>1, <2>1, RootIs
  <2>2. CASE root.len # 0
    BY <1>1, <2>2, RootIs
  <2> QED
    BY <2>1, <2>2
<1>11. TreeTyped'
  <2>1. /\ runner' \in {"none", "runner", "finish", "undefined"} /\ 0 \in 0..MaxRoot
        /\ panicked' \in BOOLEAN /\ work' \in 0..MaxWork
    BY <1>1, TreeAssumption DEF TreeTyped
  <2> QED
    BY <1>1, <1>10, <2>1, RootIs, RootTyped
<1>12. LevelsKept
  BY <1>8 DEF LevelsKept, Held
<1> QED
  BY <1>6, <1>7, <1>9, <1>11, <1>12, RunStepKeeps

LEMMA RootClearKeeps ==
  ASSUME TreeInv, RootClear
  PROVE  TreeInv'
<1>1. Running("rootClear", Null) /\ UNCHANGED <<scope, runner, panicked, work>>
  BY DEF RootClear
<1>2. ASSUME NEW c \in Held(Outside), DropToken(c), UNCHANGED root PROVE TreeInv'
  <2>1. c \in Tasks /\ task[c].token # Null /\ MayDropToken(c)
    BY <1>1, SchedularAssumption DEF Held, MayDropToken
  <2> QED
    BY <1>1, <1>2, <2>1, ScopeDropKeeps DEF treeVars
<1> QED
  BY <1>1, <1>2, RootCleared DEF RootClear

-----------------------------------------------------------------------------
(***************************************************************************)
(* A run begins without any scope of another run.                          *)
(***************************************************************************)

\* Every running task has a running holder that is older, up to the root.
LEMMA NoHolders ==
  ASSUME Typed, NEW s, InvAt(s), \A x \in Tasks : ~On("future", x) /\ ~On("token", x),
         Held(Outside) = {}
  PROVE  \A t \in Tasks : task[t].done # "Running"
<1> SUFFICES ASSUME NEW t \in Tasks, task[t].done = "Running" PROVE FALSE
  OBVIOUS
<1>1. s \in Seq(Tasks) /\ Listed(s) /\ HolderOlder(s) /\ HolderKnown
  BY DEF InvAt, Core, IsList
<1>2. Len(s) \in Nat /\ \A i \in 1..Len(s) : s[i] \in Tasks
  BY <1>1, LenProperties, ElementOfSeq
<1> DEFINE T == {k \in Nat : Len(s) - k \in 1..Len(s) /\ task[s[Len(s) - k]].done = "Running"}
<1>3. T # {}
  <2>1. PICK i \in 1..Len(s) : s[i] = t
    BY <1>1 DEF Listed, In
  <2>2. Len(s) - i \in Nat /\ Len(s) - (Len(s) - i) = i
    BY <1>2
  <2>3. Len(s) - i \in T
    BY <2>1, <2>2
  <2> QED
    BY <2>3
<1>4. PICK k \in T : \A y \in T : k <= y
  <2>1. T \in SUBSET Nat
    OBVIOUS
  <2> HIDE DEF T
  <2> QED
    BY <1>3, <2>1, LeastNumber
<1>5. PICK i \in 1..Len(s) : i = Len(s) - k /\ task[s[i]].done = "Running"
  BY <1>4
<1>6. PICK h \in Tasks : task[s[i]].token = h /\ task[h].done = "Running"
  <2>1. s[i] \in Tasks
    BY <1>2
  <2>2. task[s[i]].token # Outside
    BY <2>1 DEF Held
  <2>3. /\ task[s[i]].token \in Tasks
        /\ task[task[s[i]].token].done = "Running" \/ On("future", task[s[i]].token)
    BY <1>1, <1>5, <2>1, <2>2 DEF HolderKnown
  <2> QED
    BY <2>3
<1>7. PICK j \in 1..Len(s) : s[j] = h
  BY <1>1, <1>6 DEF Listed, In
<1>8. i < j
  BY <1>1, <1>6, <1>7 DEF HolderOlder
<1>9. Len(s) - j \in T
  <2>1. Len(s) - j \in Nat /\ Len(s) - (Len(s) - j) = j
    BY <1>2
  <2> QED
    BY <1>6, <1>7, <2>1
<1>10. k <= Len(s) - j /\ k \in Nat
  BY <1>4, <1>9
<1> QED
  BY <1>2, <1>5, <1>8, <1>10

\* No future is left when nothing is called and the root holds no scope.
LEMMA NoFutures ==
  ASSUME Typed, NEW s, InvAt(s), calls = <<>>, Held(Outside) = {}
  PROVE  \A t \in Tasks : ~FutureLeft(t) /\ (task[t].dropped = 0 => task[t].done = "absent")
<1>1. \A op, x : ~On(op, x)
  BY NoCalls DEF On
<1>2. \A t \in Tasks : task[t].done # "Running"
  BY <1>1, NoHolders
<1>3. \A t \in Tasks : ~(task[t].done \in {"Cancelled", "Done"} /\ task[t].dropped = 0)
  BY <1>1 DEF InvAt, Core, CallsTell
<1>4. \A t \in Tasks : task[t].done \in {"absent", "Running", "Cancelled", "Done"}
  BY DEF Typed, TaskRecords
<1> QED
  BY <1>2, <1>3, <1>4 DEF FutureLeft

\* The root holds scopes only as long as it has a task.
LEMMA NoLevels ==
  ASSUME TreeTyped, ScopesTell, root.len <= 1
  PROVE  Held(Outside) = {}
<1> SUFFICES ASSUME NEW c \in Tasks, task[c].token = Outside PROVE FALSE
  BY DEF Held
<1>1. 2 <= scope[c].level /\ scope[c].level <= root.len
  BY DEF ScopesTell
<1>2. scope[c].level \in Nat /\ root.len \in Nat
  BY RootIs DEF TreeTyped, ScopeRecords
<1> QED
  BY <1>1, <1>2

LEMMA EnterKeeps ==
  ASSUME TreeInv, enter
  PROVE  TreeInv'
<1>1. TreeTyped /\ ScopesTell /\ Typed
  BY DEF TreeInv, SchedInv
<1>2. PICK s \in Seq(Tasks) : InvAt(s)
  BY DEF TreeInv, SchedInv
<1>3. /\ calls = <<>> /\ live /\ root.len = 0 /\ runner' = "runner" /\ panicked' = FALSE
      /\ UNCHANGED <<task, list, calls, turn, registered, woken, live, thread, fifo, linking, scope>>
  BY DEF enter, schedVars, rest, wakeVars, queueVars
<1>4. Held(Outside) = {}
  BY <1>1, <1>3, NoLevels
<1>5. \A t \in Tasks : task[t].dropped = 0 => task[t].done = "absent"
  BY <1>1, <1>2, <1>3, <1>4, NoFutures
<1>6. ASSUME NEW c \in Tasks PROVE task[c].token = Null
  <2>1. task[c].token \in Tasks => task[task[c].token].dropped = 0
    BY <1>1 DEF ScopesTell
  <2>2. task[c].token \in Tasks => task[task[c].token].done # "absent"
    BY <1>2 DEF InvAt, TasksTell
  <2>3. task[c].token \in Tasks \cup {Outside, Null}
    BY <1>1 DEF Typed, TaskRecords
  <2> QED
    BY <1>4, <1>5, <2>1, <2>2, <2>3 DEF Held
<1>7. LevelsKept
  BY <1>6, SchedularAssumption DEF LevelsKept
<1>8. root' = [len |-> 2, state |-> root.state, busy |-> root.busy]
  BY <1>1, RootIs DEF enter
<1>9. TreeTyped'
  <2>1. runner' \in {"none", "runner", "finish", "undefined"} /\ panicked' \in BOOLEAN
    BY <1>3
  <2>2. 2 \in 0..MaxRoot
    BY TreeAssumption
  <2>3. work' \in 0..MaxWork
    BY <1>1, WorkBound DEF enter
  <2> QED
    BY <1>1, <1>3, <1>8, <2>1, <2>2, <2>3, RootIs, RootTyped
<1>10. BaseCalls(calls) /\ calls' = <<>> /\ woken' \in BOOLEAN
  BY <1>1, <1>3, NoBaseCalls DEF Typed
<1> QED
  BY <1>3, <1>7, <1>9, <1>10, RunStops

-----------------------------------------------------------------------------
(***************************************************************************)
(* The wakers in the futures of scopes.                                    *)
(***************************************************************************)

\* How many wait for a task.
LEMMA WaitersNumber ==
  ASSUME TreeTyped, NEW t
  PROVE  IsFiniteSet(Waiters(t)) /\ Cardinality(Waiters(t)) \in Nat
<1>1. IsFiniteSet(Waiters(t))
  BY SchedularAssumption, FS_Subset DEF Waiters
<1> QED
  BY <1>1, FS_CardinalityType

\* The one that a task is to wake has a waker of its own.
LEMMA NotifiedHasWaker ==
  ASSUME Typed, TreeTyped, WaitersCounted, NEW c \in Tasks, NEW t \in Tasks, scope[c].notify = t
  PROVE  task[t].wakers > 0
<1>1. c \in Waiters(t) /\ IsFiniteSet(Waiters(t)) /\ Cardinality(Waiters(t)) \in Nat
  BY WaitersNumber DEF Waiters
<1>2. Cardinality(Waiters(t)) # 0
  BY <1>1, FS_EmptySet
<1>3. task[t].wakers \in Nat /\ Cardinality(Waiters(t)) <= task[t].wakers
  BY DEF Typed, TaskRecords, WaitersCounted
<1> QED
  BY <1>1, <1>2, <1>3

\* The future of c gives up its waker of h, if it has one.
LEMMA WakerGivenUp ==
  ASSUME Typed, Typed', TreeTyped, WaitersCounted, NEW c \in Tasks, scope'[c].notify = Null,
         \A x \in Tasks : x # c => scope'[x].notify = scope[x].notify,
         \A t \in Tasks : task'[t].wakers = task[t].wakers - One(t = scope[c].notify)
  PROVE  WaitersCounted'
<1> SUFFICES ASSUME NEW t \in Tasks
             PROVE  Cardinality(Waiters(t)') <= task'[t].wakers
  BY DEF WaitersCounted
<1>1. IsFiniteSet(Waiters(t)) /\ Cardinality(Waiters(t)) \in Nat
  BY WaitersNumber
<1>2. task[t].wakers \in Nat /\ Cardinality(Waiters(t)) <= task[t].wakers
  BY DEF Typed, TaskRecords, WaitersCounted
<1>3. t # Null
  BY SchedularAssumption
<1>4. CASE scope[c].notify = t
  <2>1. Waiters(t)' = Waiters(t) \ {c} /\ c \in Waiters(t)
    BY <1>3, <1>4 DEF Waiters
  <2>2. Cardinality(Waiters(t) \ {c}) = Cardinality(Waiters(t)) - 1
    BY <1>1, <2>1, FS_RemoveElement
  <2>3. task'[t].wakers = task[t].wakers - 1
    BY <1>4 DEF One
  <2> QED
    BY <1>1, <1>2, <2>1, <2>2, <2>3
<1>5. CASE scope[c].notify # t
  <2>1. Waiters(t)' = Waiters(t)
    BY <1>3, <1>5 DEF Waiters
  <2>2. task'[t].wakers = task[t].wakers - 0
    BY <1>5 DEF One
  <2> QED
    BY <1>1, <1>2, <2>1, <2>2
<1> QED
  BY <1>4, <1>5

\* Nobody's waker is dropped.
LEMMA DropNobody ==
  ASSUME Typed, NEW w, w \notin Tasks
  PROVE  schedular_drop(task, w) = task
<1>1. task \in [Tasks -> TaskRecords]
  BY DEF Typed
<1>2. ASSUME NEW t \in Tasks
      PROVE  [task[t] EXCEPT !.wakers = @ - One(t = w), !.count = @ - One(t = w)] = task[t]
  <2>1. PICK q \in TaskRecords : q = task[t]
    BY <1>1
  <2>2. One(t = w) = 0
    BY DEF One
  <2>3. q.wakers \in Nat /\ q.count \in Nat
    BY DEF TaskRecords
  <2>4. q.wakers - 0 = q.wakers /\ q.count - 0 = q.count
    BY <2>3
  <2>5. [q EXCEPT !.wakers = q.wakers - 0, !.count = q.count - 0] = q
    BY <2>4 DEF TaskRecords
  <2> QED
    BY <2>1, <2>2, <2>5
<1>3. schedular_drop(task, w) = [t \in Tasks |-> task[t]]
  BY <1>2 DEF schedular_drop
<1> QED
  BY <1>1, <1>3

\* The waker of t is used up and marks it.
LEMMA UsedWaker ==
  ASSUME Typed, NEW t \in Tasks, task[t].wakers > 0,
         task' = [task EXCEPT ![t].wakers = @ - 1, ![t].queued = TRUE]
  PROVE  /\ task' \in [Tasks -> TaskRecords]
         /\ \A x \in Tasks :
              /\ Untouched(x) /\ task'[x].count = task[x].count
              /\ x # t => task'[x].wakers = task[x].wakers /\ task'[x].queued = task[x].queued
         /\ task'[t].wakers = task[t].wakers - 1 /\ task'[t].queued
<1>1. PICK q \in TaskRecords : q = task[t]
  BY DEF Typed
<1>2. PICK n : n = [q EXCEPT !.wakers = q.wakers - 1, !.queued = TRUE]
  OBVIOUS
<1>3. q.wakers \in Nat /\ q.wakers > 0
  BY <1>1 DEF TaskRecords
<1>4. q.wakers - 1 \in Nat
  BY <1>3
<1>5. n \in TaskRecords
  BY <1>2, <1>4 DEF TaskRecords
<1>6. /\ n.wakers = q.wakers - 1 /\ n.queued = TRUE /\ n.count = q.count /\ n.done = q.done
      /\ n.dropped = q.dropped /\ n.token = q.token /\ n.next = q.next /\ n.prev = q.prev
      /\ n.cancelled = q.cancelled
  BY <1>2 DEF TaskRecords
<1>7. task \in [Tasks -> TaskRecords]
  BY DEF Typed
<1>8. task' = [task EXCEPT ![t] = n]
  BY <1>1, <1>2
<1>9. /\ task' \in [Tasks -> TaskRecords]
      /\ task'[t] = n /\ \A x \in Tasks : x # t => task'[x] = task[x]
  BY <1>5, <1>7, <1>8
<1> QED
  BY <1>1, <1>6, <1>9 DEF Untouched, SameTask

\* Outside code uses a waker that is in no future of a scope.
LEMMA OutsideWakesKeeps ==
  ASSUME TreeInv, NEW th \in Threads, NEW t \in Tasks, OutsideWakes(th, t)
  PROVE  TreeInv'
<1>1. TreeTyped /\ ScopesTell /\ Typed /\ RunTells /\ WaitersCounted
  BY DEF TreeInv, SchedInv
<1>2. PICK s \in Seq(Tasks) : InvAt(s)
  BY DEF TreeInv, SchedInv
<1>3. schedular_wake(th, t) /\ FreeWakers(t) > 0 /\ UNCHANGED treeVars
  BY DEF OutsideWakes
<1>4. UNCHANGED <<calls, list, live>> /\ task[t].wakers > 0
  BY <1>3 DEF schedular_wake, Wakes
<1>5. SchedInv' /\ Typed'
  BY <1>1, <1>2, <1>3, WakeKeeps DEF SchedInv
<1>6. \A x \in Tasks :
        Untouched(x) /\ task'[x].wakers = task[x].wakers - One(x = t)
  <2>1. \A x \in Tasks : task[x].wakers \in Nat
    BY <1>1 DEF Typed, TaskRecords
  <2>2. CASE task' = schedular_drop(task, t)
    <3>1. task[t].count >= 1
      BY <1>1, <1>2, <1>4, OwnedCount DEF InvAt
    <3>2. \A x \in Tasks :
            /\ Untouched(x)
            /\ x # t => task'[x].wakers = task[x].wakers
            /\ x = t => task'[x].wakers = task[x].wakers - 1
      BY <1>1, <1>4, <2>2, <3>1, DroppedWaker
    <3> QED
      BY <2>1, <3>2 DEF One
  <2>3. CASE task' = [task EXCEPT ![t].wakers = @ - 1, ![t].queued = TRUE]
    <3>1. /\ \A x \in Tasks : Untouched(x) /\ (x # t => task'[x].wakers = task[x].wakers)
          /\ task'[t].wakers = task[t].wakers - 1
      BY <1>1, <1>4, <2>3, UsedWaker
    <3> QED
      BY <2>1, <3>1 DEF One
  <2> QED
    BY <1>3, <2>2, <2>3 DEF schedular_wake, Wakes
<1>7. CallsQuiet /\ \A op, x : On(op, x)' => On(op, x)
  BY <1>4, SameQuiet
<1>8. TasksQuiet
  BY <1>6, <1>7 DEF TasksQuiet, MayRemove, Untouched, SameTask
<1>9. TreeTyped' /\ UNCHANGED <<root, scope, runner, panicked>>
  BY <1>1, <1>3 DEF TreeTyped, treeVars
<1>10. RunTells'
  BY <1>1, <1>7, <1>9, RunQuiet
<1>11. ScopesTell'
  BY <1>1, <1>2, <1>5, <1>8, <1>9, ScopesQuiet
<1>12. WaitersCounted'
  <2> SUFFICES ASSUME NEW x \in Tasks
               PROVE  Cardinality(Waiters(x)') <= task'[x].wakers
    BY DEF WaitersCounted
  <2>1. Waiters(x)' = Waiters(x) /\ Cardinality(Waiters(x)) \in Nat
    BY <1>1, <1>9, WaitersNumber DEF Waiters
  <2>2. task[x].wakers \in Nat /\ Cardinality(Waiters(x)) <= task[x].wakers
    BY <1>1 DEF Typed, TaskRecords, WaitersCounted
  <2>3. x = t => task[x].wakers - Cardinality(Waiters(x)) > 0
    BY <1>3 DEF FreeWakers, Waiters
  <2>4. CASE x = t
    <3>1. task'[x].wakers = task[x].wakers - 1
      BY <1>6, <2>4 DEF One
    <3> QED
      BY <2>1, <2>2, <2>3, <2>4, <3>1
  <2>5. CASE x # t
    <3>1. task'[x].wakers = task[x].wakers - 0
      BY <1>6, <2>5 DEF One
    <3> QED
      BY <2>1, <2>2, <3>1
  <2> QED
    BY <2>4, <2>5
<1> QED
  BY <1>5, <1>9, <1>10, <1>11, <1>12 DEF TreeInv

\* The scope of t alone changes.
ScopeKept(t) ==
  /\ \A x \in Tasks : x # t => scope'[x] = scope[x]
  /\ scope'[t].level = scope[t].level
  /\ scope[t].place = "full" => scope'[t].place = "full"
  /\ scope'[t].place = "full" => ~scope'[t].asleep
  /\ task[t].done = "Running" /\ scope'[t].place = "empty" /\ scope'[t].asleep =>
       scope'[t].notify # Null

LEMMA ScopeChanges ==
  ASSUME ScopesTell, NEW t \in Tasks, UNCHANGED <<root, runner, panicked, calls>>,
         \A x \in Tasks : Untouched(x), ScopeKept(t)
  PROVE  ScopesTell'
<1> SUFFICES ASSUME NEW c \in Tasks
             PROVE  (/\ task[c].token = Outside => 2 <= scope[c].level /\ scope[c].level <= root.len
                     /\ task[c].token \in Tasks => task[task[c].token].dropped = 0
                     /\ task[c].done = "Cancelled" => task[c].token = Null
                     /\ scope[c].place = "full" => ~scope[c].asleep
                     /\ task[c].done = "Running" /\ scope[c].place = "empty" /\ scope[c].asleep =>
                          scope[c].notify # Null
                     /\ runner # "none" /\ ~panicked =>
                          /\ On("remove", c) =>
                               scope[c].place = "full" \/ task[c].done = "Cancelled"
                          /\ task[c].token # Null /\ task[c].done = "Done" =>
                               scope[c].place = "full")'
  BY DEF ScopesTell
<1>1. /\ task'[c].token = task[c].token /\ task'[c].done = task[c].done
      /\ \A x \in Tasks : task'[x].dropped = task[x].dropped
  BY DEF Untouched, SameTask
<1>2. On("remove", c)' <=> On("remove", c)
  BY OnKept
<1>3. /\ scope'[c].level = scope[c].level
      /\ scope[c].place = "full" => scope'[c].place = "full"
  BY DEF ScopeKept
<1>4. /\ task[c].token = Outside => 2 <= scope[c].level /\ scope[c].level <= root.len
      /\ task[c].token \in Tasks => task[task[c].token].dropped = 0
      /\ task[c].done = "Cancelled" => task[c].token = Null
      /\ scope[c].place = "full" => ~scope[c].asleep
      /\ task[c].done = "Running" /\ scope[c].place = "empty" /\ scope[c].asleep =>
           scope[c].notify # Null
      /\ runner # "none" /\ ~panicked =>
           /\ On("remove", c) => scope[c].place = "full" \/ task[c].done = "Cancelled"
           /\ task[c].token # Null /\ task[c].done = "Done" => scope[c].place = "full"
  BY DEF ScopesTell
<1>5. /\ scope'[c].place = "full" => ~scope'[c].asleep
      /\ task[c].done = "Running" /\ scope'[c].place = "empty" /\ scope'[c].asleep =>
           scope'[c].notify # Null
  BY <1>4 DEF ScopeKept
<1>6. /\ task'[c].token = Outside => 2 <= scope'[c].level /\ scope'[c].level <= root'.len
      /\ task'[c].token \in Tasks => task'[task'[c].token].dropped = 0
      /\ task'[c].done = "Cancelled" => task'[c].token = Null
  BY <1>1, <1>3, <1>4
<1>7. runner' # "none" /\ ~panicked' =>
        /\ On("remove", c)' => scope'[c].place = "full" \/ task'[c].done = "Cancelled"
        /\ task'[c].token # Null /\ task'[c].done = "Done" => scope'[c].place = "full"
  BY <1>1, <1>2, <1>3, <1>4
<1> QED
  BY <1>1, <1>5, <1>6, <1>7

\* The fields of a scope that is replaced.
LEMMA ScopeWith ==
  ASSUME TreeTyped, NEW t \in Tasks, NEW n \in ScopeRecords, scope' = [scope EXCEPT ![t] = n],
         UNCHANGED <<root, runner, panicked, work>>
  PROVE  TreeTyped' /\ scope'[t] = n /\ \A x \in Tasks : x # t => scope'[x] = scope[x]
BY DEF TreeTyped

\* The future of a task is dropped, and with it its waker.
LEMMA DropNotifyKeeps ==
  ASSUME TreeInv, NEW t \in Tasks, DropNotify(t)
  PROVE  TreeInv'
<1>1. TreeTyped /\ ScopesTell /\ Typed /\ RunTells /\ WaitersCounted
  BY DEF TreeInv, SchedInv
<1>2. PICK s \in Seq(Tasks) : InvAt(s)
  BY DEF TreeInv, SchedInv
<1>3. PICK h \in Tasks \cup {Outside} : h = scope[t].notify
  BY <1>1 DEF DropNotify, TreeTyped, ScopeRecords
<1>4. /\ Running("future", t) /\ task' = schedular_drop(task, h)
      /\ UNCHANGED <<list, calls, rest, root, runner, panicked, work>>
  BY <1>3 DEF DropNotify
<1>5. /\ SchedInv' /\ Typed'
      /\ \A x \in Tasks : Untouched(x) /\ task'[x].wakers = task[x].wakers - One(x = h)
  <2>1. \A x \in Tasks : task[x].wakers \in Nat
    BY <1>1 DEF Typed, TaskRecords
  <2>2. CASE h \in Tasks
    <3>1. task[h].wakers > 0
      BY <1>1, <1>3, <2>2, NotifiedHasWaker
    <3>2. task[h].count >= 1
      BY <1>1, <1>2, <2>2, <3>1, OwnedCount DEF InvAt
    <3>3. Typed' /\ InvAt(s)'
      BY <1>1, <1>2, <1>4, <2>2, <3>1, DropKeeps
    <3>4. \A x \in Tasks :
            /\ Untouched(x)
            /\ x # h => task'[x].wakers = task[x].wakers
            /\ x = h => task'[x].wakers = task[x].wakers - 1
      BY <1>1, <1>4, <2>2, <3>1, <3>2, DroppedWaker
    <3> QED
      BY <2>1, <3>3, <3>4 DEF One, SchedInv
  <2>3. CASE h = Outside
    <3>1. h \notin Tasks
      BY <2>3, SchedularAssumption
    <3>2. task' = task
      BY <1>1, <1>4, <3>1, DropNobody
    <3>3. SchedInv'
      BY <1>4, <3>2, StutterKeeps DEF TreeInv, schedVars
    <3>4. \A x \in Tasks : One(x = h) = 0
      BY <3>1 DEF One
    <3> QED
      BY <2>1, <3>2, <3>3, <3>4 DEF SchedInv, Untouched, SameTask
  <2> QED
    BY <2>2, <2>3
<1>6. PICK q \in ScopeRecords : q = scope[t]
  BY <1>1 DEF TreeTyped
<1>7. PICK n : n = [q EXCEPT !.notify = Null]
  OBVIOUS
<1>8. n \in ScopeRecords /\ n.notify = Null /\ n.place = q.place /\ n.level = q.level /\ n.asleep = q.asleep
  BY <1>7 DEF ScopeRecords
<1>9. scope' = [scope EXCEPT ![t] = n]
  BY <1>6, <1>7 DEF DropNotify
<1>10. TreeTyped' /\ scope'[t] = n /\ \A x \in Tasks : x # t => scope'[x] = scope[x]
  BY <1>1, <1>4, <1>8, <1>9, ScopeWith
<1>11. task[t].done # "Running"
  <2>1. On("future", t)
    BY <1>1, <1>4, RunningOn DEF Typed
  <2> QED
    BY <1>2, <2>1 DEF InvAt, Core, CallsTell
<1>12. ScopeKept(t)
  <2>1. scope[t].place = "full" => ~scope[t].asleep
    BY <1>1 DEF ScopesTell
  <2> QED
    BY <1>6, <1>8, <1>10, <1>11, <2>1 DEF ScopeKept
<1>13. ScopesTell'
  BY <1>1, <1>4, <1>5, <1>12, ScopeChanges
<1>14. RunTells'
  <2>1. UNCHANGED <<calls, list, live>>
    BY <1>4 DEF rest
  <2> QED
    BY <1>1, <1>4, <2>1, SameQuiet, RunQuiet
<1>15. WaitersCounted'
  BY <1>1, <1>3, <1>5, <1>8, <1>10, WakerGivenUp
<1> QED
  BY <1>5, <1>10, <1>13, <1>14, <1>15 DEF TreeInv

\* Nothing of the Schedular changes but that its poller is woken.
LEMMA WokenKeeps ==
  ASSUME Typed, NEW s, InvAt(s), NEW x \in Tasks, woken' \in BOOLEAN,
         UNCHANGED <<task, list, calls, turn, registered, live, thread, fifo, linking>>
  PROVE  Typed' /\ InvAt(s)'
<1>1. Typed'
  BY DEF Typed
<1>2. Marked'
  BY MarkedKept DEF InvAt
<1>3. \A t \in Tasks : Untouched(t)
  BY DEF Untouched, SameTask
<1>4. \A t : Waking(t)' <=> Waking(t)
  BY DEF Waking
<1>5. Others(x)
  BY <1>4 DEF Others
<1>6. Gains(x, 0)
  <2>1. task[x].count \in Nat /\ task[x].wakers \in Nat
    BY DEF Typed, TaskRecords
  <2>2. PICK a \in Nat, b \in Nat : a = One(In(fifo, x)) /\ b = One(Waking(x))
    BY DEF One
  <2>3. One(In(fifo', x)) = a /\ One(Waking(x)') = b
    BY <1>4, <2>2 DEF One
  <2> QED
    BY <2>1, <2>2, <2>3 DEF Gains
<1>7. Skipped(x) => Skipped(x)'
  BY <1>4 DEF Skipped
<1> QED
  BY <1>1, <1>2, <1>3, <1>5, <1>6, <1>7, AsideKeeps

\* The thread that has the Schedular wakes h.
LEMMA WakeOwnKeeps ==
  ASSUME Typed, NEW s, InvAt(s), NEW h \in Tasks, task[h].wakers > 0, WakeOwn(h),
         UNCHANGED <<list, calls, turn, live, thread>>
  PROVE  /\ Typed' /\ InvAt(s)'
         /\ \A x \in Tasks : Untouched(x) /\ task'[x].wakers = task[x].wakers - One(x = h)
<1>1. \A x \in Tasks : task[x].wakers \in Nat /\ task[x].count \in Nat
  BY DEF Typed, TaskRecords
<1>2. CASE task[h].queued
  <2>1. task' = schedular_drop(task, h) /\ UNCHANGED <<list, calls, rest>>
    BY <1>2 DEF WakeOwn, rest
  <2>2. task[h].count >= 1
    BY OwnedCount DEF InvAt
  <2>3. Typed' /\ InvAt(s)'
    BY <2>1, DropKeeps
  <2>4. \A x \in Tasks :
          /\ Untouched(x)
          /\ x # h => task'[x].wakers = task[x].wakers
          /\ x = h => task'[x].wakers = task[x].wakers - 1
    BY <2>1, <2>2, DroppedWaker
  <2> QED
    BY <1>1, <2>3, <2>4 DEF One
<1>3. CASE ~task[h].queued
  <2>1. /\ task' = [task EXCEPT ![h].wakers = @ - 1, ![h].queued = TRUE]
        /\ PushOwn(h) /\ WakePoller
    BY <1>3 DEF WakeOwn
  <2>2. /\ task' \in [Tasks -> TaskRecords]
        /\ \A x \in Tasks :
             /\ Untouched(x) /\ task'[x].count = task[x].count
             /\ x # h => task'[x].wakers = task[x].wakers /\ task'[x].queued = task[x].queued
        /\ task'[h].wakers = task[h].wakers - 1 /\ task'[h].queued
    BY <2>1, UsedWaker
  <2>3. ~In(fifo, h)
    BY <1>3, NotMarked DEF InvAt
  <2>4. /\ fifo' \in Seq(Tasks) /\ In(fifo', h) /\ linking' = linking
        /\ \A y : y # h => (In(fifo', y) <=> In(fifo, y))
    BY <2>1, <2>3, PutLast DEF InvAt, PushOwn
  <2>5. Typed'
    <3>1. registered' \in BOOLEAN /\ woken' \in BOOLEAN
      BY <2>1 DEF WakePoller, Typed
    <3> QED
      BY <2>2, <2>4, <3>1 DEF Typed
  <2>6. Marked'
    <3>1. \A t \in Tasks : task[t].queued => task'[t].queued
      BY <2>2
    <3> QED
      BY <1>3, <2>1, <2>2, <3>1, MarkedPut DEF InvAt
  <2>7. \A t : Waking(t)' <=> Waking(t)
    BY DEF Waking
  <2>8. Others(h)
    BY <2>2, <2>4, <2>7 DEF Others
  <2>9. Gains(h, 0)
    <3>1. PICK b \in Nat : b = One(Waking(h)) /\ b = One(Waking(h)')
      BY <2>7 DEF One
    <3>2. One(In(fifo', h)) = 1 /\ One(In(fifo, h)) = 0
      BY <2>3, <2>4 DEF One
    <3>3. 1 + (task[h].wakers - 1) + b = 0 + task[h].wakers + b + 0
      BY <1>1, <3>1
    <3>4. task'[h].count = task[h].count + 0
      BY <1>1, <2>2
    <3> QED
      BY <2>2, <3>1, <3>2, <3>3, <3>4 DEF Gains
  <2>10. task[h].done # "absent"
    BY WakerOfTask
  <2>11. Skipped(h) => Skipped(h)'
    BY <1>3 DEF Skipped
  <2>12. InvAt(s)'
    BY <2>2, <2>5, <2>6, <2>8, <2>9, <2>10, <2>11, AsideKeeps
  <2> QED
    BY <1>1, <2>2, <2>5, <2>12 DEF One
<1> QED
  BY <1>2, <1>3

\* A task writes its result and wakes the one that waits for it.
LEMMA ScopeResultKeeps ==
  ASSUME TreeInv, NEW t \in Tasks, ScopeResult(t)
  PROVE  TreeInv'
<1>1. TreeTyped /\ ScopesTell /\ Typed /\ RunTells /\ WaitersCounted
  BY DEF TreeInv, SchedInv
<1>2. PICK s \in Seq(Tasks) : InvAt(s)
  BY DEF TreeInv, SchedInv
<1>3. PICK h \in Tasks \cup {Outside, Null} : h = scope[t].notify
  BY <1>1 DEF TreeTyped, ScopeRecords
<1>4. /\ Running("drive", t) /\ scope[t].place = "empty"
      /\ scope' = [scope EXCEPT ![t].place = "full", ![t].notify = Null, ![t].asleep = @ /\ h = Null]
      /\ UNCHANGED <<list, calls, turn, live, thread, root, runner, panicked, work>>
  BY <1>3 DEF ScopeResult
<1>5. /\ SchedInv' /\ Typed'
      /\ \A x \in Tasks : Untouched(x) /\ task'[x].wakers = task[x].wakers - One(x = h)
  <2>1. CASE h \in Tasks
    <3>1. task[h].wakers > 0
      BY <1>1, <1>3, <2>1, NotifiedHasWaker
    <3>2. WakeOwn(h)
      BY <1>3, <2>1 DEF ScopeResult
    <3> QED
      BY <1>1, <1>2, <1>4, <2>1, <3>1, <3>2, WakeOwnKeeps DEF SchedInv
  <2>2. CASE h \notin Tasks
    <3>1. /\ woken' = (woken \/ h = Outside) /\ UNCHANGED <<task, registered, fifo, linking>>
      BY <1>3, <2>2 DEF ScopeResult, queueVars
    <3>2. woken' \in BOOLEAN
      BY <1>1, <3>1 DEF Typed
    <3>3. Typed' /\ InvAt(s)'
      BY <1>1, <1>2, <1>4, <3>1, <3>2, WokenKeeps
    <3>4. \A x \in Tasks : task[x].wakers \in Nat /\ One(x = h) = 0
      BY <1>1, <2>2 DEF Typed, TaskRecords, One
    <3> QED
      BY <3>1, <3>3, <3>4 DEF SchedInv, Untouched, SameTask
  <2> QED
    BY <2>1, <2>2
<1>6. PICK q \in ScopeRecords : q = scope[t]
  BY <1>1 DEF TreeTyped
<1>7. PICK a \in BOOLEAN : a = (q.asleep /\ h = Null)
  OBVIOUS
<1>8. PICK n : n = [q EXCEPT !.place = "full", !.notify = Null, !.asleep = a]
  OBVIOUS
<1>9. n \in ScopeRecords /\ n.notify = Null /\ n.place = "full" /\ n.level = q.level /\ n.asleep = a
  BY <1>8 DEF ScopeRecords
<1>10. scope' = [scope EXCEPT ![t] = n]
  <2>1. scope[t].asleep = q.asleep
    BY <1>6
  <2> QED
    BY <1>4, <1>6, <1>7, <1>8, <2>1
<1>11. TreeTyped' /\ scope'[t] = n /\ \A x \in Tasks : x # t => scope'[x] = scope[x]
  BY <1>1, <1>4, <1>9, <1>10, ScopeWith
<1>12. ScopeKept(t)
  <2>1. On("drive", t)
    BY <1>1, <1>4, RunningOn DEF Typed
  <2>2. task[t].done = "Running"
    BY <1>2, <2>1 DEF InvAt, Core, CallsTell
  <2>3. scope[t].asleep => scope[t].notify # Null
    BY <1>1, <1>4, <2>2 DEF ScopesTell
  <2>4. ~a
    BY <1>3, <1>6, <1>7, <2>3
  <2> QED
    BY <1>6, <1>9, <1>11, <2>4 DEF ScopeKept
<1>13. ScopesTell'
  BY <1>1, <1>4, <1>5, <1>12, ScopeChanges
<1>14. RunTells'
  BY <1>1, <1>4, SameQuiet, RunQuiet
<1>15. WaitersCounted'
  BY <1>1, <1>3, <1>5, <1>9, <1>11, WakerGivenUp
<1> QED
  BY <1>5, <1>11, <1>13, <1>14, <1>15 DEF TreeInv

-----------------------------------------------------------------------------
(***************************************************************************)
(* A new scope.                                                            *)
(***************************************************************************)

\* Whoever is polled has a future, and there is a run.
LEMMA PolledFacts ==
  ASSUME TreeInv, NEW s, InvAt(s), NEW h \in Tasks \cup {Outside}, Polled(h)
  PROVE  /\ runner \in {"runner", "finish"} /\ live
         /\ calls[1].op \notin {"drain", "free"}
         /\ h = Outside => On("root", Null) /\ root.len >= 2
         /\ h \in Tasks => On("drive", h) /\ task[h].done = "Running" /\ list.next # Null
<1>1. Typed /\ RunTells
  BY DEF TreeInv, SchedInv
<1>2. CASE h = Outside
  <2>1. On("root", Null) /\ calls[1].op = "root"
    BY <1>1, <1>2, RunningOn DEF Polled, Typed
  <2> QED
    BY <1>1, <1>2, <2>1, SchedularAssumption DEF RunTells
<1>3. CASE h \in Tasks
  <2>1. h # Outside
    BY <1>3, SchedularAssumption
  <2>2. On("drive", h) /\ calls[1].op = "drive"
    BY <1>1, <2>1, RunningOn DEF Polled, Typed
  <2>3. runner \in {"runner", "finish"} /\ live
    BY <1>1, <1>3, <2>2 DEF RunTells
  <2>4. task[h].done = "Running" /\ In(s, h)
    BY <1>3, <2>2 DEF InvAt, Core, CallsTell, Listed
  <2>5. list.next # Null
    <3>1. s \in Seq(Tasks)
      BY DEF InvAt, Core, IsList
    <3>2. Len(s) \in Nat
      BY <3>1, LenProperties
    <3>3. Len(s) # 0
      BY <2>4, <3>2 DEF In
    <3> QED
      BY <3>3, ListEmpty DEF InvAt
  <2> QED
    BY <2>1, <2>2, <2>3, <2>4, <2>5
<1> QED
  BY <1>2, <1>3

\* A waker of nobody is cloned.
LEMMA CloneNobody ==
  ASSUME NEW w, w \notin Tasks, NEW t, NEW h, push_cancellable(t, h, w)
  PROVE  push_cancellable(t, h, Null)
<1>1. \A x \in Tasks : One(x = w) = 0 /\ One(x = Null) = 0
  BY SchedularAssumption DEF One
<1>2. schedular_clone(task, w) = schedular_clone(task, Null)
  BY <1>1 DEF schedular_clone
<1> QED
  BY <1>2, Zenon DEF push_cancellable

\* What the new task t changes in the tasks: its token is in the future of h, and it has a
\* waker of w.
Opens(t, h, w) ==
  /\ \A x \in Tasks : x # t =>
       /\ task'[x].done = task[x].done /\ task'[x].dropped = task[x].dropped
       /\ task'[x].token = task[x].token
  /\ task'[t].done = "Running" /\ task'[t].dropped = 0 /\ task'[t].token = h
  /\ \A x \in Tasks : task'[x].wakers = task[x].wakers + One(x = w)
  /\ task[t].done = "absent"

LEMMA NewScope ==
  ASSUME Typed, NEW s, InvAt(s), NEW t \in Tasks, NEW h \in Tasks \cup {Outside},
         NEW w \in Tasks \cup {Outside, Null}, w \in Tasks => w = h,
         h \in Tasks => task[h].done = "Running", live, calls[1].op \notin {"drain", "free"},
         push_cancellable(t, h, w)
  PROVE  SchedInv' /\ Opens(t, h, w)
<1>1. PICK v \in Tasks \cup {Null} : v = (IF w \in Tasks THEN w ELSE Null)
  OBVIOUS
<1>2. push_cancellable(t, h, v)
  BY <1>1, CloneNobody
<1>3. MayPush(h, v)
  BY <1>1 DEF MayPush
<1>4. SchedInv'
  BY <1>2, <1>3, NewTaskKeeps DEF SchedInv
<1>5. task[t].done = "absent"
  BY DEF push_cancellable
<1>6. v # t /\ task[t].wakers = 0 /\ ~In(s, t)
  BY <1>1, <1>5, AbsentFacts, SchedularAssumption
<1>7. list.next # t
  <2>1. IsList(s)
    BY DEF InvAt, Core
  <2>2. s \in Seq(Tasks)
    BY <2>1 DEF IsList
  <2>3. Len(s) \in Nat
    BY <2>2, LenProperties
  <2>4. CASE Len(s) = 0
    BY <2>1, <2>4, SchedularAssumption DEF IsList
  <2>5. CASE Len(s) # 0
    <3>1. 1 \in 1..Len(s) /\ list.next = s[1]
      BY <2>1, <2>3, <2>5 DEF IsList
    <3> QED
      BY <1>6, <3>1 DEF In
  <2> QED
    BY <2>4, <2>5
<1>8. PICK n \in Tasks \cup {Null} : n = list.next
  BY DEF Typed
<1>9. /\ \A x \in Tasks : x # t =>
           /\ task'[x].done = task[x].done /\ task'[x].dropped = task[x].dropped
           /\ task'[x].token = task[x].token
           /\ task'[x].wakers = task[x].wakers + One(x = v)
      /\ task'[t].done = "Running" /\ task'[t].dropped = 0 /\ task'[t].token = h
      /\ task'[t].wakers = 0
  BY <1>2, <1>6, <1>7, <1>8, PushedTask
<1>10. \A x \in Tasks : One(x = v) = One(x = w)
  BY <1>1, SchedularAssumption DEF One
<1>11. One(t = w) = 0
  BY <1>1, <1>6 DEF One
<1>12. \A x \in Tasks : task'[x].wakers = task[x].wakers + One(x = w)
  BY <1>6, <1>9, <1>10, <1>11
<1> QED
  BY <1>4, <1>5, <1>9, <1>12 DEF Opens

\* The future of t has a waker of w.
LEMMA WakerTaken ==
  ASSUME Typed, Typed', TreeTyped, WaitersCounted, NEW t \in Tasks, NEW w, scope'[t].notify = w,
         \A x \in Tasks : x # t => scope'[x] = scope[x],
         \A x \in Tasks : task'[x].wakers = task[x].wakers + One(x = w)
  PROVE  WaitersCounted'
<1> SUFFICES ASSUME NEW x \in Tasks
             PROVE  Cardinality(Waiters(x)') <= task'[x].wakers
  BY DEF WaitersCounted
<1>1. IsFiniteSet(Waiters(x)) /\ Cardinality(Waiters(x)) \in Nat
  BY WaitersNumber
<1>2. task[x].wakers \in Nat /\ Cardinality(Waiters(x)) <= task[x].wakers
  BY DEF Typed, TaskRecords, WaitersCounted
<1>3. CASE w = x
  <2>1. Waiters(x)' = Waiters(x) \cup {t}
    BY <1>3 DEF Waiters
  <2>2. /\ Cardinality(Waiters(x) \cup {t}) \in Nat
        /\ Cardinality(Waiters(x) \cup {t}) <= Cardinality(Waiters(x)) + 1
    <3>1. t \notin Waiters(x) => Cardinality(Waiters(x) \cup {t}) = Cardinality(Waiters(x)) + 1
      BY <1>1, FS_AddElement
    <3>2. t \in Waiters(x) => Waiters(x) \cup {t} = Waiters(x)
      OBVIOUS
    <3>3. PICK N \in Nat : N = Cardinality(Waiters(x))
      BY <1>1
    <3>4. Cardinality(Waiters(x) \cup {t}) = N + 1 \/ Cardinality(Waiters(x) \cup {t}) = N
      BY <3>1, <3>2, <3>3
    <3> QED
      BY ONLY <3>3, <3>4
  <2>3. task'[x].wakers = task[x].wakers + 1
    BY <1>3 DEF One
  <2> QED
    BY <1>1, <1>2, <2>1, <2>2, <2>3
<1>4. CASE w # x
  <2>1. Waiters(x)' \in SUBSET Waiters(x)
    BY <1>4 DEF Waiters
  <2>2. Cardinality(Waiters(x)') \in Nat /\ Cardinality(Waiters(x)') <= Cardinality(Waiters(x))
    BY <1>1, <2>1, FS_Subset, FS_CardinalityType
  <2>3. task'[x].wakers = task[x].wakers + 0
    BY <1>4 DEF One
  <2> QED
    BY <1>1, <1>2, <2>2, <2>3
<1> QED
  BY <1>3, <1>4

\* The scope of a new task.
ScopeOpened(t, h, w) ==
  /\ \A x \in Tasks : x # t => scope'[x] = scope[x]
  /\ scope'[t].place = "empty" /\ scope'[t].notify = w
  /\ h = Outside => scope'[t].level = root.len
  /\ scope'[t].asleep => w = h

LEMMA ScopeOpens ==
  ASSUME Typed, NEW s, InvAt(s), ScopesTell, NEW t \in Tasks, NEW h \in Tasks \cup {Outside}, NEW w,
         Opens(t, h, w), ScopeOpened(t, h, w), UNCHANGED <<runner, panicked, calls>>,
         root'.len = root.len, h = Outside => root.len >= 2,
         h \in Tasks => task[h].done = "Running", root.len \in Nat
  PROVE  ScopesTell'
<1> SUFFICES ASSUME NEW c \in Tasks
             PROVE  (/\ task[c].token = Outside => 2 <= scope[c].level /\ scope[c].level <= root.len
                     /\ task[c].token \in Tasks => task[task[c].token].dropped = 0
                     /\ task[c].done = "Cancelled" => task[c].token = Null
                     /\ scope[c].place = "full" => ~scope[c].asleep
                     /\ task[c].done = "Running" /\ scope[c].place = "empty" /\ scope[c].asleep =>
                          scope[c].notify # Null
                     /\ runner # "none" /\ ~panicked =>
                          /\ On("remove", c) =>
                               scope[c].place = "full" \/ task[c].done = "Cancelled"
                          /\ task[c].token # Null /\ task[c].done = "Done" =>
                               scope[c].place = "full")'
  BY DEF ScopesTell
<1>1. On("remove", c)' <=> On("remove", c)
  BY OnKept
<1>2. CASE c = t
  <2>1. ~On("remove", t)
    BY AbsentFacts DEF Opens, TaskOps
  <2>2. h # Null
    BY SchedularAssumption
  <2>3. h \in Tasks => h # t /\ task'[h].dropped = 0
    BY DEF Opens, InvAt, TasksTell
  <2>4. task'[t].token = h /\ task'[t].done = "Running"
    BY DEF Opens
  <2>5. /\ scope'[t].place = "empty" /\ scope'[t].notify = w
        /\ h = Outside => scope'[t].level = root.len
        /\ scope'[t].asleep => w = h
    BY DEF ScopeOpened
  <2> QED
    BY <1>1, <1>2, <2>1, <2>2, <2>3, <2>4, <2>5
<1>3. CASE c # t
  <2>1. /\ task'[c].done = task[c].done /\ task'[c].token = task[c].token
        /\ scope'[c] = scope[c]
    BY <1>3 DEF Opens, ScopeOpened
  <2>2. \A x \in Tasks : task[x].dropped = 0 => task'[x].dropped = 0
    BY DEF Opens
  <2>3. /\ task[c].token = Outside => 2 <= scope[c].level /\ scope[c].level <= root.len
        /\ task[c].token \in Tasks => task[task[c].token].dropped = 0
        /\ task[c].done = "Cancelled" => task[c].token = Null
        /\ scope[c].place = "full" => ~scope[c].asleep
        /\ task[c].done = "Running" /\ scope[c].place = "empty" /\ scope[c].asleep =>
             scope[c].notify # Null
        /\ runner # "none" /\ ~panicked =>
             /\ On("remove", c) => scope[c].place = "full" \/ task[c].done = "Cancelled"
             /\ task[c].token # Null /\ task[c].done = "Done" => scope[c].place = "full"
    BY DEF ScopesTell
  <2> QED
    BY <1>1, <2>1, <2>2, <2>3
<1> QED
  BY <1>2, <1>3

LEMMA ScopePollInitialKeeps ==
  ASSUME TreeInv, NEW h \in Tasks \cup {Outside}, NEW t \in Tasks, NEW below \in BOOLEAN,
         NEW direct \in BOOLEAN, ScopePollInitial(h, t, below, direct)
  PROVE  TreeInv'
<1>1. TreeTyped /\ ScopesTell /\ Typed /\ RunTells /\ WaitersCounted
  BY DEF TreeInv, SchedInv
<1>2. PICK s \in Seq(Tasks) : InvAt(s)
  BY DEF TreeInv, SchedInv
<1>3. PICK w \in Tasks \cup {Outside, Null} :
        w = Notified(h, below) /\ (w \in Tasks => w = h) /\ (below => w = h)
  BY SchedularAssumption DEF Notified
<1>4. /\ Polled(h) /\ push_cancellable(t, h, w) /\ UNCHANGED <<runner, panicked, work>>
      /\ UNCHANGED <<calls, live>>
  BY <1>3 DEF ScopePollInitial, push_cancellable
<1>5. /\ runner \in {"runner", "finish"} /\ live
      /\ calls[1].op \notin {"drain", "free"}
      /\ h = Outside => On("root", Null) /\ root.len >= 2
      /\ h \in Tasks => On("drive", h) /\ task[h].done = "Running" /\ list.next # Null
  BY <1>2, <1>4, PolledFacts
<1>6. SchedInv' /\ Typed' /\ Opens(t, h, w)
  BY <1>1, <1>2, <1>3, <1>4, <1>5, NewScope DEF SchedInv
<1>7. PICK st \in {"Base", "NewTask"}, b \in BOOLEAN :
        /\ root' = [len |-> root.len, state |-> st, busy |-> b]
        /\ b = (root.busy \/ h = Outside)
  <2>1. PICK st \in {"Base", "NewTask"} : st = IF h = Outside \/ direct THEN "NewTask" ELSE root.state
    BY <1>1, RootIs
  <2>2. PICK b \in BOOLEAN : b = (root.busy \/ h = Outside)
    OBVIOUS
  <2>3. root' = [root EXCEPT !.state = st, !.busy = b]
    BY <2>1, <2>2 DEF ScopePollInitial
  <2>4. root' = [len |-> root.len, state |-> st, busy |-> b]
    BY <1>1, <2>3, RootIs
  <2> QED
    BY <2>2, <2>4
<1>8. root'.len = root.len /\ root'.busy = b /\ root.len \in Nat
  BY <1>1, <1>7, RootIs
<1>9. PICK lv \in 0..MaxRoot : lv = IF h = Outside THEN root.len ELSE 0
  BY <1>1, RootIs, TreeAssumption
<1>10. PICK n : n = [place |-> "empty", notify |-> w, level |-> lv, asleep |-> below]
  OBVIOUS
<1>11. n \in ScopeRecords /\ n.place = "empty" /\ n.notify = w /\ n.level = lv /\ n.asleep = below
  BY <1>10 DEF ScopeRecords
<1>12. scope' = [scope EXCEPT ![t] = n]
  BY <1>3, <1>9, <1>10 DEF ScopePollInitial
<1>13. scope' \in [Tasks -> ScopeRecords] /\ scope'[t] = n /\ \A x \in Tasks : x # t => scope'[x] = scope[x]
  BY <1>1, <1>11, <1>12 DEF TreeTyped
<1>14. TreeTyped'
  <2>1. root' \in [len : 0..MaxRoot, state : {"Base", "NewTask"}, busy : BOOLEAN]
    BY <1>1, <1>7, RootIs
  <2> QED
    BY <1>1, <1>4, <1>13, <2>1 DEF TreeTyped
<1>15. ScopeOpened(t, h, w)
  BY <1>3, <1>9, <1>11, <1>13 DEF ScopeOpened
<1>16. ScopesTell'
  BY <1>1, <1>2, <1>4, <1>5, <1>6, <1>8, <1>15, ScopeOpens
<1>17. WaitersCounted'
  BY <1>1, <1>6, <1>11, <1>13, WakerTaken DEF Opens
<1>18. RunTells'
  <2>1. \A op, x : On(op, x)' <=> On(op, x)
    BY <1>4, OnKept
  <2>2. \A op \in {"clear", "drain", "free", "rootClear"} : ~On(op, Null)'
    BY <1>1, <1>5, <2>1, NotClearing
  <2>3. runner' \in {"runner", "finish"} /\ live'
    BY <1>4, <1>5
  <2>4. ASSUME On("root", Null)' PROVE root'.len >= 2 /\ (root'.busy \/ On("poll", Null)')
    <3>1. On("root", Null)
      BY <2>1, <2>4
    <3>2. root.len >= 2 /\ (root.busy \/ On("poll", Null) \/ list.next = Null)
      BY <1>1, <3>1 DEF RunTells
    <3>3. h = Outside => b
      BY <1>7
    <3> QED
      BY <1>5, <1>7, <1>8, <2>1, <3>2, <3>3
  <2> QED
    BY <1>1, <2>2, <2>3, <2>4, RunGoes
<1> QED
  BY <1>6, <1>14, <1>16, <1>17, <1>18 DEF TreeInv

-----------------------------------------------------------------------------
(***************************************************************************)
(* Every step keeps the invariant.                                         *)
(***************************************************************************)

LEMMA TreeInitInv == TreeInit => TreeInv
<1> SUFFICES ASSUME TreeInit PROVE TreeInv
  OBVIOUS
<1>1. SchedInit
  BY DEF TreeInit
<1>2. SchedInv
  BY <1>1, InitInv
<1>3. NoScope \in ScopeRecords /\ NoScope.place = "empty" /\ NoScope.notify = Null /\ ~NoScope.asleep
  BY TreeAssumption DEF NoScope, ScopeRecords
<1>4. scope = [t \in Tasks |-> NoScope]
  BY DEF TreeInit
<1>5. \A t \in Tasks : scope[t] = NoScope
  BY <1>4
<1>6. TreeTyped
  <2>1. scope \in [Tasks -> ScopeRecords]
    BY <1>3, <1>4
  <2>2. root \in [len : 0..MaxRoot, state : {"Base", "NewTask"}, busy : BOOLEAN]
    BY TreeAssumption DEF TreeInit
  <2>3. work \in 0..MaxWork
    BY TreeAssumption DEF TreeInit
  <2> QED
    BY <2>1, <2>2, <2>3 DEF TreeInit, TreeTyped
<1>7. \A op, x : ~On(op, x)
  BY <1>1, NoCalls DEF SchedInit, On
<1>8. RunTells
  BY <1>1, <1>7 DEF RunTells, TreeInit
<1>9. \A t \in Tasks : task[t].token = Null /\ task[t].done = "absent"
  BY <1>1 DEF SchedInit, NoTask
<1>10. ScopesTell
  BY <1>3, <1>5, <1>7, <1>9, SchedularAssumption DEF ScopesTell
<1>11. WaitersCounted
  <2> SUFFICES ASSUME NEW t \in Tasks PROVE Cardinality(Waiters(t)) <= task[t].wakers
    BY DEF WaitersCounted
  <2>1. Waiters(t) = {}
    BY <1>3, <1>5, SchedularAssumption DEF Waiters
  <2>2. task[t].wakers \in Nat
    BY <1>2 DEF SchedInv, Typed, TaskRecords
  <2> QED
    BY <2>1, <2>2, FS_EmptySet
<1> QED
  BY <1>2, <1>6, <1>8, <1>10, <1>11 DEF TreeInv

LEMMA TreeStutter ==
  ASSUME TreeInv, UNCHANGED vars
  PROVE  TreeInv'
<1>1. SchedInv'
  BY StutterKeeps DEF TreeInv, vars
<1>2. UNCHANGED <<task, calls, list, live, root, scope, runner, panicked, work>>
  BY DEF vars, schedVars, rest, treeVars
<1>3. CallsQuiet /\ \A op, x : On(op, x)' => On(op, x)
  BY <1>2, SameQuiet
<1>4. Typed /\ \A x \in Tasks : Kept(x)
  BY <1>2, SameKept DEF TreeInv, SchedInv
<1>5. \A c \in Tasks : On("remove", c)' => MayRemove(c)
  BY <1>3, <1>4 DEF MayRemove, Kept
<1>6. Quiet
  BY <1>3, <1>4, <1>5, KeptQuiet DEF Quiet
<1> QED
  BY <1>1, <1>2, <1>6, QuietKeeps DEF TreeInv, TreeTyped

LEMMA TreeStep == TreeInv /\ [TreeNext]_vars => TreeInv'
<1> SUFFICES ASSUME TreeInv, [TreeNext]_vars PROVE TreeInv'
  OBVIOUS
<1>1. CASE UNCHANGED vars
  BY <1>1, TreeStutter
<1>2. CASE Work
  BY <1>2, SchedularStepKeeps, RootClearKeeps, TakeResultKeeps, DriveTopKeeps, DropNotifyKeeps
     DEF Work
<1>3. CASE Progress
  BY <1>3, RootReadyKeeps, RootNewTaskKeeps, RootPendingKeeps, ScopeResultKeeps, TaskReadyKeeps,
     TaskPendingKeeps, ScopeEndKeeps DEF Progress
<1>4. CASE Choice
  <2>1. ASSUME NEW h \in Tasks \cup {Outside}, NEW c \in Tasks, NEW below \in BOOLEAN,
               NEW direct \in {FALSE, h # Outside}, ScopePollInitial(h, c, below, direct)
        PROVE  TreeInv'
    <3>1. direct \in BOOLEAN
      OBVIOUS
    <3> QED
      BY <2>1, <3>1, ScopePollInitialKeeps
  <2> QED
    BY <1>4, <2>1, EnterKeeps, FinishKeeps, DropRunKeeps, TakeResultKeeps, DriveTopKeeps,
       RootRunKeeps, RootRunDroppedKeeps, RootPanicKeeps, TaskWaitsKeeps, TaskPanicsKeeps,
       ScopeEndKeeps DEF Choice
<1>5. CASE PollFinish
  BY <1>5, PollFinishKeeps
<1>6. ASSUME NEW th \in Threads,
              (Wake(th) /\ UNCHANGED treeVars) \/ (\E t \in Tasks : OutsideWakes(th, t))
      PROVE  TreeInv'
  BY <1>6, ThreadKeeps, OutsideWakesKeeps
<1> QED
  BY <1>1, <1>2, <1>3, <1>4, <1>5, <1>6 DEF TreeNext

\* The calls of the Runner and of the Schedular, the scopes of the root and of the tasks,
\* their tasks and their wakers fit together in every state that a run leads to.
THEOREM TreeInvariant == TreeSpec => []TreeInv
BY TreeInitInv, TreeStep, PTL DEF TreeSpec

-----------------------------------------------------------------------------
(***************************************************************************)
(* What the invariant says in the terms of TreeStack.                      *)
(***************************************************************************)

LEMMA TreeGivesTypes == TreeInv => TreeTypeOK
BY InvGivesTypes DEF TreeInv, TreeTyped, TreeTypeOK

LEMMA TreeGivesWaits == TreeInv => RootWaitsForScopes
<1> SUFFICES ASSUME TreeInv, Running("root", Null), ~root.busy PROVE list.next = Null
  BY DEF RootWaitsForScopes
<1>1. PICK s \in Seq(Tasks) : Typed /\ InvAt(s)
  BY DEF TreeInv, SchedInv
<1>2. "root" \in BaseOps /\ "root" \in TreeOps
  BY DEF BaseOps, TreeOps
<1>3. /\ On("root", Null) /\ ~OnIn(Tail(calls), "poll", Null)
      /\ \A op, x : On(op, x) <=> (op = "root" /\ x = Null) \/ OnIn(Tail(calls), op, x)
  BY <1>1, <1>2, BaseTop DEF InvAt
<1>4. ~On("poll", Null)
  BY <1>3
<1> QED
  BY <1>3, <1>4 DEF TreeInv, RunTells

LEMMA TreeGivesAnswers == TreeInv => ScopeAnswered
<1> SUFFICES ASSUME TreeInv, NEW h \in Tasks \cup {Outside}, NEW c \in Scopes(h), Polled(h),
                    task[c].done = "Done", ~panicked
             PROVE  scope[c].place = "full" /\ ~scope[c].asleep
  BY DEF ScopeAnswered
<1>1. PICK s \in Seq(Tasks) : InvAt(s)
  BY DEF TreeInv, SchedInv
<1>2. c \in Tasks /\ task[c].token = h
  BY DEF Scopes, Held
<1>3. task[c].token # Null
  BY <1>2, SchedularAssumption
<1>4. runner # "none"
  BY <1>1, PolledFacts
<1> QED
  BY <1>2, <1>3, <1>4 DEF TreeInv, ScopesTell

LEMMA TreeGivesNest == TreeInv => ScopesNest
<1> SUFFICES ASSUME TreeInv, root.len <= 1, calls = <<>> PROVE \A t \in Tasks : ~FutureLeft(t)
  BY DEF ScopesNest
<1>1. PICK s \in Seq(Tasks) : Typed /\ InvAt(s)
  BY DEF TreeInv, SchedInv
<1>2. Held(Outside) = {}
  BY NoLevels DEF TreeInv
<1> QED
  BY <1>1, <1>2, NoFutures

\* The end of the drop of the Runner is a step of Stack::clear of the root.
LEMMA ClearOnTop ==
  ASSUME TreeNext, Running("rootClear", Null), calls' = <<>>
  PROVE  RootClear
<1>1. ASSUME NEW o, NEW y, Running(o, y) PROVE o = "rootClear"
  <2>1. Frame(o, y) = Frame("rootClear", Null)
    BY <1>1 DEF Running
  <2>2. Frame(o, y).op = o /\ Frame("rootClear", Null).op = "rootClear"
    BY DEF Frame
  <2> QED
    BY <2>1, <2>2
<1>2. calls # <<>>
  BY DEF Running
<1>3. CASE Work
  <2>1. CASE SchedularStep
    <3>1. Library
      BY <2>1 DEF SchedularStep
    <3>2. \E o, y : Running(o, y) /\ o # "rootClear"
      <4>1. CASE PollEmpty \/ PollInconsistant \/ ClearList \/ DrainEmpty \/ Free
        BY <4>1 DEF PollEmpty, PollInconsistant, ClearList, DrainEmpty, Free
      <4>2. ASSUME NEW t \in Tasks,
                   \/ PollCancelled(t) \/ PollDone(t) \/ PollTask(t) \/ DropPollWaker(t)
                   \/ pop_task_all(t) \/ drop_task(t) \/ Detach(t)
                   \/ CancelToken_drop(t) \/ Requeue(t) \/ DrainValue(t)
                   \/ Running("future", t) /\ \E c \in Held(t) : DropToken(c)
            PROVE  \E o, y : Running(o, y) /\ o # "rootClear"
        <5>1. \E o \in {"poll", "waker", "remove", "future", "detach", "token", "requeue", "drain"} :
                \E y : Running(o, y)
          BY <4>2 DEF PollCancelled, PollDone, PollTask, Popped, DropPollWaker, pop_task_all,
             RemoveTask, drop_task, Detach, CancelToken_drop, Cancel, Requeue, RequeueTaking,
             DrainValue
        <5> QED
          BY <5>1
      <4> QED
        BY <3>1, <4>1, <4>2 DEF Library
    <3> QED
      BY <1>1, <3>2
  <2>2. CASE FinishLoop
    BY <1>1, <2>2 DEF FinishLoop
  <2>3. ASSUME NEW t \in Tasks, DropNotify(t) PROVE FALSE
    BY <1>1, <2>3 DEF DropNotify
  <2> QED
    BY <1>3, <2>1, <2>2, <2>3 DEF Work
<1>4. ASSUME NEW h \in Tasks \cup {Outside}, Polled(h) PROVE FALSE
  BY <1>1, <1>4 DEF Polled
<1>5. CASE Progress
  <2>1. \/ Running("root", Null) \/ \E t \in Tasks : Running("drive", t)
        \/ \E h \in Tasks \cup {Outside} : Polled(h)
    BY <1>5 DEF Progress, RootReady, RootNewTask, RootPending, ScopeResult, TaskReady, DriveReady,
       TaskPending, DrivePending, ScopePollRunning
  <2> QED
    BY <1>1, <1>4, <2>1
<1>6. CASE Choice
  <2>1. \/ calls = <<>> \/ Running("root", Null) \/ \E t \in Tasks : Running("drive", t)
        \/ \E h \in Tasks \cup {Outside} : Polled(h)
    BY <1>6 DEF Choice, enter, finish, DropRunner, DropFinish, DropTree, Step, RootRun,
       RootRunDropped, RootRunRefused, RootPanics, TaskWaits, TaskPanics, DrivePanic, ScopeDrop,
       ScopePollInitial
  <2> QED
    BY <1>1, <1>2, <1>4, <2>1
<1>7. CASE PollFinish
  BY <1>2, <1>7 DEF PollFinish
<1>8. ASSUME NEW th \in Threads, Wake(th) \/ \E t \in Tasks : OutsideWakes(th, t)
      PROVE  FALSE
  <2>1. calls' = calls
    BY <1>8 DEF Wake, Upgrade, PushTask, LinkTask, WakeSchedular, OutsideWakes, schedular_wake, Wakes
  <2> QED
    BY <1>2, <2>1
<1> QED
  BY <1>3, <1>5, <1>6, <1>7, <1>8 DEF TreeNext

\* When it is over nothing is left.
LEMMA ClearEnds ==
  ASSUME TreeInv, RootClear, calls' = <<>>
  PROVE  list'.next = Null /\ root'.len = 0 /\ Held(Outside)' = {}
<1>1. PICK s \in Seq(Tasks) : Typed /\ InvAt(s)
  BY DEF TreeInv, SchedInv
<1>2. Running("rootClear", Null) /\ "rootClear" \in BaseOps
  BY DEF RootClear, BaseOps, TreeOps
<1>3. /\ BaseCalls(Tail(calls)) /\ On("rootClear", Null) /\ BaseCalls(calls)
      /\ \A op, x : On(op, x) <=> (op = "rootClear" /\ x = Null) \/ OnIn(Tail(calls), op, x)
  BY <1>1, <1>2, BaseTop DEF InvAt
<1>4. ASSUME NEW c \in Tasks, DropToken(c) PROVE FALSE
  <2>1. PICK f \in FrameSet : f = Frame("token", c)
    BY FrameFacts DEF Ops
  <2>2. calls' = <<f>> \o calls /\ calls \in Seq(FrameSet)
    BY <1>1, <1>4, <2>1 DEF DropToken, Calls, Typed
  <2>3. calls' = Cons(f, calls) /\ Cons(f, calls) # <<>>
    BY <2>2, ConcatIs, ConsFacts
  <2> QED
    BY <2>3
<1>5. /\ Held(Outside) = {} /\ Become(<<>>) /\ UNCHANGED <<task, list>>
      /\ root' = IF root.len = 0 THEN root ELSE [root EXCEPT !.len = 0, !.state = "Base"]
  BY <1>4 DEF RootClear, Held
<1>6. root'.len = 0
  <2>1. TreeTyped
    BY DEF TreeInv
  <2> QED
    BY <1>5, <2>1 DEF TreeTyped
<1>7. Tail(calls) = <<>>
  BY <1>3, <1>5, ConcatIs DEF Become, BaseCalls
<1>8. ~On("clear", Null)
  <2>1. \A op, x : ~OnIn(Tail(calls), op, x)
    BY <1>7, NoBaseCalls
  <2> QED
    BY <1>3, <2>1
<1>9. list.next = Null
  BY <1>3, <1>8 DEF TreeInv, RunTells
<1>10. Held(Outside)' = {}
  BY <1>5 DEF Held
<1> QED
  BY <1>5, <1>6, <1>9, <1>10

\* The fields of the TreeStack, of its Schedular and of the ScopeFutures have their types.
THEOREM TreeTypeCorrect == TreeSpec => []TreeTypeOK
BY TreeInvariant, TreeGivesTypes, PTL

\* drive_top_task polls the top task of the root only when the Schedular has no tasks: all
\* scopes have ended, in whatever order they were queued, cancelled and woken.
THEOREM RootWaits == TreeSpec => []RootWaitsForScopes
BY TreeInvariant, TreeGivesWaits, PTL

\* A ScopeFuture that is polled after its task is done finds the result in its place, and
\* if it slept below a sub schedular it was woken.
THEOREM ScopesAreAnswered == TreeSpec => []ScopeAnswered
BY TreeInvariant, TreeGivesAnswers, PTL

\* When the root task has finished and no call is under way the future of every scope is
\* dropped: no scope outlives the task that opened it.
THEOREM ScopesAreNested == TreeSpec => []ScopesNest
BY TreeInvariant, TreeGivesNest, PTL

\* Runner::drop leaves an empty list, an empty root and no CancelToken in its futures,
\* wherever the run was interrupted.
THEOREM RunnerDropLeavesNothing == TreeSpec => RunnerDropClears
<1>1. TreeInv /\ [TreeNext]_vars =>
        [Running("rootClear", Null) /\ calls' = <<>> =>
           list'.next = Null /\ root'.len = 0 /\ Held(Outside)' = {}]_vars
  BY ClearOnTop, ClearEnds
<1> QED
  BY <1>1, TreeInvariant, PTL DEF TreeSpec, RunnerDropClears

\* In the hands of the TreeStack and of the ScopeFutures, which take steps of their own
\* between those of the Schedular, the Schedular still keeps the count of every task right,
\* its list whole, drops every future once and before what it points into, and leaves no
\* future when it is gone.
THEOREM SchedularIsSafe ==
  TreeSpec => [](/\ CountCoversOwners /\ CountExact /\ ListSound /\ FutureDroppedOnce
                 /\ HolderAlive /\ QueuedIsMarked /\ NoFutureLeft)
<1>1. TreeInv => /\ CountCoversOwners /\ CountExact /\ ListSound /\ FutureDroppedOnce
                 /\ HolderAlive /\ QueuedIsMarked /\ NoFutureLeft
  BY InvGivesCounts, InvGivesList, InvGivesFutures, InvGivesHolder, InvGivesMarks, InvGivesEnd
     DEF TreeInv
<1> QED
  BY <1>1, TreeInvariant, PTL
=============================================================================
