------------------------------- MODULE Queue -------------------------------
(***************************************************************************)
(* The intrusive multi producer single consumer queue of                   *)
(* src/tree/schedular/queue.rs, with the two that use it: schedular_wake   *)
(* of waker.rs, which any thread that holds the waker of a task may call,  *)
(* and the loop of Schedular::poll, which one thread at a time runs.       *)
(* Every access to a shared word is a step of its own.                     *)
(*                                                                         *)
(* The call of AtomicWaker::wake is one step here, see AtomicWaker for its *)
(* parts.                                                                  *)
(***************************************************************************)
EXTENDS Naturals, FiniteSets, Sequences, SequencesExt

CONSTANTS
  Threads,  \* threads that wake tasks
  Poller,   \* the thread that polls the Schedular
  Tasks,    \* the tasks, each with its NodeHeader
  Stub,     \* Queue::stub
  Null      \* a null pointer

ASSUME QueueAssumption ==
  /\ Poller \notin Threads
  /\ Stub \notin Tasks
  /\ Null \notin Tasks \cup {Stub}
  /\ IsFiniteSet(Tasks)

VARIABLES
  next,    \* NodeHeader::next of every node
  head,    \* Queue::head, the node pushed last
  tail,    \* Queue::tail, the node to be popped next
  queued,  \* TaskBody::queued of every task
  pc,      \* where each thread is
  node,    \* the node each thread is pushing
  prev,    \* the head each push has replaced
  cur,     \* the task that pop has returned
  done,    \* the tasks that have finished, TaskBody::done
  woken    \* the task that polls the Schedular is to be polled

vars == <<next, head, tail, queued, pc, node, prev, cur, done, woken>>

Nodes == Tasks \cup {Stub}

PushLabels == {"store", "swap", "link"}
ThreadLabels == {"idle", "wake"} \cup PushLabels
PollLabels == {"asleep", "pop", "next", "head", "recheck", "run",
               "drive"} \cup PushLabels

QueueTypeOK ==
  /\ next \in [Nodes -> Nodes \cup {Null}]
  /\ head \in Nodes /\ tail \in Nodes
  /\ queued \in [Tasks -> BOOLEAN]
  /\ pc \in [Threads \cup {Poller} -> ThreadLabels \cup PollLabels]
  /\ node \in [Threads \cup {Poller} -> Nodes]
  /\ prev \in [Threads \cup {Poller} -> Nodes]
  /\ cur \in Nodes
  /\ done \in SUBSET Tasks
  /\ woken \in BOOLEAN

\* new and init: the stub is the only node.  The tasks were polled before, so
\* their wakers are about; the Schedular is to be polled.
QueueInit ==
  /\ next = [n \in Nodes |-> Null]
  /\ head = Stub /\ tail = Stub
  /\ queued = [task \in Tasks |-> FALSE]
  /\ pc = [t \in Threads \cup {Poller} |-> IF t = Poller THEN "asleep" ELSE "idle"]
  /\ node = [t \in Threads \cup {Poller} |-> Stub]
  /\ prev = [t \in Threads \cup {Poller} |-> Stub]
  /\ cur = Stub
  /\ done = {}
  /\ woken = TRUE

Goto(t, label) == pc' = [pc EXCEPT ![t] = label]

-----------------------------------------------------------------------------
(***************************************************************************)
(* schedular_wake: mark the task as queued, push it, wake the Schedular.   *)
(***************************************************************************)

\* The compare_exchange of queued.  A task that is queued already is left alone.
Schedule(t, task) ==
  /\ pc[t] = "idle"
  /\ ~queued[task]
  /\ queued' = [queued EXCEPT ![task] = TRUE]
  /\ node' = [node EXCEPT ![t] = task]
  /\ Goto(t, "store")
  /\ UNCHANGED <<next, head, tail, prev, cur, done, woken>>

\* push: clear the link of the node, swap the head, link the old head to the node.
\* Locals that are dead are set back to the stub.
StoreNext(t) ==
  /\ pc[t] = "store"
  /\ next' = [next EXCEPT ![node[t]] = Null]
  /\ Goto(t, "swap")
  /\ UNCHANGED <<head, tail, queued, node, prev, cur, done, woken>>

SwapHead(t) ==
  /\ pc[t] = "swap"
  /\ prev' = [prev EXCEPT ![t] = head]
  /\ head' = node[t]
  /\ Goto(t, "link")
  /\ UNCHANGED <<next, tail, queued, node, cur, done, woken>>

\* Variant: nothing is woken after a push.
LinkPrev_NoWake(t) ==
  /\ pc[t] = "link"
  /\ next' = [next EXCEPT ![prev[t]] = node[t]]
  /\ Goto(t, IF t = Poller THEN "recheck" ELSE "idle")
  /\ node' = [node EXCEPT ![t] = Stub] /\ prev' = [prev EXCEPT ![t] = Stub]
  /\ UNCHANGED <<head, tail, queued, cur, done, woken>>

LinkPrev(t) ==
  /\ pc[t] = "link"
  /\ next' = [next EXCEPT ![prev[t]] = node[t]]
  /\ Goto(t, IF t = Poller THEN "recheck" ELSE "wake")
  /\ node' = [node EXCEPT ![t] = Stub] /\ prev' = [prev EXCEPT ![t] = Stub]
  /\ UNCHANGED <<head, tail, queued, cur, done, woken>>

WakeSchedular(t) ==
  /\ pc[t] = "wake"
  /\ woken' = TRUE
  /\ Goto(t, "idle")
  /\ UNCHANGED <<next, head, tail, queued, node, prev, cur, done>>

-----------------------------------------------------------------------------
(***************************************************************************)
(* Schedular::poll and Queue::pop.                                         *)
(***************************************************************************)

\* The executor polls, because it was woken or for a reason of its own.  poll
\* registers its waker before it pops.
StartPoll ==
  /\ pc[Poller] = "asleep"
  /\ woken' = FALSE
  /\ Goto(Poller, "pop")
  /\ UNCHANGED <<next, head, tail, queued, node, prev, cur, done>>

\* Variant: after the push of the stub pop does not look for it behind the task.
PopEmpty_NoRecheck ==
  /\ \/ pc[Poller] = "pop" /\ tail = Stub /\ next[tail] = Null
     \/ pc[Poller] = "recheck"
  /\ Goto(Poller, "asleep")
  /\ UNCHANGED <<next, head, tail, queued, node, prev, cur, done, woken>>

\* Pop::Empty: poll returns Pending.
PopEmpty ==
  /\ \/ pc[Poller] = "pop" /\ tail = Stub
     \/ pc[Poller] = "recheck"
  /\ next[tail] = Null
  /\ Goto(Poller, "asleep")
  /\ UNCHANGED <<next, head, tail, queued, node, prev, cur, done, woken>>

\* The stub is at the tail: pop steps over it.
SkipStub ==
  /\ pc[Poller] = "pop" /\ tail = Stub
  /\ next[tail] # Null
  /\ tail' = next[tail]
  /\ Goto(Poller, "next")
  /\ UNCHANGED <<next, head, queued, node, prev, cur, done, woken>>

\* The conditions under which pop loads the link of a task at the tail.
AtTask ==
  \/ pc[Poller] \in {"next", "recheck"}
  \/ pc[Poller] = "pop" /\ tail # Stub

\* Variant: pop does not look whether there is a next node.
PopValue_Unchecked ==
  /\ AtTask
  /\ cur' = tail
  /\ tail' = next[tail]
  /\ Goto(Poller, "run")
  /\ UNCHANGED <<next, head, queued, node, prev, done, woken>>

\* Pop::Value: there is a node after the task, so no push refers to the task.
PopValue ==
  /\ AtTask
  /\ next[tail] # Null
  /\ cur' = tail
  /\ tail' = next[tail]
  /\ Goto(Poller, "run")
  /\ UNCHANGED <<next, head, queued, node, prev, done, woken>>

\* The task at the tail has no next: look at the head.
NoNext ==
  /\ AtTask /\ pc[Poller] # "recheck"
  /\ next[tail] = Null
  /\ Goto(Poller, "head")
  /\ UNCHANGED <<next, head, tail, queued, node, prev, cur, done, woken>>

\* Pop::Inconsistant: a push has replaced the head and not linked it yet.  poll
\* wakes its own task and returns Pending.
PopInconsistant ==
  /\ pc[Poller] = "head" /\ head # tail
  /\ woken' = TRUE
  /\ Goto(Poller, "asleep")
  /\ UNCHANGED <<next, head, tail, queued, node, prev, cur, done>>

\* Variant: the last task is returned and the stub put in its place at once.
PushStub_Direct ==
  /\ pc[Poller] = "head" /\ head = tail
  /\ cur' = tail
  /\ tail' = Stub
  /\ next' = [next EXCEPT ![Stub] = Null]
  /\ Goto(Poller, "run")
  /\ UNCHANGED <<head, queued, node, prev, done, woken>>

\* Variant: the head is not compared with the tail before the stub is pushed.
PushStub_Unchecked ==
  /\ pc[Poller] = "head"
  /\ node' = [node EXCEPT ![Poller] = Stub]
  /\ Goto(Poller, "store")
  /\ UNCHANGED <<next, head, tail, queued, prev, cur, done, woken>>

\* The task is the only node: pop pushes the stub behind it.
PushStub ==
  /\ pc[Poller] = "head" /\ head = tail
  /\ node' = [node EXCEPT ![Poller] = Stub]
  /\ Goto(Poller, "store")
  /\ UNCHANGED <<next, head, tail, queued, prev, cur, done, woken>>

\* poll looks at the task it popped.  One that is done is dropped.  Any other is
\* marked as not queued, so that it can be queued again while it is polled.
StartTask ==
  /\ pc[Poller] = "run"
  /\ IF cur \in done
     THEN Goto(Poller, "pop") /\ cur' = Stub /\ UNCHANGED queued
     ELSE Goto(Poller, "drive") /\ queued' = [queued EXCEPT ![cur] = FALSE] /\ UNCHANGED cur
  /\ UNCHANGED <<next, head, tail, node, prev, done, woken>>

\* The task is pending.  poll goes on, or it has used its budget: then it wakes its
\* own task and returns Pending.
DrivePending ==
  /\ pc[Poller] = "drive"
  /\ \/ Goto(Poller, "pop") /\ UNCHANGED woken
     \/ Goto(Poller, "asleep") /\ woken' = TRUE
  /\ cur' = Stub
  /\ UNCHANGED <<next, head, tail, queued, node, prev, done>>

\* The task is ready: pop_task_all marks it as queued, so that nobody queues it
\* from now on, and as done.  It may be in the queue already.
DriveReady ==
  /\ pc[Poller] = "drive"
  /\ queued' = [queued EXCEPT ![cur] = TRUE]
  /\ done' = done \cup {cur}
  /\ Goto(Poller, "pop")
  /\ cur' = Stub
  /\ UNCHANGED <<next, head, tail, node, prev, woken>>

-----------------------------------------------------------------------------
Push(t) == StoreNext(t) \/ SwapHead(t) \/ LinkPrev(t)

Pop ==
  \/ PopEmpty \/ SkipStub \/ PopValue \/ NoNext \/ PopInconsistant \/ PushStub
  \/ StartTask \/ DrivePending \/ DriveReady \/ Push(Poller)

QueueNext ==
  \/ StartPoll \/ Pop
  \/ \E t \in Threads : Push(t) \/ WakeSchedular(t) \/ \E task \in Tasks : Schedule(t, task)

QueueSpec == QueueInit /\ [][QueueNext]_vars

-----------------------------------------------------------------------------
(***************************************************************************)
(* Properties.                                                             *)
(***************************************************************************)

\* The node after n, also where its push has still to write the link.
After(n) ==
  IF \E t \in Threads \cup {Poller} : pc[t] = "link" /\ prev[t] = n
  THEN node[CHOOSE t \in Threads \cup {Poller} : pc[t] = "link" /\ prev[t] = n]
  ELSE next[n]

\* A chain of nodes with the node after its last one.
Longer[s \in Seq(Nodes)] ==
  IF After(Last(s)) = Null THEN s ELSE Append(s, After(Last(s)))

\* The nodes from the tail on.
Chain ==
  LET from[k \in 0 .. Cardinality(Nodes)] == IF k = 0 THEN <<tail>> ELSE Longer[from[k - 1]]
  IN  from[Cardinality(Nodes)]

WithoutStub[s \in Seq(Nodes)] == RemoveFirst(s, Stub)

\* The tasks in the queue.
Contents == WithoutStub[Chain]

\* The tasks in the queue to which no link leads yet.
Unlinked == {n \in Tasks : \E t \in Threads : pc[t] = "link" /\ node[t] = n}

\* push puts a task in when it swaps the head and pop takes the oldest out, in
\* whatever order the pushes write their links: no task is lost, doubled or
\* overtaken.
Promised == INSTANCE Fifo WITH fifo <- Contents, linking <- Unlinked
ImplementsFifo == Promised!FifoSpec

\* pop answers Empty or Inconsistant only where Fifo, on which Schedular is built,
\* says that it may: an empty queue, or a push under way.
PopAnswersAllowed ==
  [][/\ PopEmpty => Promised!MayBeEmpty
     /\ PopInconsistant => Promised!MayBeInconsistant]_vars

\* The last write of push goes to a node that is still in the queue: pop never
\* gives away, to be freed, a task that a push is about to link.
LinkTargetInQueue ==
  \A t \in Threads \cup {Poller} : pc[t] = "link" => prev[t] \in ToSet(Chain)

\* pop may say Empty while the queue holds tasks, because a push is not linked.
\* Then that push still has to wake the Schedular: no task is left behind.
NoTaskStranded ==
  pc[Poller] = "asleep" /\ ~woken /\ Contents # <<>> =>
    \E t \in Threads : pc[t] \in {"link", "wake"}
=============================================================================
