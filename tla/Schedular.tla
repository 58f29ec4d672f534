----------------------------- MODULE Schedular -----------------------------
(***************************************************************************)
(* The Schedular of src/tree/schedular/mod.rs with the CancelTokens it     *)
(* hands out and the wakers of its tasks (waker.rs).                       *)
(*                                                                         *)
(* One thread at a time has the Schedular: it pushes tasks, polls, drops   *)
(* CancelTokens and clears.  What it is executing is the stack of calls,   *)
(* innermost first, one step per access to a word other threads use.       *)
(* Other threads hold wakers.  The should_poll queue is Fifo, which Queue  *)
(* implements; the AtomicWaker is the flags registered and woken.          *)
(*                                                                         *)
(* A task is freed when its Arc count, kept by hand, reaches zero.  Every  *)
(* element of Tasks is one allocation and is used once.                    *)
(***************************************************************************)
EXTENDS Fifo, FiniteSets

CONSTANTS
  Threads,   \* threads that hold wakers of tasks
  Outside,   \* holds the tokens of the tasks that no task of the Schedular made
  Null,      \* no task
  MaxWakers  \* bound: a waker is cloned only while fewer of its task are about

ASSUME SchedularAssumption ==
  /\ IsFiniteSet(Tasks)
  /\ Outside \notin Tasks
  /\ Null \notin Tasks \cup {Outside}
  /\ MaxWakers \in Nat

VARIABLES
  task,       \* the tasks, see TaskRecords
  list,       \* Schedular::all_next, all_prev and len
  calls,      \* the calls under way, innermost first
  turn,       \* the locals iteration and yielded of poll
  registered, \* the AtomicWaker of the queue holds a waker
  woken,      \* the task that polls the Schedular is to be polled
  live,       \* the Schedular exists
  thread      \* where each thread is in schedular_wake, and the task it wakes

wakeVars == <<registered, woken>>
queueVars == <<fifo, linking>>
rest == <<turn, wakeVars, live, thread, queueVars>>
schedVars == <<task, list, calls, rest>>

\* TaskBody with the strong count of its Arc; how often the future was dropped, whose
\* future holds the CancelToken, how many wakers are about and, as history, whether
\* the token has cancelled the task.
TaskRecords ==
  [queued : BOOLEAN, done : {"absent", "Running", "Cancelled", "Done"},
   next : Tasks \cup {Null}, prev : Tasks \cup {Null}, count : Nat, dropped : Nat,
   token : Tasks \cup {Outside, Null}, wakers : Nat, cancelled : BOOLEAN]

NoTask == [queued |-> FALSE, done |-> "absent", next |-> Null, prev |-> Null, count |-> 0,
           dropped |-> 0, token |-> Null, wakers |-> 0, cancelled |-> FALSE]

Frame(op, t) == [op |-> op, task |-> t]
Ops == {"poll", "drive", "waker", "remove", "future", "detach", "token",
        "requeue", "clear", "drain", "free"}
TreeOps == {"loop", "root", "rootClear"}   \* calls of TreeStack below those

SchedTypeOK ==
  /\ task \in [Tasks -> TaskRecords]
  /\ list \in [next : Tasks \cup {Null}, prev : Tasks \cup {Null}, len : 0..Cardinality(Tasks)]
  /\ calls \in Seq([op : Ops \cup TreeOps, task : Tasks \cup {Null}])
  /\ turn \in [iteration : Nat, yielded : 0..2]
  /\ {registered, woken, live} \subseteq BOOLEAN
  /\ thread \in [Threads -> [pc : {"idle", "upgrade", "push", "link", "wake"},
                             job : Tasks \cup {Null}]]
  /\ fifo \in Seq(Tasks) /\ linking \in SUBSET Tasks

NoTurn == [iteration |-> 0, yielded |-> 0]
Idle == [pc |-> "idle", job |-> Null]

\* new: no tasks.
SchedInit ==
  /\ task = [t \in Tasks |-> NoTask]
  /\ list = [next |-> Null, prev |-> Null, len |-> 0]
  /\ calls = <<>> /\ turn = NoTurn
  /\ registered = FALSE /\ woken = TRUE /\ live = TRUE
  /\ thread = [th \in Threads |-> Idle]
  /\ FifoInit

-----------------------------------------------------------------------------
(***************************************************************************)
(* Calls, counts and the queue.                                            *)
(***************************************************************************)

Running(op, t) == calls # <<>> /\ Head(calls) = Frame(op, t)

\* The call on top makes the calls cs, the first one first, and then goes on.
Calls(cs) == calls' = cs \o calls
\* The call on top ends with the calls cs.
Become(cs) == calls' = cs \o Tail(calls)

\* The tasks ts with one count of t more or less.
incr_task(ts, t) == [ts EXCEPT ![t].count = @ + 1]
decr_task(ts, t) == [ts EXCEPT ![t].count = @ - 1]

One(b) == IF b THEN 1 ELSE 0

\* schedular_clone and schedular_drop; nothing happens if w is no task.
schedular_clone(ts, w) ==
  [t \in Tasks |-> [ts[t] EXCEPT !.wakers = @ + One(t = w), !.count = @ + One(t = w)]]
schedular_drop(ts, w) ==
  [t \in Tasks |-> [ts[t] EXCEPT !.wakers = @ - One(t = w), !.count = @ - One(t = w)]]

\* The tasks whose CancelToken is in the future of h.
Held(h) == {c \in Tasks : task[c].token = h}

\* AtomicWaker::wake takes the waker of the task that polls the Schedular, if there
\* is one.
WakePoller == woken' = (woken \/ registered) /\ registered' = FALSE

\* A Weak<Queue> can be upgraded: the Schedular or a thread that wakes has an Arc.
QueueLives == live \/ \E th \in Threads : thread[th].pc \in {"push", "link", "wake"}

\* The thread that pops puts t into the queue: nobody sees its push half done.
PushOwn(t) == fifo' = Append(fifo, t) /\ UNCHANGED linking

-----------------------------------------------------------------------------
(***************************************************************************)
(* push_cancellable, push_task_to_all.                                     *)
(***************************************************************************)

\* The tasks ts with t at the front of the list.
push_task_to_all(ts, t) ==
  [x \in Tasks |-> [ts[x] EXCEPT !.next = IF x = t THEN list.next ELSE @,
                                 !.prev = IF x = list.next THEN t ELSE @]]

\* One count each for the list, the queue and the token, which h holds.  w: the
\* task of which the new future has a waker, or Null.
push_cancellable(t, h, w) ==
  /\ task[t].done = "absent"
  /\ LET new == [NoTask EXCEPT !.queued = TRUE, !.done = "Running", !.token = h, !.count = 3]
     IN  task' = push_task_to_all([schedular_clone(task, w) EXCEPT ![t] = new], t)
  /\ list' = [next |-> t, prev |-> IF list.prev = Null THEN t ELSE list.prev,
              len |-> list.len + 1]
  /\ PushOwn(t)
  /\ UNCHANGED <<calls, turn, wakeVars, live, thread>>

-----------------------------------------------------------------------------
(***************************************************************************)
(* pop_task_all: what poll does with a finished task and clear with every  *)
(* task.                                                                   *)
(***************************************************************************)

\* Nobody is to queue the task any more; then the calls cs.
RemoveTask(t, cs) ==
  /\ Running("remove", t)
  /\ task' = [task EXCEPT ![t].queued = TRUE, ![t].done = "Done"]
  /\ Become(cs)
  /\ UNCHANGED <<list, rest>>

\* Variant: a future that the token has dropped is dropped again.
pop_task_all_Drops(t) == RemoveTask(t, <<Frame("future", t), Frame("detach", t)>>)

\* The future is dropped unless the token has done so.
pop_task_all(t) ==
  RemoveTask(t, IF task[t].done = "Running" THEN <<Frame("future", t), Frame("detach", t)>>
                                        ELSE <<Frame("detach", t)>>)

\* The holder of a CancelToken drops it.
DropToken(c) ==
  /\ task' = [task EXCEPT ![c].token = Null]
  /\ Calls(<<Frame("token", c)>>)
  /\ UNCHANGED <<list, rest>>

\* The future is dropped, after the tokens in it.
drop_task(t) ==
  /\ Running("future", t)
  /\ Held(t) = {}
  /\ task' = [task EXCEPT ![t].dropped = @ + 1]
  /\ Become(<<>>)
  /\ UNCHANGED <<list, rest>>

\* Variant: the last task leaves the list without a change of all_prev.
ListWithout_KeepsLast(t) ==
  [next |-> IF task[t].prev = Null THEN task[t].next ELSE list.next,
   prev |-> list.prev,
   len  |-> list.len - 1]

\* The fields of the Schedular once t is out of the list.
ListWithout(t) ==
  [next |-> IF task[t].prev = Null THEN task[t].next ELSE list.next,
   prev |-> IF task[t].next = Null THEN task[t].prev ELSE list.prev,
   len  |-> list.len - 1]

\* Take the task out of the list and give the count of the list back.
Detach(t) ==
  /\ Running("detach", t)
  /\ LET out == [x \in Tasks |->
                   [task[x] EXCEPT !.prev = IF x = task[t].next THEN task[t].prev ELSE @,
                                   !.next = IF x = task[t].prev THEN task[t].next ELSE @]]
     IN  task' = decr_task(out, t)
  /\ list' = ListWithout(t)
  /\ Become(<<>>)
  /\ UNCHANGED rest

-----------------------------------------------------------------------------
(***************************************************************************)
(* CancelToken::drop.                                                      *)
(***************************************************************************)

\* A task that is done or cancelled only loses the count of the token.  Any other
\* is cancelled, with the calls cs.
Cancel(t, cs) ==
  /\ Running("token", t)
  /\ IF task[t].done \in {"Cancelled", "Done"}
     THEN task' = decr_task(task, t) /\ Become(<<>>)
     ELSE /\ task' = [task EXCEPT ![t].done = "Cancelled", ![t].cancelled = TRUE]
          /\ Become(cs)
  /\ UNCHANGED <<list, rest>>

\* Variant: the future of a cancelled task is left to poll.
CancelToken_drop_Lazy(t) == Cancel(t, <<Frame("requeue", t)>>)

\* The future is dropped at once.
CancelToken_drop(t) == Cancel(t, <<Frame("future", t), Frame("requeue", t)>>)

\* Then the task is queued, so that poll takes it out of the list.  If it is not in
\* the queue already it goes there, with the count of the token; taken says so.
RequeueTaking(t, taken) ==
  /\ Running("requeue", t)
  /\ LET marked == [task EXCEPT ![t].queued = TRUE]
         pushes == ~task[t].queued /\ QueueLives
     IN  /\ task' = IF pushes /\ taken THEN marked ELSE decr_task(marked, t)
         /\ IF pushes THEN WakePoller /\ PushOwn(t) ELSE UNCHANGED <<wakeVars, queueVars>>
  /\ Become(<<>>)
  /\ UNCHANGED <<list, turn, live, thread>>

\* Variant: the count is given back although it went to the queue.
Requeue_NotTaken(t) == RequeueTaking(t, FALSE)

Requeue(t) == RequeueTaking(t, TRUE)

-----------------------------------------------------------------------------
(***************************************************************************)
(* poll.                                                                   *)
(***************************************************************************)

\* poll ends.  Ready goes to the call below, Pending all the way up to the
\* executor.
Return(cs) == calls' = cs /\ turn' = NoTurn

\* poll, and after it the calls cs: it registers the waker, unless there are no
\* tasks.
StartPoll(cs) ==
  /\ IF list.next = Null
     THEN Calls(cs) /\ UNCHANGED registered
     ELSE Calls(<<Frame("poll", Null)>> \o cs) /\ registered' = TRUE
  /\ UNCHANGED <<task, list, turn, live, thread, queueVars>>

\* Variant: Ready although tasks are waiting.
EmptyReturns_Ready == Tail(calls)

\* What Pop::Empty means: Ready if there are no tasks left.
EmptyReturns == IF list.next = Null THEN Tail(calls) ELSE <<>>

\* Pop::Empty.
PollEmpty ==
  /\ Running("poll", Null)
  /\ MayBeEmpty
  /\ Return(EmptyReturns)
  /\ UNCHANGED <<task, list, wakeVars, live, thread, queueVars>>

\* Pop::Inconsistant: let the other thread finish its push.  A push that went on
\* while pop looked counts as not linked here: what it did in that time could as well
\* come after the return of poll.
PollInconsistant ==
  /\ Running("poll", Null)
  /\ MayBeInconsistant /\ fifo[2] \in linking
  /\ Return(<<>>)
  /\ woken' = TRUE
  /\ UNCHANGED <<task, list, registered, live, thread, queueVars>>

\* Pop::Value, with the count that the queue had.
Popped(t) == Running("poll", Null) /\ Get /\ t = Head(fifo)

\* A cancelled task is taken out of the list.  The count of the queue is not given
\* back.
PollCancelled(t) ==
  /\ Popped(t) /\ task[t].done = "Cancelled"
  /\ Calls(<<Frame("remove", t)>>)
  /\ UNCHANGED <<task, list, turn, wakeVars, live, thread>>

\* Variant: a task that is done is taken out of the list like a cancelled one.
PollDone_Removes(t) ==
  /\ Popped(t) /\ task[t].done = "Done"
  /\ Calls(<<Frame("remove", t)>>)
  /\ UNCHANGED <<task, list, turn, wakeVars, live, thread>>

\* A task that is done only loses the count of the queue.
PollDone(t) ==
  /\ Popped(t) /\ task[t].done = "Done"
  /\ task' = decr_task(task, t)
  /\ UNCHANGED <<list, calls, turn, wakeVars, live, thread>>

\* Variant: a cancelled task is driven once more.
Drivable_Cancelled(t) == task[t].done # "Done"

\* Which tasks are driven.
Drivable(t) == task[t].done = "Running"

\* A running task can be queued again from here on.  It is driven with a waker that
\* takes over the count of the queue and is dropped after the drive.
PollTask(t) ==
  /\ Popped(t) /\ Drivable(t)
  /\ task' = [task EXCEPT ![t].queued = FALSE]
  /\ turn' = [turn EXCEPT !.iteration = @ + 1]
  /\ Calls(<<Frame("drive", t), Frame("waker", t)>>)
  /\ UNCHANGED <<list, wakeVars, live, thread>>

\* Poll::Ready: the task is removed.  A future that has finished holds no tokens.
DriveReady(t) ==
  /\ Running("drive", t)
  /\ Held(t) = {}
  /\ Become(<<Frame("remove", t)>>)
  /\ UNCHANGED <<task, list, rest>>

\* A panic has the same effect by way of remove, and then leaves poll and
\* whatever called it.
DrivePanic(t) ==
  /\ Running("drive", t)
  /\ Held(t) = {}
  /\ Return(<<Frame("remove", t), Frame("waker", t)>>)
  /\ UNCHANGED <<task, list, wakeVars, live, thread, queueVars>>

\* poll has driven as many tasks as it may in one go: it counts the tasks that were
\* queued again while they were driven, and the drives.
BudgetUsed(t) ==
  turn.yielded + One(task[t].queued) > 2 \/ turn.iteration > list.len

\* Poll::Pending: go on, or return and ask to be polled again.
DrivePending(t) ==
  /\ Running("drive", t)
  /\ IF BudgetUsed(t)
     THEN Return(<<Frame("waker", t)>>) /\ woken' = TRUE
     ELSE /\ turn' = [turn EXCEPT !.yielded = @ + One(task[t].queued)]
          /\ Become(<<>>)
          /\ UNCHANGED woken
  /\ UNCHANGED <<task, list, registered, live, thread, queueVars>>

DropPollWaker(t) ==
  /\ Running("waker", t)
  /\ task' = decr_task(task, t)
  /\ Become(<<>>)
  /\ UNCHANGED <<list, rest>>

-----------------------------------------------------------------------------
(***************************************************************************)
(* clear, and the drop of the Schedular.  The loop of clear that waits     *)
(* while pop answers Inconsistant changes nothing.                         *)
(***************************************************************************)

ClearCalls == <<Frame("clear", Null), Frame("drain", Null)>>

\* Variant: the Schedular is dropped without clear.
DropCalls_NoClear == <<Frame("free", Null)>>

\* The drop of the Schedular clears it; then it gives up its Arc of the queue.
DropCalls == ClearCalls \o <<Frame("free", Null)>>

ClearList ==
  /\ Running("clear", Null)
  /\ IF list.next = Null THEN Become(<<>>) ELSE Calls(<<Frame("remove", list.next)>>)
  /\ UNCHANGED <<task, list, rest>>

DrainValue(t) ==
  /\ Running("drain", Null)
  /\ Get /\ t = Head(fifo)
  /\ task' = decr_task(task, t)
  /\ UNCHANGED <<list, calls, turn, wakeVars, live, thread>>

DrainEmpty ==
  /\ Running("drain", Null)
  /\ MayBeEmpty
  /\ Become(<<>>)
  /\ UNCHANGED <<task, list, rest>>

Free ==
  /\ Running("free", Null)
  /\ live' = FALSE
  /\ Become(<<>>)
  /\ UNCHANGED <<task, list, turn, wakeVars, thread, queueVars>>

-----------------------------------------------------------------------------
(***************************************************************************)
(* The wakers of tasks, in the hands of any thread.                        *)
(***************************************************************************)

\* The waker of a drive or another one is cloned.
CloneWaker(t) ==
  /\ Running("drive", t) \/ task[t].wakers > 0
  /\ task[t].wakers < MaxWakers
  /\ task' = schedular_clone(task, t)
  /\ UNCHANGED <<list, calls, rest>>

DropWaker(t) ==
  /\ task[t].wakers > 0
  /\ task' = schedular_drop(task, t)
  /\ UNCHANGED <<list, calls, rest>>

\* The compare_exchange in schedular_wake by thread th; the waker is used up.  A task
\* that is marked as queued already is left alone and only loses the count.  Any other
\* is marked and will be pushed with it.
Wakes(th, t, isQueued, left) ==
  /\ thread[th].pc = "idle" /\ task[t].wakers > 0
  /\ IF isQueued
     THEN task' = left /\ UNCHANGED thread
     ELSE /\ task' = [task EXCEPT ![t].wakers = @ - 1, ![t].queued = TRUE]
          /\ thread' = [thread EXCEPT ![th] = [pc |-> "upgrade", job |-> t]]
  /\ UNCHANGED <<list, calls, turn, wakeVars, live, queueVars>>

\* Variant: the count of a waker that finds its task queued is kept.
schedular_wake_Keeps(th, t) ==
  Wakes(th, t, task[t].queued, [task EXCEPT ![t].wakers = @ - 1])

\* Variant: the task is pushed even if it is queued.
schedular_wake_Unchecked(th, t) == Wakes(th, t, FALSE, task)

schedular_wake(th, t) == Wakes(th, t, task[t].queued, schedular_drop(task, t))

\* The same on a clone: the waker stays.
schedular_wake_ref(th, t) ==
  /\ thread[th].pc = "idle" /\ task[t].wakers > 0
  /\ ~task[t].queued
  /\ task' = incr_task([task EXCEPT ![t].queued = TRUE], t)
  /\ thread' = [thread EXCEPT ![th] = [pc |-> "upgrade", job |-> t]]
  /\ UNCHANGED <<list, calls, turn, wakeVars, live, queueVars>>

Upgrade(th) ==
  /\ thread[th].pc = "upgrade"
  /\ IF QueueLives
     THEN thread' = [thread EXCEPT ![th].pc = "push"] /\ UNCHANGED task
     ELSE thread' = [thread EXCEPT ![th] = Idle] /\ task' = decr_task(task, thread[th].job)
  /\ UNCHANGED <<list, calls, turn, wakeVars, live, queueVars>>

\* The two accesses of push that others see.
PushTask(th) ==
  /\ thread[th].pc = "push"
  /\ Swap(thread[th].job)
  /\ thread' = [thread EXCEPT ![th].pc = "link"]
  /\ UNCHANGED <<task, list, calls, turn, wakeVars, live>>

LinkTask(th) ==
  /\ thread[th].pc = "link"
  /\ Link(thread[th].job)
  /\ thread' = [thread EXCEPT ![th] = [pc |-> "wake", job |-> Null]]
  /\ UNCHANGED <<task, list, calls, turn, wakeVars, live>>

WakeSchedular(th) ==
  /\ thread[th].pc = "wake"
  /\ WakePoller
  /\ thread' = [thread EXCEPT ![th] = Idle]
  /\ UNCHANGED <<task, list, calls, turn, live, queueVars>>

\* A task that is driven wakes itself or another one: all of schedular_wake_ref.
DriveWakes(t, other) ==
  /\ Running("drive", t)
  /\ other = t \/ task[other].wakers > 0
  /\ ~task[other].queued
  /\ task' = incr_task([task EXCEPT ![other].queued = TRUE], other)
  /\ PushOwn(other)
  /\ WakePoller
  /\ UNCHANGED <<list, calls, turn, live, thread>>

-----------------------------------------------------------------------------
(***************************************************************************)
(* The specification.  Whoever has the Schedular does anything with it, in *)
(* any order, but drops no token of a task while that task is driven.      *)
(***************************************************************************)

\* What is left to do of a call that has begun.
Library ==
  \/ PollEmpty \/ PollInconsistant \/ ClearList \/ DrainEmpty \/ Free
  \/ \E t \in Tasks :
       \/ PollCancelled(t) \/ PollDone(t) \/ PollTask(t) \/ DropPollWaker(t)
       \/ pop_task_all(t) \/ drop_task(t) \/ Detach(t)
       \/ CancelToken_drop(t) \/ Requeue(t) \/ DrainValue(t)
       \/ Running("future", t) /\ \E c \in Held(t) : DropToken(c)

\* What a task may do when it is driven.
Drive(t) ==
  \/ DriveReady(t) \/ DrivePending(t) \/ DrivePanic(t)
  \/ \E c \in Tasks : DriveWakes(t, c)
  \/ Running("drive", t) /\ \E c \in Tasks : push_cancellable(c, t, Null)
  \/ Running("drive", t) /\ \E c \in Held(t) : DropToken(c)

\* What other code may do with the Schedular.
Use ==
  /\ calls = <<>>
  /\ \/ live /\ StartPoll(<<>>) /\ woken' = FALSE
     \/ live /\ \E cs \in {ClearCalls, DropCalls} : Calls(cs) /\ UNCHANGED <<task, list, rest>>
     \/ live /\ \E t \in Tasks : push_cancellable(t, Outside, Null)
     \/ \E t \in Held(Outside) : DropToken(t)

Wake(th) == Upgrade(th) \/ PushTask(th) \/ LinkTask(th) \/ WakeSchedular(th)

SchedNext ==
  \/ Library \/ Use
  \/ \E t \in Tasks : Drive(t) \/ CloneWaker(t) \/ DropWaker(t)
  \/ \E th \in Threads :
       Wake(th) \/ \E t \in Tasks : schedular_wake(th, t) \/ schedular_wake_ref(th, t)

SchedSpec == SchedInit /\ [][SchedNext]_schedVars

-----------------------------------------------------------------------------
(***************************************************************************)
(* Properties.                                                             *)
(***************************************************************************)

Doing(op, t) == Frame(op, t) \in ToSet(calls)

\* A part of the list with the task after its last one.
Further[q \in Seq(Tasks)] ==
  IF q = <<>> \/ task[Last(q)].next = Null THEN q ELSE Append(q, task[Last(q)].next)

\* The list of all tasks, from all_next on.
AllTasks ==
  LET from[k \in 0 .. Cardinality(Tasks)] ==
        IF k = 0 THEN (IF list.next = Null THEN <<>> ELSE <<list.next>>) ELSE Further[from[k - 1]]
  IN  from[Cardinality(Tasks)]

\* How many count the task t: the list, the queue as long as somebody has it, its
\* token, its wakers, the threads that are about to push it, and the waker it is
\* driven with.
Owners(t) ==
  One(t \in ToSet(AllTasks)) + One(QueueLives /\ t \in ToSet(fifo))
    + One(task[t].token # Null \/ Doing("token", t) \/ Doing("requeue", t))
    + task[t].wakers
    + Cardinality({th \in Threads : thread[th].job = t /\ thread[th].pc # "link"})
    + One(Doing("waker", t))

\* No task is freed while somebody can still reach it.
CountCoversOwners == \A t \in Tasks : task[t].count >= Owners(t)

\* The task t is in a queue that was dropped with it: Queue has no Drop.
LeftInQueue(t) == ~QueueLives /\ t \in ToSet(fifo)

\* A task is freed when the last owner lets go of it, unless the one count of the
\* queue was lost: by poll, which took the task out of the queue after it was
\* cancelled, or with the queue, if a waker pushed the task after the last drain.
CountExact ==
  \A t \in Tasks :
    /\ task[t].count - Owners(t) \in 0..1
    /\ task[t].count = Owners(t) \/ LeftInQueue(t)
         \/ (task[t].cancelled /\ t \notin ToSet(fifo))

\* What poll says of its counts: they stay consistent, every task is freed when
\* nobody owns it any more.
CountConsistent == \A t \in Tasks : task[t].count = Owners(t)

\* The doubly linked list of all tasks is one list forwards and backwards, len is
\* its length, and the tasks in it are the ones that were pushed and not detached.
ListSound ==
  /\ list.len = Len(AllTasks) /\ IsInjective(AllTasks)
  /\ list.prev = IF AllTasks = <<>> THEN Null ELSE Last(AllTasks)
  /\ \A i \in 1 .. Len(AllTasks) :
       task[AllTasks[i]].prev = IF i = 1 THEN Null ELSE AllTasks[i - 1]
  /\ \A t \in Tasks : t \in ToSet(AllTasks) <=>
       task[t].done \in {"Running", "Cancelled"} \/ Doing("detach", t)

\* A future exists while its task has been pushed and the future was not dropped.
FutureLeft(t) == task[t].done # "absent" /\ task[t].dropped = 0

\* The future of a task is dropped once, by the thread that has the Schedular, and
\* before the task can be freed; a task that is driven has its future.
FutureDroppedOnce ==
  \A t \in Tasks :
    /\ task[t].dropped <= 1
    /\ FutureLeft(t) => task[t].count > 0
    /\ Running("drive", t) => FutureLeft(t)

\* A task writes its result into the ScopeFuture that holds its token, so it may be
\* driven only while that holder has its future.
HolderAlive ==
  \A t \in Tasks : Running("drive", t) =>
    \/ task[t].token = Outside
    \/ task[t].token \in Tasks /\ task[task[t].token].done = "Running"

\* The assertion in poll: a task in the queue is marked, so it is in there once.
QueuedIsMarked == IsInjective(fifo) /\ \A t \in ToSet(fifo) : task[t].queued

\* When the Schedular is gone no future is left.
NoFutureLeft == ~live => \A t \in Tasks : ~FutureLeft(t)
=============================================================================
