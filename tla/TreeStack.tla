----------------------------- MODULE TreeStack -----------------------------
(***************************************************************************)
(* The tree runtime of src/tree: TreeStack, its Runner and the futures     *)
(* they return, and ScopeFuture, on top of Schedular.                      *)
(*                                                                         *)
(* A TreeStack has a root Stack, of which this module keeps the number of  *)
(* allocations and the state (Stack has the rest), and a Schedular.  The   *)
(* root is polled only when the Schedular has no tasks.  A future of the   *)
(* root or of a task may poll a ScopeFuture: that pushes a task, which     *)
(* writes its result into a place inside the ScopeFuture.  The token of    *)
(* task c names the one whose future holds the ScopeFuture, Outside being  *)
(* the root.                                                               *)
(*                                                                         *)
(* No state is ever Yield (see YieldEndsStep in Stack), so the branches    *)
(* for it are left out.                                                    *)
(***************************************************************************)
EXTENDS Schedular

CONSTANTS
  MaxRoot,  \* bound: allocations of the root Stack; enter makes two
  MaxWork   \* bound: runs, outside waits and StkFutures of the root, in all

ASSUME TreeAssumption == MaxRoot \in Nat \ {0, 1} /\ MaxWork \in Nat

VARIABLES
  root,      \* Stack::len and state of the root; whether this poll of it has polled a
             \* future of its Stk before
  scope,     \* the ScopeFuture of each task, see ScopeRecords
  runner,    \* what the user has of the current run
  panicked,  \* a panic has left the current run
  work       \* counter for the bound

treeVars == <<root, scope, runner, panicked, work>>
vars == <<schedVars, treeVars>>

\* Whether the task has written its result; the waker in the future of the task, of the
\* one to wake at its end; the task of the root that holds the scope, by its place in
\* the Stack; whether the scope was polled below a sub schedular and not woken since.
ScopeRecords ==
  [place : {"empty", "full"}, notify : Tasks \cup {Outside, Null}, level : 0..MaxRoot,
   asleep : BOOLEAN]

TreeTypeOK ==
  /\ SchedTypeOK
  /\ root \in [len : 0..MaxRoot, state : {"Base", "NewTask"}, busy : BOOLEAN]
  /\ scope \in [Tasks -> ScopeRecords]
  /\ runner \in {"none", "runner", "finish", "undefined"}
  /\ panicked \in BOOLEAN /\ work \in 0..MaxWork

NoScope == [place |-> "empty", notify |-> Null, level |-> 0, asleep |-> FALSE]

TreeInit ==
  /\ SchedInit
  /\ root = [len |-> 0, state |-> "Base", busy |-> FALSE]
  /\ scope = [t \in Tasks |-> NoScope]
  /\ runner = "none" /\ panicked = FALSE /\ work = 0

-----------------------------------------------------------------------------
(***************************************************************************)
(* ScopeFuture.                                                            *)
(***************************************************************************)

\* The future of h is being polled.
Polled(h) == IF h = Outside THEN Running("root", Null)
             ELSE Running("drive", h) /\ scope[h].place = "empty"

\* The tasks of the ScopeFutures in that future.
Scopes(h) == {c \in Held(h) : h = Outside => scope[c].level = root.len}

\* schedular_wake by the thread that has the Schedular, seen whole.
WakeOwn(t) ==
  IF task[t].queued
  THEN task' = schedular_drop(task, t) /\ UNCHANGED <<queueVars, wakeVars>>
  ELSE /\ task' = [task EXCEPT ![t].wakers = @ - 1, ![t].queued = TRUE]
       /\ PushOwn(t) /\ WakePoller

\* Variant: every Context is taken for the one the root Stack runs with.
Notified_Nobody(h, below) == Null

\* Of whom a new task gets a waker: nobody if the Context is the one the root Stack
\* runs with, else whoever is polled.  below: a sub schedular is in between.
Notified(h, below) == IF h = Outside /\ ~below THEN Null ELSE h

\* The first poll of a ScopeFuture in the future of h, which makes task t.  direct: the
\* future of a scope has made it with Stk::enter_scope, so that the Stack in context is
\* the root and not one of ScopeStk::run.
ScopePollInitial(h, t, below, direct) ==
  /\ Polled(h)
  /\ push_cancellable(t, h, Notified(h, below))
  /\ root' = [root EXCEPT !.state = IF h = Outside \/ direct THEN "NewTask" ELSE @,
                          !.busy = @ \/ h = Outside]
  /\ scope' = [scope EXCEPT ![t] = [place |-> "empty", notify |-> Notified(h, below),
                                    level |-> IF h = Outside THEN root.len ELSE 0,
                                    asleep |-> below]]
  /\ UNCHANGED <<runner, panicked, work>>

\* The task of the scope is at its end: it writes the result and wakes the one it
\* has a waker of.
ScopeResult(t) ==
  /\ Running("drive", t)
  /\ Held(t) = {} /\ scope[t].place = "empty"
  /\ LET h == scope[t].notify
     IN  /\ scope' = [scope EXCEPT ![t].place = "full", ![t].notify = Null,
                                   ![t].asleep = @ /\ h = Null]
         /\ IF h \in Tasks
            THEN WakeOwn(h)
            ELSE woken' = (woken \/ h = Outside) /\ UNCHANGED <<task, registered, queueVars>>
  /\ UNCHANGED <<list, calls, turn, live, thread, root, runner, panicked, work>>

\* A poll of the ScopeFuture after that takes the result; the token goes with it.
\* Below a sub schedular the poll comes only when the scope was woken.
ScopePollRunning(h, c) ==
  /\ Polled(h) /\ c \in Scopes(h)
  /\ scope[c].place = "full" /\ ~scope[c].asleep
  /\ DropToken(c)
  /\ UNCHANGED treeVars

\* The ScopeFuture is dropped before its task has finished.
ScopeDrop(h, c) ==
  /\ Polled(h) /\ c \in Scopes(h)
  /\ scope[c].place = "empty"
  /\ DropToken(c)
  /\ UNCHANGED treeVars

\* The future of a task that is dropped early drops its waker.
DropNotify(t) ==
  /\ Running("future", t) /\ scope[t].notify # Null
  /\ scope' = [scope EXCEPT ![t].notify = Null]
  /\ task' = schedular_drop(task, scope[t].notify)
  /\ UNCHANGED <<list, calls, rest, root, runner, panicked, work>>

-----------------------------------------------------------------------------
(***************************************************************************)
(* What else tasks do when they are driven.                                *)
(***************************************************************************)

\* The wakers of t that are not in the future of a scope.
FreeWakers(t) == task[t].wakers - Cardinality({c \in Tasks : scope[c].notify = t})

Worked == work < MaxWork /\ work' = work + 1

\* Wait for something outside, which gets a waker, or for another turn.
TaskWaits(t) ==
  /\ Running("drive", t) /\ scope[t].place = "empty"
  /\ Worked
  /\ CloneWaker(t) \/ DriveWakes(t, t)
  /\ UNCHANGED <<root, scope, runner, panicked>>

\* A task is pending only if it waits for something.
TaskPending(t) ==
  /\ scope[t].place = "empty"
  /\ \/ task[t].queued \/ FreeWakers(t) > 0 \/ \E th \in Threads : thread[th].job = t
     \/ \E c \in Held(t) : task[c].done = "Running"
  /\ DrivePending(t)
  /\ UNCHANGED treeVars

TaskReady(t) ==
  /\ scope[t].place = "full"
  /\ DriveReady(t)
  /\ UNCHANGED treeVars

TaskPanics(t) ==
  /\ scope[t].place = "empty"
  /\ DrivePanic(t)
  /\ panicked' = TRUE
  /\ UNCHANGED <<root, scope, runner, work>>

\* Outside code wakes a task.
OutsideWakes(th, t) ==
  /\ FreeWakers(t) > 0
  /\ schedular_wake(th, t)
  /\ UNCHANGED treeVars

-----------------------------------------------------------------------------
(***************************************************************************)
(* TreeStack::enter, the futures of the Runner, drive_top_task.            *)
(***************************************************************************)

\* enter asserts that the root is empty, otherwise it panics and changes nothing.
enter ==
  /\ calls = <<>> /\ live /\ runner = "none"
  /\ Worked
  /\ root.len = 0 /\ root' = [root EXCEPT !.len = 2]
  /\ runner' = "runner" /\ panicked' = FALSE
  /\ UNCHANGED <<schedVars, scope>>

\* Runner::finish forgets the Runner.
finish ==
  /\ calls = <<>> /\ runner = "runner" /\ root.len > 0 /\ ~panicked
  /\ runner' = "finish" /\ woken' = TRUE
  /\ UNCHANGED <<task, list, calls, turn, registered, live, thread, queueVars, root, scope,
                 panicked, work>>

\* The executor polls the FinishFuture.
PollFinish ==
  /\ calls = <<>> /\ runner = "finish" /\ root.len > 0 /\ ~panicked
  /\ woken' = FALSE
  /\ Calls(<<Frame("loop", Null)>>)
  /\ UNCHANGED <<task, list, turn, registered, live, thread, queueVars, treeVars>>

\* The loop of a FinishFuture, and what a StepFuture does once.
FinishLoop == Running("loop", Null)
Step == calls = <<>> /\ runner = "runner" /\ ~panicked

\* try_get_result.
TakeResult ==
  /\ FinishLoop \/ Step
  /\ root.len = 1 /\ root' = [root EXCEPT !.len = 0]
  /\ calls' = <<>>
  /\ runner' = IF runner = "finish" THEN "none" ELSE runner
  /\ UNCHANGED <<task, list, rest, scope, panicked, work>>

\* Variant: the root is driven although it has its result.
drive_top_task_Finished ==
  /\ FinishLoop \/ Step
  /\ StartPoll(<<Frame("root", Null)>>)
  /\ root' = [root EXCEPT !.busy = FALSE]
  /\ UNCHANGED <<woken, scope, runner, panicked, work>>

\* The Schedular until it is Ready, then the top task of the root.
drive_top_task ==
  /\ FinishLoop \/ Step
  /\ root.len >= 2
  /\ StartPoll(<<Frame("root", Null)>>)
  /\ root' = [root EXCEPT !.busy = FALSE]
  /\ UNCHANGED <<woken, scope, runner, panicked, work>>

\* The top task of the root polls a new StkFuture, for which push_task wants the
\* state Base, and waits for it: drive_top_task takes the state back.
RootRun ==
  /\ Running("root", Null)
  /\ root.len < MaxRoot /\ Worked
  /\ root.state = "Base"
  /\ root' = [root EXCEPT !.len = @ + 1]
  /\ Become(<<>>)
  /\ UNCHANGED <<task, list, rest, scope, runner, panicked>>

\* Or it drops the StkFuture in the same poll: pop_cancel_task takes the task back
\* and leaves the state as push_task has set it.
RootRunDropped ==
  /\ Running("root", Null)
  /\ Worked
  /\ root.state = "Base"
  /\ root' = [root EXCEPT !.state = "NewTask", !.busy = TRUE]
  /\ UNCHANGED <<schedVars, scope, runner, panicked>>

\* In another state push_task panics.  The StkFuture is Running without a task, and
\* the panic drops it: the task that is polled is popped (FrameOutlivesPoll in
\* Stack), what follows is undefined and the run ends here.
RootRunRefused ==
  /\ Running("root", Null)
  /\ root.state # "Base"
  /\ calls' = <<>> /\ panicked' = TRUE /\ runner' = "undefined"
  /\ UNCHANGED <<task, list, rest, root, scope, work>>

\* It panics for a reason of its own; that drops its scopes.
RootPanics ==
  /\ Running("root", Null)
  /\ Scopes(Outside) = {}
  /\ calls' = <<>> /\ panicked' = TRUE
  /\ UNCHANGED <<task, list, rest, root, scope, runner, work>>

\* The top task of the root is ready; it has dropped its scopes.
RootReady ==
  /\ Running("root", Null)
  /\ Scopes(Outside) = {}
  /\ root' = [root EXCEPT !.len = @ - 1]
  /\ Become(<<>>)
  /\ UNCHANGED <<task, list, rest, scope, runner, panicked, work>>

\* It is pending and the state says why: there is a new task.
RootNewTask ==
  /\ Running("root", Null)
  /\ root.state = "NewTask" /\ root' = [root EXCEPT !.state = "Base"]
  /\ Become(<<>>)
  /\ UNCHANGED <<task, list, rest, scope, runner, panicked, work>>

\* It waits for something outside, which will wake it, or for a scope that is not
\* woken.
RootPending ==
  /\ Running("root", Null)
  /\ root.state = "Base"
  /\ \/ Worked /\ woken' = TRUE
     \/ (\E c \in Scopes(Outside) : scope[c].asleep) /\ UNCHANGED <<work, woken>>
  /\ calls' = <<>>
  /\ UNCHANGED <<task, list, turn, registered, live, thread, queueVars, root, scope, runner,
                 panicked>>

-----------------------------------------------------------------------------
(***************************************************************************)
(* The drop of the Runner, of a FinishFuture and of the TreeStack.         *)
(***************************************************************************)

\* Variant: only the root is cleared.
RunnerDropCalls_RootOnly == <<Frame("rootClear", Null)>>

\* Runner::drop clears the Schedular, then the root.
RunnerDropCalls == ClearCalls \o <<Frame("rootClear", Null)>>

DropRunner ==
  /\ calls = <<>> /\ runner = "runner"
  /\ runner' = "none"
  /\ Calls(RunnerDropCalls)
  /\ UNCHANGED <<task, list, rest, root, scope, panicked, work>>

\* A FinishFuture has no drop of its own.
DropFinish ==
  /\ calls = <<>> /\ runner = "finish"
  /\ runner' = "none"
  /\ UNCHANGED <<schedVars, root, scope, panicked, work>>

\* The fields of the TreeStack are dropped in order, the root first.
DropTree ==
  /\ calls = <<>> /\ runner = "none" /\ live
  /\ Calls(<<Frame("rootClear", Null)>> \o DropCalls)
  /\ UNCHANGED <<task, list, rest, treeVars>>

\* Stack::clear of the root drops its tasks and the ScopeFutures in them.
RootClear ==
  /\ Running("rootClear", Null)
  /\ \/ \E c \in Held(Outside) : DropToken(c) /\ UNCHANGED root
     \/ /\ Held(Outside) = {}
        /\ root' = IF root.len = 0 THEN root ELSE [root EXCEPT !.len = 0, !.state = "Base"]
        /\ Become(<<>>)
        /\ UNCHANGED <<task, list, rest>>
  /\ UNCHANGED <<scope, runner, panicked, work>>

-----------------------------------------------------------------------------
\* The calls of Schedular that are under way.
SchedularStep ==
  /\ Library
  /\ \A t \in Tasks : Running("future", t) => scope[t].notify = Null
  /\ UNCHANGED treeVars

\* What the library does by itself.
Work ==
  \/ SchedularStep \/ RootClear
  \/ FinishLoop /\ (TakeResult \/ drive_top_task)
  \/ \E t \in Tasks : DropNotify(t)

\* A future that is polled goes on to its end or until it has to wait.
Progress ==
  \/ RootReady \/ RootNewTask \/ RootPending
  \/ \E t \in Tasks : ScopeResult(t) \/ TaskReady(t) \/ TaskPending(t)
  \/ \E h \in Tasks \cup {Outside}, c \in Tasks : ScopePollRunning(h, c)

\* The next task to be allocated; which one does not matter.
NewTask == IF \E t \in Tasks : task[t].done = "absent"
           THEN CHOOSE t \in Tasks : task[t].done = "absent" ELSE Null

\* What futures and the user may do besides.
Choice ==
  \/ enter \/ finish \/ DropRunner \/ DropFinish \/ DropTree
  \/ Step /\ (TakeResult \/ drive_top_task)
  \/ RootRun \/ RootRunDropped \/ RootRunRefused \/ RootPanics
  \/ \E t \in Tasks : TaskWaits(t) \/ TaskPanics(t)
  \/ \E h \in Tasks \cup {Outside}, c \in Tasks :
       \/ ScopeDrop(h, c)
       \/ /\ c = NewTask
          /\ \E below \in BOOLEAN, direct \in {FALSE, h # Outside} :
               ScopePollInitial(h, c, below, direct)

TreeNext ==
  \/ Work \/ Progress \/ Choice \/ PollFinish
  \/ \E th \in Threads :
       \/ Wake(th) /\ UNCHANGED treeVars
       \/ \E t \in Tasks : OutsideWakes(th, t)

TreeSpec == TreeInit /\ [][TreeNext]_vars

\* The library and the futures it polls run on, a thread that has a waker uses it,
\* and the executor polls the FinishFuture when it was woken.
TreeFairSpec ==
  /\ TreeSpec
  /\ WF_vars(Work) /\ WF_vars(Progress) /\ WF_vars(woken /\ PollFinish)
  /\ \A th \in Threads :
       /\ WF_vars(Wake(th) /\ UNCHANGED treeVars)
       /\ WF_vars(\E t \in Tasks : OutsideWakes(th, t))

-----------------------------------------------------------------------------
(***************************************************************************)
(* Properties.                                                             *)
(***************************************************************************)

\* The root is polled only when all scopes have ended.
RootWaitsForScopes == Running("root", Null) /\ ~root.busy => list.next = Null

\* Whoever is polled and holds a ScopeFuture whose task is done finds the result in
\* it, and the scope was woken if it slept: the scope is Ready and never stuck.
ScopeAnswered ==
  \A h \in Tasks \cup {Outside} : \A c \in Scopes(h) :
    Polled(h) /\ task[c].done = "Done" /\ ~panicked =>
      scope[c].place = "full" /\ ~scope[c].asleep

\* When the root task has finished no future of a scope is left: scopes nest.
ScopesNest ==
  root.len <= 1 /\ calls = <<>> => \A t \in Tasks : ~FutureLeft(t)

\* When the drop of the Runner has ended nothing is left of the run.
RunnerDropClears ==
  [][Running("rootClear", Null) /\ calls' = <<>> =>
       list'.next = Null /\ root'.len = 0 /\ Held(Outside)' = {}]_vars

\* A FinishFuture that is kept returns the result, unless a task panics: every task
\* that is queued gets its turn, no scope waits for ever, and the executor is woken
\* whenever there is something to do.
RunFinishes ==
  runner = "finish" ~> runner = "none" \/ panicked

\* What the message of push_task's assertion says: a StkFuture is refused only if
\* the same poll of the root has polled another future of its Stk before.
RefusedOnlyOutOfOrder == [][RootRunRefused => root.busy]_vars

\* When the user has neither Runner nor FinishFuture the futures of the run, which
\* may borrow what the user is free to drop from then on, are gone.
FuturesEndWithRun ==
  runner = "none" /\ calls = <<>> =>
    root.len = 0 /\ \A t \in Tasks : ~FutureLeft(t)
=============================================================================
