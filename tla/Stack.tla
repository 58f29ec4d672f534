------------------------------- MODULE Stack -------------------------------
(***************************************************************************)
(* The stack runtime of src/stack: Stack, Runner, StkFuture (the           *)
(* InnerStkFuture behind it) and YieldFuture.                              *)
(*                                                                         *)
(* A Stack owns a stack allocator whose first allocation is the cell of    *)
(* the final result and whose other allocations are tasks.  Only the task  *)
(* on top is polled.  A task that polls a fresh StkFuture pushes a child   *)
(* task; the child writes its result through a raw pointer into the        *)
(* StkFuture, which lives inside the parent task.                          *)
(*                                                                         *)
(* alloc[i] is the i-th allocation.  The result cell of the whole run is   *)
(* treated as the slot Root of alloc[1], so that every task i > 1 writes   *)
(* its result to slot alloc[i].dest of alloc[i-1].  What user futures do   *)
(* when polled is chosen freely, one library call per step; how far they   *)
(* may go is set by Usage.                                                 *)
(***************************************************************************)
EXTENDS Integers, Sequences, SequencesExt

CONSTANTS
  Futs,      \* the StkFutures a task can hold, by name
  Root,      \* names the cell of the final result
  Ctxs,      \* addresses of task Contexts
  Dangling,  \* the address a fresh Stack stores as its async_context
  MaxLen,    \* bound: allocations alive at once
  MaxWork,   \* bound: futures created and outside waits per run
  Usage      \* what tasks do with their futures, see below

(***************************************************************************)
(* "await":  a StkFuture that was polled is kept until it has finished.    *)
(* "cancel": it may also be dropped unfinished.                            *)
(* "panic":  and the closure given to run may panic before it has made its *)
(*           future.                                                       *)
(* "any":    and Stk::enter_run is used, so futures of one task overlap.   *)
(***************************************************************************)
ASSUME StackAssumption ==
  /\ Root \notin Futs
  /\ Dangling \notin Ctxs
  /\ MaxLen \in Nat /\ MaxLen >= 2
  /\ MaxWork \in Nat
  /\ Usage \in {"await", "cancel", "panic", "any"}

VARIABLES
  alloc,     \* the allocations, oldest first
  len,       \* Stack::len
  state,     \* Stack::state
  asyncCtx,  \* Stack::async_context
  savedCtx,  \* the address the current step puts back into async_context
  cx,        \* address of the Context of the current step
  mode,      \* "sync": Runner::step and finish; "async": the future versions
  phase,     \* what the library is executing
  polled,    \* index of the task being polled, 0 if none
  left,      \* iterations clear still has to do
  runner,    \* the Runner of the current run
  waits,     \* what the executor waits for before it polls the run again
  outcome,   \* what became of the final result
  work,      \* futures created and outside waits so far
  yieldOver  \* a yield_now awaited for the first time in this step is over

vars == <<alloc, len, state, asyncCtx, savedCtx, cx, mode, phase, polled,
          left, runner, waits, outcome, work, yieldOver>>

ctxVars == <<asyncCtx, savedCtx, cx, mode>>
runVars == <<runner, waits, outcome>>

Slots == Futs \cup {Root}
SlotStates == {"absent", "initial", "running", "ready", "done"}

Frames == [kind : {"place", "task", "poisoned"},
           dest : Slots,            \* where the result goes
           waker : BOOLEAN,         \* wakes a sub schedular when it finishes
           slot : [Slots -> SlotStates],
           asleep : SUBSET Futs]    \* polled below a sub schedular, not woken

NoSlots == [s \in Slots |-> "absent"]

TypeOK ==
  /\ alloc \in Seq(Frames)
  /\ len \in 0..MaxLen
  /\ state \in {"Base", "Yield", "Cancelled", "NewTask"}
  /\ asyncCtx \in Ctxs \cup {Dangling}
  /\ savedCtx \in Ctxs \cup {Dangling}
  /\ cx \in Ctxs \cup {Dangling}
  /\ mode \in {"sync", "async"}
  /\ phase \in {"idle", "poll", "unwind", "failed", "clear", "freed"}
  /\ polled \in Nat
  /\ left \in Nat
  /\ runner \in {"none", "live", "leaked", "dropped"}
  /\ waits \in {"nothing", "event", "wake"}
  /\ outcome \in {"none", "taken", "dropped", "leaked"}
  /\ work \in 0..MaxWork
  /\ yieldOver \in BOOLEAN

-----------------------------------------------------------------------------
(***************************************************************************)
(* Allocations and the task being polled.                                  *)
(***************************************************************************)

\* The UnsafeCell<Option<R>> of enter_future, empty: it awaits the root task.
ResultPlace == [kind |-> "place", dest |-> Root, waker |-> FALSE,
                slot |-> [NoSlots EXCEPT ![Root] = "running"], asleep |-> {}]

\* A TaskBox around a future that was never polled.
TaskBox(dest, waker) == [kind |-> "task", dest |-> dest, waker |-> waker,
                         slot |-> NoSlots, asleep |-> {}]

\* The StkFuture f of the polled task.
Slot(f) == alloc[polled].slot[f]

\* The StkFuture f of allocation p is now in state s; it waits to be woken below
\* a sub schedular if it is in a.
SetSlot(p, f, s, a) ==
  [alloc EXCEPT ![p].slot[f] = s, ![p].asleep = (@ \ {f}) \cup a]

Init ==
  /\ alloc = <<>>
  /\ len = 0
  /\ state = "Base"
  /\ asyncCtx = Dangling
  /\ savedCtx = Dangling
  /\ cx = Dangling
  /\ mode = "sync"
  /\ phase = "idle"
  /\ polled = 0
  /\ left = 0
  /\ runner = "none"
  /\ waits = "nothing"
  /\ outcome = "none"
  /\ work = 0
  /\ yieldOver = FALSE

-----------------------------------------------------------------------------
(***************************************************************************)
(* Variants of the definitions below with a mistake in them, on which the  *)
(* properties at the end of the module fail.  They are no part of Spec.    *)
(***************************************************************************)

\* push_task and alloc_future both count the task.
push_task_CountsTwice(f, c) ==
  /\ alloc' = Append(SetSlot(polled, f, "running", {}), TaskBox(f, FALSE))
  /\ len' = len + 2
  /\ state' = "NewTask"

\* push_task does not leave a trace in the state.
push_task_NoState(f, c) ==
  /\ alloc' = Append(SetSlot(polled, f, "running", {}), TaskBox(f, FALSE))
  /\ len' = len + 1
  /\ state' = state

\* A step does not tell the stack which Context it polls with.
drive_top_task_NoContext(c, m) ==
  /\ phase = "idle" /\ runner = "live" /\ len > 1
  /\ phase' = "poll"
  /\ polled' = Len(alloc)
  /\ cx' = c /\ mode' = m /\ waits' = "nothing"
  /\ UNCHANGED <<alloc, len, state, asyncCtx, savedCtx, left, runner, outcome, work, yieldOver>>

\* The popped task is still counted.
pop_cancel_task_Counted(f) ==
  /\ alloc' = Front(SetSlot(polled, f, "absent", {}))
  /\ UNCHANGED <<len, state>>
  /\ phase' = IF Len(alloc) = polled THEN "freed" ELSE phase

\* A dropped StkFuture leaves its task on the stack.
pop_cancel_task_Left(f) ==
  /\ alloc' = SetSlot(polled, f, "absent", {})
  /\ UNCHANGED <<len, state, phase>>

\* A finished task is popped without having stored its result.
StoreResult_Lost == alloc

\* The result is stored, but the sub schedular in between is not woken.
StoreResult_NoWake ==
  SetSlot(polled - 1, alloc[polled].dest, "ready",
          alloc[polled - 1].asleep \cap {alloc[polled].dest})

\* A task whose poll panicked is popped.
UnwindEnd_Pops ==
  /\ phase = "unwind"
  /\ \A f \in Futs : Slot(f) = "absent"
  /\ alloc' = Front(alloc)
  /\ len' = len - 1
  /\ phase' = "idle" /\ polled' = 0 /\ yieldOver' = FALSE
  /\ UNCHANGED <<state, ctxVars, left, runVars, work>>

\* The result is looked for only below one last task.
ClearPlace_OffByOne ==
  /\ phase = "clear" /\ left = 0
  /\ outcome' = IF Last(alloc).slot[Root] # "ready" THEN outcome
                ELSE IF runner = "live" /\ len = 2 THEN "dropped" ELSE "leaked"
  /\ alloc' = Front(alloc)
  /\ len' = 0 /\ state' = "Base" /\ phase' = "idle" /\ runner' = "dropped" /\ waits' = "nothing"
  /\ UNCHANGED <<ctxVars, polled, left, work, yieldOver>>

-----------------------------------------------------------------------------
(***************************************************************************)
(* Stack::enter.  The assertion on len makes a second enter panic, without *)
(* an effect, while a leaked Runner's futures are still on the stack.      *)
(***************************************************************************)
enter ==
  /\ phase = "idle"
  /\ runner # "live"
  /\ len = 0
  /\ alloc' = alloc \o <<ResultPlace, TaskBox(Root, FALSE)>>
  /\ len' = 2
  /\ runner' = "live"
  /\ waits' = "nothing"
  /\ outcome' = "none"
  /\ work' = 0
  /\ UNCHANGED <<state, ctxVars, phase, polled, left, yieldOver>>

(***************************************************************************)
(* A step of the Runner, by step, step_async, or one turn of the loops of  *)
(* finish and finish_async: it takes the result when only the result cell  *)
(* is left, otherwise it polls the task on top.  The futures of step_async *)
(* and finish_async can be polled after the Runner is leaked or dropped.   *)
(***************************************************************************)
try_get_result ==
  /\ phase = "idle"
  /\ runner \in {"live", "leaked"}
  /\ len = 1
  /\ Last(alloc).slot[Root] = "ready"
  /\ alloc' = Front(alloc)
  /\ len' = 0
  /\ outcome' = "taken"
  /\ UNCHANGED <<state, ctxVars, phase, polled, left, runner, waits, work, yieldOver>>

drive_top_task(c, m) ==
  /\ phase = "idle"
  /\ runner \in {"live", "leaked"}
  /\ len > 1
  /\ savedCtx' = asyncCtx
  /\ asyncCtx' = c
  /\ cx' = c
  /\ mode' = m
  /\ phase' = IF Last(alloc).kind = "poisoned" THEN "unwind" ELSE "poll"
  /\ polled' = Len(alloc)
  /\ waits' = "nothing"
  /\ UNCHANGED <<alloc, len, state, left, runner, outcome, work, yieldOver>>

\* Polled when nothing is left they panic in top().unwrap(), with async_context
\* replaced.
StepEmpty(c) ==
  /\ phase = "idle"
  /\ runner # "none"
  /\ len = 0
  /\ asyncCtx' = c
  /\ UNCHANGED <<alloc, len, state, savedCtx, cx, mode, phase, polled, left,
                 runVars, work, yieldOver>>

\* The end of the step: back in the caller of the Runner.
EndStep ==
  /\ phase' = "idle"
  /\ polled' = 0
  /\ yieldOver' = FALSE

RestoreContext ==
  /\ asyncCtx' = savedCtx
  /\ UNCHANGED <<savedCtx, cx, mode>>

-----------------------------------------------------------------------------
(***************************************************************************)
(* What the polled task calls.                                             *)
(***************************************************************************)

\* Stk::run borrows the Stk until its future is dropped; enter_run does not.
run(f) ==
  /\ phase = "poll"
  /\ work < MaxWork
  /\ Slot(f) = "absent"
  /\ Usage = "any" \/ \A g \in Futs : Slot(g) = "absent"
  /\ alloc' = SetSlot(polled, f, "initial", {})
  /\ work' = work + 1
  /\ UNCHANGED <<len, state, ctxVars, phase, polled, left, runVars, yieldOver>>

is_rebless_context(c) == asyncCtx = c

\* Polled below a sub schedular: it is polled again once its waker is woken.
Asleep(f, c) == IF c = cx THEN {} ELSE {f}

push_task(f, c) ==
  /\ alloc' = Append(SetSlot(polled, f, "running", Asleep(f, c)),
                     TaskBox(f, ~is_rebless_context(c)))
  /\ len' = len + 1
  /\ state' = "NewTask"

\* First poll of a StkFuture, with the Context at address c.
PollInitial(f, c) ==
  /\ phase = "poll"
  /\ Slot(f) = "initial"
  /\ Len(alloc) < MaxLen
  /\ state = "Base"
  /\ push_task(f, c)
  /\ UNCHANGED <<ctxVars, phase, polled, left, runVars, work, yieldOver>>

\* The same poll when the assertion of push_task fails, as it does when the task,
\* or one that finished above it, has dropped a StkFuture unfinished before the
\* state was taken back: the future is already Running, the state already NewTask,
\* and the task unwinds.
PollInitialRefused(f) ==
  /\ phase = "poll"
  /\ Slot(f) = "initial"
  /\ state # "Base"
  /\ alloc' = SetSlot(polled, f, "running", {})
  /\ state' = "NewTask"
  /\ phase' = "failed"
  /\ UNCHANGED <<len, ctxVars, polled, left, runVars, work, yieldOver>>

\* The first poll when the closure panics: nothing is pushed, but the future is
\* already Running.
PollClosurePanic(f) ==
  /\ Usage \in {"panic", "any"}
  /\ phase = "poll"
  /\ Slot(f) = "initial"
  /\ alloc' = SetSlot(polled, f, "running", {})
  /\ phase' = "failed"
  /\ UNCHANGED <<len, state, ctxVars, polled, left, runVars, work, yieldOver>>

\* A later poll finds the result.  Without a result, and after the result was
\* handed out, a poll returns Pending and changes nothing.
PollRunning(f) ==
  /\ phase = "poll"
  /\ Slot(f) = "ready"
  /\ f \notin alloc[polled].asleep
  /\ alloc' = SetSlot(polled, f, "done", {})
  /\ UNCHANGED <<len, state, ctxVars, phase, polled, left, runVars, work,
                 yieldOver>>

\* YieldFuture::poll of a new YieldFuture returns Ready at once.
yield_now ==
  /\ phase = "poll"
  /\ state # "Yield"
  /\ yieldOver' = TRUE
  /\ UNCHANGED <<alloc, len, state, ctxVars, phase, polled, left, runVars, work>>

\* A panic unwinds the polled task, in phase failed one out of the first poll of a
\* StkFuture.
Unwinding == phase \in {"unwind", "failed"}

\* Drop of a StkFuture that was not polled, or whose task has finished.
DropFinished(f) ==
  /\ phase = "poll" \/ Unwinding
  /\ Slot(f) \in {"initial", "ready", "done"}
  /\ alloc' = SetSlot(polled, f, "absent", {})
  /\ UNCHANGED <<len, state, ctxVars, phase, polled, left, runVars, work,
                 yieldOver>>

\* Stack::pop_cancel_task drops and frees the allocation on top, in state
\* Cancelled, and puts the old state back.
pop_cancel_task(f) ==
  /\ alloc' = Front(SetSlot(polled, f, "absent", {}))
  /\ len' = len - 1
  /\ UNCHANGED state
  /\ phase' = IF Len(alloc) = polled THEN "freed" ELSE phase

\* Drop of a StkFuture whose task has not finished.
DropRunning(f) ==
  /\ \/ phase = "poll" /\ Usage # "await"
     \/ Unwinding
  /\ Slot(f) = "running"
  /\ state # "Cancelled"
  /\ pop_cancel_task(f)
  /\ UNCHANGED <<ctxVars, polled, left, runVars, work, yieldOver>>

(***************************************************************************)
(* The ways the poll of a task ends.  A future that completes has dropped  *)
(* its locals; its TaskBox then stores the result, wakes the sub schedular *)
(* in between if there is one, and drive_top_task pops the task on top.    *)
(***************************************************************************)
StoreResult ==
  LET task == alloc[polled]
      asleep == IF task.waker THEN {} ELSE alloc[polled - 1].asleep \cap {task.dest}
  IN  SetSlot(polled - 1, task.dest, "ready", asleep)

TaskReady ==
  /\ phase = "poll"
  /\ \A f \in Futs : Slot(f) = "absent"
  /\ alloc' = Front(StoreResult)
  /\ len' = len - 1
  /\ EndStep
  /\ RestoreContext
  /\ UNCHANGED <<state, left, runVars, work>>

\* The poll returns Pending because a task was pushed, or a yield asked for:
\* the next step goes on with the task that is then on top.
TaskSwitch ==
  /\ phase = "poll"
  /\ state # "Base"
  /\ state' = "Base"
  /\ EndStep
  /\ RestoreContext
  /\ UNCHANGED <<alloc, len, left, runVars, work>>

\* The polled task has a StkFuture below a sub schedular that was not woken: it
\* does not get to poll that future.
Sleeps == \E f \in alloc[polled].asleep : Slot(f) \in {"running", "ready"}

\* The poll returns Pending for a reason outside the library: an outside event, or
\* a sub schedular that has nothing to poll.  The async runners return Pending, and
\* the executor polls again when woken; step panics and leaves async_context as it
\* is.
TaskPending ==
  /\ phase = "poll"
  /\ state = "Base"
  /\ Sleeps \/ work < MaxWork
  /\ work' = IF Sleeps THEN work ELSE work + 1
  /\ EndStep
  /\ \/ mode = "async" /\ RestoreContext /\ waits' = IF Sleeps THEN "wake" ELSE "event"
     \/ mode = "sync" /\ UNCHANGED <<ctxVars, waits>>
  /\ UNCHANGED <<alloc, len, state, left, runner, outcome>>

\* The outside event happens and wakes the executor.
Event ==
  /\ waits = "event"
  /\ waits' = "nothing"
  /\ UNCHANGED <<alloc, len, state, ctxVars, phase, polled, left, runner, outcome, work,
                 yieldOver>>

\* The user's code panics.
TaskPanic ==
  /\ phase = "poll"
  /\ phase' = "unwind"
  /\ UNCHANGED <<alloc, len, state, ctxVars, polled, left, runVars, work,
                 yieldOver>>

\* All locals are dropped and the panic leaves drive_top_task: the task stays
\* on the stack, and polling it again panics again.
UnwindEnd ==
  /\ Unwinding
  /\ \A f \in Futs : Slot(f) = "absent"
  /\ alloc' = [alloc EXCEPT ![polled].kind = "poisoned"]
  /\ EndStep
  /\ UNCHANGED <<len, state, ctxVars, left, runVars, work>>

-----------------------------------------------------------------------------
(***************************************************************************)
(* The end of a run: Runner::drop and Stack::drop call Stack::clear.       *)
(***************************************************************************)
forget ==
  /\ phase = "idle"
  /\ runner = "live"
  /\ runner' = "leaked"
  /\ UNCHANGED <<alloc, len, state, ctxVars, phase, polled, left, waits, outcome,
                 work, yieldOver>>

\* The run is already over: clear returns early.
DropRunnerEmpty ==
  /\ phase = "idle"
  /\ runner = "live"
  /\ len = 0
  /\ state' = "Base"
  /\ runner' = "dropped"
  /\ UNCHANGED <<alloc, len, ctxVars, phase, polled, left, waits, outcome, work,
                 yieldOver>>

clear ==
  /\ phase = "idle"
  /\ runner \in {"live", "leaked"}
  /\ len > 0
  /\ state' = "Cancelled"
  /\ phase' = "clear"
  /\ left' = len - 1
  /\ UNCHANGED <<alloc, len, ctxVars, polled, runVars, work, yieldOver>>

\* One turn of the loop.  Dropping a task drops the StkFutures in it; one that
\* is Running leaves the stack alone only while the state is Cancelled.
ClearTask ==
  /\ phase = "clear"
  /\ left > 0
  /\ LET pops == state # "Cancelled" /\ \E f \in Futs : Last(alloc).slot[f] = "running"
     IN  phase' = IF pops THEN "freed" ELSE phase
  /\ alloc' = Front(alloc)
  /\ left' = left - 1
  /\ UNCHANGED <<len, state, ctxVars, polled, runVars, work, yieldOver>>

\* The value in the result cell is dropped only if its type is known, which it
\* is not to Stack::drop, and only if the count says it may be there.
ClearPlace ==
  /\ phase = "clear"
  /\ left = 0
  /\ outcome' = IF Last(alloc).slot[Root] # "ready" THEN outcome
                ELSE IF runner = "live" /\ len <= 2 THEN "dropped" ELSE "leaked"
  /\ alloc' = Front(alloc)
  /\ len' = 0
  /\ state' = "Base"
  /\ phase' = "idle"
  /\ runner' = IF runner = "live" THEN "dropped" ELSE "none"
  /\ waits' = "nothing"
  /\ UNCHANGED <<ctxVars, polled, left, work, yieldOver>>

-----------------------------------------------------------------------------
Step ==
  \/ try_get_result
  \/ \E c \in Ctxs, m \in {"sync", "async"} : drive_top_task(c, m)

TaskCall(f) ==
  \/ run(f)
  \/ \E c \in Ctxs : PollInitial(f, c)
  \/ PollInitialRefused(f)
  \/ PollClosurePanic(f)
  \/ PollRunning(f)
  \/ DropFinished(f)
  \/ DropRunning(f)

PollEnd == TaskReady \/ TaskSwitch \/ TaskPending

Clearing == ClearTask \/ ClearPlace

Next ==
  \/ enter
  \/ Step
  \/ \E c \in Ctxs : StepEmpty(c)
  \/ \E f \in Futs : TaskCall(f)
  \/ yield_now
  \/ PollEnd
  \/ TaskPanic
  \/ UnwindEnd
  \/ Event
  \/ forget
  \/ DropRunnerEmpty
  \/ clear
  \/ Clearing

Spec == Init /\ [][Next]_vars

\* An executor polls the run again when it waits for nothing.
WokenStep == waits = "nothing" /\ Step

\* The code of a task comes to the end of its poll.  It awaits its futures: only a
\* panic makes it drop one whose result it has not seen.
TaskStep ==
  \/ \E f \in Futs :
       TaskCall(f) /\ (phase = "poll" /\ Slot(f) = "ready" => alloc'[polled].slot[f] = "done")
  \/ PollEnd
  \/ UnwindEnd

\* Woken runs are polled, outside events happen, and polls and drops end.
FairSpec ==
  /\ Spec
  /\ WF_vars(WokenStep) /\ WF_vars(Event) /\ WF_vars(TaskStep) /\ WF_vars(Clearing)

-----------------------------------------------------------------------------
(***************************************************************************)
(* Safety.                                                                 *)
(***************************************************************************)

\* Stack::len, which decides between polling a task and taking the result and
\* how much clear pops, counts the allocations, whatever was cancelled,
\* finished or unwound before.
LenCountsAllocations ==
  phase # "freed" => Len(alloc) = IF phase = "clear" THEN left + 1 ELSE len

\* The raw pointer a task writes its result through is never dangling: the cell
\* it points to is there and still waits for a result, as long as the task is on
\* the stack.
ResultCellAlive ==
  phase # "freed" =>
    \A i \in 2..Len(alloc) : alloc[i - 1].slot[alloc[i].dest] = "running"

\* The task being polled is on top, or below the one task it has just pushed, and
\* then the state says so.
PolledOnTop ==
  phase \in {"poll", "unwind", "failed"} =>
    /\ polled \in 2..Len(alloc)
    /\ polled < Len(alloc) => polled = Len(alloc) - 1 /\ state = "NewTask"

\* Only the root task, which is alloc[2], has the cell of the final result to
\* write to.
OneRoot == phase # "freed" => \A i \in 3..Len(alloc) : alloc[i].dest \in Futs

\* A StkFuture that would pop a task when dropped owns the task directly above
\* its own, so InnerStkFuture::drop pops no other's task; the one exception is a
\* StkFuture whose first poll has just failed, which owns none.
RunningHasTask ==
  state # "Cancelled" /\ phase # "freed" =>
    \A i \in 1..Len(alloc) : \A s \in Slots :
      alloc[i].slot[s] = "running" =>
        \/ i < Len(alloc) /\ alloc[i + 1].dest = s
        \/ phase = "failed" /\ i = polled

\* drive_top_task sees why a task returned Pending: with a new task on top the
\* state says NewTask, so the runner is not put to sleep with work to do; and no
\* task is ever polled while the stack is cancelling.
NewTaskNotLost ==
  phase = "poll" =>
    /\ state \in {"Base", "NewTask"}
    /\ polled < Len(alloc) => state = "NewTask"

\* The inductive invariant of StackProofs, for every Usage.
StackInv ==
  /\ TypeOK
  /\ LenCountsAllocations
  /\ ResultCellAlive
  /\ PolledOnTop
  /\ OneRoot
  /\ state # "Yield"
  /\ state = "Cancelled" => phase \in {"clear", "freed"}

\* A StkFuture polled below a sub schedular is woken when its result is there.
AsleepNeverReady ==
  \A i \in 1..Len(alloc) : \A f \in alloc[i].asleep : alloc[i].slot[f] # "ready"

\* The assertion of try_get_result: when only the result cell is left, the
\* result is in it.
ResultWritten ==
  phase = "idle" /\ len = 1 => Last(alloc).slot[Root] = "ready"

\* The allocation of a task outlives the poll of that task.
FrameOutlivesPoll == phase # "freed"

\* Stk::run lends the Stk to one StkFuture at a time.
OneFuture ==
  \A i \in 1..Len(alloc) : \A f, g \in Futs :
    alloc[i].slot[f] # "absent" /\ alloc[i].slot[g] # "absent" => f = g

\* What StackProofs adds to StackInv when the futures of a task do not overlap.
OrderedInv ==
  /\ RunningHasTask
  /\ OneFuture
  /\ phase = "failed" => polled = Len(alloc) /\ \E f \in Futs : Slot(f) = "running"
  /\ phase = "clear" => state = "Cancelled"
  /\ alloc # <<>> => alloc[1].slot[Root] \in {"running", "ready"}

\* And when every polled StkFuture is kept until it has finished: a task that has
\* pushed nothing is polled in state Base, so push_task accepts the task it pushes.
AwaitInv ==
  /\ phase \notin {"failed", "freed"}
  /\ phase = "poll" /\ polled = Len(alloc) => state = "Base"
  /\ phase = "idle" /\ state # "Base" => len > 1 /\ Last(alloc).kind = "poisoned"

\* The final result is only ever leaked after the Runner was.
LeakOnlyWithRunner == [][outcome' = "leaked" => runner = "leaked"]_vars

(***************************************************************************)
(* Refinement: the tasks are the frames of a call stack.  A frame waits    *)
(* when one of its StkFutures is running; once clear has begun the         *)
(* computation is given up, and once the first poll of a StkFuture has     *)
(* failed it is broken.                                                    *)
(***************************************************************************)
CallFrames ==
  IF phase \in {"clear", "failed", "freed"} THEN <<>>
  ELSE [i \in 1..(IF alloc = <<>> THEN 0 ELSE Len(alloc) - 1) |->
          IF \E f \in Futs : alloc[i + 1].slot[f] = "running" THEN "waits" ELSE "runs"]

CallResult ==
  IF phase \in {"failed", "freed"} THEN "broken"
  ELSE IF alloc # <<>> /\ alloc[1].slot[Root] = "ready"
  THEN IF phase = "clear" THEN "lost" ELSE "ready"
  ELSE IF outcome \in {"dropped", "leaked"} THEN "lost" ELSE outcome

Calls == INSTANCE CallStack WITH frames <- CallFrames, result <- CallResult

\* Tasks on a Stack behave like recursive calls until the first poll of a
\* StkFuture fails, by the assertion of push_task or a panic of the closure.
ImplementsCallStack == Calls!CallSpec

(***************************************************************************)
(* Liveness.                                                               *)
(***************************************************************************)

\* A run whose executor polls it when it is woken, and only then, gets to its end
\* and delivers its result, if its tasks await their futures and do not panic: no
\* parent waits for ever for a child, and a StkFuture below a sub schedular is
\* woken when its result is there.
RunFinishes ==
  phase = "idle" /\ runner = "live" /\ len > 0 ~>
    \/ outcome = "taken"
    \/ phase = "clear" \/ runner = "leaked"
    \/ phase \in {"failed", "freed"}
    \/ alloc # <<>> /\ Last(alloc).kind = "poisoned"

\* What the doc of Stk::yield_now says: awaiting its future ends the step.
YieldEndsStep == ~yieldOver
=============================================================================
