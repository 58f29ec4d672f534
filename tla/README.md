# reblessive in TLA+

reblessive runs deeply recursive async functions without deep native stacks. This
directory models its runtime, checks the models with TLC and proves their main invariants
with TLAPS. Paths are relative to the repository; line numbers are in `PROJECT.json`.

## The system

| Part | State | Operations |
| --- | --- | --- |
| Stack runtime, `src/stack/mod.rs` | `len`, `state` (Base, Yield, Cancelled, NewTask), `async_context`, the allocator, the thread local `STACK_PTR` | `enter`, `try_get_result`, `drive_top_task`, `push_task`, `pop_task`, `pop_cancel_task`, `clear`, drop |
| Runner, `src/stack/runner.rs` | borrows the Stack | `step`, `finish`, `step_async`, `finish_async`, drop |
| StkFuture, YieldFuture, `src/stack/future.rs` | Initial(closure), Running(result cell), Done | poll, drop |
| StackAllocator, `src/allocator.rs` | chain of blocks, top | `alloc_with`, `pop_dealloc`, drop |
| AtomicWaker, `src/tree/schedular/atomic_waker.rs` | state word, waker cell | `register`, `wake`, `take` |
| Queue, `src/tree/schedular/queue.rs` | head, tail, stub, one link per node | `push`, `pop` |
| Task wakers, `src/tree/schedular/waker.rs` | Arc count and `queued` of a task | clone, wake, wake_by_ref, drop |
| Schedular, `src/tree/schedular/mod.rs` | `len`, the all list, the queue; per task `queued`, `done` | `push_cancellable`, `poll`, `clear`, `CancelToken::drop` |
| TreeStack, `src/tree` | a root Stack, a Schedular, thread locals | `enter`, `drive_top_task`, ScopeFuture, ScopeStkFuture, its own Runner |
| Helpers | none | `ptr.rs` (typed raw pointers), `vtable.rs`, `defer.rs`, `stub_waker.rs` |

How they interact. A Stack keeps one allocation for the final result and one for each task.
Only the task on top is polled. A task calls `Stk::run`; the first poll of the StkFuture
pushes a child task, and the child writes its result through a raw pointer into the
StkFuture, which lives inside the parent task. The Runner drives the top task until only
the result cell is left. A StkFuture polled with another Context than the Runner's sits
below a sub schedular (a `select!`, a join): the child then clones that waker and wakes it.
A TreeStack adds a Schedular of concurrent tasks, each with a Stack of its own. Wakers of
those tasks may be called from any thread: they mark the task, push it to the queue and
wake the AtomicWaker with which `Schedular::poll` has registered.

What is hard: state kept by hand (`len`, `state`) over cancellation and unwinding; raw
pointers whose lifetime follows from the order of the stack; the lock free queue and waker;
wake ups between two looks at the queue; Arc counts kept by hand on all paths of
cancellation; a run whose Runner or future is dropped at any point. `PROJECT.json` lists these hazards at their lines.

What makes each part correct: the Stack behaves like a call stack, its count is right, no
result pointer dangles and no drop frees another's task; the allocator keeps cells apart and
leaks no block; the AtomicWaker loses no wake up; the Queue is a FIFO that frees nothing in
use and leaves nothing behind; the Schedular drops each future once, frees no task that somebody
can reach, and polls what was woken; in the TreeStack scopes nest, find their results, and
the run ends when all of them have.

## Modules

`Stack` (with `CallStack`, `StackProofs`, `StackCallProofs`, `MCStack`). `alloc` is the sequence of live
allocations; the result cell is treated as slot `Root` of `alloc[1]`, so that every task
writes to slot `dest` of the allocation below it. The poll of a task is not atomic: `phase`
is `poll` while user code runs, and each library call of that code is an action (`run`,
`PollInitial`, `PollRunning`, `DropRunning`, `yield_now`), until the poll ends in
`TaskReady`, `TaskSwitch` (a task was pushed), `TaskPending` (an outside wait) or a panic
(`TaskPanic`, then drops in phase `unwind`, then `UnwindEnd`, which leaves a poisoned task).
The first poll of a StkFuture can fail, by the assertion of push_task whenever the state is
not Base (`PollInitialRefused`) or by a panic of the closure (`PollClosurePanic`): the task
then unwinds in phase `failed` with a Running StkFuture that has no task. `waits` is what the
executor of an async run waits for: an outside event, or the wake of a sub schedular that has
nothing to poll, which is not modelled further because the wake that `StoreResult` does takes
the StkFuture out of `asleep`.
The Runner is dropped (`clear`, then `ClearTask` per task and `ClearPlace`) or leaked
(`forget`). Phase `freed` says that the allocation of the task being polled was freed; the
model stops there, since what follows is undefined. `Usage` bounds what user code does with
its futures: "await" them, also drop them unfinished ("cancel", as `select!` does), also have
closures panic ("panic"), or also let futures overlap with `Stk::enter_run` ("any"). A task
owns the StkFutures it creates: StkFutures moved into a child, a Stack driven from within its
own tasks, panics that a task catches and drop code that panics are left out.

`CallStack` is the abstract specification: frames that run or wait, and a result that is
delivered at most once after every frame is gone, until a call cannot be made (`Break`).

`StackAllocator` (with `StackAllocatorProofs`, `MCStackAllocator`). Addresses are numbers; the chain of blocks, the
back pointers and the live cells are explicit; the heap may place a block anywhere free.

`AtomicWaker` (with `AtomicWakerProofs`, `MCAtomicWaker`). Every access to the state word or
the cell and every call of a Waker is a step. It is driven as in the crate: `poll` registers
and then looks for work, a waker makes work and then wakes. The queue is one flag here.

`Queue` (with `Fifo`, `QueueProofs`, `MCQueue`). Every access to `head`, a link or `queued` is a step, for
the threads in `schedular_wake` and for the loop of `Schedular::poll` with its `pop`. The
wake is one step here. Both are sequentially consistent: the code's acquire and release
orderings are not examined. `Fifo` is the abstract specification: a push first puts its task
at the end (`Swap`) and later links it (`Link`), and pop takes the first task if it is linked
(`Get`). `MayBeEmpty` and `MayBeInconsistant` say when pop may give its two other answers;
`PopAnswersAllowed` checks that the real pop gives them only then.

`Schedular` (with `SchedularProofs`, `MCSchedular`) extends `Fifo`, so it is a module about any queue that does
what `Queue` was shown to do, whereas the AtomicWaker is two flags. One thread at a time has
the Schedular. What it executes is `calls`, a stack of the calls of mod.rs under way,
innermost first: `poll` drives a task, the task drops a CancelToken, that drops a future,
which holds another token, and so on, each access to a word that wakers use being a step.
`pop_task_all` is three steps (`pop_task_all`, `drop_task`, `Detach`), CancelToken::drop is
`CancelToken_drop`, `drop_task` and `Requeue`, clear is `ClearList` and `DrainValue`. A
`task` record has the fields of TaskBody, the Arc count, and whose future holds the token.
Beside it other threads clone, use and drop wakers (`Wakes`, `Upgrade`, `PushTask`,
`LinkTask`, `WakeSchedular`), also after the Schedular is gone. `Owners` counts who has a
count of a task from where the task really is. In this module a task and the code around it
do anything the interface allows; a token is not dropped while its own task is driven,
which needs a token that the task itself can reach and which ScopeFuture never hands out.

`TreeStack` (with `TreeStackProofs`, `MCTreeStack`) extends `Schedular`: everything the Schedular does there is
done by the TreeStack and the ScopeFutures here. Of the root Stack it keeps the number of
allocations and the state; `Stack` has the rest. A call `loop` is FinishFuture::poll, `root`
the top task of the root being polled, `rootClear` the clear of the root. A scope is the
ScopeFuture of the task with the same name: whether the result was written, whom the task
will wake, and whether it was polled below a sub schedular and not woken since. Scopes are
opened by the root or by other tasks, with the Stk at hand or with `Stk::enter_scope`
(`direct`: then the Stack in context is the root). Tasks wait for outside events or for
another turn, finish, panic, or drop their scopes; the user steps, finishes, drops the Runner,
its future or the TreeStack at any point, and starts another run. After a panic the run is
not polled again. Once push_task has refused a future, whose drop then pops the task that is
polled (`FrameOutlivesPoll` in `Stack`), the model stops.

`Queue` implements `Fifo`, `Schedular` is built on `Fifo` and `TreeStack` on `Schedular`, so
`RunFinishes` of `TreeStack` is about the whole: with a queue that may answer Empty too early
the run still ends, because the wake of the push is yet to come.

Definitions named like `push_task_NoState` are variants that a plausible mistake in the code
would give. Each property is violated by one of them when it stands in for the original.

## Runs

| Run | What it shows |
| --- | --- |
| `stack_cancel` | One StkFuture name per task, up to 5 allocations, two Contexts, cancelling, panics, refused first polls and panicking closures, outside waits, Runner dropped or leaked: types, `len`, result pointers, drops, the state seen by `drive_top_task`, wakes of sub schedulars, the assertion of `try_get_result`, no leaked result unless the Runner leaked, the refinement of `CallStack`, and a run that is polled when woken, and only then, finishes |
| `stack_any` | Two overlapping StkFutures per task and panicking closures: the result pointers stay right |
| `stack_yield` | violation: awaiting `yield_now` does not end the step |
| `stack_frame` | violation: with plain `Stk::run`, a StkFuture dropped in the poll that pushed its task leads to the refusal of the next one, whose drop frees the task being polled |
| `allocator` | Up to 4 live cells of 4 layouts, 5 block addresses: cells are apart, aligned and in live blocks, follow the order of the blocks, and no block is leaked |
| `waker` | One polling task, three wakers, two handles: the cell is exclusive, `register` never panics, no wake up is lost, and work that was announced is found |
| `queue` | Two pushing threads, three tasks, one popping: FIFO, no link into a node that was given away, answers of pop as `Fifo` allows, no task left behind |
| `schedular` | Two tasks and two threads with wakers, every order of push, poll, cancel, clear, drop and wake: no task is freed while it can be reached, a count has an owner unless it is the one the queue had, lost in poll after a cancel or with the queue, the list is sound in both directions, every future is dropped once and before what it points into, marks and queue agree, a dropped Schedular leaves no future |
| `schedular_count` | violation: a cancelled task that poll takes out of the queue keeps the count the queue had and is never freed |
| `tree` | Two tasks, one thread, up to three runs: the root runs only when no scope is left, scopes find their results and were woken, no scope outlives the root task, a dropped Runner leaves nothing, a run that is kept ends |
| `tree_order` | violation: a scope opened with `enter_scope` inside a scope makes the root refuse the next future |
| `tree_outlives` | violation: a dropped FinishFuture leaves the futures of the run alive |

Bounds. `MaxLen` 4 or 5 allows a result cell, a root task, a child and a grandchild, so that a
cancelled or unwinding task has tasks above and below it; `MaxWork` of `Stack` bounds the
futures and outside waits of a run so that the space is finite, and is large enough for a
second future after a cancel at full depth. Runs repeat on the same Stack without bound. Two
Contexts tell a sub schedular from the Runner. The allocator runs on a machine with words of
two bytes, with alignments 1, 2 and 8, hence below, at and above a word; four cells give
chains of three blocks with an empty one between. Two threads beside the popping one put two
unfinished pushes into the queue at once, together with the push of the stub; three tasks let
one be popped, one be linked and one be in flight. In `schedular` two tasks let one hold the
token of the other, or both be neighbours in the list, in either order; two threads and one
waker per task at a time put two wakes of different tasks, or a wake and a drop, beside any
call. With two tasks `iteration > len` ends a poll, `yielded > 2` does not: for that at least
three tasks must be queued again in one poll, and then the effect is the same. In `tree`
`MaxWork` bounds runs, outside waits and StkFutures of the root together, so that three is
one run with a StkFuture and a wait, or two runs with one of them; two tasks give a nested
scope or two beside each other, `MaxRoot` 3 a scope in either of two tasks of the root;
`MaxWakers` 3 never stops a clone there. `tree_order` and `tree_outlives` need one unit of
work.

Only Contexts, future names, threads, handles and tasks, which are compared and nothing else,
are made symmetric, and never for liveness.

Deadlock is checked except in `stack_cancel` and `stack_any`, which stop on purpose in phase `freed`, and in
the runs of `Schedular` and `TreeStack`, where every task of the bound may be used up and
every run over.

Fairness. `FairSpec` of `Stack` assumes that the run is polled again when nothing is waited
for (`WokenStep`: `finish` does; an executor that was woken does, and not before), that the
outside events a task waits for happen, that user code does not run forever in one poll and
awaits its StkFutures (it drops one that is ready only after it has seen the result, or in a
panic), and that clear runs on. Nothing makes a StkFuture that sleeps below a sub schedular
be polled but its wake: without it the run waits for ever. Drops of unfinished futures,
panics, leaks and drops of the Runner are not forced but may happen, and the property allows
for the last three and for a failed first poll.
`waker` assumes that threads run on and that an executor polls a
new task and a task that was woken; nothing is assumed about spurious polls. `TreeFairSpec`
assumes that calls of the library run on, that a future that is polled comes to its end or to
a point where it waits, that an outside event it waits for happens (the thread with the waker
uses it and goes on), and that the executor polls the FinishFuture when it was woken, and
only then. Nothing forces tasks to be opened, dropped or to panic.

## Disagreements between code and text

The five violation runs are the findings of `PROJECT.json`, each with the line it
contradicts. Met in the same reading, without a run of their own:

* The doc of `Runner::step` (`src/stack/runner.rs:47`) says it panics when a future clones or
  wakes its waker; the panics in `src/stub_waker.rs` are commented out.
* A StkFuture that is polled and dropped in the same poll leaves the state NewTask behind
  (`src/stack/mod.rs:234`). `stack_frame` shows what follows when another StkFuture is polled
  in that poll; if none is, the state stays through the end of the task, and the first
  StkFuture of its parent is refused. `RefusedOnlyOutOfOrder` of `TreeStack` counts the first
  of these as in the same poll and so does not object to it.
* The doc of `StackAllocator` (`src/allocator.rs:12`) says that only the head block may be
  empty; a block that is emptied stays behind a new one until an older cell is popped. No
  block is lost by it (`HeapIsChain`).
* The comment in `Schedular::clear` (`src/tree/schedular/mod.rs:379`) says that nothing is
  scheduled any more. A waker that has marked its task before clear may push it during or
  after the drain. A later poll or clear takes it out; if the Schedular is dropped, the queue
  has no drop and the memory of the task, its future being dropped, is leaked. `Owners` does
  not count a queue that is gone, and `CountExact` names this loss (`LeftInQueue`).
* `StepFuture` leaves the address of its Context in `async_context` when it returns
  Ready(None) (`src/tree/runner.rs:55`). Every poll sets the address anew before it is
  compared, so nothing comes of it.
* The test `cancel_scope_future` (`src/tree/test.rs`) means to drop a scope that waits in
  `yield_now`. As that returns at once the task is done when the scope is dropped, and the
  counter ends as 1 by the order of the two drops.

## Proofs

`StackProofs`, for all constants that satisfy `StackAssumption` (any number of futures and
contexts, any depth):

* `StackInvariant`: `StackInv` is an invariant under every Usage. `LenCountsAllocations` and
  `ResultCellAlive` are not inductive alone: a pop must not hit a task whose child is alive,
  so `PolledOnTop` says that the polled task is on top or just below the one it has pushed,
  and then the state is NewTask; `OneRoot` keeps the result cell to the root task; and
  Cancelled occurs only while clearing. `TypeCorrect`, `LenIsRight` and `NoDanglingResult`
  follow. They end at phase `freed`, as the models do.
* `OrderedInvariant`: unless Usage is "any", also `OrderedInv`: a task has one StkFuture at a
  time (`OneFuture`), and each Running one has its own task directly above, so a drop pops the
  right one, except that in phase `failed` the polled task is on top with a Running one.
  `DropPopsOwnTask` and `ResultIsThere` follow, and `OnlyFailedPollFrees`: the polled task is
  freed under its own poll only in phase `failed`, that is by the drop of a StkFuture whose
  first poll has just failed.
* `AwaitedFramesOutlivePoll`: if Usage is "await" that never happens. `AwaitInv` says that a
  polled task that is on top is polled in state Base, so push_task accepts what it pushes, and
  that between steps the state is Base unless the task on top is poisoned. `stack_frame`
  shows that this fails as soon as StkFutures are dropped unfinished.

`StackCallProofs`, from the same invariants and under the same assumption on the constants:

* `NewTaskIsSeen` (`NewTaskNotLost`), `SleeperIsWoken` (`AsleepNeverReady`) and
  `NoLeakWithRunner` (`LeakOnlyWithRunner`), for every Usage. The second needs `WakeInv`: the
  task of a StkFuture that sleeps has the waker of its sub schedular, which holds because the
  Stack knows the Context of the step while a task is polled. The third needs `LeakInv`: there
  is a Runner while a run is on, and clear finds a result only when no task is left.
* `TasksAreCalls`: unless Usage is "any", `Stack` implements `CallStack`. `FramesWait` says
  that until clear begins or a first poll fails every task but the top one waits for the one
  above. The failed poll maps to `Break`, whatever the drop after it frees. Under "any" this
  is false: a future may be dropped under another one's task.

`StackAllocatorProofs`, for any word size, layouts and block addresses that satisfy
`AllocatorAssumption`. Of the powers of two it says what the proof uses, that each divides or
is a multiple of the word (a size is rounded up to one of them), and TLC evaluates it.

* `AllocInvariant`: `AllocInv` adds to the checked properties that every cell lies between
  the header of a block and its end (`CellsPlaced`), that cells of one block go down from the
  newest (`CellsGoDown`), that the back pointers give the next older cell (`BackLinks`) and
  that top is the newest (`TopIsLast`). The alignment of each cell rests on lemmas about `%`.
  `CellsAreInBlocks`, `CellsAreApart`, `CellsDoFollowBlocks` and `HeapIsTheChain` follow.

`AtomicWakerProofs`, for any number of threads and handles:

* `WakerInvariant`: `WakerInv` ties each section of `register` and `take` to the bits of the
  state word that guard it; `WakerTypeCorrect`, `CellIsExclusive` and `RegisterNeverPanics`
  follow.
* `NoWakeIsLost`: with one thread that registers (the Schedular is polled through a mutable
  borrow), `SinglePollInv` adds that the bits have owners, that a registered waker is in the
  cell, delivered or in flight, and that a taken waker is gone from the cell. A wake that
  finds the lock taken may rely on its owner only because of these.

With several threads that register, which the crate never has, the theorems before the last
still hold: they are proved for any number of them.

`QueueProofs`, for any number of threads and any finite set of tasks:

* `QueueInvariant`: `QueueInv` says that some sequence of nodes is a chain from the tail to
  the head (`IsChain`): each node once, each link there or about to be written by the one
  push that has its place, all its tasks marked. With it go that pushes have nodes of their
  own (`PushersApart`), what pop knows where it is (`PollerAt`: where it compares head with
  tail the stub is not second, and where it looks again the stub is in the chain), and who
  will wake a sleeping Schedular (`WokenFor`).
* `ChainIs`: the chain of the invariant is `Chain`, which the properties are about. It is
  defined by a recursive function, of which the lemma gives the solution and shows it to be
  unique by way of a least number where another one would differ.
* `QueueTypeCorrect`, `LinkTargetStays`, `TaskNotStranded` and `PopAnswersRight` follow.
* `QueueIsFifo`: the queue implements `Fifo`. `ChainStep` lists what a step does to the
  chain; lemmas on `WithoutStub` carry that over to the tasks in it.

`SchedularProofs`, for any number of threads, any finite set of tasks and any nesting of calls:

* `SchedInvariant`: `SchedInv` says that there is a sequence of tasks that the links give
  forwards and backwards (`IsList`), and ties the calls under way, the marks and the counts to
  it. None of the checked properties is inductive alone. `ListSound` needs that at most one
  call of pop_task_all is between its steps at a time, which is a matter of what may call
  what (`CallsNest`: above drive, remove and detach come only drops of futures and tokens,
  and below them only the waker of the driven task and poll or clear). That such drops do
  not come back to a future that is being dropped needs the age of tasks: a token is held by
  an older future, so along nested drops tasks get younger (`HolderOlder`, `Nested`).
  `HolderAlive` needs `HolderKnown`: the holder of a running task's token is Running or in
  the middle of its drop, and then the token is yet to be dropped before anything is driven.
  The counts need `Marked`: a marked task is in the queue or one thread is on the way to put
  it there. `Counted` bounds them from both sides: only a task that was cancelled, is marked
  and is neither in the queue nor on its way (`Skipped`, which no step undoes) may have lost
  a count in poll, and so it loses one at most. `CallsTell` says what a call knows of its task.
* `AllTasksIs`: following `next` from `all_next` gives the sequence of the invariant.
* `SchedTypeCorrect`, `CountCovers`, `CountIsExact`, `ListIsSound`, `FutureIsDroppedOnce`,
  `HolderIsAlive`, `QueuedAreMarked` and `NoFutureIsLeft` follow.

`TreeStackProofs`, for any number of threads, any finite set of tasks, any number of runs and
any `MaxRoot` of at least 2 (enter makes two allocations):

* `TreeInvariant`: `TreeInv` is `SchedInv`, which the steps of the TreeStack keep because each
  does to the Schedular what one or two of its operations do, together with
  `RunTells`, `ScopesTell` and `WaitersCounted`. `RootWaitsForScopes` is not inductive: that
  the list is empty when the root is polled must survive the scopes that the root itself
  opens, and the calls on top of it (`RunTells`: the list is empty unless the root has opened
  a scope or poll is to empty it first; for the drop of the Runner, unless clear is to empty it
  later). `ScopeAnswered` needs that a task leaves the list only with its result written
  or cancelled, and that a sleeping scope has left a waker (`ScopesTell`); that this waker is
  there to be used or dropped needs the count of the wakers that futures hold (`WaitersCounted`).
* `ScopesAreNested`, and that enter starts a run with no future of an earlier one, rest on `HolderOlder` of
  the Schedular: each task that is Running has an older one that holds its token, up to the
  root, so when the root holds no token no future is left (`NoHolders`, `NoFutures`).
* `RunnerDropLeavesNothing` is the action property `RunnerDropClears`: only the last step of
  `RootClear` ends the drop of a Runner, and then the list, the root and the tokens are gone.
* `TreeTypeCorrect`, `RootWaits` and `ScopesAreAnswered` follow, and `SchedularIsSafe`: what
  `SchedularProofs` shows for arbitrary users holds within the TreeStack.

Only model-checked: liveness (`RunFinishes` of `Stack` and of `TreeStack`, `WorkIsFound` of
`AtomicWaker`), which is out of the prover's reach; every other property that a run checks and
finds to hold is a theorem. That a sleeping StkFuture is woken is also `SleeperIsWoken`.

## Not modelled

* The Stack inside a ScopeStkFuture: it is a Stack as in module `Stack`, polled within its
  task. In `TreeStack` a task is a whole future, whatever Stacks it has inside.
* `Stk::enter_run` in the future of a scope, outside its ScopeStkFutures: it would push onto
  the root Stack, which is not polled while the scope waits. The doc warns of a deadlock.
* What the root does after it has polled a StkFuture in the same poll: `RootRun` ends the poll
  of the root, so a ScopeFuture polled after the StkFuture, which sets the state once more
  (`src/tree/future.rs:91`), is left out. The other order, a scope and then a run, is modelled
  (`RootRunRefused`).
* In `Queue`, pushes other than those of `schedular_wake`: push_cancellable and
  CancelToken::drop, which wakes before it pushes (`src/tree/schedular/mod.rs:67`), push on the
  thread that has the Schedular. `Schedular` and `TreeStack` have them; there the push and the
  wake of that thread are one step, since nothing is popped between them.
* `RunnerDropClears` is about what Runner::drop leaves. It would hold with its two clears in
  the other order as well: the tokens would then cancel their tasks before they are cleared.
* Panics that a task catches itself: after one a task could go on in the state the panic left.
* The branches for the state Yield in `src/tree`: nothing sets that state (`stack_yield`).
* Wakers that panic, and with them the Defer of CancelToken::drop that stands for them: the
  hazard at `src/tree/schedular/mod.rs:67` has no property.
* A CancelToken dropped while its own task is driven, see `Schedular` above.
* The thread locals STACK_PTR and TREE_PTR beyond what `Stack` has of them: runtimes nested
  in each other's tasks.
* Weak memory, sizes near the limit of usize, out of memory.
* `ptr.rs`, `lib.rs` and `stub_waker.rs` have no state; tests, benches and examples use the
  crate.

## Plan

1. `Stack`, `CallStack`, `StackProofs`, `StackCallProofs`: done.
2. `StackAllocator`, `AtomicWaker` and `Queue` with `Fifo`, and their proofs: done.
3. `Schedular` and its proofs: done.
4. `TreeStack` and its proofs, on top of those of `Schedular`: done, but for the Stacks inside
   tasks.
