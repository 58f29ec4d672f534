-------------------------- MODULE StackCallProofs --------------------------
(***************************************************************************)
(* What follows from the invariants of StackProofs: the answers            *)
(* drive_top_task gives, the wakes of sub schedulars, what becomes of the  *)
(* final result, and that Stack implements CallStack.                      *)
(***************************************************************************)
EXTENDS StackProofs

\* drive_top_task tells a new task from an outside wait: a task that was pushed
\* is never mistaken for a reason to sleep.
THEOREM NewTaskIsSeen == Spec => []NewTaskNotLost
<1>1. StackInv => NewTaskNotLost
  BY DEF StackInv, TypeOK, NewTaskNotLost, PolledOnTop
<1> QED
  BY <1>1, StackInvariant, PTL

-----------------------------------------------------------------------------
(***************************************************************************)
(* Wakes of sub schedulars.                                                *)
(***************************************************************************)

\* In a stack s of allocations no StkFuture sleeps on a result that is there, and the
\* task of one that sleeps has the waker of its sub schedular.
SleepersWoken(s) ==
  /\ \A i \in 1..Len(s) : \A f \in s[i].asleep : s[i].slot[f] # "ready"
  /\ \A i \in 2..Len(s) : s[i].dest \in s[i - 1].asleep => s[i].waker

\* While a task is polled the Stack knows the Context of the step.
ContextKnown == phase = "poll" => asyncCtx = cx

WakeInv == SleepersWoken(alloc) /\ ContextKnown

\* The parts of an allocation that SetSlot leaves alone, and those that sleep.
LEMMA SetSlotWakes ==
  ASSUME alloc \in Seq(Frames), NEW p \in 1..Len(alloc), NEW f \in Slots,
         NEW v \in SlotStates, NEW a \in SUBSET Futs
  PROVE  \A i \in 1..Len(alloc) :
           /\ SetSlot(p, f, v, a)[i].waker = alloc[i].waker
           /\ \A g : g \in SetSlot(p, f, v, a)[i].asleep
                      <=> \/ g \in alloc[i].asleep /\ ~(i = p /\ g = f)
                          \/ i = p /\ g \in a
<1>1. \A i \in 1..Len(alloc) : alloc[i] \in Frames
  BY ElementOfSeq
<1>2. DOMAIN alloc = 1..Len(alloc)
  BY LenProperties
<1> QED
  BY <1>1, <1>2 DEF SetSlot, Frames

\* A StkFuture that changes its state stays woken, unless it gets its result or is
\* pushed.
LEMMA SleepersSetSlot ==
  ASSUME alloc \in Seq(Frames), SleepersWoken(alloc), NEW p \in 1..Len(alloc),
         NEW f \in Slots, NEW v \in SlotStates, NEW a \in SUBSET Futs,
         v = "ready" => f \notin a,
         a \subseteq {f},
         f \in a => p = Len(alloc)
  PROVE  SleepersWoken(SetSlot(p, f, v, a))
<1> DEFINE t == SetSlot(p, f, v, a)
<1>1. /\ Len(t) = Len(alloc)
      /\ \A i \in 1..Len(alloc) :
           /\ t[i].dest = alloc[i].dest
           /\ \A g \in Slots : t[i].slot[g] = IF i = p /\ g = f THEN v ELSE alloc[i].slot[g]
  BY SetSlotFacts
<1>2. \A i \in 1..Len(alloc) :
        /\ t[i].waker = alloc[i].waker
        /\ \A g : g \in t[i].asleep
                   <=> \/ g \in alloc[i].asleep /\ ~(i = p /\ g = f)
                       \/ i = p /\ g \in a
  BY SetSlotWakes
<1>3. \A i \in 1..Len(alloc) : alloc[i].asleep \in SUBSET Futs
  BY ElementOfSeq, FrameParts
<1>4. Len(alloc) \in Nat /\ \A g \in Futs : g \in Slots
  BY LenProperties DEF Slots
<1> HIDE DEF t
<1>5. ASSUME NEW i \in 1..Len(t), NEW g \in t[i].asleep PROVE t[i].slot[g] # "ready"
  <2>1. i \in 1..Len(alloc) /\ g \in Slots
    BY <1>1, <1>2, <1>3, <1>4
  <2>2. CASE i = p /\ g = f
    BY <1>1, <1>2, <2>1, <2>2
  <2>3. CASE ~(i = p /\ g = f)
    <3>1. g \in alloc[i].asleep /\ t[i].slot[g] = alloc[i].slot[g]
      BY <1>1, <1>2, <2>1, <2>3
    <3> QED
      BY <2>1, <3>1 DEF SleepersWoken
  <2> QED
    BY <2>2, <2>3
<1>6. ASSUME NEW i \in 2..Len(t), t[i].dest \in t[i - 1].asleep PROVE t[i].waker
  <2>1. i \in 1..Len(alloc) /\ i - 1 \in 1..Len(alloc) /\ i \in 2..Len(alloc)
    BY <1>1, <1>4
  <2>2. f \notin a \/ i - 1 # p
    BY <1>4, <2>1
  <2>3. alloc[i].dest \in alloc[i - 1].asleep
    BY <1>1, <1>2, <1>6, <2>1, <2>2
  <2> QED
    BY <1>2, <2>1, <2>3 DEF SleepersWoken
<1> QED
  BY <1>5, <1>6 DEF SleepersWoken, t

\* What is left when the top is popped is as it was.
LEMMA SleepersFront ==
  ASSUME NEW s \in Seq(Frames), s # <<>>, SleepersWoken(s)
  PROVE  SleepersWoken(Front(s))
<1> DEFINE t == Front(s)
<1>1. Len(t) = Len(s) - 1 /\ \A i \in 1..(Len(s) - 1) : t[i] = s[i]
  BY FrontFacts
<1>2. Len(s) \in Nat
  BY LenProperties
<1> HIDE DEF t
<1>3. \A i \in 1..Len(t) : i \in 1..Len(s) /\ t[i] = s[i]
  BY <1>1, <1>2
<1>4. \A i \in 2..Len(t) : i \in 2..Len(s) /\ t[i] = s[i] /\ t[i - 1] = s[i - 1]
  BY <1>1, <1>2
<1> QED
  BY <1>3, <1>4 DEF SleepersWoken, t

\* A pushed task has the waker of the sub schedular it was polled below.
LEMMA SleepersPush ==
  ASSUME NEW s \in Seq(Frames), SleepersWoken(s), NEW f \in Slots, NEW w \in BOOLEAN,
         Len(s) >= 1, f \in s[Len(s)].asleep => w
  PROVE  SleepersWoken(Append(s, TaskBox(f, w)))
<1> DEFINE b == TaskBox(f, w)
           u == Append(s, b)
           n == Len(s)
<1>1. b \in Frames /\ b.asleep = {} /\ b.dest = f /\ b.waker = w
  BY TaskBoxFacts DEF TaskBox
<1> HIDE DEF b
<1>2. n \in Nat /\ Len(u) = n + 1 /\ u[n + 1] = b /\ \A i \in 1..n : u[i] = s[i]
  BY <1>1, AppendProperties, LenProperties
<1> HIDE DEF u
<1>3. ASSUME NEW i \in 1..Len(u), NEW g \in u[i].asleep PROVE u[i].slot[g] # "ready"
  <2>1. i \in 1..n
    BY <1>1, <1>2
  <2> QED
    BY <1>2, <2>1 DEF SleepersWoken
<1>4. ASSUME NEW i \in 2..Len(u), u[i].dest \in u[i - 1].asleep PROVE u[i].waker
  <2>1. CASE i = n + 1
    <3>1. i - 1 = n /\ n \in 1..n
      BY <1>2, <2>1
    <3>2. f \in s[n].asleep
      BY <1>1, <1>2, <1>4, <2>1, <3>1
    <3>3. w /\ u[i] = b
      BY <1>2, <2>1, <3>2
    <3> QED
      BY <1>1, <3>3, Zenon
  <2>2. CASE i # n + 1
    <3>1. i \in 2..n /\ i \in 1..n /\ i - 1 \in 1..n
      BY <1>2, <2>2
    <3>2. u[i] = s[i] /\ u[i - 1] = s[i - 1]
      BY <1>2, <3>1
    <3> QED
      BY <1>4, <3>1, <3>2 DEF SleepersWoken
  <2> QED
    BY <2>1, <2>2
<1> QED
  BY <1>3, <1>4 DEF SleepersWoken, u, b

\* A StkFuture of the polled task changes and is neither Ready nor asleep then.
LEMMA WakeSlotStep ==
  ASSUME StackInv, WakeInv, phase \in {"poll", "unwind", "failed"}, NEW f \in Futs,
         NEW v \in SlotStates, v # "ready", alloc' = SetSlot(polled, f, v, {})
  PROVE  SleepersWoken(alloc')
<1>1. f \in Slots /\ {} \in SUBSET Futs /\ polled \in 1..Len(alloc) /\ alloc \in Seq(Frames)
  BY PolledFacts DEF Slots
<1>2. {} \subseteq {f} /\ f \notin {}
  OBVIOUS
<1> QED
  BY <1>1, <1>2, SleepersSetSlot DEF WakeInv

\* The calls of a task keep the wakes.
LEMMA WakeTaskCall ==
  ASSUME StackInv, WakeInv, NEW f \in Futs, TaskCall(f)
  PROVE  WakeInv'
<1>1. CASE run(f) \/ PollInitialRefused(f) \/ PollClosurePanic(f) \/ PollRunning(f)
           \/ DropFinished(f)
  <2>1. /\ phase \in {"poll", "unwind", "failed"}
        /\ \E v \in SlotStates : v # "ready" /\ alloc' = SetSlot(polled, f, v, {})
    BY <1>1 DEF run, PollInitialRefused, PollClosurePanic, PollRunning, DropFinished, Unwinding, SlotStates
  <2>2. SleepersWoken(alloc')
    BY <2>1, WakeSlotStep
  <2>3. ContextKnown'
    BY <1>1 DEF run, PollInitialRefused, PollClosurePanic, PollRunning, DropFinished, ctxVars,
       WakeInv, ContextKnown
  <2> QED
    BY <2>2, <2>3 DEF WakeInv
<1>2. CASE DropRunning(f)
  <2> DEFINE t == SetSlot(polled, f, "absent", {})
  <2>1. phase \in {"poll", "unwind", "failed"} /\ alloc' = Front(t) /\ ContextKnown'
    BY <1>2 DEF DropRunning, Unwinding, pop_cancel_task, ctxVars, WakeInv, ContextKnown
  <2>2. /\ f \in Slots /\ {} \in SUBSET Futs /\ polled \in 1..Len(alloc) /\ alloc \in Seq(Frames)
        /\ "absent" \in SlotStates /\ {} \subseteq {f} /\ f \notin {}
    BY <2>1, PolledFacts DEF Slots, SlotStates
  <2>3. SleepersWoken(t)
    BY <2>2, SleepersSetSlot DEF WakeInv
  <2>4. t \in Seq(Frames) /\ Len(t) = Len(alloc)
    BY <2>2, SetSlotFacts
  <2> HIDE DEF t
  <2>5. Len(t) > 0
    BY <2>1, <2>4, PolledFacts
  <2>6. t # <<>>
    BY <2>4, <2>5, EmptySeq
  <2> QED
    BY <2>1, <2>3, <2>4, <2>6, SleepersFront DEF WakeInv
<1>3. ASSUME NEW c \in Ctxs, PollInitial(f, c) PROVE WakeInv'
  <2> DEFINE a == Asleep(f, c)
             w == ~is_rebless_context(c)
             t == SetSlot(polled, f, "running", a)
  <2>1. /\ phase = "poll" /\ polled = Len(alloc) /\ alloc' = Append(t, TaskBox(f, w))
    BY <1>3, PolledFacts DEF PollInitial, push_task, StackInv, PolledOnTop
  <2>2. ContextKnown'
    BY <1>3 DEF PollInitial, ctxVars, WakeInv, ContextKnown
  <2>3. /\ a \in SUBSET Futs /\ a \subseteq {f} /\ w \in BOOLEAN
        /\ f \in Slots /\ "running" \in SlotStates /\ "running" # "ready"
    BY DEF Asleep, Slots, SlotStates
  <2>4. f \in a => w
    BY <2>1 DEF Asleep, is_rebless_context, WakeInv, ContextKnown
  <2>5. alloc \in Seq(Frames) /\ polled \in 1..Len(alloc) /\ Len(alloc) \in Nat /\ Len(alloc) >= 2
    BY <2>1, PolledFacts
  <2> HIDE DEF a, w
  <2>6. SleepersWoken(t)
    BY <2>1, <2>3, <2>5, SleepersSetSlot DEF WakeInv
  <2>7. t \in Seq(Frames) /\ Len(t) = Len(alloc)
    BY <2>3, <2>5, SetSlotFacts
  <2>8. \A g : g \in t[polled].asleep
               <=> \/ g \in alloc[polled].asleep /\ ~(polled = polled /\ g = f)
                   \/ polled = polled /\ g \in a
    BY <2>3, <2>5, SetSlotWakes
  <2>9. f \in t[Len(t)].asleep => w
    BY <2>1, <2>4, <2>7, <2>8
  <2> HIDE DEF t
  <2>10. Len(t) >= 1
    BY <2>5, <2>7
  <2> QED
    BY <2>1, <2>2, <2>3, <2>6, <2>7, <2>9, <2>10, SleepersPush DEF WakeInv
<1> QED
  BY <1>1, <1>2, <1>3 DEF TaskCall

\* So do the ways a poll ends: TaskBox wakes the sub schedular when it stores a result.
LEMMA WakePollEnd ==
  ASSUME StackInv, WakeInv, PollEnd \/ TaskPanic \/ UnwindEnd
  PROVE  WakeInv'
<1>1. CASE TaskReady
  <2> DEFINE p == polled - 1
             d == alloc[polled].dest
             a == IF alloc[polled].waker THEN {} ELSE alloc[p].asleep \cap {d}
             t == SetSlot(p, d, "ready", a)
  <2>1. phase \in {"poll", "unwind", "failed"} /\ ContextKnown'
    BY <1>1 DEF TaskReady, EndStep, ContextKnown
  <2>2. polled = Len(alloc)
    BY <1>1, TaskReadyOnTop
  <2>3. /\ p \in 1..Len(alloc) /\ Len(alloc) >= 2 /\ polled \in 2..Len(alloc)
        /\ polled \in 1..Len(alloc) /\ alloc \in Seq(Frames) /\ Len(alloc) \in Nat
    BY <2>1, <2>2, PolledFacts
  <2>4. alloc[polled] \in Frames
    BY <2>1, <2>3, ElementOfSeq
  <2>5. d \in Slots /\ "ready" \in SlotStates
    BY <2>4, FrameParts DEF SlotStates
  <2>6. a = {}
    <3>1. d \in alloc[p].asleep => alloc[polled].waker
      BY <2>3 DEF WakeInv, SleepersWoken
    <3> QED
      BY <3>1
  <2>7. alloc' = Front(t)
    BY <1>1 DEF TaskReady, StoreResult
  <2> HIDE DEF p, d, a
  <2>8. a \in SUBSET Futs /\ a \subseteq {d} /\ d \notin a
    BY <2>6
  <2>9. SleepersWoken(t)
    BY <2>3, <2>5, <2>8, SleepersSetSlot DEF WakeInv
  <2>10. t \in Seq(Frames) /\ Len(t) = Len(alloc)
    BY <2>3, <2>5, <2>8, SetSlotFacts
  <2> HIDE DEF t
  <2>11. Len(t) > 0
    BY <2>3, <2>10
  <2>12. t # <<>>
    BY <2>10, <2>11, EmptySeq
  <2> QED
    BY <2>1, <2>7, <2>9, <2>10, <2>12, SleepersFront DEF WakeInv
<1>2. CASE TaskSwitch \/ TaskPending \/ TaskPanic
  BY <1>2 DEF TaskSwitch, TaskPending, TaskPanic, EndStep, WakeInv, ContextKnown
<1>3. CASE UnwindEnd
  <2>1. alloc \in Seq(Frames) /\ polled \in 1..Len(alloc) /\ DOMAIN alloc = 1..Len(alloc)
    BY <1>3, PolledFacts, LenProperties DEF UnwindEnd, Unwinding
  <2>2. Len(alloc') = Len(alloc) /\ Len(alloc) \in Nat
    BY <1>3, PoisonFacts, LenProperties, <2>1
  <2>3. \A i \in 1..Len(alloc) : alloc[i] \in Frames
    BY <2>1, ElementOfSeq
  <2>4. \A i \in 1..Len(alloc) :
          /\ alloc'[i].dest = alloc[i].dest /\ alloc'[i].slot = alloc[i].slot
          /\ alloc'[i].asleep = alloc[i].asleep
          /\ alloc'[i].waker = alloc[i].waker
    BY <1>3, <2>1, <2>3 DEF UnwindEnd, Frames
  <2>5. \A i \in 1..Len(alloc') : \A g \in alloc'[i].asleep : alloc'[i].slot[g] # "ready"
    BY <2>2, <2>4 DEF WakeInv, SleepersWoken
  <2>6. ASSUME NEW i \in 2..Len(alloc'), alloc'[i].dest \in alloc'[i - 1].asleep
        PROVE  alloc'[i].waker
    <3>1. i \in 2..Len(alloc) /\ i \in 1..Len(alloc) /\ i - 1 \in 1..Len(alloc)
      BY <2>2
    <3>2. alloc[i].waker
      BY <2>4, <2>6, <3>1 DEF WakeInv, SleepersWoken
    <3> QED
      BY <2>4, <3>1, <3>2, Zenon
  <2>7. ContextKnown'
    BY <1>3 DEF UnwindEnd, EndStep, ContextKnown
  <2> QED
    BY <2>5, <2>6, <2>7 DEF WakeInv, SleepersWoken
<1> QED
  BY <1>1, <1>2, <1>3 DEF PollEnd

\* And so do the actions of the Runner and clear.
LEMMA WakeRunner ==
  ASSUME StackInv, WakeInv,
         \/ enter \/ Step \/ \E c \in Ctxs : StepEmpty(c)
         \/ forget \/ DropRunnerEmpty \/ clear \/ Clearing \/ yield_now \/ Event
  PROVE  WakeInv'
<1>1. CASE enter
  <2> DEFINE r == ResultPlace
             b == TaskBox(Root, FALSE)
  <2>1. r \in Frames /\ b \in Frames
    BY ResultPlaceFacts, TaskBoxFacts DEF Slots
  <2>2. r.asleep = {} /\ b.asleep = {}
    BY DEF ResultPlace, TaskBox
  <2>3. Len(alloc) = 0 /\ alloc \in Seq(Frames) /\ alloc' = alloc \o <<r, b>>
    BY <1>1 DEF enter, StackInv, TypeOK, LenCountsAllocations
  <2>4. ContextKnown'
    BY <1>1 DEF enter, ContextKnown
  <2> HIDE DEF r, b
  <2>5. alloc = <<>>
    BY <2>3, EmptySeq
  <2>6. alloc' = <<r, b>>
    BY <2>3, <2>5
  <2>7. Len(alloc') = 2 /\ alloc'[1] = r /\ alloc'[2] = b
    BY <2>1, <2>6
  <2>8. \A i \in 1..Len(alloc') : alloc'[i].asleep = {}
    BY <2>2, <2>7
  <2>9. \A i \in 2..Len(alloc') : i - 1 \in 1..Len(alloc')
    BY <2>7
  <2> QED
    BY <2>4, <2>8, <2>9 DEF WakeInv, SleepersWoken
<1>2. CASE try_get_result
  <2>1. Len(alloc) = 1 /\ alloc \in Seq(Frames) /\ alloc' = Front(alloc) /\ ContextKnown'
    BY <1>2 DEF try_get_result, StackInv, TypeOK, LenCountsAllocations, ContextKnown
  <2>2. Len(alloc) > 0
    BY <2>1
  <2>3. alloc # <<>>
    BY <2>1, <2>2, EmptySeq
  <2> QED
    BY <2>1, <2>3, SleepersFront DEF WakeInv
<1>3. CASE ClearTask \/ ClearPlace
  <2>1. /\ phase = "clear" /\ alloc' = Front(alloc) /\ phase' # "poll"
    BY <1>3 DEF ClearTask, ClearPlace
  <2>2. alloc \in Seq(Frames) /\ Len(alloc) > 0
    BY <2>1, ClearFacts
  <2>3. alloc # <<>>
    BY <2>2, EmptySeq
  <2> QED
    BY <2>1, <2>2, <2>3, SleepersFront DEF WakeInv, ContextKnown
<1>4. CASE \/ \E c \in Ctxs, m \in {"sync", "async"} : drive_top_task(c, m)
           \/ \E c \in Ctxs : StepEmpty(c)
           \/ forget \/ DropRunnerEmpty \/ clear \/ yield_now \/ Event
  BY <1>4 DEF drive_top_task, StepEmpty, forget, DropRunnerEmpty, clear, yield_now, Event, WakeInv,
     ContextKnown, ctxVars
<1> QED
  BY <1>1, <1>2, <1>3, <1>4 DEF Step, Clearing

\* InnerStkFuture::poll below a sub schedular: whatever tasks do with their futures, one
\* that waits there is woken before its result is in place.
THEOREM SleeperIsWoken == Spec => []AsleepNeverReady
<1>1. Init => WakeInv
  <2> SUFFICES ASSUME Init PROVE WakeInv
    OBVIOUS
  <2>1. Len(alloc) = 0
    BY DEF Init
  <2> QED
    BY <2>1 DEF Init, WakeInv, SleepersWoken, ContextKnown
<1>2. StackInv /\ WakeInv /\ [Next]_vars => WakeInv'
  <2> SUFFICES ASSUME StackInv, WakeInv, [Next]_vars PROVE WakeInv'
    OBVIOUS
  <2>1. CASE UNCHANGED vars
    BY <2>1 DEF vars, WakeInv, SleepersWoken, ContextKnown
  <2> QED
    BY <2>1, WakeTaskCall, WakePollEnd, WakeRunner DEF Next
<1>3. WakeInv => AsleepNeverReady
  BY DEF WakeInv, SleepersWoken, AsleepNeverReady
<1> QED
  BY <1>1, <1>2, <1>3, StackInvariant, PTL DEF Spec

-----------------------------------------------------------------------------
(***************************************************************************)
(* What becomes of the final result.                                       *)
(***************************************************************************)

\* The first task is the root task.
RootSecond == Len(alloc) >= 2 => alloc[2].dest = Root

\* clear finds a result only when no task was left, and a leaked result is found only
\* between two runs.
LeakInv ==
  /\ RootSecond
  /\ phase # "idle" => runner \in {"live", "leaked"}
  /\ outcome = "leaked" => phase = "idle" /\ runner = "none" /\ waits = "nothing"
  /\ phase = "clear" /\ alloc[1].slot[Root] = "ready" => len <= 1

\* A future of an allocation changes and all keep their destinations.
LEMMA RootSetSlot ==
  ASSUME alloc \in Seq(Frames), RootSecond, NEW p \in 1..Len(alloc), NEW f \in Slots,
         NEW v \in SlotStates, NEW a \in SUBSET Futs
  PROVE  Len(SetSlot(p, f, v, a)) >= 2 => SetSlot(p, f, v, a)[2].dest = Root
<1>1. /\ Len(SetSlot(p, f, v, a)) = Len(alloc)
      /\ \A i \in 1..Len(alloc) : SetSlot(p, f, v, a)[i].dest = alloc[i].dest
  BY SetSlotFacts
<1>2. Len(alloc) \in Nat
  BY LenProperties
<1>3. Len(alloc) >= 2 => 2 \in 1..Len(alloc)
  BY <1>2
<1> QED
  BY <1>1, <1>3 DEF RootSecond

\* The top of a stack is popped.
LEMMA RootFront ==
  ASSUME NEW s \in Seq(Frames), s # <<>>, Len(s) >= 2 => s[2].dest = Root
  PROVE  Len(Front(s)) >= 2 => Front(s)[2].dest = Root
<1>1. Len(s) \in Nat /\ Len(Front(s)) = Len(s) - 1 /\ \A i \in 1..(Len(s) - 1) : Front(s)[i] = s[i]
  BY FrontFacts, LenProperties
<1> HAVE Len(Front(s)) >= 2
<1>2. 2 \in 1..(Len(s) - 1) /\ Len(s) >= 2
  BY <1>1
<1> QED
  BY <1>1, <1>2

\* The calls of a task leave the root task where it is.
LEMMA LeakTaskCall ==
  ASSUME StackInv, LeakInv, NEW f \in Futs, TaskCall(f)
  PROVE  LeakInv' /\ outcome' = outcome /\ outcome # "leaked"
<1>1. phase \in {"poll", "unwind", "failed"}
  BY DEF TaskCall, run, PollInitial, PollInitialRefused, PollClosurePanic, PollRunning,
     DropFinished, DropRunning, Unwinding
<1>2. /\ phase' \in {"poll", "unwind", "failed", "freed"} /\ runner' = runner /\ outcome' = outcome
      /\ outcome # "leaked"
  BY <1>1 DEF TaskCall, run, PollInitial, PollInitialRefused, PollClosurePanic, PollRunning,
     DropFinished, DropRunning, pop_cancel_task, runVars, LeakInv
<1>3. f \in Slots /\ {} \in SUBSET Futs /\ polled \in 1..Len(alloc) /\ alloc \in Seq(Frames)
  BY <1>1, PolledFacts DEF Slots
<1>4. RootSecond'
  <2>1. CASE \E v \in SlotStates : alloc' = SetSlot(polled, f, v, {})
    BY <1>3, <2>1, RootSetSlot DEF RootSecond, LeakInv
  <2>2. CASE DropRunning(f)
    <3> DEFINE t == SetSlot(polled, f, "absent", {})
    <3>1. "absent" \in SlotStates /\ alloc' = Front(t)
      BY <2>2 DEF DropRunning, pop_cancel_task, SlotStates
    <3>2. t \in Seq(Frames) /\ Len(t) = Len(alloc)
      BY <1>3, <3>1, SetSlotFacts
    <3>3. Len(t) >= 2 => t[2].dest = Root
      BY <1>3, <3>1, RootSetSlot DEF LeakInv
    <3> HIDE DEF t
    <3>4. Len(t) > 0
      BY <1>1, <3>2, PolledFacts
    <3>5. t # <<>>
      BY <3>2, <3>4, EmptySeq
    <3> QED
      BY <3>1, <3>2, <3>3, <3>5, RootFront DEF RootSecond
  <2>3. ASSUME NEW c \in Ctxs, PollInitial(f, c) PROVE RootSecond'
    <3> DEFINE a == Asleep(f, c)
               t == SetSlot(polled, f, "running", a)
               b == TaskBox(f, ~is_rebless_context(c))
    <3>1. alloc' = Append(t, b)
      BY <2>3 DEF PollInitial, push_task
    <3>2. "running" \in SlotStates /\ a \in SUBSET Futs /\ (~is_rebless_context(c)) \in BOOLEAN
      BY DEF SlotStates, Asleep
    <3> HIDE DEF a
    <3>3. t \in Seq(Frames) /\ Len(t) = Len(alloc)
      BY <1>3, <3>2, SetSlotFacts
    <3>4. Len(t) >= 2 => t[2].dest = Root
      BY <1>3, <3>2, RootSetSlot DEF LeakInv
    <3>5. b \in Frames
      BY <1>3, <3>2, TaskBoxFacts
    <3> HIDE DEF t, b
    <3>6. \A i \in 1..Len(t) : alloc'[i] = t[i]
      BY <3>1, <3>3, <3>5, AppendProperties
    <3>7. Len(t) >= 2 /\ 2 \in 1..Len(t)
      BY <1>1, <3>3, PolledFacts
    <3> QED
      BY <3>4, <3>6, <3>7 DEF RootSecond
  <2> QED
    BY <2>1, <2>2, <2>3 DEF TaskCall, run, PollInitialRefused, PollClosurePanic, PollRunning,
       DropFinished, Unwinding, SlotStates
<1> QED
  BY <1>1, <1>2, <1>4 DEF LeakInv

\* So do the ways a poll ends.
LEMMA LeakPollEnd ==
  ASSUME StackInv, LeakInv, PollEnd \/ TaskPanic \/ UnwindEnd \/ yield_now
  PROVE  LeakInv' /\ outcome' = outcome /\ outcome # "leaked"
<1>1. /\ phase \in {"poll", "unwind", "failed"} /\ phase' \in {"poll", "unwind", "idle"}
      /\ runner' = runner /\ outcome' = outcome
  BY DEF PollEnd, TaskReady, TaskSwitch, TaskPending, TaskPanic, UnwindEnd, Unwinding, yield_now,
     EndStep, runVars
<1>2. outcome # "leaked"
  BY <1>1 DEF LeakInv
<1>3. RootSecond'
  <2>1. CASE TaskReady
    <3> DEFINE p == polled - 1
               d == alloc[polled].dest
               a == IF alloc[polled].waker THEN {} ELSE alloc[p].asleep \cap {d}
               t == SetSlot(p, d, "ready", a)
    <3>1. /\ p \in 1..Len(alloc) /\ polled \in 1..Len(alloc) /\ alloc \in Seq(Frames)
          /\ Len(alloc) \in Nat /\ Len(alloc) >= 2
      BY <1>1, PolledFacts
    <3>2. alloc[polled] \in Frames /\ alloc[p] \in Frames
      BY <3>1, ElementOfSeq
    <3>3. d \in Slots /\ "ready" \in SlotStates /\ a \in SUBSET Futs
      BY <3>2, FrameParts DEF SlotStates
    <3>4. alloc' = Front(t)
      BY <2>1 DEF TaskReady, StoreResult
    <3> HIDE DEF p, d, a
    <3>5. t \in Seq(Frames) /\ Len(t) = Len(alloc)
      BY <3>1, <3>3, SetSlotFacts
    <3>6. Len(t) >= 2 => t[2].dest = Root
      BY <3>1, <3>3, RootSetSlot DEF LeakInv
    <3> HIDE DEF t
    <3>7. Len(t) > 0
      BY <3>1, <3>5
    <3>8. t # <<>>
      BY <3>5, <3>7, EmptySeq
    <3> QED
      BY <3>4, <3>5, <3>6, <3>8, RootFront DEF RootSecond
  <2>2. CASE UnwindEnd
    <3>1. /\ Len(alloc') = Len(alloc)
          /\ \A j \in 1..Len(alloc) : alloc'[j].dest = alloc[j].dest
      BY <2>2, PoisonFacts
    <3>2. 2 \in 1..Len(alloc) /\ Len(alloc) >= 2
      BY <1>1, PolledFacts
    <3> QED
      BY <3>1, <3>2 DEF RootSecond, LeakInv
  <2>3. CASE TaskSwitch \/ TaskPending \/ TaskPanic \/ yield_now
    BY <2>3 DEF TaskSwitch, TaskPending, TaskPanic, yield_now, RootSecond, LeakInv
  <2> QED
    BY <2>1, <2>2, <2>3 DEF PollEnd
<1> QED
  BY <1>1, <1>2, <1>3 DEF LeakInv

\* The actions of the Runner, and clear, which leaks a result only when the Runner was
\* leaked.
LEMMA LeakRunner ==
  ASSUME StackInv, LeakInv,
         \/ enter \/ Step \/ \E c \in Ctxs : StepEmpty(c)
         \/ forget \/ DropRunnerEmpty \/ clear \/ Clearing \/ Event
  PROVE  LeakInv' /\ (outcome' = "leaked" => runner = "leaked")
<1>1. CASE enter
  <2> DEFINE r == ResultPlace
             b == TaskBox(Root, FALSE)
  <2>1. r \in Frames /\ b \in Frames /\ b.dest = Root
    BY ResultPlaceFacts, TaskBoxFacts DEF Slots
  <2>2. Len(alloc) = 0 /\ alloc \in Seq(Frames) /\ alloc' = alloc \o <<r, b>>
    BY <1>1 DEF enter, StackInv, TypeOK, LenCountsAllocations
  <2> HIDE DEF r, b
  <2>3. alloc = <<>>
    BY <2>2, EmptySeq
  <2>4. alloc' = <<r, b>>
    BY <2>2, <2>3
  <2>5. alloc'[2] = b
    BY <2>1, <2>4
  <2> QED
    BY <1>1, <2>1, <2>5 DEF enter, LeakInv, RootSecond
<1>2. CASE try_get_result
  <2>1. Len(alloc) = 1 /\ alloc \in Seq(Frames) /\ alloc' = Front(alloc)
    BY <1>2 DEF try_get_result, StackInv, TypeOK, LenCountsAllocations
  <2>2. Len(alloc) > 0
    BY <2>1
  <2>3. alloc # <<>>
    BY <2>1, <2>2, EmptySeq
  <2>4. RootSecond'
    BY <2>1, <2>3, RootFront DEF RootSecond, LeakInv
  <2> QED
    BY <1>2, <2>4 DEF try_get_result, LeakInv
<1>3. CASE clear
  <2>1. Len(alloc) = len /\ alloc \in Seq(Frames) /\ Len(alloc) \in Nat
    BY <1>3, LenProperties DEF clear, StackInv, TypeOK, LenCountsAllocations
  <2>2. alloc[1].slot[Root] = "ready" => len <= 1
    <3> SUFFICES ASSUME ~(len <= 1) PROVE alloc[1].slot[Root] = "running"
      OBVIOUS
    <3>1. 2 \in 2..Len(alloc) /\ Len(alloc) >= 2 /\ 2 - 1 = 1
      BY <2>1
    <3>2. alloc[2 - 1].slot[alloc[2].dest] = "running"
      BY <1>3, <3>1 DEF clear, StackInv, ResultCellAlive
    <3> QED
      BY <3>1, <3>2 DEF LeakInv, RootSecond
  <2> QED
    BY <1>3, <2>2 DEF clear, LeakInv, RootSecond, runVars
<1>4. CASE ClearTask
  <2>1. /\ phase = "clear" /\ left > 0 /\ alloc' = Front(alloc) /\ len' = len
        /\ phase' \in {"clear", "freed"} /\ runner' = runner /\ outcome' = outcome
    BY <1>4 DEF ClearTask, runVars
  <2>2. alloc \in Seq(Frames) /\ Len(alloc) > 0 /\ 1 \in 1..left /\ alloc'[1] = alloc[1]
    BY <2>1, ClearFacts
  <2>3. alloc # <<>>
    BY <2>2, EmptySeq
  <2>4. RootSecond'
    BY <2>1, <2>2, <2>3, RootFront DEF RootSecond, LeakInv
  <2> QED
    BY <2>1, <2>2, <2>4 DEF LeakInv
<1>5. CASE ClearPlace
  <2>1. /\ phase = "clear" /\ left = 0 /\ phase' = "idle"
        /\ waits' = "nothing" /\ runner' = IF runner = "live" THEN "dropped" ELSE "none"
        /\ alloc' = Front(alloc)
        /\ outcome' = IF Last(alloc).slot[Root] # "ready" THEN outcome
                      ELSE IF runner = "live" /\ len <= 2 THEN "dropped" ELSE "leaked"
    BY <1>5 DEF ClearPlace
  <2>2. alloc \in Seq(Frames) /\ Len(alloc) = 1 /\ Len(alloc') = 0
    BY <2>1, ClearFacts
  <2>3. Len(alloc) > 0
    BY <2>2
  <2>4. alloc # <<>>
    BY <2>2, <2>3, EmptySeq
  <2>5. Last(alloc) = alloc[1]
    BY <2>2, <2>4, LastFact
  <2>6. runner \in {"live", "leaked"} /\ outcome # "leaked"
    BY <2>1 DEF LeakInv
  <2>7. Last(alloc).slot[Root] = "ready" => len <= 2
    <3>1. len \in Nat
      BY StackAssumption DEF StackInv, TypeOK
    <3>2. Last(alloc).slot[Root] = "ready" => len <= 1
      BY <2>1, <2>5 DEF LeakInv
    <3> QED
      BY <3>1, <3>2
  <2> QED
    BY <2>1, <2>2, <2>6, <2>7 DEF LeakInv, RootSecond
<1>6. CASE \/ \E c \in Ctxs, m \in {"sync", "async"} : drive_top_task(c, m)
           \/ \E c \in Ctxs : StepEmpty(c)
           \/ forget \/ DropRunnerEmpty \/ Event
  BY <1>6 DEF drive_top_task, StepEmpty, forget, DropRunnerEmpty, Event, LeakInv, RootSecond, runVars
<1> QED
  BY <1>1, <1>2, <1>3, <1>4, <1>5, <1>6 DEF Step, Clearing

\* The invariant of the final result, for every Usage.
THEOREM LeakInvariant == Spec => []LeakInv
<1>1. Init => LeakInv
  <2> SUFFICES ASSUME Init PROVE LeakInv
    OBVIOUS
  <2>1. Len(alloc) = 0
    BY DEF Init
  <2> QED
    BY <2>1 DEF Init, LeakInv, RootSecond
<1>2. StackInv /\ LeakInv /\ [Next]_vars => LeakInv'
  <2> SUFFICES ASSUME StackInv, LeakInv, [Next]_vars PROVE LeakInv'
    OBVIOUS
  <2>1. CASE UNCHANGED vars
    BY <2>1 DEF vars, LeakInv, RootSecond
  <2> QED
    BY <2>1, LeakTaskCall, LeakPollEnd, LeakRunner DEF Next
<1> QED
  BY <1>1, <1>2, StackInvariant, PTL DEF Spec

\* Runner::drop and Stack::drop: a result that nobody took is dropped, unless the Runner
\* that knows its type was leaked, whatever tasks do with their futures.
THEOREM NoLeakWithRunner == Spec => LeakOnlyWithRunner
<1>1. StackInv /\ LeakInv /\ [Next]_vars => [outcome' = "leaked" => runner = "leaked"]_vars
  <2> SUFFICES ASSUME StackInv, LeakInv, Next PROVE outcome' = "leaked" => runner = "leaked"
    OBVIOUS
  <2> QED
    BY LeakTaskCall, LeakPollEnd, LeakRunner DEF Next
<1> QED
  BY <1>1, StackInvariant, LeakInvariant, PTL DEF Spec, LeakOnlyWithRunner

-----------------------------------------------------------------------------
(***************************************************************************)
(* Stack implements CallStack, unless futures of a task overlap.           *)
(***************************************************************************)

\* The frames of a computation with n calls in progress.
Waiting(n) == [i \in 1..n |-> IF i < n THEN "waits" ELSE "runs"]

\* The tasks on the stack.
Depth == IF alloc = <<>> THEN 0 ELSE Len(alloc) - 1

\* Neither is the computation being given up nor has the first poll of a StkFuture
\* failed.
Calling == phase \notin {"clear", "failed", "freed"}

\* Then the tasks are frames of which all but the top one wait.
FramesWait == Calling => CallFrames = Waiting(Depth)

\* The frames of n calls as a sequence.
LEMMA WaitingFacts ==
  ASSUME NEW n \in Nat
  PROVE  /\ Waiting(n) \in Seq({"waits", "runs"})
         /\ Len(Waiting(n)) = n
         /\ \A i \in 1..n : Waiting(n)[i] = IF i < n THEN "waits" ELSE "runs"
BY DEF Waiting

\* No call at all, and the outermost one alone.
LEMMA WaitingSmall == Waiting(0) = <<>> /\ Waiting(1) = <<"runs">>
<1>1. Waiting(0) = <<>>
  BY WaitingFacts, EmptySeq
<1>2. Len(<<"runs">>) = 1 /\ <<"runs">> \in Seq({"waits", "runs"}) /\ <<"runs">>[1] = "runs"
  OBVIOUS
<1>3. /\ Waiting(1) \in Seq({"waits", "runs"}) /\ Len(Waiting(1)) = 1
      /\ \A i \in 1..1 : Waiting(1)[i] = "runs"
  <2>1. 1 \in Nat /\ \A i \in 1..1 : ~(i < 1)
    OBVIOUS
  <2>2. /\ Waiting(1) \in Seq({"waits", "runs"}) /\ Len(Waiting(1)) = 1
        /\ \A i \in 1..1 : Waiting(1)[i] = IF i < 1 THEN "waits" ELSE "runs"
    BY <2>1, WaitingFacts, Zenon
  <2> QED
    BY <2>1, <2>2
<1>4. \A i \in 1..Len(Waiting(1)) : Waiting(1)[i] = <<"runs">>[i]
  BY <1>2, <1>3
<1>5. Waiting(1) = <<"runs">>
  BY <1>2, <1>3, <1>4, SeqEqual
<1> QED
  BY <1>1, <1>5

\* The call on top runs.
LEMMA WaitingTop ==
  ASSUME NEW n \in Nat, n >= 1
  PROVE  Waiting(n) # <<>> /\ Last(Waiting(n)) = "runs"
<1> DEFINE w == Waiting(n)
<1>1. w \in Seq({"waits", "runs"}) /\ Len(w) = n /\ n \in 1..n /\ w[n] = "runs"
  BY WaitingFacts
<1> HIDE DEF w
<1>2. w # <<>>
  BY <1>1
<1>3. Last(w) = w[Len(w)]
  BY <1>1, <1>2, LastFact
<1> QED
  BY <1>1, <1>2, <1>3 DEF w

\* One more call.
LEMMA WaitingCall ==
  ASSUME NEW n \in Nat, n >= 1
  PROVE  Waiting(n + 1) = Front(Waiting(n)) \o <<"waits", "runs">>
<1> DEFINE S == {"waits", "runs"}
           w == Waiting(n)
           x == Waiting(n + 1)
           t == <<"waits", "runs">>
           v == Front(w)
           y == v \o t
<1>1. /\ w \in Seq(S) /\ Len(w) = n
      /\ \A i \in 1..n : w[i] = IF i < n THEN "waits" ELSE "runs"
  BY WaitingFacts
<1>2. /\ n + 1 \in Nat /\ x \in Seq(S) /\ Len(x) = n + 1
      /\ \A i \in 1..(n + 1) : x[i] = IF i < n + 1 THEN "waits" ELSE "runs"
  BY WaitingFacts
<1>3. t \in Seq(S) /\ Len(t) = 2 /\ t[1] = "waits" /\ t[2] = "runs"
  OBVIOUS
<1> HIDE DEF w, x, t, S
<1>4. w # <<>>
  BY <1>1
<1>5. v \in Seq(S) /\ Len(v) = n - 1 /\ \A i \in 1..(n - 1) : v[i] = w[i]
  BY <1>1, <1>4, FrontFacts
<1> HIDE DEF v
<1>6. /\ y \in Seq(S) /\ Len(y) = Len(v) + Len(t)
      /\ \A i \in 1..(Len(v) + Len(t)) : y[i] = IF i <= Len(v) THEN v[i] ELSE t[i - Len(v)]
  BY <1>3, <1>5, ConcatProperties
<1> HIDE DEF y
<1>7. /\ Len(y) = n + 1
      /\ \A i \in 1..(n + 1) : y[i] = IF i <= n - 1 THEN v[i] ELSE t[i - (n - 1)]
  <2>1. Len(v) + Len(t) = n + 1
    BY <1>3, <1>5
  <2> QED
    BY <1>5, <1>6, <2>1
<1>8. ASSUME NEW i \in 1..(n + 1) PROVE x[i] = y[i]
  <2>1. CASE i <= n - 1
    <3>1. i \in 1..(n - 1) /\ i \in 1..n /\ i < n /\ i < n + 1
      BY <2>1
    <3> QED
      BY <1>1, <1>2, <1>5, <1>7, <2>1, <3>1
  <2>2. CASE i = n
    <3>1. ~(i <= n - 1) /\ i - (n - 1) = 1 /\ i < n + 1
      BY <2>2
    <3> QED
      BY <1>2, <1>3, <1>7, <3>1
  <2>3. CASE i = n + 1
    <3>1. ~(i <= n - 1) /\ i - (n - 1) = 2 /\ ~(i < n + 1)
      BY <2>3
    <3> QED
      BY <1>2, <1>3, <1>7, <3>1
  <2> QED
    BY <2>1, <2>2, <2>3
<1>9. x = y
  BY <1>2, <1>6, <1>7, <1>8, SeqEqual
<1> QED
  BY <1>9 DEF x, y, v, w, t

\* One call less.
LEMMA WaitingReturn ==
  ASSUME NEW n \in Nat, n >= 2
  PROVE  Waiting(n - 1) = Append(Front(Front(Waiting(n))), "runs")
<1> DEFINE S == {"waits", "runs"}
           w == Waiting(n)
           x == Waiting(n - 1)
           u == Front(w)
           y == Append(Front(u), "runs")
<1>1. /\ w \in Seq(S) /\ Len(w) = n
      /\ \A i \in 1..n : w[i] = IF i < n THEN "waits" ELSE "runs"
  BY WaitingFacts
<1>2. /\ n - 1 \in Nat /\ x \in Seq(S) /\ Len(x) = n - 1
      /\ \A i \in 1..(n - 1) : x[i] = IF i < n - 1 THEN "waits" ELSE "runs"
  BY WaitingFacts
<1>3. "runs" \in S
  OBVIOUS
<1> HIDE DEF w, x, S
<1>4. w # <<>>
  BY <1>1
<1>5. u \in Seq(S) /\ Len(u) = n - 1 /\ \A i \in 1..(n - 1) : u[i] = w[i]
  BY <1>1, <1>4, FrontFacts
<1> HIDE DEF u
<1>6. u # <<>>
  BY <1>5
<1>7. /\ Front(u) \in Seq(S) /\ Len(Front(u)) = (n - 1) - 1
      /\ \A i \in 1..((n - 1) - 1) : Front(u)[i] = u[i]
  BY <1>5, <1>6, FrontFacts
<1>8. /\ y \in Seq(S) /\ Len(y) = ((n - 1) - 1) + 1
      /\ \A i \in 1..((n - 1) - 1) : y[i] = Front(u)[i]
      /\ y[((n - 1) - 1) + 1] = "runs"
  BY <1>3, <1>7, AppendProperties
<1> HIDE DEF y
<1>9. ((n - 1) - 1) + 1 = n - 1
  OBVIOUS
<1>10. ASSUME NEW i \in 1..(n - 1) PROVE x[i] = y[i]
  <2>1. CASE i = n - 1
    BY <1>2, <1>8, <1>9, <2>1
  <2>2. CASE i # n - 1
    <3>1. i \in 1..((n - 1) - 1) /\ i \in 1..n /\ i < n - 1 /\ i < n
      BY <2>2
    <3> QED
      BY <1>1, <1>2, <1>5, <1>7, <1>8, <3>1
  <2> QED
    BY <2>1, <2>2
<1>11. x = y
  BY <1>2, <1>8, <1>9, <1>10, SeqEqual
<1> QED
  BY <1>11 DEF x, y, u, w

\* A task waits exactly when another is above it.
LEMMA TasksAreFrames ==
  ASSUME StackInv, OrderedInv
  PROVE  FramesWait
<1> SUFFICES ASSUME Calling PROVE CallFrames = Waiting(Depth)
  BY DEF FramesWait
<1>1. state # "Cancelled" /\ phase # "freed" /\ phase # "failed"
  BY DEF StackInv, Calling
<1>2. alloc \in Seq(Frames) /\ Len(alloc) \in Nat
  BY LenProperties DEF StackInv, TypeOK
<1>3. alloc = <<>> \/ Len(alloc) >= 1
  BY <1>2, EmptySeq
<1>4. Depth \in Nat
  BY <1>2, <1>3 DEF Depth
<1>5. ASSUME NEW i \in 1..Depth
      PROVE  (\E f \in Futs : alloc[i + 1].slot[f] = "running") <=> i < Depth
  <2>1. Len(alloc) = Depth + 1
    BY <1>2, <1>4 DEF Depth
  <2>2. CASE i < Depth
    <3>1. i + 2 \in 2..Len(alloc) /\ i + 2 \in 3..Len(alloc) /\ (i + 2) - 1 = i + 1
      BY <1>4, <2>1, <2>2
    <3>2. alloc[i + 2].dest \in Futs
      BY <1>1, <3>1 DEF StackInv, OneRoot
    <3>3. alloc[(i + 2) - 1].slot[alloc[i + 2].dest] = "running"
      BY <1>1, <3>1 DEF StackInv, ResultCellAlive
    <3> QED
      BY <2>2, <3>1, <3>2, <3>3
  <2>3. CASE ~(i < Depth)
    <3>1. i + 1 \in 1..Len(alloc) /\ ~(i + 1 < Len(alloc))
      BY <1>4, <2>1, <2>3
    <3>2. \A f \in Futs : f \in Slots
      BY DEF Slots
    <3> QED
      BY <1>1, <2>3, <3>1, <3>2 DEF OrderedInv, RunningHasTask
  <2> QED
    BY <2>2, <2>3
<1>6. CallFrames = [i \in 1..Depth |->
                      IF \E f \in Futs : alloc[i + 1].slot[f] = "running" THEN "waits" ELSE "runs"]
  BY DEF CallFrames, Depth, Calling
<1> QED
  BY <1>5, <1>6 DEF Waiting

\* The state a call step and its result depend on.
RootReady == alloc # <<>> /\ alloc[1].slot[Root] = "ready"

\* The tasks of a stack, by its length.
LEMMA DepthFacts ==
  ASSUME alloc \in Seq(Frames)
  PROVE  /\ Len(alloc) \in Nat
         /\ Len(alloc) > 0 => alloc # <<>> /\ Depth = Len(alloc) - 1
         /\ Len(alloc) = 0 => alloc = <<>> /\ Depth = 0
<1>1. Len(alloc) \in Nat /\ (alloc = <<>> <=> Len(alloc) = 0)
  BY LenProperties, EmptySeq
<1> QED
  BY <1>1 DEF Depth

\* The same after a step.
LEMMA DepthFactsAfter ==
  ASSUME alloc' \in Seq(Frames)
  PROVE  /\ Len(alloc') \in Nat
         /\ Len(alloc') > 0 => alloc' # <<>> /\ Depth' = Len(alloc') - 1
         /\ Len(alloc') = 0 => alloc' = <<>> /\ Depth' = 0
<1>1. Len(alloc') \in Nat /\ (alloc' = <<>> <=> Len(alloc') = 0)
  BY LenProperties, EmptySeq
<1> QED
  BY <1>1 DEF Depth

\* CallStack takes the same Last and Front.
LEMMA SameSeqOps == \A s : Calls!Last(s) = Last(s) /\ Calls!Front(s) = Front(s)
BY DEF Calls!Last, Calls!Front, Last, Front

\* What the calls in progress are before and after a step.
CallInv == StackInv /\ OrderedInv /\ LeakInv /\ FramesWait

CallStep == [Calls!CallNext]_(Calls!callVars)

\* A step that neither clears nor changes how many tasks there are, nor the result cell.
LEMMA SameCalls ==
  ASSUME FramesWait, FramesWait', Calling, Calling', Depth' = Depth,
         RootReady' <=> RootReady, outcome' = outcome
  PROVE  CallStep
<1>1. CallFrames' = CallFrames
  BY DEF FramesWait
<1>2. CallResult' = CallResult
  BY DEF CallResult, RootReady, Calling
<1> QED
  BY <1>1, <1>2 DEF CallStep, Calls!callVars

\* A step in which the task on top ends and the one below it goes on.
LEMMA TopReturns ==
  ASSUME FramesWait, FramesWait', Calling, Calling', Depth \in Nat, Depth >= 2,
         Depth' = Depth - 1, RootReady' <=> RootReady, outcome' = outcome
  PROVE  CallStep
<1>1. CallFrames = Waiting(Depth) /\ CallFrames' = Waiting(Depth - 1)
  BY DEF FramesWait
<1>2. CallResult' = CallResult
  BY DEF CallResult, RootReady, Calling
<1>3. Len(Waiting(Depth)) = Depth
  BY WaitingFacts
<1>4. Last(Waiting(Depth)) = "runs"
  BY WaitingTop
<1>5. Waiting(Depth - 1) = Append(Front(Front(Waiting(Depth))), "runs")
  BY WaitingReturn
<1>6. Len(CallFrames) > 1
  BY <1>1, <1>3
<1>7. Calls!Return
  BY <1>1, <1>2, <1>4, <1>5, <1>6, SameSeqOps DEF Calls!Return
<1> QED
  BY <1>7 DEF CallStep, Calls!CallNext

\* When the first poll of a StkFuture has failed no call is in progress.
LEMMA BrokenStays ==
  ASSUME phase \in {"failed", "freed"}, phase' \in {"failed", "freed"}
  PROVE  CallStep
<1>1. CallFrames' = CallFrames /\ CallResult' = CallResult
  BY DEF CallFrames, CallResult
<1> QED
  BY <1>1 DEF CallStep, Calls!callVars

\* The calls of a task are calls, returns, the failure of one, or no step of the call
\* stack.
LEMMA CallTaskCall ==
  ASSUME Usage # "any", CallInv, CallInv', NEW f \in Futs, TaskCall(f)
  PROVE  CallStep
<1> USE DEF Unwinding
<1>1. CASE phase = "failed"
  <2>1. phase' \in {"failed", "freed"}
    BY <1>1 DEF TaskCall, run, PollInitial, PollInitialRefused, PollClosurePanic, PollRunning,
       DropFinished, DropRunning, pop_cancel_task
  <2> QED
    BY <1>1, <2>1, BrokenStays
<1> SUFFICES ASSUME phase # "failed" PROVE CallStep
  BY <1>1
<1>2. /\ phase \in {"poll", "unwind"} /\ outcome' = outcome /\ Calling
  BY DEF TaskCall, run, PollInitial, PollInitialRefused, PollClosurePanic, PollRunning,
     DropFinished, DropRunning, pop_cancel_task, runVars, Calling
<1>3. FramesWait /\ FramesWait' /\ StackInv /\ StackInv' /\ OrderedInv
  BY DEF CallInv
<1>4. /\ alloc \in Seq(Frames) /\ alloc' \in Seq(Frames) /\ polled \in 2..Len(alloc)
      /\ Len(alloc) \in Nat /\ alloc # <<>>
  BY <1>2, <1>3, PolledFacts DEF StackInv, TypeOK
<1>5. Len(alloc) = Depth + 1 /\ Depth \in Nat
  BY <1>4, DepthFacts
<1>6. Len(alloc') > 0 => alloc' # <<>> /\ Depth' = Len(alloc') - 1
  BY <1>4, DepthFactsAfter
<1>7. f \in Slots /\ Root \in Slots /\ f # Root /\ {} \in SUBSET Futs /\ polled \in 1..Len(alloc)
      /\ 1 \in 1..Len(alloc) /\ polled # 1
  BY <1>4, StackAssumption DEF Slots
<1>8. CASE Calling' /\ \E v \in SlotStates : alloc' = SetSlot(polled, f, v, {})
  <2>1. PICK v \in SlotStates : alloc' = SetSlot(polled, f, v, {})
    BY <1>8
  <2>2. /\ Len(alloc') = Len(alloc)
        /\ \A i \in 1..Len(alloc) : \A g \in Slots :
             alloc'[i].slot[g] = IF i = polled /\ g = f THEN v ELSE alloc[i].slot[g]
    BY <1>4, <1>7, <2>1, SetSlotFacts
  <2>3. alloc'[1].slot[Root] = alloc[1].slot[Root]
    BY <1>7, <2>2
  <2>4. alloc' # <<>> /\ Depth' = Depth
    <3>1. Len(alloc') > 0 /\ Len(alloc') - 1 = Depth
      BY <1>5, <2>2
    <3> QED
      BY <1>6, <3>1
  <2>5. RootReady' <=> RootReady
    BY <1>4, <2>3, <2>4 DEF RootReady
  <2> QED
    BY <1>2, <1>3, <1>8, <2>4, <2>5, SameCalls
<1>9. CASE DropRunning(f)
  <2>1. Slot(f) = "running" /\ state # "Cancelled" /\ alloc' = Front(SetSlot(polled, f, "absent", {}))
    BY <1>9 DEF DropRunning, pop_cancel_task
  <2>2. polled < Len(alloc)
    BY <1>2, <1>3, <1>7, <2>1 DEF Slot, OrderedInv, RunningHasTask
  <2>3. polled = Len(alloc) - 1 /\ polled \in Nat /\ polled >= 2 /\ Len(alloc) = polled + 1
    BY <1>2, <1>3, <1>4, <2>2 DEF StackInv, PolledOnTop
  <2>4. "absent" \in SlotStates
    BY DEF SlotStates
  <2>5. /\ Len(alloc') = polled
        /\ \A i \in 1..polled : \A g \in Slots :
             alloc'[i].slot[g] = IF i = polled /\ g = f THEN "absent" ELSE alloc[i].slot[g]
    <3>1. polled >= 1
      BY <2>3
    <3>2. /\ Front(SetSlot(polled, f, "absent", {})) \in Seq(Frames)
          /\ Len(Front(SetSlot(polled, f, "absent", {}))) = polled
          /\ \A i \in 1..polled :
               /\ Front(SetSlot(polled, f, "absent", {}))[i].dest = alloc[i].dest
               /\ \A g \in Slots : Front(SetSlot(polled, f, "absent", {}))[i].slot[g]
                                    = IF i = polled /\ g = f THEN "absent" ELSE alloc[i].slot[g]
      BY <1>4, <1>7, <2>3, <2>4, <3>1, PopFacts
    <3> QED
      BY <2>1, <3>2
  <2>6. 1 \in 1..polled
    BY <2>3
  <2>7. alloc'[1].slot[Root] = alloc[1].slot[Root]
    BY <1>7, <2>5, <2>6
  <2>8. alloc' # <<>> /\ Depth' = Depth - 1 /\ Depth >= 2
    <3>1. Len(alloc') > 0 /\ Len(alloc') - 1 = Depth - 1 /\ Depth >= 2
      BY <1>5, <2>3, <2>5
    <3> QED
      BY <1>6, <3>1
  <2>9. RootReady' <=> RootReady
    BY <1>4, <2>7, <2>8 DEF RootReady
  <2>10. Calling'
    BY <1>2, <1>9, <2>2 DEF DropRunning, pop_cancel_task, Calling
  <2> QED
    BY <1>2, <1>3, <1>5, <2>8, <2>9, <2>10, TopReturns
<1>10. ASSUME NEW c \in Ctxs, PollInitial(f, c) PROVE CallStep
  <2> DEFINE a == Asleep(f, c)
             t == SetSlot(polled, f, "running", a)
             b == TaskBox(f, ~is_rebless_context(c))
  <2>1. alloc' = Append(t, b)
    BY <1>10 DEF PollInitial, push_task
  <2>2. Calling'
    BY <1>2, <1>10 DEF PollInitial, Calling
  <2>3. "running" \in SlotStates /\ a \in SUBSET Futs /\ (~is_rebless_context(c)) \in BOOLEAN
    BY DEF SlotStates, Asleep
  <2> HIDE DEF a
  <2>4. /\ t \in Seq(Frames) /\ Len(t) = Len(alloc)
        /\ \A i \in 1..Len(alloc) : \A g \in Slots :
             t[i].slot[g] = IF i = polled /\ g = f THEN "running" ELSE alloc[i].slot[g]
    BY <1>4, <1>7, <2>3, SetSlotFacts, SMTT(30)
  <2>5. b \in Frames
    BY <1>7, <2>3, TaskBoxFacts
  <2> HIDE DEF t, b
  <2>6. Len(alloc') = Len(t) + 1 /\ \A i \in 1..Len(t) : alloc'[i] = t[i]
    BY <2>1, <2>4, <2>5, AppendProperties
  <2>7. alloc'[1].slot[Root] = alloc[1].slot[Root]
    BY <1>7, <2>4, <2>6
  <2>8. alloc' # <<>> /\ Depth' = Depth + 1 /\ Depth >= 1
    <3>1. Len(alloc') > 0 /\ Len(alloc') - 1 = Depth + 1 /\ Depth >= 1
      BY <1>4, <1>5, <2>4, <2>6
    <3> QED
      BY <1>6, <3>1
  <2>9. CallResult' = CallResult
    BY <1>2, <1>4, <2>2, <2>7, <2>8 DEF CallResult, Calling
  <2>10. CallFrames = Waiting(Depth) /\ CallFrames' = Waiting(Depth + 1)
    BY <1>2, <1>3, <2>2, <2>8 DEF FramesWait
  <2>11. Waiting(Depth) # <<>> /\ Last(Waiting(Depth)) = "runs"
    BY <1>5, <2>8, WaitingTop
  <2>12. Waiting(Depth + 1) = Front(Waiting(Depth)) \o <<"waits", "runs">>
    BY <1>5, <2>8, WaitingCall
  <2>13. Calls!Call
    BY <2>9, <2>10, <2>11, <2>12, SameSeqOps DEF Calls!Call
  <2> QED
    BY <2>13 DEF CallStep, Calls!CallNext
<1>11. CASE PollInitialRefused(f) \/ PollClosurePanic(f)
  <2>1. phase' = "failed"
    BY <1>11 DEF PollInitialRefused, PollClosurePanic
  <2>2. CallFrames' = <<>> /\ CallResult' = "broken"
    BY <2>1 DEF CallFrames, CallResult
  <2>3. Depth >= 1
    BY <1>4, <1>5
  <2>4. CallFrames # <<>> /\ Last(CallFrames) = "runs"
    BY <1>2, <1>3, <1>5, <2>3, WaitingTop DEF FramesWait
  <2>5. Calls!Break
    BY <2>2, <2>4, SameSeqOps DEF Calls!Break
  <2> QED
    BY <2>5 DEF CallStep, Calls!CallNext
<1>12. CASE run(f) \/ PollRunning(f) \/ DropFinished(f)
  <2>1. Calling'
    BY <1>2, <1>12 DEF run, PollRunning, DropFinished, Calling
  <2>2. \E v \in SlotStates : alloc' = SetSlot(polled, f, v, {})
    BY <1>12 DEF run, PollRunning, DropFinished, SlotStates
  <2> QED
    BY <1>8, <2>1, <2>2
<1> QED
  BY <1>9, <1>10, <1>11, <1>12 DEF TaskCall

\* The ways a poll ends are a return, the end of the outermost call, or no step.
LEMMA CallPollEnd ==
  ASSUME CallInv, CallInv', PollEnd \/ TaskPanic \/ UnwindEnd \/ yield_now
  PROVE  CallStep
<1>1. /\ phase \in {"poll", "unwind"} /\ outcome' = outcome
      /\ phase' \in {"poll", "unwind", "idle"}
  BY DEF PollEnd, TaskReady, TaskSwitch, TaskPending, TaskPanic, UnwindEnd, Unwinding, yield_now,
     EndStep, runVars, CallInv, OrderedInv
<1>2. FramesWait /\ FramesWait' /\ StackInv /\ StackInv' /\ Calling /\ Calling'
  BY <1>1 DEF CallInv, Calling
<1>3. /\ alloc \in Seq(Frames) /\ alloc' \in Seq(Frames) /\ polled \in 2..Len(alloc)
      /\ Len(alloc) \in Nat /\ alloc # <<>> /\ 1 \in 1..Len(alloc) /\ Root \in Slots
  BY <1>1, <1>2, PolledFacts DEF StackInv, TypeOK, Slots
<1>4. Len(alloc) = Depth + 1 /\ Depth \in Nat
  BY <1>3, DepthFacts
<1>5. Len(alloc') > 0 => alloc' # <<>> /\ Depth' = Len(alloc') - 1
  BY <1>3, DepthFactsAfter
<1>6. CASE TaskReady
  <2> DEFINE p == polled - 1
             d == alloc[polled].dest
             a == IF alloc[polled].waker THEN {} ELSE alloc[p].asleep \cap {d}
  <2>1. polled = Len(alloc)
    BY <1>2, <1>6, TaskReadyOnTop
  <2>2. p \in Nat /\ p >= 1 /\ Len(alloc) = p + 1 /\ p \in 1..Len(alloc) /\ polled \in 1..Len(alloc)
        /\ p = Depth
    BY <1>3, <1>4, <2>1
  <2>3. alloc[polled] \in Frames /\ alloc[p] \in Frames
    BY <1>3, <2>2, ElementOfSeq
  <2>4. d \in Slots /\ "ready" \in SlotStates /\ a \in SUBSET Futs
    BY <2>3, FrameParts DEF SlotStates
  <2>5. alloc' = Front(SetSlot(p, d, "ready", a))
    BY <1>6 DEF TaskReady, StoreResult
  <2>6. Len(alloc) = 2 => d = Root
    BY <2>1 DEF CallInv, LeakInv, RootSecond
  <2>7. p # 1 => d # Root
    <3>1. p # 1 => polled \in 3..Len(alloc)
      BY <1>3, <2>1, <2>2
    <3>2. p # 1 => d \in Futs
      BY <1>1, <1>2, <3>1 DEF StackInv, OneRoot
    <3> QED
      BY <3>2, StackAssumption
  <2> HIDE DEF p, d, a
  <2>8. /\ Front(SetSlot(p, d, "ready", a)) \in Seq(Frames)
        /\ Len(Front(SetSlot(p, d, "ready", a))) = p
        /\ \A i \in 1..p :
             /\ Front(SetSlot(p, d, "ready", a))[i].dest = alloc[i].dest
             /\ \A g \in Slots : Front(SetSlot(p, d, "ready", a))[i].slot[g]
                                  = IF i = p /\ g = d THEN "ready" ELSE alloc[i].slot[g]
    BY <1>3, <2>2, <2>4, PopFacts
  <2>9. /\ Len(alloc') = p
        /\ \A i \in 1..p : \A g \in Slots :
             alloc'[i].slot[g] = IF i = p /\ g = d THEN "ready" ELSE alloc[i].slot[g]
    BY <2>5, <2>8
  <2>10. alloc' # <<>> /\ Depth' = Depth - 1 /\ 1 \in 1..p
    <3>1. Len(alloc') > 0 /\ Len(alloc') - 1 = Depth - 1 /\ 1 \in 1..p
      BY <2>2, <2>9
    <3> QED
      BY <1>5, <3>1
  <2>11. CASE p = 1
    <3>1. d = Root
      BY <2>2, <2>6, <2>11
    <3>2. alloc'[1].slot[Root] = "ready"
      BY <1>3, <2>9, <2>10, <2>11, <3>1
    <3>3. CallResult' = "ready"
      BY <1>2, <2>10, <3>2 DEF CallResult, Calling
    <3>4. Depth = 1 /\ Depth' = 0
      BY <2>2, <2>10, <2>11
    <3>5. CallFrames = <<"runs">> /\ CallFrames' = <<>>
      BY <1>2, <3>4, WaitingSmall DEF FramesWait
    <3>6. Calls!Finish
      BY <3>3, <3>5 DEF Calls!Finish
    <3> QED
      BY <3>6 DEF CallStep, Calls!CallNext
  <2>12. CASE p # 1
    <3>1. alloc'[1].slot[Root] = alloc[1].slot[Root]
      BY <1>3, <2>9, <2>10, <2>12
    <3>2. RootReady' <=> RootReady
      BY <1>3, <2>10, <3>1 DEF RootReady
    <3>3. Depth >= 2
      BY <2>2, <2>12
    <3> QED
      BY <1>1, <1>2, <1>4, <2>10, <3>2, <3>3, TopReturns
  <2> QED
    BY <2>11, <2>12
<1>7. CASE UnwindEnd
  <2>1. Len(alloc') = Len(alloc) /\ \A j \in 1..Len(alloc) : alloc'[j].slot = alloc[j].slot
    BY <1>2, <1>7, PoisonFacts
  <2>2. alloc'[1].slot[Root] = alloc[1].slot[Root]
    BY <1>3, <2>1
  <2>3. Len(alloc') > 0 /\ Len(alloc') - 1 = Depth
    BY <1>4, <2>1
  <2>4. alloc' # <<>> /\ Depth' = Depth
    BY <1>5, <2>3
  <2>5. RootReady' <=> RootReady
    BY <1>3, <2>2, <2>4 DEF RootReady
  <2> QED
    BY <1>1, <1>2, <2>4, <2>5, SameCalls
<1>8. CASE TaskSwitch \/ TaskPending \/ TaskPanic \/ yield_now
  <2>1. alloc' = alloc
    BY <1>8 DEF TaskSwitch, TaskPending, TaskPanic, yield_now
  <2>2. Depth' = Depth /\ (RootReady' <=> RootReady)
    BY <2>1 DEF Depth, RootReady
  <2> QED
    BY <1>1, <1>2, <2>2, SameCalls
<1> QED
  BY <1>6, <1>7, <1>8 DEF PollEnd

\* The Runner starts the outermost call, takes its result, or gives everything up.
LEMMA CallRunner ==
  ASSUME CallInv, CallInv',
         \/ enter \/ Step \/ \E c \in Ctxs : StepEmpty(c)
         \/ forget \/ DropRunnerEmpty \/ clear \/ Clearing \/ Event
  PROVE  CallStep
<1>1. FramesWait /\ FramesWait' /\ StackInv /\ StackInv' /\ OrderedInv
  BY DEF CallInv
<1>2. alloc \in Seq(Frames) /\ alloc' \in Seq(Frames) /\ Root \in Slots
  BY <1>1 DEF StackInv, TypeOK, Slots
<1>3. /\ Len(alloc) \in Nat
      /\ Len(alloc) > 0 => alloc # <<>> /\ Depth = Len(alloc) - 1
      /\ Len(alloc) = 0 => alloc = <<>> /\ Depth = 0
  BY <1>2, DepthFacts
<1>4. /\ Len(alloc') \in Nat
      /\ Len(alloc') > 0 => alloc' # <<>> /\ Depth' = Len(alloc') - 1
      /\ Len(alloc') = 0 => alloc' = <<>> /\ Depth' = 0
  BY <1>2, DepthFactsAfter
<1>5. outcome \in {"none", "taken", "dropped", "leaked"}
  BY <1>1 DEF StackInv, TypeOK
<1>6. CASE enter
  <2> DEFINE r == ResultPlace
             b == TaskBox(Root, FALSE)
  <2>1. r \in Frames /\ b \in Frames /\ r.slot[Root] = "running"
    BY ResultPlaceFacts, TaskBoxFacts DEF Slots
  <2>2. /\ Len(alloc) = 0 /\ alloc' = alloc \o <<r, b>> /\ phase = "idle" /\ phase' = "idle"
        /\ outcome' = "none"
    BY <1>1, <1>6 DEF enter, StackInv, LenCountsAllocations
  <2> HIDE DEF r, b
  <2>3. alloc = <<>> /\ Depth = 0
    BY <1>3, <2>2
  <2>4. alloc' = <<r, b>>
    BY <2>2, <2>3
  <2>5. Len(alloc') = 2 /\ alloc'[1] = r
    BY <2>1, <2>4
  <2>6. Len(alloc') > 0 /\ Len(alloc') - 1 = 1
    BY <2>5
  <2>7. Depth' = 1
    BY <1>4, <2>6
  <2>8. CallResult \notin {"ready", "broken"} /\ CallResult' = "none"
    BY <1>5, <2>1, <2>2, <2>3, <2>5 DEF CallResult
  <2>9. CallFrames = <<>> /\ CallFrames' = <<"runs">>
    BY <1>1, <2>2, <2>3, <2>7, WaitingSmall DEF FramesWait, Calling
  <2>10. Calls!Start
    BY <2>8, <2>9 DEF Calls!Start
  <2> QED
    BY <2>10 DEF CallStep, Calls!CallNext
<1>7. CASE try_get_result
  <2>1. /\ Len(alloc) = 1 /\ alloc' = Front(alloc) /\ phase = "idle" /\ phase' = "idle"
        /\ outcome' = "taken" /\ Last(alloc).slot[Root] = "ready"
    BY <1>1, <1>7 DEF try_get_result, StackInv, LenCountsAllocations
  <2>2. Len(alloc) > 0 /\ Len(alloc) - 1 = 0
    BY <2>1
  <2>3. alloc # <<>> /\ Depth = 0
    BY <1>3, <2>2
  <2>4. Last(alloc) = alloc[1] /\ Len(alloc') = 0
    BY <1>2, <2>1, <2>3, LastFact, FrontFacts
  <2>5. alloc' = <<>> /\ Depth' = 0
    BY <1>4, <2>4
  <2>6. CallResult = "ready" /\ CallResult' = "taken"
    BY <2>1, <2>3, <2>4, <2>5 DEF CallResult
  <2>7. CallFrames = <<>> /\ CallFrames' = <<>>
    BY <1>1, <2>1, <2>3, <2>5, WaitingSmall DEF FramesWait, Calling
  <2>8. Calls!Take
    BY <2>6, <2>7 DEF Calls!Take
  <2> QED
    BY <2>8 DEF CallStep, Calls!CallNext
<1>8. CASE clear
  <2>1. /\ phase = "idle" /\ phase' = "clear" /\ alloc' = alloc /\ outcome' = outcome
        /\ len = Len(alloc) /\ Len(alloc) > 0 /\ state # "Cancelled"
    BY <1>1, <1>8 DEF clear, runVars, StackInv, LenCountsAllocations
  <2>2. alloc # <<>> /\ Depth = Len(alloc) - 1
    BY <1>3, <2>1
  <2>3. CallFrames' = <<>>
    BY <2>1 DEF CallFrames
  <2>4. CallResult' = IF CallResult = "ready" THEN "lost" ELSE CallResult
    BY <1>5, <2>1, <2>2 DEF CallResult
  <2>5. CallFrames # <<>> \/ CallResult = "ready"
    <3>1. CASE Len(alloc) = 1
      <4>1. 1 \in 1..Len(alloc) /\ ~(1 < Len(alloc))
        BY <3>1
      <4>2. alloc[1].slot[Root] # "running"
        BY <1>1, <1>2, <2>1, <4>1 DEF OrderedInv, RunningHasTask
      <4>3. alloc[1].slot[Root] = "ready"
        BY <1>1, <2>2, <4>2 DEF OrderedInv
      <4> QED
        BY <2>1, <2>2, <4>3 DEF CallResult
    <3>2. CASE Len(alloc) # 1
      <4>1. Depth \in Nat /\ Depth >= 1
        BY <1>3, <2>1, <2>2, <3>2
      <4>2. Waiting(Depth) # <<>>
        BY <4>1, WaitingTop
      <4> QED
        BY <1>1, <2>1, <4>2 DEF FramesWait, Calling
    <3> QED
      BY <3>1, <3>2
  <2>6. Calls!GiveUp
    BY <2>3, <2>4, <2>5 DEF Calls!GiveUp
  <2> QED
    BY <2>6 DEF CallStep, Calls!CallNext
<1>9. CASE ClearTask
  <2>1. /\ phase = "clear" /\ left > 0 /\ alloc' = Front(alloc) /\ outcome' = outcome
        /\ state = "Cancelled"
    BY <1>1, <1>9 DEF ClearTask, runVars, OrderedInv
  <2>2. phase' = "clear"
    BY <1>9, <2>1 DEF ClearTask
  <2>3. Len(alloc) > 0 /\ Len(alloc') > 0 /\ alloc'[1] = alloc[1]
    <3>1. /\ Len(alloc) = left + 1 /\ left \in Nat /\ Len(Front(alloc)) = left
          /\ \A i \in 1..left : Front(alloc)[i] = alloc[i]
      BY <1>1, <2>1, ClearFacts
    <3>2. 1 \in 1..left
      BY <2>1, <3>1
    <3> QED
      BY <2>1, <3>1, <3>2
  <2>4. CallFrames' = CallFrames
    BY <2>1, <2>2 DEF CallFrames
  <2>5. CallResult' = CallResult
    BY <1>3, <1>4, <2>1, <2>2, <2>3 DEF CallResult
  <2> QED
    BY <2>4, <2>5 DEF CallStep, Calls!callVars
<1>10. CASE ClearPlace
  <2>1. /\ phase = "clear" /\ left = 0 /\ phase' = "idle" /\ alloc' = Front(alloc)
        /\ outcome' = IF Last(alloc).slot[Root] # "ready" THEN outcome
                      ELSE IF runner = "live" /\ len <= 2 THEN "dropped" ELSE "leaked"
    BY <1>10 DEF ClearPlace
  <2>2. Len(alloc) = 1 /\ Len(alloc') = 0
    BY <1>1, <2>1, ClearFacts
  <2>3. Len(alloc) > 0
    BY <2>2
  <2>4. alloc # <<>> /\ alloc' = <<>> /\ Depth' = 0
    BY <1>3, <1>4, <2>2, <2>3
  <2>5. Last(alloc) = alloc[1]
    BY <1>2, <2>2, <2>4, LastFact
  <2>6. CallFrames = <<>> /\ CallFrames' = <<>>
    BY <1>1, <2>1, <2>4, WaitingSmall DEF CallFrames, FramesWait, Calling
  <2>7. CallResult' = CallResult
    BY <1>5, <2>1, <2>4, <2>5 DEF CallResult
  <2> QED
    BY <2>6, <2>7 DEF CallStep, Calls!callVars
<1>11. CASE \/ \E c \in Ctxs, m \in {"sync", "async"} : drive_top_task(c, m)
            \/ \E c \in Ctxs : StepEmpty(c)
            \/ forget \/ DropRunnerEmpty
  <2>1. alloc' = alloc /\ outcome' = outcome /\ Calling /\ Calling'
    BY <1>11 DEF drive_top_task, StepEmpty, forget, DropRunnerEmpty, runVars, Calling
  <2>2. Depth' = Depth /\ (RootReady' <=> RootReady)
    BY <2>1 DEF Depth, RootReady
  <2> QED
    BY <1>1, <2>1, <2>2, SameCalls
<1>12. CASE Event
  <2>1. CallFrames' = CallFrames /\ CallResult' = CallResult
    BY <1>12 DEF Event, CallFrames, CallResult
  <2> QED
    BY <2>1 DEF CallStep, Calls!callVars
<1> QED
  BY <1>6, <1>7, <1>8, <1>9, <1>10, <1>11, <1>12 DEF Step, Clearing

\* Stack implements CallStack: with any number of tasks and futures, cancelled or not, and
\* whatever panics, the tasks behave like recursive calls until the first poll of a
\* StkFuture fails, unless futures of a task overlap.
THEOREM TasksAreCalls == ASSUME Usage # "any" PROVE Spec => ImplementsCallStack
<1>1. Init => Calls!CallInit
  <2> SUFFICES ASSUME Init PROVE Calls!CallInit
    OBVIOUS
  <2>1. alloc = <<>> /\ phase = "idle" /\ outcome = "none"
    BY DEF Init
  <2>2. CallResult = "none"
    BY <2>1 DEF CallResult
  <2>3. CallFrames = Waiting(0)
    BY <2>1 DEF CallFrames, Waiting
  <2> QED
    BY <2>2, <2>3, WaitingSmall DEF Calls!CallInit
<1>2. CallInv /\ CallInv' /\ [Next]_vars => [Calls!CallNext]_(Calls!callVars)
  <2> SUFFICES ASSUME CallInv, CallInv', [Next]_vars PROVE CallStep
    BY DEF CallStep
  <2>1. CASE UNCHANGED vars
    <3>1. CallFrames' = CallFrames /\ CallResult' = CallResult
      BY <2>1 DEF vars, CallFrames, CallResult
    <3> QED
      BY <3>1 DEF CallStep, Calls!callVars
  <2> QED
    BY <2>1, CallTaskCall, CallPollEnd, CallRunner DEF Next
<1>3. StackInv /\ OrderedInv /\ LeakInv => CallInv
  BY TasksAreFrames DEF CallInv
<1> QED
  BY <1>1, <1>2, <1>3, OrderedInvariant, LeakInvariant, PTL DEF Spec, ImplementsCallStack,
     Calls!CallSpec
=============================================================================
