---------------------------- MODULE StackProofs ----------------------------
(***************************************************************************)
(* Proofs about the stack runtime, for any number of futures, contexts and *)
(* allocations and, unless a theorem says otherwise, for every Usage.      *)
(***************************************************************************)
EXTENDS Stack, SequenceTheorems, TLAPS

-----------------------------------------------------------------------------
(***************************************************************************)
(* Sequences of allocations.                                               *)
(***************************************************************************)

\* What is left of a stack without its top, as pop_dealloc leaves it.
LEMMA FrontFacts ==
  ASSUME NEW S, NEW s \in Seq(S), s # <<>>
  PROVE  /\ Front(s) \in Seq(S)
         /\ Len(Front(s)) = Len(s) - 1
         /\ \A i \in 1..(Len(s) - 1) : Front(s)[i] = s[i]
<1> DEFINE n == Len(s) - 1
           t == SubSeq(s, 1, n)
<1>1. n \in Nat /\ Len(s) = n + 1 /\ Front(s) = t
  BY EmptySeq, LenProperties DEF Front
<1>2. \A i \in 1..n : s[i] \in S
  BY <1>1, ElementOfSeq
<1>3. 1 \in Int /\ n \in Int
  BY <1>1
<1> HIDE DEF n
<1>4. /\ t \in Seq(S)
      /\ Len(t) = IF 1 <= n THEN n - 1 + 1 ELSE 0
      /\ \A i \in 1..(n - 1 + 1) : t[i] = s[1 + i - 1]
  BY <1>2, <1>3, SubSeqProperties
<1> HIDE DEF t
<1>5. Len(t) = n /\ n - 1 + 1 = n
  BY <1>1, <1>4
<1>6. ASSUME NEW i \in 1..n PROVE t[i] = s[i]
  <2>1. i \in 1..(n - 1 + 1) /\ 1 + i - 1 = i
    BY <1>1
  <2> QED
    BY <1>4, <2>1
<1> QED
  BY <1>1, <1>4, <1>5, <1>6 DEF n

\* The top of a stack that is not empty.
LEMMA LastFact ==
  ASSUME NEW S, NEW s \in Seq(S), s # <<>>
  PROVE  Last(s) = s[Len(s)] /\ Len(s) \in Nat /\ Len(s) >= 1
BY EmptySeq, LenProperties DEF Last

\* The parts of an allocation have their types.
LEMMA FrameParts ==
  ASSUME NEW fr \in Frames
  PROVE  /\ fr.kind \in {"place", "task", "poisoned"}
         /\ fr.dest \in Slots /\ fr.waker \in BOOLEAN
         /\ fr.slot \in [Slots -> SlotStates] /\ fr.asleep \in SUBSET Futs
BY DEF Frames

\* A new task is an allocation in which no future exists yet.
LEMMA TaskBoxFacts ==
  ASSUME NEW d \in Slots, NEW w \in BOOLEAN
  PROVE  /\ TaskBox(d, w) \in Frames
         /\ TaskBox(d, w).dest = d
         /\ \A g \in Slots : TaskBox(d, w).slot[g] = "absent"
BY DEF TaskBox, Frames, NoSlots, SlotStates

\* The fresh result cell is an allocation that waits for the root task.
LEMMA ResultPlaceFacts ==
  /\ ResultPlace \in Frames
  /\ ResultPlace.slot[Root] = "running"
  /\ \A f \in Futs : ResultPlace.slot[f] = "absent"
<1>1. Root \in Slots /\ \A f \in Futs : f \in Slots /\ f # Root
  BY StackAssumption DEF Slots
<1>2. [NoSlots EXCEPT ![Root] = "running"] \in [Slots -> SlotStates]
  BY <1>1 DEF NoSlots, SlotStates
<1> QED
  BY <1>1, <1>2 DEF ResultPlace, Frames, NoSlots

\* SetSlot changes the state of one future and nothing else that matters to the
\* shape of the stack.
LEMMA SetSlotFacts ==
  ASSUME alloc \in Seq(Frames), NEW p \in 1..Len(alloc), NEW f \in Slots,
         NEW v \in SlotStates, NEW a \in SUBSET Futs
  PROVE  /\ SetSlot(p, f, v, a) \in Seq(Frames)
         /\ Len(SetSlot(p, f, v, a)) = Len(alloc)
         /\ \A i \in 1..Len(alloc) :
              /\ SetSlot(p, f, v, a)[i].dest = alloc[i].dest
              /\ \A g \in Slots : SetSlot(p, f, v, a)[i].slot[g]
                                   = IF i = p /\ g = f THEN v ELSE alloc[i].slot[g]
<1> DEFINE e == [alloc[p] EXCEPT !.slot[f] = v, !.asleep = (alloc[p].asleep \ {f}) \cup a]
<1>1. alloc[p] \in Frames
  BY ElementOfSeq
<1>2. /\ e \in Frames
      /\ e.dest = alloc[p].dest
      /\ \A g \in Slots : e.slot[g] = IF g = f THEN v ELSE alloc[p].slot[g]
  BY <1>1, FrameParts DEF Frames
<1>3. SetSlot(p, f, v, a) = [alloc EXCEPT ![p] = e]
  <2>1. p \in DOMAIN alloc
    BY LenProperties
  <2> QED
    BY <1>1, <2>1 DEF SetSlot, Frames
<1> HIDE DEF e
<1>4. /\ [alloc EXCEPT ![p] = e] \in Seq(Frames)
      /\ Len([alloc EXCEPT ![p] = e]) = Len(alloc)
      /\ \A j \in 1..Len(alloc) : [alloc EXCEPT ![p] = e][j] = IF j = p THEN e ELSE alloc[j]
  BY <1>2, ExceptSeq
<1>5. ASSUME NEW i \in 1..Len(alloc)
      PROVE  /\ [alloc EXCEPT ![p] = e][i].dest = alloc[i].dest
             /\ \A g \in Slots : [alloc EXCEPT ![p] = e][i].slot[g]
                                  = IF i = p /\ g = f THEN v ELSE alloc[i].slot[g]
  <2>1. [alloc EXCEPT ![p] = e][i] = IF i = p THEN e ELSE alloc[i]
    BY <1>4
  <2>2. CASE i = p
    BY <2>1, <2>2, <1>2
  <2>3. CASE i # p
    BY <2>1, <2>3
  <2> QED
    BY <2>2, <2>3
<1> QED
  BY <1>3, <1>4, <1>5

\* The top is popped and a future of the allocation below it changes.
LEMMA PopFacts ==
  ASSUME alloc \in Seq(Frames), NEW p \in Nat, p >= 1, Len(alloc) = p + 1,
         NEW f \in Slots, NEW v \in SlotStates, NEW a \in SUBSET Futs
  PROVE  /\ Front(SetSlot(p, f, v, a)) \in Seq(Frames)
         /\ Len(Front(SetSlot(p, f, v, a))) = p
         /\ \A i \in 1..p :
              /\ Front(SetSlot(p, f, v, a))[i].dest = alloc[i].dest
              /\ \A g \in Slots : Front(SetSlot(p, f, v, a))[i].slot[g]
                                   = IF i = p /\ g = f THEN v ELSE alloc[i].slot[g]
<1> DEFINE t == SetSlot(p, f, v, a)
<1>1. p \in 1..Len(alloc)
  OBVIOUS
<1>2. /\ t \in Seq(Frames)
      /\ Len(t) = Len(alloc)
      /\ \A i \in 1..Len(alloc) :
           /\ t[i].dest = alloc[i].dest
           /\ \A g \in Slots : t[i].slot[g]
                                = IF i = p /\ g = f THEN v ELSE alloc[i].slot[g]
  BY <1>1, SetSlotFacts, SMTT(30)
<1> HIDE DEF t
<1>3. t # <<>>
  <2>1. Len(t) > 0
    BY <1>1, <1>2
  <2> QED
    BY <2>1, EmptySeq
<1>4. /\ Front(t) \in Seq(Frames)
      /\ Len(Front(t)) = p
      /\ \A i \in 1..p : Front(t)[i] = t[i]
  <2>1. /\ Front(t) \in Seq(Frames)
        /\ Len(Front(t)) = Len(t) - 1
        /\ \A i \in 1..(Len(t) - 1) : Front(t)[i] = t[i]
    <3>1. t \in Seq(Frames)
      BY <1>2
    <3>2. QED
      BY <3>1, <1>3, FrontFacts
  <2>2. Len(t) - 1 = p
    <3>1. Len(t) = p + 1
      BY <1>2
    <3>2. QED
      BY <3>1
  <2>3. QED
    BY <2>1, <2>2
<1>5. \A i \in 1..p : i \in 1..Len(alloc)
  OBVIOUS
<1> QED
  BY <1>2, <1>4, <1>5 DEF t

-----------------------------------------------------------------------------
(***************************************************************************)
(* The shape of the stack under the three ways an action changes it.       *)
(***************************************************************************)

\* What StackInv says besides the types of the variables.
Shape == LenCountsAllocations /\ ResultCellAlive /\ PolledOnTop /\ OneRoot

\* The types and the root hypotheses a step starts from.
LEMMA PolledFacts ==
  ASSUME StackInv, phase \in {"poll", "unwind", "failed"}
  PROVE  /\ alloc \in Seq(Frames) /\ Len(alloc) \in Nat /\ polled \in 2..Len(alloc)
         /\ len = Len(alloc)
         /\ alloc # <<>>
BY LenProperties, EmptySeq DEF StackInv, TypeOK, PolledOnTop, LenCountsAllocations

\* The polled task changes a future that no task writes to.
LEMMA SlotStep ==
  ASSUME StackInv, phase \in {"poll", "unwind", "failed"},
         NEW f \in Futs, Slot(f) # "running", NEW v \in SlotStates,
         alloc' = SetSlot(polled, f, v, {}), len' = len, polled' = polled,
         phase' \in {"poll", "unwind", "failed"}, state' \in {state, "NewTask"}
  PROVE  alloc' \in Seq(Frames) /\ Shape'
<1>1. f \in Slots /\ {} \in SUBSET Futs
  BY DEF Slots
<1>2. /\ alloc' \in Seq(Frames)
      /\ Len(alloc') = Len(alloc)
      /\ \A i \in 1..Len(alloc) :
           /\ alloc'[i].dest = alloc[i].dest
           /\ \A g \in Slots : alloc'[i].slot[g]
                                = IF i = polled /\ g = f THEN v ELSE alloc[i].slot[g]
  BY <1>1, PolledFacts, SetSlotFacts
<1>3. \A i \in 1..Len(alloc) : alloc[i].dest \in Slots
  BY PolledFacts, ElementOfSeq, FrameParts
<1>4. ASSUME NEW i \in 2..Len(alloc')
      PROVE  alloc'[i - 1].slot[alloc'[i].dest] = "running"
  <2>1. i \in 1..Len(alloc) /\ i - 1 \in 1..Len(alloc) /\ i \in 2..Len(alloc)
    BY <1>2, PolledFacts
  <2>2. alloc[i - 1].slot[alloc[i].dest] = "running"
    BY <2>1 DEF StackInv, ResultCellAlive
  <2>3. ~(i - 1 = polled /\ alloc[i].dest = f)
    BY <2>2 DEF Slot
  <2> QED
    BY <1>2, <1>3, <2>1, <2>2, <2>3
<1>5. LenCountsAllocations' /\ ResultCellAlive'
  BY <1>2, <1>4, PolledFacts DEF LenCountsAllocations, ResultCellAlive
<1>6. PolledOnTop'
  BY <1>2 DEF StackInv, PolledOnTop
<1>7. OneRoot'
  <2>1. \A i \in 3..Len(alloc) : alloc[i].dest \in Futs
    BY DEF StackInv, OneRoot
  <2> QED
    BY <1>2, <2>1, PolledFacts DEF OneRoot
<1> QED
  BY <1>2, <1>5, <1>6, <1>7 DEF Shape

\* The top of the stack is popped and the allocation below it changes.
LEMMA PopStep ==
  ASSUME StackInv, phase \in {"poll", "unwind", "failed"}, Len(alloc) >= 2,
         NEW p, p = Len(alloc) - 1,
         NEW f \in Slots, NEW v \in SlotStates, NEW a \in SUBSET Futs,
         alloc' = Front(SetSlot(p, f, v, a)),
         len' = len - 1,
         \/ phase' = "idle"
         \/ phase' = phase /\ polled' = polled /\ polled = p
  PROVE  alloc' \in Seq(Frames) /\ Shape'
<1>1. p \in Nat /\ p >= 1 /\ Len(alloc) = p + 1 /\ alloc \in Seq(Frames)
  BY PolledFacts
<1>2. /\ alloc' \in Seq(Frames)
      /\ Len(alloc') = p
      /\ \A i \in 1..p :
           /\ alloc'[i].dest = alloc[i].dest
           /\ \A g \in Slots : alloc'[i].slot[g]
                                = IF i = p /\ g = f THEN v ELSE alloc[i].slot[g]
  <2>1. /\ Front(SetSlot(p, f, v, a)) \in Seq(Frames)
        /\ Len(Front(SetSlot(p, f, v, a))) = p
        /\ \A i \in 1..p :
             /\ Front(SetSlot(p, f, v, a))[i].dest = alloc[i].dest
             /\ \A g \in Slots : Front(SetSlot(p, f, v, a))[i].slot[g]
                                  = IF i = p /\ g = f THEN v ELSE alloc[i].slot[g]
    BY <1>1, PopFacts
  <2>2. QED
    BY <2>1
<1>3. \A i \in 1..Len(alloc) : alloc[i].dest \in Slots
  BY PolledFacts, ElementOfSeq, FrameParts
<1>4. ASSUME NEW i \in 2..Len(alloc')
      PROVE  alloc'[i - 1].slot[alloc'[i].dest] = "running"
  <2>1. i \in 1..p /\ i - 1 \in 1..p /\ i \in 2..Len(alloc) /\ i - 1 # p
    BY <1>1, <1>2
  <2>2. alloc[i - 1].slot[alloc[i].dest] = "running"
    BY <2>1, PolledFacts DEF StackInv, ResultCellAlive
  <2>3. i \in 1..Len(alloc) /\ i - 1 \in 1..Len(alloc)
    BY <1>1, <2>1
  <2> QED
    BY <1>2, <1>3, <2>1, <2>2, <2>3, SMTT(30)
<1>5. LenCountsAllocations' /\ ResultCellAlive'
  BY <1>1, <1>2, <1>4, PolledFacts DEF LenCountsAllocations, ResultCellAlive
<1>6. PolledOnTop'
  BY <1>1, <1>2, PolledFacts DEF PolledOnTop
<1>7. OneRoot'
  <2>1. \A i \in 3..Len(alloc) : alloc[i].dest \in Futs
    BY DEF StackInv, OneRoot
  <2>2. \A i \in 3..p : i \in 3..Len(alloc) /\ i \in 1..p /\ i \in 1..Len(alloc)
    BY <1>1
  <2> QED
    BY <1>2, <2>1, <2>2 DEF OneRoot
<1> QED
  BY <1>2, <1>5, <1>6, <1>7 DEF Shape

\* A child task is pushed on top of the polled task.
LEMMA PushStep ==
  ASSUME StackInv, phase = "poll", polled = Len(alloc),
         NEW f \in Futs, NEW a \in SUBSET Futs, NEW w \in BOOLEAN,
         alloc' = Append(SetSlot(polled, f, "running", a), TaskBox(f, w)),
         Slot(f) # "running",
         len' = len + 1, state' = "NewTask", phase' = phase, polled' = polled
  PROVE  alloc' \in Seq(Frames) /\ Shape'
<1> DEFINE t == SetSlot(polled, f, "running", a)
<1>1. f \in Slots /\ "running" \in SlotStates /\ polled \in 1..Len(alloc)
  BY PolledFacts DEF Slots, SlotStates
<1>2. /\ t \in Seq(Frames)
      /\ Len(t) = Len(alloc)
      /\ \A i \in 1..Len(alloc) :
           /\ t[i].dest = alloc[i].dest
           /\ \A g \in Slots : t[i].slot[g]
                                = IF i = polled /\ g = f THEN "running" ELSE alloc[i].slot[g]
  BY <1>1, PolledFacts, SetSlotFacts
<1>3. TaskBox(f, w) \in Frames /\ TaskBox(f, w).dest = f
  BY <1>1, TaskBoxFacts
<1> HIDE DEF t
<1>4. /\ alloc' \in Seq(Frames)
      /\ Len(alloc') = Len(alloc) + 1
      /\ \A i \in 1..Len(alloc) : alloc'[i] = t[i]
      /\ alloc'[Len(alloc) + 1] = TaskBox(f, w)
  <2> DEFINE e == TaskBox(f, w)
             u == Append(t, e)
  <2>1. alloc' = u /\ e \in Frames
    BY <1>3 DEF t
  <2> HIDE DEF e
  <2>2. /\ u \in Seq(Frames)
        /\ Len(u) = Len(t) + 1
        /\ \A i \in 1..Len(t) : u[i] = t[i]
        /\ u[Len(t) + 1] = e
    BY <1>2, <2>1, AppendProperties
  <2> QED
    BY <1>2, <2>1, <2>2 DEF e
<1>5. \A i \in 1..Len(alloc) : alloc[i].dest \in Slots
  BY PolledFacts, ElementOfSeq, FrameParts
<1>6. ASSUME NEW i \in 2..Len(alloc')
      PROVE  alloc'[i - 1].slot[alloc'[i].dest] = "running"
  <2>1. CASE i = Len(alloc) + 1
    <3>1. i - 1 = polled /\ i - 1 \in 1..Len(alloc)
      BY <2>1, <1>1, PolledFacts
    <3> QED
      BY <1>1, <1>2, <1>3, <1>4, <2>1, <3>1
  <2>2. CASE i # Len(alloc) + 1
    <3>1. i \in 1..Len(alloc) /\ i - 1 \in 1..Len(alloc) /\ i \in 2..Len(alloc)
      BY <2>2, <1>4, PolledFacts
    <3>2. alloc[i - 1].slot[alloc[i].dest] = "running"
      BY <3>1 DEF StackInv, ResultCellAlive
    <3> QED
      BY <1>2, <1>4, <1>5, <3>1, <3>2
  <2> QED
    BY <2>1, <2>2
<1>7. LenCountsAllocations' /\ ResultCellAlive'
  BY <1>4, <1>6, PolledFacts DEF LenCountsAllocations, ResultCellAlive
<1>8. PolledOnTop'
  BY <1>4, PolledFacts DEF PolledOnTop
<1>9. OneRoot'
  <2>1. \A i \in 3..Len(alloc) : alloc[i].dest \in Futs
    BY DEF StackInv, OneRoot
  <2>2. \A i \in 3..Len(alloc') : i = Len(alloc) + 1 \/ (i \in 3..Len(alloc) /\ i \in 1..Len(alloc))
    BY <1>4, PolledFacts
  <2> QED
    BY <1>2, <1>3, <1>4, <2>1, <2>2 DEF OneRoot
<1> QED
  BY <1>4, <1>7, <1>8, <1>9 DEF Shape

\* clear pops an allocation, or the last one.
LEMMA ClearFacts ==
  ASSUME StackInv, phase = "clear"
  PROVE  /\ alloc \in Seq(Frames) /\ Len(alloc) = left + 1 /\ left \in Nat
         /\ Front(alloc) \in Seq(Frames)
         /\ Len(Front(alloc)) = left
         /\ \A i \in 1..left : Front(alloc)[i] = alloc[i]
<1>1. alloc \in Seq(Frames) /\ Len(alloc) = left + 1 /\ left \in Nat
  BY DEF StackInv, TypeOK, LenCountsAllocations
<1>2. alloc # <<>>
  <2>1. Len(alloc) > 0
    BY <1>1
  <2> QED
    BY <2>1, EmptySeq
<1>3. left = Len(alloc) - 1
  BY <1>1
<1> QED
  BY <1>1, <1>2, <1>3, FrontFacts

-----------------------------------------------------------------------------
(***************************************************************************)
(* StackInv is inductive.                                                  *)
(***************************************************************************)

\* A new Stack is empty and satisfies the invariant.
LEMMA InitInv == Init => StackInv
<1> SUFFICES ASSUME Init PROVE StackInv
  OBVIOUS
<1>1. alloc \in Seq(Frames) /\ Len(alloc) = 0
  BY EmptySeq DEF Init
<1>2. len \in 0..MaxLen /\ work \in 0..MaxWork /\ polled \in Nat /\ left \in Nat
  BY StackAssumption DEF Init
<1>3. yieldOver \in BOOLEAN
  BY DEF Init
<1>4. TypeOK
  BY <1>1, <1>2, <1>3 DEF Init, TypeOK
<1>5. ResultCellAlive /\ OneRoot
  BY <1>1 DEF ResultCellAlive, OneRoot
<1> QED
  BY <1>1, <1>4, <1>5 DEF Init, StackInv, LenCountsAllocations, PolledOnTop

\* Every call a polled task makes keeps the invariant.
LEMMA TaskCallInv ==
  ASSUME StackInv, NEW f \in Futs, TaskCall(f)
  PROVE  StackInv'
<1>1. CASE run(f)
  <2>1. "initial" \in SlotStates /\ Slot(f) # "running"
    BY <1>1 DEF run, SlotStates
  <2>2. alloc' \in Seq(Frames) /\ Shape'
    BY <1>1, <2>1, SlotStep DEF run
  <2> QED
    BY <1>1, <2>2, StackAssumption DEF run, StackInv, TypeOK, Shape, ctxVars, runVars
<1>2. ASSUME NEW c \in Ctxs, PollInitial(f, c) PROVE StackInv'
  <2>1. polled = Len(alloc) /\ Slot(f) # "running"
    BY <1>2, PolledFacts DEF PollInitial, StackInv, PolledOnTop
  <2>2. Asleep(f, c) \in SUBSET Futs /\ (~is_rebless_context(c)) \in BOOLEAN
    BY DEF Asleep
  <2>3. alloc' \in Seq(Frames) /\ Shape'
    BY <1>2, <2>1, <2>2, PushStep DEF PollInitial, push_task
  <2>4. len' \in 0..MaxLen
    BY <1>2, PolledFacts, StackAssumption DEF PollInitial, push_task
  <2> QED
    BY <1>2, <2>3, <2>4 DEF PollInitial, push_task, StackInv, TypeOK, Shape, ctxVars, runVars
<1>3. CASE PollInitialRefused(f)
  <2>1. "running" \in SlotStates /\ Slot(f) # "running"
    BY <1>3 DEF PollInitialRefused, SlotStates
  <2>2. alloc' \in Seq(Frames) /\ Shape'
    BY <1>3, <2>1, SlotStep DEF PollInitialRefused
  <2> QED
    BY <1>3, <2>2 DEF PollInitialRefused, StackInv, TypeOK, Shape, ctxVars, runVars
<1>4. CASE PollClosurePanic(f)
  <2>1. "running" \in SlotStates /\ Slot(f) # "running"
    BY <1>4 DEF PollClosurePanic, SlotStates
  <2>2. alloc' \in Seq(Frames) /\ Shape'
    BY <1>4, <2>1, SlotStep DEF PollClosurePanic
  <2> QED
    BY <1>4, <2>2 DEF PollClosurePanic, StackInv, TypeOK, Shape, ctxVars, runVars
<1>5. CASE PollRunning(f)
  <2>1. "done" \in SlotStates /\ Slot(f) # "running"
    BY <1>5 DEF PollRunning, SlotStates
  <2>2. alloc' \in Seq(Frames) /\ Shape'
    BY <1>5, <2>1, SlotStep DEF PollRunning
  <2> QED
    BY <1>5, <2>2 DEF PollRunning, StackInv, TypeOK, Shape, ctxVars, runVars
<1>6. CASE DropFinished(f)
  <2>1. "absent" \in SlotStates /\ Slot(f) # "running"
    BY <1>6 DEF DropFinished, SlotStates
  <2>2. alloc' \in Seq(Frames) /\ Shape'
    BY <1>6, <2>1, SlotStep DEF DropFinished, Unwinding
  <2> QED
    BY <1>6, <2>2 DEF DropFinished, Unwinding, StackInv, TypeOK, Shape, ctxVars, runVars
<1>7. CASE DropRunning(f)
  <2>1. f \in Slots /\ "absent" \in SlotStates /\ {} \in SUBSET Futs
    BY DEF Slots, SlotStates
  <2>2. phase \in {"poll", "unwind", "failed"} /\ len' = len - 1
    BY <1>7 DEF DropRunning, Unwinding, pop_cancel_task
  <2>3. len' \in 0..MaxLen
    <3>1. len \in 0..MaxLen /\ MaxLen \in Nat
      BY StackAssumption DEF StackInv, TypeOK
    <3>2. len >= 2
      BY <2>2, PolledFacts
    <3> QED
      BY <2>2, <3>1, <3>2
  <2>4. CASE polled = Len(alloc)
    <3> DEFINE t == SetSlot(polled, f, "absent", {})
    <3>1. t \in Seq(Frames) /\ Len(t) = Len(alloc)
      BY <2>1, <2>2, PolledFacts, SetSlotFacts
    <3>2. Len(t) > 0
      BY <2>2, <3>1, PolledFacts
    <3> HIDE DEF t
    <3>3. t # <<>>
      BY <3>1, <3>2, EmptySeq
    <3>4. alloc' \in Seq(Frames) /\ phase' = "freed"
      BY <1>7, <2>4, <3>1, <3>3, FrontFacts DEF DropRunning, pop_cancel_task, t
    <3> QED
      BY <1>7, <2>3, <3>4 DEF DropRunning, pop_cancel_task, StackInv, TypeOK, ctxVars, runVars,
         LenCountsAllocations, ResultCellAlive, PolledOnTop, OneRoot
  <2>5. CASE polled # Len(alloc)
    <3>1. polled = Len(alloc) - 1 /\ Len(alloc) >= 2
      BY <2>2, <2>5, PolledFacts DEF StackInv, PolledOnTop
    <3>2. phase' = phase /\ polled' = polled /\ alloc' = Front(SetSlot(polled, f, "absent", {}))
      BY <1>7, <2>5 DEF DropRunning, pop_cancel_task
    <3>3. alloc' \in Seq(Frames) /\ Shape'
      BY <2>1, <2>2, <3>1, <3>2, PopStep
    <3> QED
      BY <1>7, <2>3, <3>3, <3>2 DEF DropRunning, pop_cancel_task, StackInv, TypeOK, Shape,
         ctxVars, runVars
  <2> QED
    BY <2>4, <2>5
<1> QED
  BY <1>1, <1>2, <1>3, <1>4, <1>5, <1>6, <1>7 DEF TaskCall

\* A task whose locals are all dropped is on top: the result cell of a task
\* above it would be one of them.
LEMMA NoFutureOnTop ==
  ASSUME StackInv, phase \in {"poll", "unwind", "failed"}, \A f \in Futs : Slot(f) = "absent"
  PROVE  polled = Len(alloc)
<1> SUFFICES ASSUME polled # Len(alloc) PROVE FALSE
  OBVIOUS
<1>1. polled = Len(alloc) - 1 /\ Len(alloc) \in 2..Len(alloc) /\ Len(alloc) \in 3..Len(alloc)
  BY PolledFacts DEF StackInv, PolledOnTop
<1>2. alloc[Len(alloc)].dest \in Futs
  BY <1>1 DEF StackInv, OneRoot
<1>3. alloc[Len(alloc) - 1].slot[alloc[Len(alloc)].dest] = "running"
  BY <1>1 DEF StackInv, ResultCellAlive
<1>4. alloc[Len(alloc) - 1].slot[alloc[Len(alloc)].dest] = "absent"
  BY <1>1, <1>2 DEF Slot
<1> QED
  BY <1>3, <1>4

\* So a task that completes is popped itself.
LEMMA TaskReadyOnTop ==
  ASSUME StackInv, TaskReady
  PROVE  polled = Len(alloc)
BY NoFutureOnTop DEF TaskReady

\* A panic marks the task and leaves the shape of the stack alone.
LEMMA PoisonFacts ==
  ASSUME StackInv, UnwindEnd
  PROVE  /\ alloc' \in Seq(Frames)
         /\ Len(alloc') = Len(alloc)
         /\ \A j \in 1..Len(alloc) :
              alloc'[j].dest = alloc[j].dest /\ alloc'[j].slot = alloc[j].slot
<1> DEFINE e == [alloc[polled] EXCEPT !.kind = "poisoned"]
<1>1. alloc \in Seq(Frames) /\ polled \in 1..Len(alloc)
  BY PolledFacts DEF UnwindEnd, Unwinding
<1>2. alloc[polled] \in Frames
  BY <1>1, ElementOfSeq
<1>3. e \in Frames /\ e.dest = alloc[polled].dest /\ e.slot = alloc[polled].slot
  BY <1>2 DEF Frames
<1>4. alloc' = [alloc EXCEPT ![polled] = e]
  BY DEF UnwindEnd, Unwinding
<1> HIDE DEF e
<1>5. /\ alloc' \in Seq(Frames)
      /\ Len(alloc') = Len(alloc)
      /\ \A j \in 1..Len(alloc) : alloc'[j] = IF j = polled THEN e ELSE alloc[j]
  BY <1>1, <1>3, <1>4, ExceptSeq
<1> QED
  BY <1>3, <1>5

\* Every way the poll of a task ends keeps the invariant.
LEMMA PollEndInv ==
  ASSUME StackInv, PollEnd \/ TaskPanic \/ UnwindEnd
  PROVE  StackInv'
<1>1. CASE TaskReady
  <2> DEFINE p == polled - 1
             d == alloc[polled].dest
             a == IF alloc[polled].waker THEN {} ELSE alloc[p].asleep \cap {d}
  <2>1. phase \in {"poll", "unwind", "failed"} /\ \A f \in Futs : Slot(f) = "absent"
    BY <1>1 DEF TaskReady
  <2>2. polled = Len(alloc)
    BY <1>1, TaskReadyOnTop
  <2>3. p \in 1..Len(alloc) /\ p = Len(alloc) - 1 /\ Len(alloc) >= 2 /\ polled \in 1..Len(alloc)
    BY <2>1, <2>2, PolledFacts
  <2>4. alloc[polled] \in Frames /\ alloc[p] \in Frames
    BY <2>1, <2>3, PolledFacts, ElementOfSeq
  <2>5. d \in Slots /\ a \in SUBSET Futs /\ "ready" \in SlotStates
    BY <2>4, FrameParts DEF SlotStates
  <2>6. /\ alloc' = Front(SetSlot(p, d, "ready", a))
        /\ len' = len - 1
        /\ phase' = "idle"
    BY <1>1 DEF TaskReady, StoreResult, EndStep
  <2> HIDE DEF p, d, a
  <2>7. alloc' \in Seq(Frames) /\ Shape'
    BY <2>1, <2>3, <2>5, <2>6, PopStep
  <2>8. len' \in 0..MaxLen
    <3>1. len \in 0..MaxLen /\ MaxLen \in Nat
      BY StackAssumption DEF StackInv, TypeOK
    <3>2. len >= 2
      BY <2>1, PolledFacts
    <3> QED
      BY <2>6, <3>1, <3>2
  <2>9. yieldOver' \in BOOLEAN
    BY <1>1 DEF TaskReady, EndStep
  <2> QED
    BY <1>1, <2>1, <2>7, <2>8, <2>9 DEF TaskReady, EndStep, RestoreContext, StackInv, TypeOK, Shape,
       ctxVars, runVars
<1>2. CASE TaskSwitch
  <2>1. yieldOver' \in BOOLEAN
    BY <1>2 DEF TaskSwitch, EndStep
  <2> QED
    BY <1>2, <2>1 DEF TaskSwitch, EndStep, RestoreContext, StackInv, TypeOK, LenCountsAllocations,
       ResultCellAlive, PolledOnTop, OneRoot, runVars
<1>3. CASE TaskPending
  <2>1. yieldOver' \in BOOLEAN
    BY <1>3 DEF TaskPending, EndStep
  <2>2. work' \in 0..MaxWork
    BY <1>3, StackAssumption DEF TaskPending, StackInv, TypeOK
  <2>3. waits' \in {"nothing", "event", "wake"}
    BY <1>3 DEF TaskPending, StackInv, TypeOK
  <2> QED
    BY <1>3, <2>1, <2>2, <2>3 DEF TaskPending, EndStep, RestoreContext, StackInv, TypeOK,
       LenCountsAllocations, ResultCellAlive, PolledOnTop, OneRoot, ctxVars, runVars
<1>4. CASE TaskPanic
  BY <1>4 DEF TaskPanic, StackInv, TypeOK, LenCountsAllocations, ResultCellAlive, PolledOnTop,
     OneRoot, ctxVars, runVars
<1>5. CASE UnwindEnd
  <2>1. alloc \in Seq(Frames) /\ Len(alloc) \in Nat /\ len = Len(alloc)
    BY <1>5, PolledFacts DEF UnwindEnd, Unwinding
  <2>5. alloc' \in Seq(Frames) /\ Len(alloc') = Len(alloc)
    BY <1>5, PoisonFacts
  <2>6. \A j \in 1..Len(alloc) : alloc'[j].dest = alloc[j].dest /\ alloc'[j].slot = alloc[j].slot
    BY <1>5, PoisonFacts
  <2>7. ResultCellAlive'
    <3> SUFFICES ASSUME NEW i \in 2..Len(alloc)
                 PROVE  alloc'[i - 1].slot[alloc'[i].dest] = "running"
      BY <2>5 DEF ResultCellAlive
    <3>1. i \in 1..Len(alloc) /\ i - 1 \in 1..Len(alloc)
      BY <2>1
    <3>2. alloc[i - 1].slot[alloc[i].dest] = "running"
      BY <1>5 DEF UnwindEnd, Unwinding, StackInv, ResultCellAlive
    <3> QED
      BY <2>6, <3>1, <3>2
  <2>8. OneRoot'
    <3>1. \A i \in 3..Len(alloc) : i \in 1..Len(alloc) /\ alloc[i].dest \in Futs
      BY <1>5, <2>1 DEF UnwindEnd, Unwinding, StackInv, OneRoot
    <3> QED
      BY <2>5, <2>6, <3>1 DEF OneRoot
  <2>9. yieldOver' \in BOOLEAN
    BY <1>5 DEF UnwindEnd, Unwinding, EndStep
  <2> QED
    BY <1>5, <2>1, <2>5, <2>7, <2>8, <2>9 DEF UnwindEnd, Unwinding, EndStep, StackInv, TypeOK,
       LenCountsAllocations, PolledOnTop, ctxVars, runVars
<1> QED
  BY <1>1, <1>2, <1>3, <1>4, <1>5 DEF PollEnd

\* Entering the stack and stepping it keeps the invariant.
LEMMA RunnerInv ==
  ASSUME StackInv, enter \/ Step \/ \E c \in Ctxs : StepEmpty(c)
  PROVE  StackInv'
<1>1. CASE enter
  <2> DEFINE r == ResultPlace
             b == TaskBox(Root, FALSE)
  <2>1. r \in Frames /\ r.slot[Root] = "running"
    BY ResultPlaceFacts
  <2>2. b \in Frames /\ b.dest = Root
    BY TaskBoxFacts DEF Slots
  <2>3. Len(alloc) = 0 /\ alloc \in Seq(Frames)
    BY <1>1 DEF enter, StackInv, TypeOK, LenCountsAllocations
  <2>4. alloc' = alloc \o <<r, b>>
    BY <1>1 DEF enter
  <2> HIDE DEF r, b
  <2>5. alloc = <<>>
    BY <2>3, EmptySeq
  <2>6. alloc' = <<r, b>>
    BY <2>4, <2>5
  <2>7. alloc' \in Seq(Frames) /\ Len(alloc') = 2 /\ alloc'[1] = r /\ alloc'[2] = b
    BY <2>1, <2>2, <2>6
  <2>8. ResultCellAlive' /\ OneRoot'
    <3>1. ASSUME NEW i \in 2..Len(alloc') PROVE alloc'[i - 1].slot[alloc'[i].dest] = "running"
      <4>1. i = 2 /\ i - 1 = 1
        BY <2>7
      <4> QED
        BY <2>1, <2>2, <2>7, <4>1
    <3> QED
      BY <2>7, <3>1 DEF ResultCellAlive, OneRoot
  <2>9. len' \in 0..MaxLen /\ work' \in 0..MaxWork
    BY <1>1, StackAssumption DEF enter
  <2> QED
    BY <1>1, <2>7, <2>8, <2>9 DEF enter, StackInv, TypeOK, LenCountsAllocations, PolledOnTop, ctxVars
<1>2. CASE try_get_result
  <2>1. Len(alloc) = 1 /\ alloc \in Seq(Frames)
    BY <1>2 DEF try_get_result, StackInv, TypeOK, LenCountsAllocations
  <2>2. alloc # <<>>
    <3>1. Len(alloc) > 0
      BY <2>1
    <3> QED
      BY <3>1, EmptySeq
  <2>3. alloc' \in Seq(Frames) /\ Len(alloc') = 0
    BY <1>2, <2>1, <2>2, FrontFacts DEF try_get_result
  <2>4. ResultCellAlive' /\ OneRoot'
    BY <2>3 DEF ResultCellAlive, OneRoot
  <2>5. len' \in 0..MaxLen
    BY <1>2, StackAssumption DEF try_get_result
  <2> QED
    BY <1>2, <2>3, <2>4, <2>5 DEF try_get_result, StackInv, TypeOK, LenCountsAllocations,
       PolledOnTop, ctxVars
<1>3. ASSUME NEW c \in Ctxs, NEW m \in {"sync", "async"}, drive_top_task(c, m)
      PROVE  StackInv'
  <2>1. Len(alloc) = len /\ len \in Nat /\ len > 1 /\ polled' = Len(alloc)
    BY <1>3, StackAssumption DEF drive_top_task, StackInv, TypeOK, LenCountsAllocations
  <2>2. PolledOnTop'
    BY <1>3, <2>1 DEF drive_top_task, PolledOnTop
  <2>3. phase' \in {"poll", "unwind", "failed"} /\ state' = state /\ state # "Cancelled"
    BY <1>3 DEF drive_top_task, StackInv
  <2> QED
    BY <1>3, <2>1, <2>2, <2>3 DEF drive_top_task, StackInv, TypeOK, LenCountsAllocations,
       ResultCellAlive, OneRoot, runVars
<1>4. ASSUME NEW c \in Ctxs, StepEmpty(c) PROVE StackInv'
  BY <1>4 DEF StepEmpty, StackInv, TypeOK, LenCountsAllocations, ResultCellAlive, PolledOnTop,
     OneRoot, runVars
<1> QED
  BY <1>1, <1>2, <1>3, <1>4 DEF Step

\* Dropping the Runner, or leaking it, and clear keep the invariant.
LEMMA ClearInv ==
  ASSUME StackInv, forget \/ DropRunnerEmpty \/ clear \/ Clearing
  PROVE  StackInv'
<1>1. CASE forget
  BY <1>1 DEF forget, StackInv, TypeOK, LenCountsAllocations, ResultCellAlive, PolledOnTop,
     OneRoot, ctxVars
<1>2. CASE DropRunnerEmpty
  BY <1>2 DEF DropRunnerEmpty, StackInv, TypeOK, LenCountsAllocations, ResultCellAlive,
     PolledOnTop, OneRoot, ctxVars
<1>3. CASE clear
  <2>1. left' \in Nat /\ len = left' + 1
    BY <1>3, StackAssumption DEF clear, StackInv, TypeOK
  <2> QED
    BY <1>3, <2>1 DEF clear, StackInv, TypeOK, LenCountsAllocations, ResultCellAlive,
       PolledOnTop, OneRoot, ctxVars, runVars
<1>4. CASE ClearTask
  <2>1. /\ alloc' \in Seq(Frames) /\ Len(alloc') = left /\ left \in Nat /\ left > 0
        /\ \A i \in 1..left : alloc'[i] = alloc[i]
    BY <1>4, ClearFacts DEF ClearTask
  <2>2. left' = left - 1 /\ left' \in Nat /\ Len(alloc') = left' + 1
    BY <1>4, <2>1 DEF ClearTask
  <2>3. \A i \in 2..Len(alloc) : alloc[i - 1].slot[alloc[i].dest] = "running"
    BY <1>4 DEF ClearTask, StackInv, ResultCellAlive
  <2>4. \A i \in 3..Len(alloc) : alloc[i].dest \in Futs
    BY <1>4 DEF ClearTask, StackInv, OneRoot
  <2>5. Len(alloc) = left + 1
    BY <1>4, ClearFacts DEF ClearTask
  <2>6. ASSUME NEW i \in 2..Len(alloc') PROVE alloc'[i - 1].slot[alloc'[i].dest] = "running"
    <3>1. i \in 1..left /\ i - 1 \in 1..left /\ i \in 2..Len(alloc)
      BY <2>1, <2>5
    <3> QED
      BY <2>1, <2>3, <3>1
  <2>7. ASSUME NEW i \in 3..Len(alloc') PROVE alloc'[i].dest \in Futs
    <3>1. i \in 1..left /\ i \in 3..Len(alloc)
      BY <2>1, <2>5
    <3> QED
      BY <2>1, <2>4, <3>1
  <2>8. phase' \in {"clear", "freed"}
    BY <1>4 DEF ClearTask
  <2>9. Shape'
    BY <2>2, <2>6, <2>7, <2>8 DEF Shape, LenCountsAllocations, ResultCellAlive, PolledOnTop, OneRoot
  <2> QED
    BY <1>4, <2>1, <2>2, <2>8, <2>9 DEF ClearTask, StackInv, TypeOK, Shape, ctxVars, runVars
<1>5. CASE ClearPlace
  <2>1. alloc' \in Seq(Frames) /\ Len(alloc') = 0
    BY <1>5, ClearFacts DEF ClearPlace
  <2>2. len' \in 0..MaxLen
    BY <1>5, StackAssumption DEF ClearPlace
  <2>3. Shape'
    BY <1>5, <2>1 DEF ClearPlace, Shape, LenCountsAllocations, ResultCellAlive, PolledOnTop, OneRoot
  <2> QED
    BY <1>5, <2>1, <2>2, <2>3 DEF ClearPlace, StackInv, TypeOK, Shape, ctxVars
<1> QED
  BY <1>1, <1>2, <1>3, <1>4, <1>5 DEF Clearing

\* Every step of the runtime and of the code on it keeps the invariant.
LEMMA NextInv == StackInv /\ [Next]_vars => StackInv'
<1> SUFFICES ASSUME StackInv, [Next]_vars PROVE StackInv'
  OBVIOUS
<1>1. CASE yield_now
  <2>1. yieldOver' \in BOOLEAN
    BY <1>1 DEF yield_now
  <2> QED
    BY <1>1, <2>1 DEF yield_now, StackInv, TypeOK, LenCountsAllocations, ResultCellAlive,
       PolledOnTop, OneRoot, ctxVars, runVars
<1>2. CASE UNCHANGED vars
  BY <1>2 DEF vars, StackInv, TypeOK, LenCountsAllocations, ResultCellAlive, PolledOnTop, OneRoot
<1>3. CASE Event
  BY <1>3 DEF Event, StackInv, TypeOK, LenCountsAllocations, ResultCellAlive, PolledOnTop,
     OneRoot, ctxVars
<1> QED
  BY <1>1, <1>2, <1>3, TaskCallInv, PollEndInv, RunnerInv, ClearInv DEF Next

\* The invariant holds in every reachable state of Stack.
THEOREM StackInvariant == Spec => []StackInv
BY InitInv, NextInv, PTL DEF Spec

\* Stack: the variables always have their types; in particular the count of
\* allocations is a number the stack can hold.
THEOREM TypeCorrect == Spec => []TypeOK
<1>1. StackInv => TypeOK
  BY DEF StackInv
<1> QED
  BY <1>1, StackInvariant, PTL

\* Stack::len counts the allocations, for any depth, any number of futures and
\* whatever tasks do with them.
THEOREM LenIsRight == Spec => []LenCountsAllocations
<1>1. StackInv => LenCountsAllocations
  BY DEF StackInv
<1> QED
  BY <1>1, StackInvariant, PTL

\* InnerStkFuture::poll: no task on the stack ever has a dangling pointer to the
\* place of its result, however futures are cancelled or unwound.
THEOREM NoDanglingResult == Spec => []ResultCellAlive
<1>1. StackInv => ResultCellAlive
  BY DEF StackInv
<1> QED
  BY <1>1, StackInvariant, PTL

-----------------------------------------------------------------------------
(***************************************************************************)
(* Tasks whose futures do not overlap.                                     *)
(***************************************************************************)

\* Futures that come to be are the only ones of their allocations.
NewIsAlone ==
  \A i \in 1..Len(alloc') : \A g \in Futs :
    alloc'[i].slot[g] # "absent" =>
      \/ alloc[i].slot[g] # "absent"
      \/ \A h \in Futs \ {g} : alloc'[i].slot[h] = "absent"

\* Allocations change or are popped, and a task makes a future when it has no other.
LEMMA OneFutureKept ==
  ASSUME OneFuture, Len(alloc) \in Nat, Len(alloc') \in Nat, Len(alloc') <= Len(alloc), NewIsAlone
  PROVE  OneFuture'
<1> SUFFICES ASSUME NEW i \in 1..Len(alloc'), NEW g \in Futs, NEW h \in Futs,
                    alloc'[i].slot[g] # "absent", alloc'[i].slot[h] # "absent"
             PROVE  g = h
  BY DEF OneFuture
<1>1. i \in 1..Len(alloc)
  OBVIOUS
<1> QED
  BY <1>1 DEF OneFuture, NewIsAlone

\* A task that holds a StkFuture without a task of its own is on top.
LEMMA OtherFutureOnTop ==
  ASSUME StackInv, OneFuture, phase \in {"poll", "unwind", "failed"},
         NEW f \in Futs, Slot(f) \notin {"absent", "running"}
  PROVE  polled = Len(alloc)
<1> SUFFICES ASSUME polled # Len(alloc) PROVE FALSE
  OBVIOUS
<1>1. polled = Len(alloc) - 1 /\ Len(alloc) \in 2..Len(alloc) /\ Len(alloc) \in 3..Len(alloc)
      /\ polled \in 1..Len(alloc)
  BY PolledFacts DEF StackInv, PolledOnTop
<1>2. alloc[Len(alloc)].dest \in Futs
  BY <1>1 DEF StackInv, OneRoot
<1>3. alloc[polled].slot[alloc[Len(alloc)].dest] = "running"
  BY <1>1 DEF StackInv, ResultCellAlive
<1> QED
  BY <1>1, <1>2, <1>3 DEF Slot, OneFuture

\* The polled task changes a future that neither was nor becomes Running.
LEMMA OrderedSlotStep ==
  ASSUME StackInv, OrderedInv, phase \in {"poll", "unwind", "failed"},
         NEW f \in Futs, NEW v \in SlotStates, v # "running", Slot(f) # "running",
         v = "absent" \/ Slot(f) # "absent" \/ \A g \in Futs : Slot(g) = "absent",
         alloc' = SetSlot(polled, f, v, {}),
         phase' = phase, polled' = polled, state' = state
  PROVE  OrderedInv'
<1>1. f \in Slots /\ {} \in SUBSET Futs /\ Root \in Slots /\ Root # f
  BY StackAssumption DEF Slots
<1>2. /\ Len(alloc') = Len(alloc)
      /\ \A i \in 1..Len(alloc) :
           /\ alloc'[i].dest = alloc[i].dest
           /\ \A g \in Slots : alloc'[i].slot[g]
                                = IF i = polled /\ g = f THEN v ELSE alloc[i].slot[g]
  BY <1>1, PolledFacts, SetSlotFacts
<1>3. state # "Cancelled"
  BY DEF StackInv
<1>4. RunningHasTask'
  <2> SUFFICES ASSUME NEW i \in 1..Len(alloc), NEW s \in Slots, alloc'[i].slot[s] = "running"
               PROVE  \/ i < Len(alloc) /\ alloc'[i + 1].dest = s
                      \/ phase = "failed" /\ i = polled
    BY <1>2 DEF RunningHasTask
  <2>1. alloc[i].slot[s] = "running"
    BY <1>2
  <2>2. \/ i < Len(alloc) /\ alloc[i + 1].dest = s
        \/ phase = "failed" /\ i = polled
    BY <1>3, <2>1 DEF OrderedInv, RunningHasTask
  <2>3. i < Len(alloc) => i + 1 \in 1..Len(alloc)
    BY PolledFacts
  <2> QED
    BY <1>2, <2>2, <2>3
<1>5. alloc'[1].slot[Root] \in {"running", "ready"}
  <2>1. 1 \in 1..Len(alloc)
    BY PolledFacts
  <2> QED
    BY <1>1, <1>2, <2>1, PolledFacts DEF OrderedInv
<1>6. OneFuture'
  <2>1. Len(alloc) \in Nat /\ OneFuture
    BY PolledFacts DEF OrderedInv
  <2>2. NewIsAlone
    BY <1>1, <1>2 DEF Slot, Slots, NewIsAlone
  <2> QED
    BY <1>2, <2>1, <2>2, OneFutureKept
<1>7. ASSUME phase = "failed"
      PROVE  polled = Len(alloc') /\ \E g \in Futs : alloc'[polled].slot[g] = "running"
  <2>1. PICK g \in Futs : Slot(g) = "running"
    BY <1>7 DEF OrderedInv
  <2>2. g # f /\ g \in Slots /\ polled \in 1..Len(alloc) /\ polled = Len(alloc)
    BY <1>7, <2>1, PolledFacts DEF Slots, OrderedInv
  <2> QED
    BY <1>2, <2>1, <2>2 DEF Slot
<1> QED
  BY <1>4, <1>5, <1>6, <1>7 DEF OrderedInv, Slot

\* The first poll of a StkFuture fails after it was marked Running.
LEMMA OrderedFailStep ==
  ASSUME StackInv, OrderedInv, phase = "poll",
         NEW f \in Futs, Slot(f) = "initial",
         alloc' = SetSlot(polled, f, "running", {}),
         phase' = "failed", polled' = polled
  PROVE  OrderedInv'
<1>1. f \in Slots /\ {} \in SUBSET Futs /\ Root \in Slots /\ Root # f /\ "running" \in SlotStates
  BY StackAssumption DEF Slots, SlotStates
<1>2. /\ Len(alloc') = Len(alloc)
      /\ \A i \in 1..Len(alloc) :
           /\ alloc'[i].dest = alloc[i].dest
           /\ \A g \in Slots : alloc'[i].slot[g]
                                = IF i = polled /\ g = f THEN "running" ELSE alloc[i].slot[g]
  BY <1>1, PolledFacts, SetSlotFacts
<1>3. state # "Cancelled" /\ OneFuture
  BY DEF StackInv, OrderedInv
<1>4. RunningHasTask'
  <2> SUFFICES ASSUME NEW i \in 1..Len(alloc), NEW s \in Slots, alloc'[i].slot[s] = "running",
                      i # polled
               PROVE  i < Len(alloc) /\ alloc'[i + 1].dest = s
    BY <1>2 DEF RunningHasTask
  <2>1. alloc[i].slot[s] = "running"
    BY <1>2
  <2>2. i < Len(alloc) /\ alloc[i + 1].dest = s
    BY <1>3, <2>1 DEF OrderedInv, RunningHasTask
  <2>3. i + 1 \in 1..Len(alloc)
    BY <2>2, PolledFacts
  <2> QED
    BY <1>2, <2>2, <2>3
<1>5. alloc'[1].slot[Root] \in {"running", "ready"}
  <2>1. 1 \in 1..Len(alloc)
    BY PolledFacts
  <2> QED
    BY <1>1, <1>2, <2>1, PolledFacts DEF OrderedInv
<1>6. OneFuture'
  <2>1. Len(alloc) \in Nat /\ alloc[polled].slot[f] # "absent"
    BY PolledFacts DEF Slot
  <2>2. NewIsAlone
    BY <1>1, <1>2, <2>1 DEF Slots, NewIsAlone
  <2> QED
    BY <1>2, <1>3, <2>1, <2>2, OneFutureKept
<1>7. polled = Len(alloc') /\ alloc'[polled].slot[f] = "running"
  <2>1. polled = Len(alloc)
    BY <1>3, OtherFutureOnTop
  <2>2. polled \in 1..Len(alloc)
    BY PolledFacts
  <2> QED
    BY <1>1, <1>2, <2>1, <2>2
<1> QED
  BY <1>4, <1>5, <1>6, <1>7 DEF OrderedInv, Slot

\* The future of the allocation below that the task on top belongs to.
TopDest == alloc[Len(alloc)].dest

\* The top is popped and the future it belongs to is Running no longer.
LEMMA OrderedPopStep ==
  ASSUME StackInv, OrderedInv, phase \in {"poll", "unwind"}, Len(alloc) >= 2,
         NEW p, p = Len(alloc) - 1,
         NEW f \in Slots, NEW v \in SlotStates, v # "running", NEW a \in SUBSET Futs,
         f = Root => v = "ready",
         TopDest = f, alloc[p].slot[f] # "absent",
         alloc' = Front(SetSlot(p, f, v, a)),
         phase' \in {"idle", "poll", "unwind"}
  PROVE  OrderedInv'
<1>1. p \in Nat /\ p >= 1 /\ Len(alloc) = p + 1 /\ alloc \in Seq(Frames)
  BY PolledFacts
<1>2. /\ Len(alloc') = p
      /\ \A i \in 1..p :
           /\ alloc'[i].dest = alloc[i].dest
           /\ \A g \in Slots : alloc'[i].slot[g]
                                = IF i = p /\ g = f THEN v ELSE alloc[i].slot[g]
  <2>1. /\ Len(Front(SetSlot(p, f, v, a))) = p
        /\ \A i \in 1..p :
             /\ Front(SetSlot(p, f, v, a))[i].dest = alloc[i].dest
             /\ \A g \in Slots : Front(SetSlot(p, f, v, a))[i].slot[g]
                                  = IF i = p /\ g = f THEN v ELSE alloc[i].slot[g]
    BY <1>1, PopFacts
  <2>2. QED
    BY <2>1
<1>3. state # "Cancelled"
  BY DEF StackInv
<1>4. RunningHasTask'
  <2> SUFFICES ASSUME NEW i \in 1..p, NEW s \in Slots, alloc'[i].slot[s] = "running"
               PROVE  i < p /\ alloc'[i + 1].dest = s
    BY <1>2 DEF RunningHasTask
  <2>1. i \in 1..Len(alloc)
    BY <1>1
  <2>2. alloc[i].slot[s] = "running" /\ ~(i = p /\ s = f)
    BY <1>2
  <2>3. i < Len(alloc) /\ alloc[i + 1].dest = s
    BY <1>3, <2>1, <2>2 DEF OrderedInv, RunningHasTask
  <2>4. i # p
    BY <1>1, <2>2, <2>3 DEF TopDest
  <2>5. i < p /\ i + 1 \in 1..p
    BY <1>1, <2>4
  <2> QED
    BY <1>2, <2>3, <2>5
<1>5. alloc'[1].slot[Root] \in {"running", "ready"}
  <2>1. 1 \in 1..p /\ Root \in Slots
    BY <1>1 DEF Slots
  <2>2. alloc[1].slot[Root] \in {"running", "ready"}
    BY PolledFacts DEF OrderedInv
  <2> QED
    BY <1>2, <2>1, <2>2
<1>6. OneFuture'
  <2>1. OneFuture /\ Len(alloc) \in Nat /\ p <= Len(alloc)
    BY <1>1 DEF OrderedInv
  <2>2. NewIsAlone
    BY <1>1, <1>2 DEF Slots, NewIsAlone
  <2> QED
    BY <1>1, <1>2, <2>1, <2>2, OneFutureKept
<1> QED
  BY <1>4, <1>5, <1>6 DEF OrderedInv

\* The calls of a task keep the stronger invariant.
LEMMA OrderedTaskCall ==
  ASSUME Usage # "any", StackInv, OrderedInv, NEW f \in Futs, TaskCall(f)
  PROVE  OrderedInv'
<1>1. CASE run(f)
  BY <1>1, OrderedSlotStep DEF run, SlotStates
<1>2. CASE PollRunning(f)
  BY <1>2, OrderedSlotStep DEF PollRunning, SlotStates
<1>3. CASE DropFinished(f)
  BY <1>3, OrderedSlotStep DEF DropFinished, Unwinding, SlotStates
<1>4. CASE PollInitialRefused(f) \/ PollClosurePanic(f)
  BY <1>4, OrderedFailStep DEF PollInitialRefused, PollClosurePanic
<1>5. CASE DropRunning(f)
  <2>1. /\ phase \in {"poll", "unwind", "failed"} /\ Slot(f) = "running" /\ state # "Cancelled"
        /\ alloc' = Front(SetSlot(polled, f, "absent", {}))
        /\ phase' = IF Len(alloc) = polled THEN "freed" ELSE phase
    BY <1>5 DEF DropRunning, Unwinding, pop_cancel_task
  <2>2. /\ f \in Slots /\ "absent" \in SlotStates /\ {} \in SUBSET Futs /\ f # Root
        /\ Root \in Slots /\ polled \in 1..Len(alloc)
    BY <2>1, PolledFacts, StackAssumption DEF Slots, SlotStates
  <2>3. CASE phase # "failed"
    <3>1. polled < Len(alloc) /\ alloc[polled + 1].dest = f
      BY <2>1, <2>2, <2>3 DEF Slot, OrderedInv, RunningHasTask
    <3>2. polled = Len(alloc) - 1 /\ Len(alloc) >= 2 /\ polled + 1 = Len(alloc) /\ phase' = phase
      BY <2>1, <3>1, PolledFacts DEF StackInv, PolledOnTop
    <3>3. /\ TopDest = f /\ phase \in {"poll", "unwind"} /\ phase' \in {"idle", "poll", "unwind"}
          /\ alloc[polled].slot[f] # "absent"
      BY <2>1, <2>3, <3>1, <3>2 DEF TopDest, Slot
    <3> QED
      BY <2>1, <2>2, <3>2, <3>3, OrderedPopStep
  <2>4. CASE phase = "failed"
    <3> DEFINE t == SetSlot(polled, f, "absent", {})
               n == Len(alloc) - 1
    <3>1. polled = Len(alloc) /\ phase' = "freed"
      BY <2>1, <2>4 DEF OrderedInv
    <3>2. n \in Nat /\ n >= 1 /\ n <= Len(alloc) /\ Len(alloc) \in Nat /\ alloc \in Seq(Frames)
      BY <2>1, <3>1, PolledFacts
    <3>3. /\ t \in Seq(Frames) /\ Len(t) = Len(alloc)
          /\ \A i \in 1..Len(alloc) : \A g \in Slots :
               t[i].slot[g] = IF i = polled /\ g = f THEN "absent" ELSE alloc[i].slot[g]
      BY <2>2, <3>2, SetSlotFacts
    <3> HIDE DEF t
    <3>4. t # <<>>
      <4>1. Len(t) > 0
        BY <3>2, <3>3
      <4> QED
        BY <4>1, EmptySeq
    <3>5. Len(alloc') = n /\ \A i \in 1..n : alloc'[i] = t[i]
      <4>1. alloc' = Front(t)
        BY <2>1 DEF t
      <4> QED
        BY <3>3, <3>4, <4>1, FrontFacts
    <3>6. \A i \in 1..n : i \in 1..Len(alloc)
      BY <3>2
    <3>7. \A i \in 1..n : \A g \in Slots :
            alloc'[i].slot[g] = IF i = polled /\ g = f THEN "absent" ELSE alloc[i].slot[g]
      BY <3>3, <3>5, <3>6
    <3>8. OneFuture /\ alloc[1].slot[Root] \in {"running", "ready"} /\ 1 \in 1..n
      BY <2>1, <3>2, PolledFacts DEF OrderedInv
    <3> HIDE DEF n
    <3>9. OneFuture'
      <4>1. NewIsAlone
        BY <3>5, <3>7 DEF Slots, NewIsAlone
      <4> QED
        BY <3>2, <3>5, <3>8, <4>1, OneFutureKept
    <3>10. alloc'[1].slot[Root] \in {"running", "ready"}
      BY <2>2, <3>7, <3>8
    <3> QED
      BY <3>1, <3>9, <3>10 DEF OrderedInv, RunningHasTask
  <2> QED
    BY <2>3, <2>4
<1>6. ASSUME NEW c \in Ctxs, PollInitial(f, c) PROVE OrderedInv'
  <2> DEFINE a == Asleep(f, c)
             t == SetSlot(polled, f, "running", a)
             b == TaskBox(f, ~is_rebless_context(c))
             n == Len(alloc)
  <2>1. /\ phase = "poll" /\ phase' = phase /\ state # "Cancelled" /\ polled = n
        /\ alloc' = Append(t, b)
    BY <1>6, PolledFacts DEF PollInitial, push_task, StackInv, PolledOnTop
  <2>2. /\ a \in SUBSET Futs /\ f \in Slots /\ "running" \in SlotStates /\ f # Root
        /\ (~is_rebless_context(c)) \in BOOLEAN /\ Root \in Slots
    BY StackAssumption DEF Asleep, Slots, SlotStates
  <2>3. n \in Nat /\ n >= 2 /\ polled \in 1..n /\ alloc \in Seq(Frames)
    BY <2>1, PolledFacts
  <2> HIDE DEF a
  <2>4. /\ t \in Seq(Frames) /\ Len(t) = n
        /\ \A i \in 1..n :
             /\ t[i].dest = alloc[i].dest
             /\ \A g \in Slots : t[i].slot[g]
                                  = IF i = polled /\ g = f THEN "running" ELSE alloc[i].slot[g]
    BY <2>2, <2>3, SetSlotFacts
  <2>5. b \in Frames /\ b.dest = f /\ \A g \in Slots : b.slot[g] = "absent"
    BY <2>2, TaskBoxFacts
  <2> HIDE DEF t, b
  <2>6. Len(alloc') = n + 1 /\ alloc'[n + 1] = b /\ \A i \in 1..n : alloc'[i] = t[i]
    BY <2>1, <2>4, <2>5, AppendProperties
  <2> HIDE DEF n
  <2>7. RunningHasTask'
    <3> SUFFICES ASSUME NEW i \in 1..(n + 1), NEW s \in Slots, alloc'[i].slot[s] = "running"
                 PROVE  i < n + 1 /\ alloc'[i + 1].dest = s
      BY <2>6 DEF RunningHasTask
    <3>1. i # n + 1 /\ i \in 1..n
      BY <2>3, <2>5, <2>6
    <3>2. CASE i = n /\ s = f
      BY <2>3, <2>5, <2>6, <3>2
    <3>3. CASE ~(i = n /\ s = f)
      <4>1. alloc[i].slot[s] = "running"
        BY <2>1, <2>4, <2>6, <3>1, <3>3
      <4>2. i < n /\ alloc[i + 1].dest = s
        BY <2>1, <3>1, <4>1 DEF OrderedInv, RunningHasTask, n
      <4>3. i + 1 \in 1..n
        BY <2>3, <3>1, <4>2
      <4> QED
        BY <2>3, <2>4, <2>6, <4>2, <4>3
    <3> QED
      BY <3>2, <3>3
  <2>8. alloc'[1].slot[Root] \in {"running", "ready"}
    <3>1. 1 \in 1..n
      BY <2>3
    <3>2. alloc[1].slot[Root] \in {"running", "ready"}
      BY <2>1, PolledFacts DEF OrderedInv
    <3> QED
      BY <2>2, <2>4, <2>6, <3>1, <3>2
  <2>9. OneFuture'
    <3> SUFFICES ASSUME NEW i \in 1..(n + 1), NEW g \in Futs, NEW h \in Futs,
                        alloc'[i].slot[g] # "absent", alloc'[i].slot[h] # "absent"
                 PROVE  g = h
      BY <2>6 DEF OneFuture
    <3>1. g \in Slots /\ h \in Slots
      BY DEF Slots
    <3>2. i \in 1..n
      BY <2>3, <2>5, <2>6, <3>1
    <3>3. /\ alloc'[i].slot[g] = IF i = polled /\ g = f THEN "running" ELSE alloc[i].slot[g]
          /\ alloc'[i].slot[h] = IF i = polled /\ h = f THEN "running" ELSE alloc[i].slot[h]
      BY <2>4, <2>6, <3>1, <3>2
    <3>4. alloc[polled].slot[f] # "absent"
      BY <1>6 DEF PollInitial, Slot
    <3>5. alloc[i].slot[g] # "absent" /\ alloc[i].slot[h] # "absent"
      BY <3>3, <3>4
    <3> QED
      BY <3>2, <3>5 DEF OrderedInv, OneFuture, n
  <2> QED
    BY <2>1, <2>7, <2>8, <2>9 DEF OrderedInv
<1> QED
  BY <1>1, <1>2, <1>3, <1>4, <1>5, <1>6 DEF TaskCall

\* So do the ways a poll ends.
LEMMA OrderedPollEnd ==
  ASSUME StackInv, OrderedInv, PollEnd \/ TaskPanic \/ UnwindEnd
  PROVE  OrderedInv'
<1>1. CASE TaskReady
  <2> DEFINE p == polled - 1
             d == alloc[polled].dest
             a == IF alloc[polled].waker THEN {} ELSE alloc[p].asleep \cap {d}
  <2>1. phase \in {"poll", "unwind"}
    BY <1>1 DEF TaskReady
  <2>2. polled = Len(alloc)
    BY <1>1, TaskReadyOnTop
  <2>3. p = Len(alloc) - 1 /\ Len(alloc) >= 2 /\ polled \in 1..Len(alloc) /\ p \in 1..Len(alloc)
    BY <2>1, <2>2, PolledFacts
  <2>4. alloc[polled] \in Frames /\ alloc[p] \in Frames
    BY <2>1, <2>3, PolledFacts, ElementOfSeq
  <2>5. d \in Slots /\ a \in SUBSET Futs /\ "ready" \in SlotStates /\ TopDest = d
    BY <2>2, <2>4, FrameParts DEF SlotStates, TopDest
  <2>6. alloc' = Front(SetSlot(p, d, "ready", a)) /\ phase' = "idle"
    BY <1>1 DEF TaskReady, StoreResult, EndStep
  <2>7. alloc[p].slot[d] # "absent"
    <3>1. polled \in 2..Len(alloc)
      BY <2>1, PolledFacts
    <3> QED
      BY <2>1, <3>1 DEF StackInv, ResultCellAlive
  <2> HIDE DEF p, d, a
  <2> QED
    BY <2>1, <2>3, <2>5, <2>6, <2>7, OrderedPopStep
<1>2. CASE TaskSwitch \/ TaskPending \/ TaskPanic
  BY <1>2 DEF TaskSwitch, TaskPending, TaskPanic, EndStep, StackInv, OrderedInv, RunningHasTask,
     OneFuture
<1>3. CASE UnwindEnd
  <2>1. /\ Len(alloc') = Len(alloc)
        /\ \A j \in 1..Len(alloc) : alloc'[j].dest = alloc[j].dest /\ alloc'[j].slot = alloc[j].slot
    BY <1>3, PoisonFacts
  <2>2. state' = state /\ phase' = "idle" /\ phase = "unwind" /\ state # "Cancelled"
    BY <1>3 DEF UnwindEnd, Unwinding, EndStep, StackInv, OrderedInv
  <2>3. RunningHasTask'
    <3> SUFFICES ASSUME NEW i \in 1..Len(alloc), NEW s \in Slots, alloc'[i].slot[s] = "running"
                 PROVE  i < Len(alloc) /\ alloc'[i + 1].dest = s
      BY <2>1 DEF RunningHasTask
    <3>1. i < Len(alloc) /\ alloc[i + 1].dest = s
      BY <2>1, <2>2 DEF OrderedInv, RunningHasTask
    <3>2. i + 1 \in 1..Len(alloc)
      BY <2>2, <3>1, PolledFacts
    <3> QED
      BY <2>1, <3>1, <3>2
  <2>4. alloc'[1].slot[Root] \in {"running", "ready"}
    <3>1. 1 \in 1..Len(alloc)
      BY <2>2, PolledFacts
    <3>2. alloc[1].slot[Root] \in {"running", "ready"}
      BY <2>2, PolledFacts DEF OrderedInv
    <3> QED
      BY <2>1, <3>1, <3>2
  <2>5. OneFuture'
    BY <2>1 DEF OrderedInv, OneFuture
  <2> QED
    BY <2>2, <2>3, <2>4, <2>5 DEF OrderedInv
<1> QED
  BY <1>1, <1>2, <1>3 DEF PollEnd

\* And so do the actions of the Runner and clear, which pops under Cancelled.
LEMMA OrderedRunner ==
  ASSUME StackInv, OrderedInv,
         \/ enter \/ Step \/ \E c \in Ctxs : StepEmpty(c)
         \/ forget \/ DropRunnerEmpty \/ clear \/ Clearing \/ yield_now \/ Event
  PROVE  OrderedInv'
<1>1. CASE enter
  <2> DEFINE r == ResultPlace
             b == TaskBox(Root, FALSE)
  <2>1. /\ r \in Frames /\ r.slot[Root] = "running"
        /\ \A f \in Futs : r.slot[f] = "absent"
    BY ResultPlaceFacts
  <2>2. b \in Frames /\ b.dest = Root /\ \A g \in Slots : b.slot[g] = "absent"
    BY TaskBoxFacts DEF Slots
  <2>3. Len(alloc) = 0 /\ alloc \in Seq(Frames) /\ phase' = "idle" /\ phase = "idle"
    BY <1>1 DEF enter, StackInv, TypeOK, LenCountsAllocations
  <2>4. alloc' = alloc \o <<r, b>>
    BY <1>1 DEF enter
  <2> HIDE DEF r, b
  <2>5. alloc = <<>>
    BY <2>3, EmptySeq
  <2>6. alloc' = <<r, b>>
    BY <2>4, <2>5
  <2>7. Len(alloc') = 2 /\ alloc'[1] = r /\ alloc'[2] = b
    BY <2>1, <2>2, <2>6
  <2>8. RunningHasTask'
    <3> SUFFICES ASSUME NEW i \in 1..2, NEW s \in Slots, alloc'[i].slot[s] = "running"
                 PROVE  i < 2 /\ alloc'[i + 1].dest = s
      BY <2>7 DEF RunningHasTask
    <3>1. i = 1 \/ i = 2
      OBVIOUS
    <3>2. i # 2
      BY <2>2, <2>7
    <3>3. s = Root
      BY <2>1, <2>7, <3>1, <3>2 DEF Slots
    <3> QED
      BY <2>2, <2>7, <3>1, <3>2, <3>3
  <2>9. OneFuture'
    <3>1. \A i \in 1..2 : \A f \in Futs : alloc'[i].slot[f] = "absent"
      BY <2>1, <2>2, <2>7 DEF Slots
    <3> QED
      BY <2>7, <3>1 DEF OneFuture
  <2> QED
    BY <2>1, <2>3, <2>7, <2>8, <2>9 DEF OrderedInv
<1>2. CASE try_get_result
  <2>1. Len(alloc) = 1 /\ alloc \in Seq(Frames) /\ phase' = "idle"
    BY <1>2 DEF try_get_result, StackInv, TypeOK, LenCountsAllocations
  <2>2. alloc # <<>>
    <3>1. Len(alloc) > 0
      BY <2>1
    <3> QED
      BY <3>1, EmptySeq
  <2>3. alloc' \in Seq(Frames) /\ Len(alloc') = 0
    BY <1>2, <2>1, <2>2, FrontFacts DEF try_get_result
  <2>4. alloc' = <<>> /\ RunningHasTask' /\ OneFuture'
    BY <2>3, EmptySeq DEF RunningHasTask, OneFuture
  <2> QED
    BY <2>1, <2>4 DEF OrderedInv
<1>3. CASE ClearPlace
  <2>1. alloc' \in Seq(Frames) /\ Len(alloc') = 0 /\ phase' = "idle"
    BY <1>3, ClearFacts DEF ClearPlace
  <2>2. alloc' = <<>> /\ RunningHasTask' /\ OneFuture'
    BY <2>1, EmptySeq DEF RunningHasTask, OneFuture
  <2> QED
    BY <2>1, <2>2 DEF OrderedInv
<1>4. CASE ClearTask
  <2>1. phase = "clear" /\ state = "Cancelled" /\ state' = state /\ left > 0 /\ alloc' = Front(alloc)
    BY <1>4 DEF ClearTask, OrderedInv
  <2>2. phase' = "clear"
    BY <1>4, <2>1 DEF ClearTask
  <2>3. 1 \in 1..left /\ alloc'[1] = alloc[1] /\ Len(alloc) >= 1
    BY <2>1, ClearFacts
  <2>4. alloc # <<>>
    <3>1. Len(alloc) > 0
      BY <2>3, <2>1, ClearFacts
    <3> QED
      BY <3>1, EmptySeq
  <2>5. OneFuture'
    <3>1. /\ Len(alloc') = left /\ left \in Nat /\ Len(alloc) = left + 1
          /\ \A i \in 1..left : alloc'[i] = alloc[i]
      BY <2>1, ClearFacts
    <3>2. \A i \in 1..left : i \in 1..Len(alloc)
      BY <3>1
    <3> QED
      BY <3>1, <3>2 DEF OrderedInv, OneFuture
  <2> QED
    BY <2>1, <2>2, <2>3, <2>4, <2>5 DEF OrderedInv, RunningHasTask
<1>5. CASE \/ \E c \in Ctxs, m \in {"sync", "async"} : drive_top_task(c, m)
           \/ \E c \in Ctxs : StepEmpty(c)
           \/ forget \/ DropRunnerEmpty \/ clear \/ yield_now \/ Event
  BY <1>5 DEF drive_top_task, StepEmpty, forget, DropRunnerEmpty, clear, yield_now, Event, StackInv,
     OrderedInv, RunningHasTask, OneFuture, Slot
<1> QED
  BY <1>1, <1>2, <1>3, <1>4, <1>5 DEF Step, Clearing

\* The stronger invariant holds in every reachable state, unless futures of a task
\* overlap.
THEOREM OrderedInvariant ==
  ASSUME Usage # "any"
  PROVE  Spec => [](StackInv /\ OrderedInv)
<1>1. Init => OrderedInv
  BY DEF Init, OrderedInv, RunningHasTask, OneFuture
<1>2. StackInv /\ OrderedInv /\ [Next]_vars => OrderedInv'
  <2> SUFFICES ASSUME StackInv, OrderedInv, [Next]_vars PROVE OrderedInv'
    OBVIOUS
  <2>1. CASE UNCHANGED vars
    BY <2>1 DEF vars, OrderedInv, RunningHasTask, OneFuture, Slot
  <2> QED
    BY <2>1, OrderedTaskCall, OrderedPollEnd, OrderedRunner DEF Next
<1> QED
  BY <1>1, <1>2, InitInv, NextInv, PTL DEF Spec

\* InnerStkFuture::drop pops only the task of the future that is dropped, or that
\* future's first poll has just failed, unless futures of a task overlap.
THEOREM DropPopsOwnTask == ASSUME Usage # "any" PROVE Spec => []RunningHasTask
<1>1. OrderedInv => RunningHasTask
  BY DEF OrderedInv
<1> QED
  BY <1>1, OrderedInvariant, PTL

\* InnerStkFuture::drop frees the task that is being polled only while a panic
\* unwinds out of the first poll of a StkFuture, unless futures of a task overlap.
THEOREM OnlyFailedPollFrees ==
  ASSUME Usage # "any"
  PROVE  Spec => [][phase' = "freed" => phase = "failed"]_phase
<1>1. ASSUME StackInv, OrderedInv, Next, phase' = "freed", phase' # phase
      PROVE  phase = "failed"
  <2>1. ASSUME NEW f \in Futs, DropRunning(f) PROVE phase = "failed"
    <3>1. /\ phase \in {"poll", "unwind", "failed"} /\ Slot(f) = "running"
          /\ state # "Cancelled" /\ Len(alloc) = polled
      BY <1>1, <2>1 DEF DropRunning, Unwinding, pop_cancel_task
    <3>2. polled \in 1..Len(alloc) /\ f \in Slots
      BY <1>1, <3>1, PolledFacts DEF Slots
    <3> QED
      BY <1>1, <3>1, <3>2 DEF Slot, OrderedInv, RunningHasTask
  <2>2. ASSUME NEW f \in Futs, TaskCall(f) PROVE phase = "failed"
    BY <1>1, <2>1, <2>2 DEF TaskCall, run, PollInitial, PollInitialRefused, PollClosurePanic,
       PollRunning, DropFinished
  <2>3. ~ClearTask
    BY <1>1 DEF ClearTask, OrderedInv
  <2> QED
    BY <1>1, <2>2, <2>3 DEF Next, enter, Step, try_get_result, drive_top_task, StepEmpty, yield_now,
       PollEnd, TaskReady, TaskSwitch, TaskPending, TaskPanic, UnwindEnd, EndStep, Event, forget,
       DropRunnerEmpty, clear, Clearing, ClearPlace
<1>2. StackInv /\ OrderedInv /\ [Next]_vars => [phase' = "freed" => phase = "failed"]_phase
  BY <1>1 DEF vars
<1> QED
  BY <1>2, OrderedInvariant, PTL DEF Spec

\* try_get_result: its assertion never fails, unless futures of a task overlap.
THEOREM ResultIsThere == ASSUME Usage # "any" PROVE Spec => []ResultWritten
<1>1. StackInv /\ OrderedInv => ResultWritten
  <2> SUFFICES ASSUME StackInv, OrderedInv, phase = "idle", len = 1
               PROVE  Last(alloc).slot[Root] = "ready"
    BY DEF ResultWritten
  <2>1. Len(alloc) = 1 /\ alloc \in Seq(Frames) /\ state # "Cancelled"
    BY DEF StackInv, TypeOK, LenCountsAllocations
  <2>2. alloc # <<>>
    <3>1. Len(alloc) > 0
      BY <2>1
    <3> QED
      BY <3>1, EmptySeq
  <2>3. Last(alloc) = alloc[1] /\ Root \in Slots /\ 1 \in 1..Len(alloc)
    BY <2>1, <2>2, LastFact DEF Slots
  <2>4. alloc[1].slot[Root] # "running"
    BY <2>1, <2>3 DEF OrderedInv, RunningHasTask
  <2> QED
    BY <2>2, <2>3, <2>4 DEF OrderedInv
<1> QED
  BY <1>1, OrderedInvariant, PTL

-----------------------------------------------------------------------------
(***************************************************************************)
(* Tasks that keep the futures they polled until these have finished.      *)
(***************************************************************************)

\* What a task calls keeps the state right for the next push_task.
LEMMA AwaitTaskCall ==
  ASSUME Usage = "await", StackInv, OrderedInv, AwaitInv, NEW f \in Futs, TaskCall(f)
  PROVE  AwaitInv'
<1>1. OneFuture
  BY DEF OrderedInv
<1>2. CASE run(f) \/ PollRunning(f) \/ DropFinished(f)
  <2>1. /\ phase \in {"poll", "unwind", "failed"} /\ phase' = phase /\ polled' = polled
        /\ state' = state
        /\ \E v \in SlotStates : alloc' = SetSlot(polled, f, v, {})
    BY <1>2 DEF run, PollRunning, DropFinished, Unwinding, SlotStates
  <2>2. PICK v \in SlotStates : alloc' = SetSlot(polled, f, v, {})
    BY <2>1
  <2>3. f \in Slots /\ {} \in SUBSET Futs /\ polled \in 1..Len(alloc) /\ alloc \in Seq(Frames)
    BY <2>1, PolledFacts DEF Slots
  <2>4. Len(alloc') = Len(alloc)
    BY <2>2, <2>3, SetSlotFacts
  <2> QED
    BY <2>1, <2>4 DEF AwaitInv
<1>3. ASSUME NEW c \in Ctxs, PollInitial(f, c) PROVE AwaitInv'
  <2>1. StackInv' /\ phase' = "poll" /\ phase = "poll" /\ polled' = polled /\ len' = len + 1
    BY <1>3, TaskCallInv DEF PollInitial, push_task
  <2>2. len = Len(alloc) /\ len' = Len(alloc') /\ polled \in 2..Len(alloc) /\ Len(alloc) \in Nat
    BY <2>1, PolledFacts DEF StackInv, LenCountsAllocations
  <2> QED
    BY <2>1, <2>2 DEF AwaitInv
<1>4. ~PollInitialRefused(f)
  <2> SUFFICES ASSUME PollInitialRefused(f) PROVE FALSE
    OBVIOUS
  <2>1. phase = "poll" /\ Slot(f) = "initial" /\ state # "Base"
    BY DEF PollInitialRefused
  <2>2. polled = Len(alloc)
    BY <1>1, <2>1, OtherFutureOnTop
  <2> QED
    BY <2>1, <2>2 DEF AwaitInv
<1>5. ~PollClosurePanic(f)
  BY DEF PollClosurePanic
<1>6. CASE DropRunning(f)
  <2>1. /\ phase = "unwind" /\ Slot(f) = "running" /\ state # "Cancelled"
        /\ phase' = IF Len(alloc) = polled THEN "freed" ELSE phase
    BY <1>6 DEF DropRunning, Unwinding, pop_cancel_task, AwaitInv
  <2>2. polled \in 1..Len(alloc) /\ f \in Slots
    BY <2>1, PolledFacts DEF Slots
  <2>3. polled < Len(alloc)
    BY <2>1, <2>2 DEF Slot, OrderedInv, RunningHasTask
  <2> QED
    BY <2>1, <2>2, <2>3 DEF AwaitInv
<1> QED
  BY <1>2, <1>3, <1>4, <1>5, <1>6 DEF TaskCall

\* A poll ends in state Base, or with a poisoned task on top.
LEMMA AwaitPollEnd ==
  ASSUME StackInv, OrderedInv, AwaitInv, PollEnd \/ TaskPanic \/ UnwindEnd
  PROVE  AwaitInv'
<1>1. CASE TaskReady
  BY <1>1, TaskReadyOnTop DEF TaskReady, EndStep, AwaitInv
<1>2. CASE TaskSwitch \/ TaskPending \/ TaskPanic
  BY <1>2 DEF TaskSwitch, TaskPending, TaskPanic, EndStep, AwaitInv
<1>3. CASE UnwindEnd
  <2>1. /\ phase \in {"poll", "unwind", "failed"} /\ phase' = "idle" /\ len' = len
        /\ \A f \in Futs : Slot(f) = "absent"
        /\ alloc' = [alloc EXCEPT ![polled].kind = "poisoned"]
    BY <1>3 DEF UnwindEnd, Unwinding, EndStep
  <2>2. polled = Len(alloc)
    BY <2>1, NoFutureOnTop
  <2>3. /\ alloc \in Seq(Frames) /\ polled \in DOMAIN alloc /\ polled \in 1..Len(alloc)
        /\ len = Len(alloc) /\ Len(alloc) >= 2
    BY <2>1, PolledFacts, LenProperties
  <2>4. alloc[polled] \in Frames
    BY <2>3, ElementOfSeq
  <2>5. alloc'[polled].kind = "poisoned"
    BY <2>1, <2>3, <2>4 DEF Frames
  <2>6. Len(alloc') = Len(alloc)
    BY <1>3, PoisonFacts
  <2> QED
    BY <2>1, <2>2, <2>3, <2>5, <2>6 DEF AwaitInv, Last
<1> QED
  BY <1>1, <1>2, <1>3 DEF PollEnd

\* The Runner polls no task in another state than Base, and clear ends in Base.
LEMMA AwaitRunner ==
  ASSUME StackInv, OrderedInv, AwaitInv,
         \/ enter \/ Step \/ \E c \in Ctxs : StepEmpty(c)
         \/ forget \/ DropRunnerEmpty \/ clear \/ Clearing \/ yield_now \/ Event
  PROVE  AwaitInv'
<1>1. CASE \E c \in Ctxs, m \in {"sync", "async"} : drive_top_task(c, m)
  BY <1>1 DEF drive_top_task, AwaitInv
<1>2. CASE enter \/ try_get_result \/ \E c \in Ctxs : StepEmpty(c)
  BY <1>2 DEF enter, try_get_result, StepEmpty, AwaitInv
<1>3. CASE forget \/ DropRunnerEmpty \/ clear \/ yield_now \/ Event
  BY <1>3 DEF forget, DropRunnerEmpty, clear, yield_now, Event, AwaitInv
<1>4. CASE Clearing
  BY <1>4 DEF Clearing, ClearTask, ClearPlace, AwaitInv, OrderedInv
<1> QED
  BY <1>1, <1>2, <1>3, <1>4 DEF Step

\* InnerStkFuture::drop: if every polled StkFuture is kept until it has finished
\* and no closure panics, push_task refuses no task and no task is freed under its
\* own poll, whatever else panics.
THEOREM AwaitedFramesOutlivePoll ==
  ASSUME Usage = "await"
  PROVE  Spec => []FrameOutlivesPoll
<1>1. Usage # "any"
  OBVIOUS
<1>2. Init => AwaitInv
  BY DEF Init, AwaitInv
<1>3. StackInv /\ OrderedInv /\ AwaitInv /\ [Next]_vars => AwaitInv'
  <2> SUFFICES ASSUME StackInv, OrderedInv, AwaitInv, [Next]_vars PROVE AwaitInv'
    OBVIOUS
  <2>1. CASE UNCHANGED vars
    BY <2>1 DEF vars, AwaitInv
  <2> QED
    BY <2>1, AwaitTaskCall, AwaitPollEnd, AwaitRunner DEF Next
<1>4. AwaitInv => FrameOutlivesPoll
  BY DEF AwaitInv, FrameOutlivesPoll
<1> QED
  BY <1>1, <1>2, <1>3, <1>4, OrderedInvariant, PTL DEF Spec
=============================================================================
