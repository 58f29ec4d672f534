------------------------- MODULE AtomicWakerProofs -------------------------
(***************************************************************************)
(* Proofs about AtomicWaker, for any number of threads that register and   *)
(* of threads that wake.                                                   *)
(***************************************************************************)
EXTENDS AtomicWaker, TLAPS

\* The values of the state word while a thread registers.
LEMMA RegisteringStates ==
  ASSUME NEW S \in SUBSET {REGISTERING, WAKING}, REGISTERING \in S
  PROVE  S = {REGISTERING} \/ S = {REGISTERING, WAKING}
<1>1. CASE WAKING \in S
  BY <1>1
<1>2. CASE WAKING \notin S
  BY <1>2
<1>3. QED
  BY <1>1, <1>2

\* The threads of register keep the inductive invariant, step by step.
LEMMA RegisterKeeps ==
  ASSUME WakerInv, NEW r \in Regs, Registering(r)
  PROVE  WakerInv'
<1> USE DEF WakerInv, WakerTypeOK, RegisterInv, TakeInv, CellExclusive, RegHolds,
            WakeHolds, RegLabels, WakeLabels, WAITING, REGISTERING, WAKING, Goto
<1> USE WakerAssumption
<1>1. CASE register(r)
  BY <1>1 DEF register
<1>2. CASE StoreWaker(r)
  BY <1>2 DEF StoreWaker
<1>3. CASE Unlock(r)
  <2>1. state = {REGISTERING} \/ state = {REGISTERING, WAKING}
    <3>1. state \in SUBSET {REGISTERING, WAKING} /\ REGISTERING \in state
      BY <1>3 DEF Unlock
    <3>2. QED
      BY <3>1, RegisteringStates
  <2>2. CASE state = {REGISTERING}
    BY <1>3, <2>2 DEF Unlock
  <2>3. CASE state = {REGISTERING, WAKING}
    <3>1. state # {REGISTERING}
      BY <2>3
    <3>2. state' = state /\ Goto(r, "steal")
      BY <1>3, <3>1 DEF Unlock
    <3>3. QED
      BY <1>3, <2>3, <3>2 DEF Unlock
  <2>4. QED
    BY <2>1, <2>2, <2>3
<1>4. CASE StealWaker(r)
  BY <1>4 DEF StealWaker
<1>5. CASE SwapState(r)
  BY <1>5 DEF SwapState
<1>6. CASE Rewake(r)
  BY <1>6 DEF Rewake
<1>7. CASE FindWork(r)
  <2>1. WakerTypeOK'
    <3>1. work' = FALSE /\ state' = state /\ cell' = cell /\ handle' = handle /\ got' = got
      BY <1>7 DEF FindWork
    <3>2. notified' \in SUBSET Handles
      BY <1>7 DEF FindWork
    <3>3. pc' \in [Regs \cup Wakers -> RegLabels \cup WakeLabels]
      BY <1>7 DEF FindWork
    <3>4. QED
      BY <3>1, <3>2, <3>3
  <2>2. RegisterInv'
    BY <1>7 DEF FindWork
  <2>3. TakeInv'
    BY <1>7 DEF FindWork
  <2>4. CellExclusive'
    BY <1>7 DEF FindWork
  <2>5. QED
    BY <2>1, <2>2, <2>3, <2>4
<1>8. CASE FindNothing(r)
  BY <1>8 DEF FindNothing
<1>9. QED
  BY <1>1, <1>2, <1>3, <1>4, <1>5, <1>6, <1>7, <1>8 DEF Registering

\* So do the threads of wake.
LEMMA WakingKeeps ==
  ASSUME WakerInv, NEW t \in Wakers, MakeWork(t) \/ Waking(t)
  PROVE  WakerInv'
<1> USE DEF WakerInv, WakerTypeOK, RegisterInv, TakeInv, CellExclusive, RegHolds,
            WakeHolds, RegLabels, WakeLabels, WAITING, REGISTERING, WAKING, Goto
<1> USE WakerAssumption
<1>1. CASE MakeWork(t)
  <2>1. WakerTypeOK'
    BY <1>1 DEF MakeWork
  <2>2. RegisterInv'
    BY <1>1 DEF MakeWork
  <2>3. TakeInv'
    BY <1>1 DEF MakeWork
  <2>4. CellExclusive'
    BY <1>1 DEF MakeWork
  <2>5. QED
    BY <2>1, <2>2, <2>3, <2>4
<1>2. CASE wake(t)
  <2>1. CASE state = WAITING
    BY <1>2, <2>1 DEF wake
  <2>2. CASE state # WAITING
    BY <1>2, <2>2 DEF wake
  <2>3. QED
    BY <2>1, <2>2
<1>3. CASE take(t)
  BY <1>3 DEF take
<1>4. CASE ClearWaking(t)
  BY <1>4 DEF ClearWaking
<1>5. CASE CallWaker(t)
  BY <1>5 DEF CallWaker
<1>6. QED
  BY <1>1, <1>2, <1>3, <1>4, <1>5 DEF Waking

\* And the executor, when it polls the task.
LEMMA PollKeeps ==
  ASSUME WakerInv, NEW r \in Regs, NEW h \in Handles, Poll(r, h)
  PROVE  WakerInv'
BY WakerAssumption
   DEF Poll, WakerInv, WakerTypeOK, RegisterInv, TakeInv, CellExclusive, RegHolds,
       WakeHolds, RegLabels, WakeLabels, Goto

\* The inductive invariant holds in every reachable state.
THEOREM WakerInvariant == WakerSpec => []WakerInv
<1>1. WakerInit => WakerInv
  BY WakerAssumption
     DEF WakerInit, WakerInv, WakerTypeOK, RegisterInv, TakeInv, CellExclusive, RegHolds,
         WakeHolds, RegLabels, WakeLabels, WAITING
<1>2. WakerInv /\ [WakerNext]_wakerVars => WakerInv'
  <2>1. SUFFICES ASSUME WakerInv, [WakerNext]_wakerVars
                 PROVE  WakerInv'
    OBVIOUS
  <2>2. CASE UNCHANGED wakerVars
    BY <2>1, <2>2
       DEF wakerVars, WakerInv, WakerTypeOK, RegisterInv, TakeInv, CellExclusive,
           RegHolds, WakeHolds
  <2>3. CASE WakerNext
    BY <2>1, <2>3, RegisterKeeps, WakingKeeps, PollKeeps DEF WakerNext
  <2>4. QED
    BY <2>1, <2>2, <2>3
<1>3. QED
  BY <1>1, <1>2, PTL DEF WakerSpec

\* The state word holds nothing but its two bits, the cell only wakers that were
\* registered, and only those are ever woken: Rewake and CallWaker never call None.
THEOREM WakerTypeCorrect == WakerSpec => []WakerTypeOK
<1>1. WakerInv => WakerTypeOK
  BY DEF WakerInv
<1>2. QED
  BY <1>1, WakerInvariant, PTL

\* The state word of AtomicWaker is a lock: whatever the threads do, no two of them
\* are in the sections of register and take that access the waker cell.
THEOREM CellIsExclusive == WakerSpec => []CellExclusive
<1>1. WakerInv => CellExclusive
  BY DEF WakerInv
<1>2. QED
  BY <1>1, WakerInvariant, PTL

\* The debug_assert_eq and the unwrap in register never fail.
THEOREM RegisterNeverPanics == WakerSpec => []RegisterAsserts
<1>1. WakerInv => RegisterAsserts
  BY DEF WakerInv, RegisterInv, RegisterAsserts
<1>2. QED
  BY <1>1, WakerInvariant, PTL

-----------------------------------------------------------------------------
(***************************************************************************)
(* One polling thread, as the Schedular has: no wake up is lost.           *)
(***************************************************************************)

\* The lock bits are owned, whoever steps.
LEMMA LockOwnedKept ==
  ASSUME WakerInv, LockOwned, WakerNext
  PROVE  LockOwned'
<1> USE WakerAssumption
<1> USE DEF WakerInv, WakerTypeOK, RegisterInv, TakeInv, LockOwned, CellExclusive, RegHolds,
            WakeHolds, WAITING, REGISTERING, WAKING, Goto
<1>1. ASSUME NEW r \in Regs, Registering(r)
      PROVE  LockOwned'
  <2>1. CASE register(r)
    BY <2>1 DEF register
  <2>2. CASE StoreWaker(r)
    BY <2>2 DEF StoreWaker
  <2>3. CASE Unlock(r)
    <3>1. CASE state = {REGISTERING}
      BY <2>3, <3>1 DEF Unlock
    <3>2. CASE state # {REGISTERING}
      BY <2>3, <3>2 DEF Unlock
    <3>3. QED
      BY <3>1, <3>2
  <2>4. CASE StealWaker(r)
    BY <2>4 DEF StealWaker
  <2>5. CASE SwapState(r)
    BY <2>5 DEF SwapState
  <2>6. CASE Rewake(r)
    BY <2>6 DEF Rewake
  <2>7. CASE FindWork(r)
    BY <2>7 DEF FindWork
  <2>8. CASE FindNothing(r)
    BY <2>8 DEF FindNothing
  <2>9. QED
    BY <1>1, <2>1, <2>2, <2>3, <2>4, <2>5, <2>6, <2>7, <2>8 DEF Registering
<1>2. ASSUME NEW r \in Regs, NEW h \in Handles, Poll(r, h)
      PROVE  LockOwned'
  BY <1>2 DEF Poll
<1>3. ASSUME NEW t \in Wakers, MakeWork(t) \/ Waking(t)
      PROVE  LockOwned'
  <2>1. CASE MakeWork(t)
    BY <2>1 DEF MakeWork
  <2>2. CASE wake(t)
    BY <2>2 DEF wake
  <2>3. CASE take(t)
    BY <2>3 DEF take
  <2>4. CASE ClearWaking(t)
    BY <2>4 DEF ClearWaking
  <2>5. CASE CallWaker(t)
    BY <2>5 DEF CallWaker
  <2>6. QED
    BY <1>3, <2>1, <2>2, <2>3, <2>4, <2>5 DEF Waking
<1>4. QED
  BY <1>1, <1>2, <1>3 DEF WakerNext

\* What register has promised stays promised.
LEMMA RegisteredKept ==
  ASSUME WakerInv, LockOwned, Registered, WakerNext, \A r, s \in Regs : r = s
  PROVE  Registered'
<1> USE WakerAssumption
<1> USE DEF WakerInv, WakerTypeOK, RegisterInv, TakeInv, Registered, InFlight, Goto
<1>1. ASSUME NEW r \in Regs, Registering(r)
      PROVE  Registered'
  <2> SUFFICES ASSUME pc'[r] \in {"check", "asleep"}
               PROVE  (cell = handle[r] \/ handle[r] \in notified \/ InFlight(handle[r]))'
    BY DEF Registered
  <2>1. CASE register(r)
    <3>1. state # WAITING
      BY <2>1 DEF register
    <3>2. REGISTERING \notin state
      BY <2>1 DEF register, LockOwned, RegHolds
    <3>3. state = {WAKING}
      BY <3>1, <3>2 DEF WAITING
    <3>4. QED
      BY <2>1, <3>3 DEF register
  <2>2. CASE StoreWaker(r)
    BY <2>2 DEF StoreWaker
  <2>3. CASE Unlock(r)
    BY <2>3 DEF Unlock
  <2>4. CASE StealWaker(r)
    BY <2>4 DEF StealWaker
  <2>5. CASE SwapState(r)
    BY <2>5 DEF SwapState
  <2>6. CASE Rewake(r)
    BY <2>6 DEF Rewake
  <2>7. CASE FindWork(r)
    BY <2>7 DEF FindWork
  <2>8. CASE FindNothing(r)
    BY <2>8 DEF FindNothing
  <2>9. QED
    BY <1>1, <2>1, <2>2, <2>3, <2>4, <2>5, <2>6, <2>7, <2>8 DEF Registering
<1>2. ASSUME NEW r \in Regs, NEW h \in Handles, Poll(r, h)
      PROVE  Registered'
  BY <1>2 DEF Poll
<1>3. ASSUME NEW t \in Wakers, MakeWork(t) \/ Waking(t)
      PROVE  Registered'
  <2>1. CASE MakeWork(t)
    BY <2>1 DEF MakeWork
  <2>2. CASE wake(t)
    BY <2>2 DEF wake
  <2>3. CASE take(t)
    BY <2>3 DEF take
  <2>4. CASE ClearWaking(t)
    BY <2>4 DEF ClearWaking
  <2>5. CASE CallWaker(t)
    BY <2>5 DEF CallWaker
  <2>6. QED
    BY <1>3, <2>1, <2>2, <2>3, <2>4, <2>5 DEF Waking
<1>4. QED
  BY <1>1, <1>2, <1>3 DEF WakerNext

\* The cell stays empty until the wake that emptied it has released its lock.
LEMMA TakenIsGoneKept ==
  ASSUME WakerInv, TakenIsGone, WakerNext
  PROVE  TakenIsGone'
<1> USE WakerAssumption
<1> USE DEF WakerInv, WakerTypeOK, RegisterInv, TakeInv, CellExclusive, RegHolds, WakeHolds,
            TakenIsGone, Goto
<1>1. ASSUME NEW r \in Regs, Registering(r)
      PROVE  TakenIsGone'
  BY <1>1
     DEF Registering, register, StoreWaker, Unlock, StealWaker, SwapState, Rewake, FindWork,
         FindNothing
<1>2. ASSUME NEW r \in Regs, NEW h \in Handles, Poll(r, h)
      PROVE  TakenIsGone'
  BY <1>2 DEF Poll
<1>3. ASSUME NEW t \in Wakers, MakeWork(t) \/ Waking(t)
      PROVE  TakenIsGone'
  BY <1>3 DEF MakeWork, Waking, wake, take, ClearWaking, CallWaker
<1>4. QED
  BY <1>1, <1>2, <1>3 DEF WakerNext

\* A task that sleeps on work is woken or on its way to be woken, whoever steps.
LEMMA NoLostWakeKept ==
  ASSUME SinglePollInv, WakerNext, \A r, s \in Regs : r = s
  PROVE  NoLostWake'
<1> USE WakerAssumption
<1> USE DEF SinglePollInv, WakerInv, WakerTypeOK, RegisterInv, TakeInv, NoLostWake, InFlight,
            Goto
<1>1. ASSUME NEW r \in Regs, Registering(r)
      PROVE  NoLostWake'
  <2>1. CASE FindWork(r)
    <3>1. work' = FALSE
      BY <2>1 DEF FindWork
    <3>2. QED
      BY <3>1
  <2>2. CASE FindNothing(r)
    <3>1. ~work'
      BY <2>2 DEF FindNothing
    <3>2. QED
      BY <3>1
  <2>3. CASE ~(FindWork(r) \/ FindNothing(r))
    <3>1. pc'[r] # "asleep"
      BY <1>1, <2>3
         DEF Registering, register, StoreWaker, Unlock, StealWaker, SwapState, Rewake
    <3>2. QED
      BY <3>1
  <2>4. QED
    BY <2>1, <2>2, <2>3
<1>2. ASSUME NEW r \in Regs, NEW h \in Handles, Poll(r, h)
      PROVE  NoLostWake'
  <2>1. pc'[r] # "asleep"
    BY <1>2 DEF Poll
  <2>2. QED
    BY <2>1
<1>3. ASSUME NEW t \in Wakers, MakeWork(t) \/ Waking(t)
      PROVE  NoLostWake'
  <2>1. SUFFICES ASSUME NEW r \in Regs, pc'[r] = "asleep", work', handle'[r] \notin notified'
                 PROVE  (\/ cell = handle[r] /\ \E u \in Wakers : pc[u] = "wake" \/ pc[u] = "take"
                         \/ InFlight(handle[r]))'
    BY DEF NoLostWake
  <2>2. pc[r] = "asleep" /\ handle' = handle /\ handle[r] \in Handles
    BY <1>3, <2>1 DEF MakeWork, Waking, wake, take, ClearWaking, CallWaker
  <2>3. handle[r] \notin notified
    BY <1>3, <2>1, <2>2 DEF MakeWork, Waking, wake, take, ClearWaking, CallWaker
  \* The waker is still registered: the new work announces itself.
  <2>4. CASE MakeWork(t)
    <3>1. cell = handle[r] \/ InFlight(handle[r])
      BY <2>2, <2>3 DEF Registered
    <3>2. QED
      BY <2>2, <2>4, <3>1 DEF MakeWork
  \* A wake that gets no lock leaves it to the thread that has it.
  <2>5. CASE wake(t)
    <3>1. \/ cell = handle[r] /\ \E u \in Wakers : pc[u] = "wake" \/ pc[u] = "take"
          \/ InFlight(handle[r])
      BY <2>1, <2>2, <2>3, <2>5 DEF wake
    <3>2. CASE InFlight(handle[r])
      BY <2>2, <2>5, <3>2 DEF wake
    <3>3. CASE cell = handle[r] /\ state = WAITING
      BY <2>2, <2>5, <3>3 DEF wake
    <3>4. CASE cell = handle[r] /\ state # WAITING
      <4>1. REGISTERING \notin state
        BY <2>2 DEF LockOwned, RegHolds
      <4>2. state = {WAKING}
        BY <3>4, <4>1 DEF WAITING
      <4>3. PICK u \in Wakers : WakeHolds(u)
        BY <4>2 DEF LockOwned
      <4>4. pc[u] = "take"
        BY <2>2, <3>4, <4>3 DEF WakeHolds, TakenIsGone
      <4>5. pc'[u] = "take"
        BY <2>5, <4>4 DEF wake
      <4>6. QED
        BY <2>2, <2>5, <3>4, <4>5 DEF wake
    <3>5. QED
      BY <3>1, <3>2, <3>3, <3>4
  <2>6. CASE take(t)
    BY <2>1, <2>2, <2>3, <2>6 DEF take
  <2>7. CASE ClearWaking(t)
    BY <2>1, <2>2, <2>3, <2>7 DEF ClearWaking
  <2>8. CASE CallWaker(t)
    BY <2>1, <2>2, <2>3, <2>8 DEF CallWaker
  <2>9. QED
    BY <1>3, <2>4, <2>5, <2>6, <2>7, <2>8 DEF Waking
<1>4. QED
  BY <1>1, <1>2, <1>3 DEF WakerNext

\* With one thread that polls, as the Schedular has, and any number of threads that
\* wake, a task never sleeps on work without being woken or about to be woken.
THEOREM NoWakeIsLost ==
  ASSUME \A r, s \in Regs : r = s
  PROVE  WakerSpec => []NoLostWake
<1>1. WakerInit => LockOwned /\ Registered /\ TakenIsGone /\ NoLostWake
  BY WakerAssumption
     DEF WakerInit, LockOwned, Registered, TakenIsGone, NoLostWake, WAITING, REGISTERING, WAKING
<1>2. WakerInv /\ WakerInv' /\ SinglePollInv /\ [WakerNext]_wakerVars => SinglePollInv'
  <2>1. SUFFICES ASSUME WakerInv', SinglePollInv, [WakerNext]_wakerVars
                 PROVE  SinglePollInv'
    OBVIOUS
  <2>2. CASE UNCHANGED wakerVars
    BY <2>1, <2>2
       DEF wakerVars, SinglePollInv, LockOwned, Registered, TakenIsGone, NoLostWake, InFlight,
           RegHolds, WakeHolds
  <2>3. CASE WakerNext
    BY <2>1, <2>3, LockOwnedKept, RegisteredKept, TakenIsGoneKept, NoLostWakeKept
       DEF SinglePollInv
  <2>4. QED
    BY <2>1, <2>2, <2>3
<1>3. SinglePollInv => NoLostWake
  BY DEF SinglePollInv
<1>4. WakerInit /\ WakerInv => SinglePollInv
  BY <1>1 DEF SinglePollInv
<1>5. QED
  BY <1>2, <1>3, <1>4, WakerInvariant, PTL DEF WakerSpec
=============================================================================
