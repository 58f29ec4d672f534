---------------------------- MODULE AtomicWaker ----------------------------
(***************************************************************************)
(* The AtomicWaker of src/tree/schedular/atomic_waker.rs, through which    *)
(* wakers on any thread wake the task that polls a Schedular.  Every       *)
(* access to the state word, every access to the waker cell and every call *)
(* of a Waker is a step of its own.                                        *)
(*                                                                         *)
(* It is used the way Schedular::poll and schedular_wake use it: a poll    *)
(* registers its waker, then looks whether there is work (the should_poll  *)
(* queue, here the flag work), and sleeps if there is none; a thread that  *)
(* wakes makes work first and calls wake afterwards.                       *)
(***************************************************************************)
EXTENDS Naturals

CONSTANTS
  Regs,     \* threads that poll and call register
  Wakers,   \* threads that call wake
  Handles,  \* the Wakers that can be registered
  NoWaker   \* None in the cell

ASSUME WakerAssumption ==
  /\ NoWaker \notin Handles
  /\ Regs \cap Wakers = {}

VARIABLES
  state,     \* the bits set in AtomicWaker::state
  cell,      \* AtomicWaker::waker
  pc,        \* where each thread is
  handle,    \* the Waker of the Context each poll got last
  got,       \* the Waker each thread has taken from the cell
  work,      \* there is work a poll would find
  notified   \* Wakers that were woken and whose task is not polled yet

wakerVars == <<state, cell, pc, handle, got, work, notified>>

REGISTERING == "REGISTERING"
WAKING == "WAKING"
WAITING == {}

RegLabels == {"idle", "register", "store", "unlock", "steal", "swap", "rewake",
              "check", "asleep"}
WakeLabels == {"idle", "wake", "take", "clear", "call"}

WakerTypeOK ==
  /\ state \in SUBSET {REGISTERING, WAKING}
  /\ cell \in Handles \cup {NoWaker}
  /\ pc \in [Regs \cup Wakers -> RegLabels \cup WakeLabels]
  /\ handle \in [Regs -> Handles \cup {NoWaker}]
  /\ got \in [Regs \cup Wakers -> Handles \cup {NoWaker}]
  /\ work \in BOOLEAN
  /\ notified \in SUBSET Handles

WakerInit ==
  /\ state = WAITING
  /\ cell = NoWaker
  /\ pc = [t \in Regs \cup Wakers |-> "idle"]
  /\ handle = [r \in Regs |-> NoWaker]
  /\ got = [t \in Regs \cup Wakers |-> NoWaker]
  /\ work = FALSE
  /\ notified = {}

Goto(t, label) == pc' = [pc EXCEPT ![t] = label]

-----------------------------------------------------------------------------
(***************************************************************************)
(* A thread that polls: register, then look for work.                      *)
(***************************************************************************)

\* The executor polls the task, because it was woken or for a reason of its own.
Poll(r, h) ==
  /\ pc[r] \in {"idle", "asleep"}
  /\ handle' = [handle EXCEPT ![r] = h]
  /\ notified' = notified \ {handle[r]}
  /\ Goto(r, "register")
  /\ UNCHANGED <<state, cell, got, work>>

\* Variant: a register that meets a wake does not wake the task.
register_NoSelfWake(r) ==
  /\ pc[r] = "register"
  /\ state' = IF state = WAITING THEN {REGISTERING} ELSE state
  /\ Goto(r, IF state = WAITING THEN "store" ELSE "check")
  /\ UNCHANGED <<cell, handle, got, work, notified>>

\* Variant: register takes its lock while a wake is going on.
register_DuringWake(r) ==
  /\ pc[r] = "register"
  /\ state' = state \cup {REGISTERING}
  /\ Goto(r, IF REGISTERING \notin state THEN "store" ELSE "check")
  /\ UNCHANGED <<cell, handle, got, work, notified>>

\* The compare_exchange from WAITING to REGISTERING.  If a wake is going on the
\* task wakes itself; if another register is, this one is dropped.
register(r) ==
  /\ pc[r] = "register"
  /\ state' = IF state = WAITING THEN {REGISTERING} ELSE state
  /\ notified' = IF state = {WAKING} THEN notified \cup {handle[r]} ELSE notified
  /\ Goto(r, IF state = WAITING THEN "store" ELSE "check")
  /\ UNCHANGED <<cell, handle, got, work>>

\* The waker replaces the old one, or is the same.
StoreWaker(r) ==
  /\ pc[r] = "store"
  /\ cell' = handle[r]
  /\ Goto(r, "unlock")
  /\ UNCHANGED <<state, handle, got, work, notified>>

\* The compare_exchange from REGISTERING back to WAITING.
Unlock(r) ==
  /\ pc[r] = "unlock"
  /\ state' = IF state = {REGISTERING} THEN WAITING ELSE state
  /\ Goto(r, IF state = {REGISTERING} THEN "check" ELSE "steal")
  /\ UNCHANGED <<cell, handle, got, work, notified>>

\* wake was called in between: register takes the waker back, unlocks and wakes.
StealWaker(r) ==
  /\ pc[r] = "steal"
  /\ got' = [got EXCEPT ![r] = cell]
  /\ cell' = NoWaker
  /\ Goto(r, "swap")
  /\ UNCHANGED <<state, handle, work, notified>>

\* Variant: register clears the wake bit and not its lock.
SwapState_KeepsLock(r) ==
  /\ pc[r] = "swap"
  /\ state' = state \ {WAKING}
  /\ Goto(r, "rewake")
  /\ UNCHANGED <<cell, handle, got, work, notified>>

SwapState(r) ==
  /\ pc[r] = "swap"
  /\ state' = WAITING
  /\ Goto(r, "rewake")
  /\ UNCHANGED <<cell, handle, got, work, notified>>

Rewake(r) ==
  /\ pc[r] = "rewake"
  /\ notified' = notified \cup {got[r]}
  /\ got' = [got EXCEPT ![r] = NoWaker]
  /\ Goto(r, "check")
  /\ UNCHANGED <<state, cell, handle, work>>

\* After register, Schedular::poll looks into the queue.  It does what it finds
\* and looks again, or has used its budget: then it wakes itself and returns.
FindWork(r) ==
  /\ pc[r] = "check" /\ work
  /\ work' = FALSE
  /\ \/ Goto(r, "check") /\ UNCHANGED notified
     \/ Goto(r, "asleep") /\ notified' = notified \cup {handle[r]}
  /\ UNCHANGED <<state, cell, handle, got>>

\* The queue is empty: poll returns Pending.
FindNothing(r) ==
  /\ pc[r] = "check" /\ ~work
  /\ Goto(r, "asleep")
  /\ UNCHANGED <<state, cell, handle, got, work, notified>>

-----------------------------------------------------------------------------
(***************************************************************************)
(* A thread that wakes: make work, then AtomicWaker::wake.                 *)
(***************************************************************************)
MakeWork(t) ==
  /\ pc[t] = "idle"
  /\ work' = TRUE
  /\ Goto(t, "wake")
  /\ UNCHANGED <<state, cell, handle, got, notified>>

\* Variant: wake looks only at the wake bit before it takes the waker.
wake_DuringRegister(t) ==
  /\ pc[t] = "wake"
  /\ state' = state \cup {WAKING}
  /\ Goto(t, IF WAKING \notin state THEN "take" ELSE "idle")
  /\ UNCHANGED <<cell, handle, got, work, notified>>

\* The fetch_or of WAKING: only from WAITING does it give access to the cell.
wake(t) ==
  /\ pc[t] = "wake"
  /\ state' = state \cup {WAKING}
  /\ Goto(t, IF state = WAITING THEN "take" ELSE "idle")
  /\ UNCHANGED <<cell, handle, got, work, notified>>

take(t) ==
  /\ pc[t] = "take"
  /\ got' = [got EXCEPT ![t] = cell]
  /\ cell' = NoWaker
  /\ Goto(t, "clear")
  /\ UNCHANGED <<state, handle, work, notified>>

\* The fetch_and of !WAKING.
ClearWaking(t) ==
  /\ pc[t] = "clear"
  /\ state' = state \ {WAKING}
  /\ Goto(t, "call")
  /\ UNCHANGED <<cell, handle, got, work, notified>>

\* Variant: wake does not look whether there was a waker.
CallWaker_NoCheck(t) ==
  /\ pc[t] = "call"
  /\ notified' = notified \cup {got[t]}
  /\ got' = [got EXCEPT ![t] = NoWaker]
  /\ Goto(t, "idle")
  /\ UNCHANGED <<state, cell, handle, work>>

CallWaker(t) ==
  /\ pc[t] = "call"
  /\ notified' = notified \cup ({got[t]} \ {NoWaker})
  /\ got' = [got EXCEPT ![t] = NoWaker]
  /\ Goto(t, "idle")
  /\ UNCHANGED <<state, cell, handle, work>>

-----------------------------------------------------------------------------
Registering(r) ==
  \/ register(r) \/ StoreWaker(r) \/ Unlock(r)
  \/ StealWaker(r) \/ SwapState(r) \/ Rewake(r)
  \/ FindWork(r) \/ FindNothing(r)

Waking(t) == wake(t) \/ take(t) \/ ClearWaking(t) \/ CallWaker(t)

WakerNext ==
  \/ \E r \in Regs : Registering(r) \/ \E h \in Handles : Poll(r, h)
  \/ \E t \in Wakers : MakeWork(t) \/ Waking(t)

WakerSpec == WakerInit /\ [][WakerNext]_wakerVars

\* A task is polled for a first time and whenever it was woken.
Woken(r) ==
  /\ pc[r] = "idle" \/ handle[r] \in notified
  /\ \E h \in Handles : Poll(r, h)

\* Threads run on, and the executor polls new tasks and tasks that were woken.
WakerFairSpec ==
  /\ WakerSpec
  /\ \A r \in Regs : WF_wakerVars(Registering(r)) /\ WF_wakerVars(Woken(r))
  /\ \A t \in Wakers : WF_wakerVars(Waking(t))

-----------------------------------------------------------------------------
(***************************************************************************)
(* Properties.                                                             *)
(***************************************************************************)
RegHolds(r) == pc[r] \in {"store", "unlock", "steal", "swap"}
WakeHolds(t) == pc[t] \in {"take", "clear"}

\* The state word is a lock on the waker cell: never two threads in the sections
\* that access it, be they in register or in take.
CellExclusive ==
  /\ \A r, s \in Regs : RegHolds(r) /\ RegHolds(s) => r = s
  /\ \A t, u \in Wakers : WakeHolds(t) /\ WakeHolds(u) => t = u
  /\ \A r \in Regs, t \in Wakers : ~(RegHolds(r) /\ WakeHolds(t))

\* The debug_assert and the unwrap of register: a failed unlock has met exactly
\* one lock and the wake bit, and the waker it takes back is the one it stored.
RegisterAsserts ==
  \A r \in Regs : pc[r] = "steal" => state = {REGISTERING, WAKING} /\ cell = handle[r]

\* What a thread in register relies on at each of its steps.
RegisterInv ==
  \A r \in Regs :
    /\ pc[r] \in RegLabels
    /\ pc[r] # "idle" => handle[r] \in Handles
    /\ RegHolds(r) => REGISTERING \in state
    /\ pc[r] \in {"steal", "swap"} => state = {REGISTERING, WAKING}
    /\ pc[r] \in {"unlock", "steal"} => cell = handle[r]
    /\ pc[r] \in {"swap", "rewake"} => got[r] = handle[r]

\* What a thread in wake relies on.
TakeInv ==
  \A t \in Wakers :
    /\ pc[t] \in WakeLabels
    /\ WakeHolds(t) => state = {WAKING}

\* The inductive invariant.
WakerInv == WakerTypeOK /\ RegisterInv /\ TakeInv /\ CellExclusive

\* A waker on its way from the cell to its task.
InFlight(h) == \E t \in Wakers : pc[t] \in {"clear", "call"} /\ got[t] = h

\* With one thread polling, no wake up is lost: when it sleeps on work, it is
\* notified, or some thread is still on its way to wake it.
NoLostWake ==
  \A r \in Regs :
    pc[r] = "asleep" /\ work /\ handle[r] \notin notified =>
      \/ cell = handle[r] /\ \E t \in Wakers : pc[t] = "wake" \/ pc[t] = "take"
      \/ InFlight(handle[r])

\* The bits of the state word are set by a thread that still has to clear them.
LockOwned ==
  /\ REGISTERING \in state => \E r \in Regs : RegHolds(r)
  /\ state = {WAKING} => \E t \in Wakers : WakeHolds(t)

\* Once register has returned, the waker is in the cell, or its task was woken or is
\* about to be.
Registered ==
  \A r \in Regs :
    pc[r] \in {"check", "asleep"} =>
      cell = handle[r] \/ handle[r] \in notified \/ InFlight(handle[r])

\* A waker that was taken is no longer in the cell.
TakenIsGone == \A t \in Wakers : pc[t] = "clear" => cell = NoWaker

\* The inductive invariant for one polling thread.
SinglePollInv == WakerInv /\ LockOwned /\ Registered /\ TakenIsGone /\ NoLostWake

\* Work that was made is found.
WorkIsFound == work ~> ~work
=============================================================================
