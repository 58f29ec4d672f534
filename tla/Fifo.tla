-------------------------------- MODULE Fifo --------------------------------
(***************************************************************************)
(* What the should_poll queue of a Schedular promises: scheduled tasks     *)
(* come out once each and in the order in which they went in.  A push puts *)
(* its task in with one access and links it with a later one; until then   *)
(* pop may be unable to reach it.                                          *)
(***************************************************************************)
EXTENDS Naturals, Sequences, SequencesExt

CONSTANT Tasks

VARIABLES
  fifo,    \* the scheduled tasks, the oldest first
  linking  \* those of them whose push has not linked them yet

FifoInit == fifo = <<>> /\ linking = {}

\* A task at the end of the queue, not linked.
Swap(task) ==
  /\ fifo' = Append(fifo, task)
  /\ linking' = linking \cup {task}

Put(task) == task \notin ToSet(fifo) /\ Swap(task)

Link(task) ==
  /\ task \in linking
  /\ linking' = linking \ {task}
  /\ UNCHANGED fifo

Get ==
  /\ fifo # <<>>
  /\ Head(fifo) \notin linking
  /\ fifo' = Tail(fifo)
  /\ UNCHANGED linking

FifoNext == Get \/ \E task \in Tasks : Put(task) \/ Link(task)

FifoSpec == FifoInit /\ [][FifoNext]_<<fifo, linking>>

\* When pop may answer Empty: also if the first task is not linked, or the
\* second, which was pushed while pop looked for a task behind the first.
MayBeEmpty ==
  fifo = <<>> \/ \E i \in DOMAIN fifo : i <= 2 /\ fifo[i] \in linking

\* When pop may answer Inconsistant.
MayBeInconsistant == Len(fifo) >= 2
=============================================================================
