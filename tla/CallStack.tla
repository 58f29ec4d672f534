----------------------------- MODULE CallStack -----------------------------
(***************************************************************************)
(* What the stack runtime promises to the code that runs on it: futures    *)
(* run on a Stack behave like recursive function calls.  A call suspends   *)
(* its caller and runs on top of it; the caller goes on when the call has  *)
(* returned or was given up; and the result of the outermost call is       *)
(* delivered at most once, after every frame is gone.  Nothing is promised *)
(* any more once a call could not be made.                                 *)
(***************************************************************************)
EXTENDS Naturals, Sequences, SequencesExt

VARIABLES
  frames,  \* the calls in progress, outermost first: "runs" or "waits"
  result   \* the result of the outermost call

callVars == <<frames, result>>

CallInit == frames = <<>> /\ result = "none"

\* The outermost call.
Start ==
  /\ frames = <<>>
  /\ result \notin {"ready", "broken"}
  /\ frames' = <<"runs">>
  /\ result' = "none"

\* The running call makes a call and waits for it.
Call ==
  /\ frames # <<>>
  /\ Last(frames) = "runs"
  /\ frames' = Front(frames) \o <<"waits", "runs">>
  /\ UNCHANGED result

\* The call on top returns, or its caller no longer wants it: the caller runs.
Return ==
  /\ Len(frames) > 1
  /\ Last(frames) = "runs"
  /\ frames' = Append(Front(Front(frames)), "runs")
  /\ UNCHANGED result

\* The outermost call returns.
Finish ==
  /\ frames = <<"runs">>
  /\ frames' = <<>>
  /\ result' = "ready"

\* The result is handed to whoever made the outermost call.
Take ==
  /\ frames = <<>>
  /\ result = "ready"
  /\ result' = "taken"
  /\ UNCHANGED frames

\* The whole computation is given up, with its result if it has one.
GiveUp ==
  /\ frames # <<>> \/ result = "ready"
  /\ frames' = <<>>
  /\ result' = IF result = "ready" THEN "lost" ELSE result

\* The running call fails to make a call.
Break ==
  /\ frames # <<>>
  /\ Last(frames) = "runs"
  /\ frames' = <<>>
  /\ result' = "broken"

CallNext == Start \/ Call \/ Return \/ Finish \/ Take \/ GiveUp \/ Break

CallSpec == CallInit /\ [][CallNext]_callVars
=============================================================================
