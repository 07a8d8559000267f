---------------------------- MODULE SerialServer ----------------------------
(***************************************************************************)
(* What one actor promises: accepted tasks wait in the order they were     *)
(* accepted, one task at a time is executed, and it leaves before the next *)
(* one starts.                                                             *)
(***************************************************************************)
EXTENDS Sequences

CONSTANTS Tasks, Idle

VARIABLES
  pending,   \* accepted tasks that have not started
  current    \* the task being executed, or Idle

vars == <<pending, current>>

Init == pending = <<>> /\ current = Idle

Accept(t) == pending' = Append(pending, t) /\ UNCHANGED current

Start ==
  /\ current = Idle /\ pending # <<>>
  /\ current' = Head(pending)
  /\ pending' = Tail(pending)

Finish == current # Idle /\ current' = Idle /\ UNCHANGED pending

Next == Start \/ Finish \/ \E t \in Tasks : Accept(t)

Spec == Init /\ [][Next]_vars /\ WF_vars(Start) /\ WF_vars(Finish)
=============================================================================
