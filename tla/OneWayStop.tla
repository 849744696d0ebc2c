----------------------------- MODULE OneWayStop -----------------------------
(***************************************************************************)
(* What a supervised runtime promises whoever watches it (supervisor.h):   *)
(* it is running, then stopping, then stopped, never back; its first cause *)
(* is known only once it is stopping, is never replaced, and is final once *)
(* it has stopped.                                                         *)
(***************************************************************************)
CONSTANTS Failures, NoFailure

VARIABLES state, cause

Init == state = "running" /\ cause = NoFailure

RequestStop == state = "running" /\ state' = "stopping" /\ UNCHANGED cause

Fail ==
  /\ state = "stopping"
  /\ cause = NoFailure
  /\ cause' \in Failures
  /\ UNCHANGED state

Stopped == state = "stopping" /\ state' = "stopped" /\ UNCHANGED cause

Next == RequestStop \/ Fail \/ Stopped

Spec == Init /\ [][Next]_<<state, cause>>
=============================================================================
