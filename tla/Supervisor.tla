----------------------------- MODULE Supervisor -----------------------------
(***************************************************************************)
(* The Supervisor of a runtime's worker threads (supervisor/supervisor.cpp *)
(* and supervisor.h).  The owner spawns workers, or runs one itself, then  *)
(* stops and joins them; each worker's body returns, or fails, by a value  *)
(* or an exception; a stop may also come from outside, from any thread or  *)
(* a signal handler.                                                       *)
(*                                                                         *)
(* A failure is recorded in two steps, the stop and then the cause under   *)
(* its mutex, so other threads run in between.                             *)
(***************************************************************************)
CONSTANTS
  Workers,   \* the workers the owner starts
  Failures,  \* what a worker may fail with
  NoFailure

ASSUME NoFailureAssumption == NoFailure \notin Failures

VARIABLES
  state,   \* state_
  cause,   \* failure_: the first cause
  worker,  \* where each worker is
  failing, \* the failure each worker is recording
  owner    \* whether the owner is admitting workers, joining them, or has

supervisorVars == <<state, cause, worker, failing, owner>>

SupervisorInit ==
  /\ state = "running"
  /\ cause = NoFailure
  /\ worker = [w \in Workers |-> "none"]
  /\ failing = [w \in Workers |-> NoFailure]
  /\ owner = "admitting"

StopRequested == state # "running"

(* A compare-and-swap: only the first request moves it. *)
StopState == IF state = "running" THEN "stopping" ELSE state

(***************************************************************************)
(* Spawn and Run admit a worker unless the stop is requested; a thread     *)
(* that cannot be started fails as the worker would.                       *)
(***************************************************************************)
Refuse(w) ==
  /\ owner = "admitting" /\ worker[w] = "none"
  /\ StopRequested
  /\ worker' = [worker EXCEPT ![w] = "ended"]
  /\ UNCHANGED <<state, cause, failing, owner>>

Start(w) ==
  /\ owner = "admitting" /\ worker[w] = "none"
  /\ ~StopRequested
  /\ worker' = [worker EXCEPT ![w] = "running"]
  /\ UNCHANGED <<state, cause, failing, owner>>

StartFails(w, failure) ==
  /\ owner = "admitting" /\ worker[w] = "none"
  /\ ~StopRequested
  /\ worker' = [worker EXCEPT ![w] = "failed"]
  /\ failing' = [failing EXCEPT ![w] = failure]
  /\ UNCHANGED <<state, cause, owner>>

(***************************************************************************)
(* Supervise: the body returned, or failed.                                *)
(***************************************************************************)
Return(w) ==
  /\ worker[w] = "running"
  /\ worker' = [worker EXCEPT ![w] = "ended"]
  /\ UNCHANGED <<state, cause, failing, owner>>

Fail(w, failure) ==
  /\ worker[w] = "running"
  /\ worker' = [worker EXCEPT ![w] = "failed"]
  /\ failing' = [failing EXCEPT ![w] = failure]
  /\ UNCHANGED <<state, cause, owner>>

(***************************************************************************)
(* RecordFailure requests the stop before it publishes the failure, so     *)
(* whoever sees the first cause also sees the stop; only the first failure *)
(* is the cause.                                                           *)
(***************************************************************************)

(* Mutant: a failure that comes after a stop is dropped. *)
MutStopDrops(w) ==
  /\ worker[w] = "failed"
  /\ state' = StopState
  /\ worker' = [worker EXCEPT ![w] = IF StopRequested THEN "ended" ELSE "publishing"]
  /\ UNCHANGED <<cause, failing, owner>>

RecordStop(w) ==
  /\ worker[w] = "failed"
  /\ state' = StopState
  /\ worker' = [worker EXCEPT ![w] = "publishing"]
  /\ UNCHANGED <<cause, failing, owner>>

(* Mutant: the last failure is kept as the cause. *)
MutCauseLast(failure) == failure

FirstCause(failure) == IF cause = NoFailure THEN failure ELSE cause

Publish(w) ==
  /\ worker[w] = "publishing"
  /\ cause' = FirstCause(failing[w])
  /\ worker' = [worker EXCEPT ![w] = "ended"]
  /\ UNCHANGED <<state, failing, owner>>

(* RequestStop, from outside. *)
RequestStop ==
  /\ ~StopRequested
  /\ state' = StopState
  /\ UNCHANGED <<cause, worker, failing, owner>>

(***************************************************************************)
(* StopAndJoin: the stop is requested, then every worker is waited for.    *)
(***************************************************************************)
StopToJoin ==
  /\ owner = "admitting"
  /\ state' = StopState
  /\ owner' = "joining"
  /\ UNCHANGED <<cause, worker, failing>>

(* Mutant: a worker still recording its failure is not waited for. *)
MutRecordingReturned == \A w \in Workers : worker[w] # "running"

AllReturned == \A w \in Workers : worker[w] \in {"none", "ended"}

Joined ==
  /\ owner = "joining"
  /\ AllReturned
  /\ state' = "stopped"
  /\ owner' = "joined"
  /\ UNCHANGED <<cause, worker, failing>>

SupervisorNext ==
  \/ \E w \in Workers : Refuse(w) \/ Start(w) \/ Return(w) \/ RecordStop(w) \/ Publish(w)
  \/ \E w \in Workers, failure \in Failures : StartFails(w, failure) \/ Fail(w, failure)
  \/ RequestStop \/ StopToJoin \/ Joined

SupervisorSpec == SupervisorInit /\ [][SupervisorNext]_supervisorVars

-----------------------------------------------------------------------------
WorkerStates == {"none", "running", "failed", "publishing", "ended"}

SupervisorTypeOK ==
  /\ state \in {"running", "stopping", "stopped"}
  /\ cause \in Failures \cup {NoFailure}
  /\ worker \in [Workers -> WorkerStates]
  /\ failing \in [Workers -> Failures \cup {NoFailure}]
  /\ owner \in {"admitting", "joining", "joined"}

(***************************************************************************)
(* Whoever sees the first cause also sees the stop: RecordFailure's order  *)
(* (supervisor.cpp, "The stop is requested before the failure is           *)
(* published").                                                            *)
(***************************************************************************)
CauseMeansStop == cause # NoFailure => StopRequested

(***************************************************************************)
(* The strengthening: a worker publishes only after the stop, one that is  *)
(* recording has a failure to record, and once the owner has joined no     *)
(* worker is left to change anything.                                      *)
(***************************************************************************)
SupervisorInv ==
  /\ SupervisorTypeOK
  /\ CauseMeansStop
  /\ \A w \in Workers : worker[w] = "publishing" => StopRequested
  /\ \A w \in Workers : worker[w] \in {"failed", "publishing"} => failing[w] \in Failures
  /\ owner # "admitting" => StopRequested
  /\ state = "stopped" <=> owner = "joined"
  /\ owner = "joined" => \A w \in Workers : worker[w] \in {"none", "ended"}

(***************************************************************************)
(* The Supervisor keeps the promise of OneWayStop: its state and its cause *)
(* change as that specification says.                                      *)
(***************************************************************************)
Promise == INSTANCE OneWayStop WITH
  Failures <- Failures, NoFailure <- NoFailure, state <- state, cause <- cause
KeepsPromise == Promise!Spec
=============================================================================
