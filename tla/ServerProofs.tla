----------------------------- MODULE ServerProofs ----------------------------
(***************************************************************************)
(* Proofs about the threads of the server's process, Supervisor.tla and    *)
(* ServerRuntime.tla, and about the one that writes its Match captures,    *)
(* CaptureWriter.tla.                                                      *)
(*                                                                         *)
(* The Supervisor, for any number of workers and failures, keeps its       *)
(* inductive invariant and implements OneWayStop.  The runtime is a run of *)
(* the Supervisor, so all of that holds of it, and no failure it meets is  *)
(* swallowed or reported twice, whichever thread meets it.                 *)
(*                                                                         *)
(* The captures, for any capacity of the queue, number of entrants and     *)
(* bounds: three layers, each an invariant that leans on those before it.  *)
(* The line from the Simulation thread to the file is in order; each       *)
(* match's capture is told stopped or completed once, by either thread;    *)
(* and nothing of a capture that goes on is missing between what was       *)
(* written and what is in line.                                            *)
(***************************************************************************)
EXTENDS ServerRuntime, CaptureWriter, TLAPS

-----------------------------------------------------------------------------
(* The initial state satisfies the invariant (Supervisor's constructors).  *)
LEMMA InitInv == SupervisorInit => SupervisorInv
  BY NoFailureAssumption
  DEF SupervisorInit, SupervisorInv, SupervisorTypeOK, CauseMeansStop, WorkerStates,
      StopRequested, AllReturned

(* A request to stop, by compare-and-swap, is one of the three states and  *)
(* is a stop (Supervisor::RequestStop).                                    *)
LEMMA StopStateStops ==
  ASSUME SupervisorTypeOK
  PROVE  /\ StopState \in {"stopping", "stopped"}
         /\ StopState = "stopped" <=> state = "stopped"
         /\ state # "running" => StopState = state
  BY DEF SupervisorTypeOK, StopState

(* What admits a worker, or ends one whose body returned (Spawn, Supervise). *)
LEMMA WorkerStepInv ==
  ASSUME SupervisorInv, NEW w \in Workers, Refuse(w) \/ Start(w) \/ Return(w)
  PROVE  SupervisorInv'
<1>1. CASE Refuse(w)
  BY <1>1 DEF Refuse, SupervisorInv, SupervisorTypeOK, CauseMeansStop, WorkerStates,
              StopRequested, AllReturned
<1>2. CASE Start(w)
  BY <1>2 DEF Start, SupervisorInv, SupervisorTypeOK, CauseMeansStop, WorkerStates,
              StopRequested, AllReturned
<1>3. CASE Return(w)
  BY <1>3 DEF Return, SupervisorInv, SupervisorTypeOK, CauseMeansStop, WorkerStates,
              StopRequested, AllReturned
<1>4. QED
  BY <1>1, <1>2, <1>3

(* A worker that cannot be started, or fails, has a failure to record.     *)
LEMMA FailingInv ==
  ASSUME SupervisorInv, NEW w \in Workers, NEW failure \in Failures,
         StartFails(w, failure) \/ Fail(w, failure)
  PROVE  SupervisorInv'
<1>1. CASE StartFails(w, failure)
  BY <1>1 DEF StartFails, SupervisorInv, SupervisorTypeOK, CauseMeansStop, WorkerStates,
              StopRequested, AllReturned
<1>2. CASE Fail(w, failure)
  BY <1>2 DEF Fail, SupervisorInv, SupervisorTypeOK, CauseMeansStop, WorkerStates,
              StopRequested, AllReturned
<1>3. QED
  BY <1>1, <1>2

(* The two steps of RecordFailure: the stop first, so the second, which    *)
(* publishes the cause, finds the stop requested.                          *)
LEMMA RecordingInv ==
  ASSUME SupervisorInv, NEW w \in Workers, RecordStop(w) \/ Publish(w)
  PROVE  SupervisorInv'
<1>1. SupervisorTypeOK
  BY DEF SupervisorInv
<1>2. CASE RecordStop(w)
  <2>1. StopState \in {"stopping", "stopped"} /\ (StopState = "stopped" <=> state = "stopped")
    BY <1>1, StopStateStops
  <2>2. QED
    BY <1>2, <2>1
    DEF RecordStop, SupervisorInv, SupervisorTypeOK, CauseMeansStop, WorkerStates,
        StopRequested, AllReturned
<1>3. CASE Publish(w)
  <2>1. FirstCause(failing[w]) \in Failures \cup {NoFailure}
    BY <1>3 DEF Publish, FirstCause, SupervisorInv, SupervisorTypeOK
  <2>2. QED
    BY <1>3, <2>1
    DEF Publish, SupervisorInv, SupervisorTypeOK, CauseMeansStop, WorkerStates,
        StopRequested, AllReturned
<1>4. QED
  BY <1>2, <1>3

(* The owner's StopAndJoin, and a stop from outside.                       *)
LEMMA OwnerStepInv ==
  ASSUME SupervisorInv, RequestStop \/ StopToJoin \/ Joined
  PROVE  SupervisorInv'
<1>1. SupervisorTypeOK
  BY DEF SupervisorInv
<1>2. StopState \in {"stopping", "stopped"} /\ (StopState = "stopped" <=> state = "stopped")
  BY <1>1, StopStateStops
<1>3. CASE RequestStop
  BY <1>2, <1>3
  DEF RequestStop, SupervisorInv, SupervisorTypeOK, CauseMeansStop, WorkerStates,
      StopRequested, AllReturned
<1>4. CASE StopToJoin
  BY <1>2, <1>4
  DEF StopToJoin, SupervisorInv, SupervisorTypeOK, CauseMeansStop, WorkerStates,
      StopRequested, AllReturned
<1>5. CASE Joined
  BY <1>5
  DEF Joined, SupervisorInv, SupervisorTypeOK, CauseMeansStop, WorkerStates,
      StopRequested, AllReturned
<1>6. QED
  BY <1>3, <1>4, <1>5

(* Every step preserves the invariant.                                     *)
LEMMA NextInv ==
  ASSUME SupervisorInv, [SupervisorNext]_supervisorVars
  PROVE  SupervisorInv'
<1>1. CASE \E w \in Workers : Refuse(w) \/ Start(w) \/ Return(w) \/ RecordStop(w) \/ Publish(w)
  BY <1>1, WorkerStepInv, RecordingInv
<1>2. CASE \E w \in Workers, failure \in Failures : StartFails(w, failure) \/ Fail(w, failure)
  BY <1>2, FailingInv
<1>3. CASE RequestStop \/ StopToJoin \/ Joined
  BY <1>3, OwnerStepInv
<1>4. CASE UNCHANGED supervisorVars
  BY <1>4
  DEF supervisorVars, SupervisorInv, SupervisorTypeOK, CauseMeansStop, WorkerStates,
      StopRequested, AllReturned
<1>5. QED
  BY <1>1, <1>2, <1>3, <1>4 DEF SupervisorNext

-----------------------------------------------------------------------------
(* The invariant holds of every behaviour: in particular no cause is       *)
(* visible without its stop, and when the owner has joined no worker is    *)
(* left (Supervisor::RecordFailure, StopAndJoin).                          *)
THEOREM SupervisorInvariant == SupervisorSpec => []SupervisorInv
<1>1. SupervisorInit => SupervisorInv
  BY InitInv
<1>2. SupervisorInv /\ [SupervisorNext]_supervisorVars => SupervisorInv'
  BY NextInv
<1>3. QED
  BY <1>1, <1>2, PTL DEF SupervisorSpec

(* Whoever sees the first cause also sees the stop (RecordFailure).        *)
THEOREM CauseNeverBeforeStop == SupervisorSpec => []CauseMeansStop
<1>1. SupervisorInv => CauseMeansStop
  BY DEF SupervisorInv
<1>2. QED
  BY <1>1, SupervisorInvariant, PTL

(* A step of the Supervisor is a step of OneWayStop, or changes nothing it *)
(* sees.                                                                   *)
LEMMA StepKeepsPromise ==
  ASSUME SupervisorInv, [SupervisorNext]_supervisorVars
  PROVE  [Promise!Next]_<<state, cause>>
<1>1. SupervisorTypeOK
  BY DEF SupervisorInv
<1>2. ASSUME state' = StopState, UNCHANGED cause
      PROVE  [Promise!Next]_<<state, cause>>
  <2>1. CASE state = "running"
    BY <1>2, <2>1 DEF StopState, Promise!Next, Promise!RequestStop
  <2>2. CASE state # "running"
    BY <1>2, <2>2 DEF StopState
  <2>3. QED
    BY <2>1, <2>2
<1>3. ASSUME NEW w \in Workers, Publish(w)
      PROVE  [Promise!Next]_<<state, cause>>
  <2>1. failing[w] \in Failures /\ state # "running" /\ state # "stopped"
    BY <1>3 DEF Publish, SupervisorInv, StopRequested, AllReturned
  <2>2. state = "stopping"
    BY <1>1, <2>1 DEF SupervisorTypeOK
  <2>3. CASE cause = NoFailure
    BY <1>3, <2>1, <2>2, <2>3 DEF Publish, FirstCause, Promise!Next, Promise!Fail
  <2>4. CASE cause # NoFailure
    BY <1>3, <2>4 DEF Publish, FirstCause
  <2>5. QED
    BY <2>3, <2>4
<1>4. ASSUME Joined
      PROVE  [Promise!Next]_<<state, cause>>
  <2>1. state = "stopping"
    BY <1>1, <1>4 DEF Joined, SupervisorInv, SupervisorTypeOK, StopRequested
  <2>2. QED
    BY <1>4, <2>1 DEF Joined, Promise!Next, Promise!Stopped
<1>5. CASE UNCHANGED <<state, cause>>
  BY <1>5
<1>6. CASE SupervisorNext
  <2>1. CASE \E w \in Workers : Refuse(w) \/ Start(w) \/ Return(w)
    BY <2>1 DEF Refuse, Start, Return
  <2>2. CASE \E w \in Workers : RecordStop(w)
    BY <2>2, <1>2 DEF RecordStop
  <2>3. CASE \E w \in Workers : Publish(w)
    BY <2>3, <1>3
  <2>4. CASE \E w \in Workers, failure \in Failures : StartFails(w, failure) \/ Fail(w, failure)
    BY <2>4 DEF StartFails, Fail
  <2>5. CASE RequestStop
    BY <2>5, <1>2 DEF RequestStop
  <2>6. CASE StopToJoin
    BY <2>6, <1>2 DEF StopToJoin
  <2>7. CASE Joined
    BY <2>7, <1>4
  <2>8. QED
    BY <1>6, <2>1, <2>2, <2>3, <2>4, <2>5, <2>6, <2>7 DEF SupervisorNext
<1>7. CASE UNCHANGED supervisorVars
  BY <1>7 DEF supervisorVars
<1>8. QED
  BY <1>6, <1>7

(* The Supervisor keeps OneWayStop's promise to whoever watches it: the    *)
(* state only goes forward, and the cause, once known, is never replaced.  *)
THEOREM SupervisorKeepsPromise == SupervisorSpec => KeepsPromise
<1>1. SupervisorInit => Promise!Init
  BY DEF SupervisorInit, Promise!Init
<1>2. SupervisorInv /\ [SupervisorNext]_supervisorVars => [Promise!Next]_<<state, cause>>
  BY StepKeepsPromise
<1>3. QED
  BY <1>1, <1>2, SupervisorInvariant, PTL DEF SupervisorSpec, KeepsPromise, Promise!Spec

-----------------------------------------------------------------------------
(***************************************************************************)
(* A failure is on its way to the cause: published, being recorded, or     *)
(* taken by the Simulation loop, which finishes the captures first.        *)
(***************************************************************************)
OnItsWay ==
  \/ cause # NoFailure
  \/ \E w \in Workers : worker[w] \in {"failed", "publishing"}
  \/ /\ worker["simulation"] = "running" /\ at["simulation"] = "finish"
     /\ ended # NoFailure

\* Where in its loop a worker has not yet asked latch l since it last worked.
StillAsks(l) == IF l = "transport" THEN {"transport"} ELSE {"transport", "invariant"}

(***************************************************************************)
(* The strengthening.  What is said to have failed was met; what a latch   *)
(* holds a worker will still ask for, unless the server is failing         *)
(* already; what was taken, thrown or could not be started is on its way;  *)
(* and once Run has returned, nothing more is met.                         *)
(***************************************************************************)
TruthOfFailures ==
  /\ {cause, ended} \subseteq met \cup {NoFailure}
  /\ \A w \in Workers : worker[w] \in {"failed", "publishing"} => failing[w] \in met

NothingLeftBehind ==
  /\ recorded \subseteq met
  /\ lost <=> "capture" \in met
  /\ (met \ {"capture"}) \ held # {} => OnItsWay
  /\ \A l \in held : OnItsWay \/ \E w \in Workers : worker[w] = "running" /\ at[w] \in StillAsks(l)

OverIsOver == outcome # Running => owner = "joined" /\ finished

TakenOnce == reports = [l \in Latches |-> IF l \in recorded \ held THEN 1 ELSE 0]

KnownFailures ==
  /\ ended \in Failures \cup {NoFailure} /\ met \subseteq Failures
  /\ met \cap Latches = recorded

FailuresInv ==
  /\ TypeOK
  /\ KnownFailures
  /\ TruthOfFailures
  /\ NothingLeftBehind
  /\ OverIsOver
  /\ TakenOnce
  /\ NothingSwallowed

RuntimeIInv == SupervisorInv /\ FailuresInv

-----------------------------------------------------------------------------
(* Everything the runtime does to its Supervisor is a step of it, with a   *)
(* failure the Supervisor knows (server.cpp's use of supervisor.h).        *)
LEMMA StepIsSupervisors ==
  ASSUME ended \in Failures \cup {NoFailure}, Next
  PROVE  [SupervisorNext]_supervisorVars
<1>. USE DEF runtimeVars
<1>1. "network" \in Workers /\ "simulation" \in Workers
  BY RuntimeWorkers
<1>2. ASSUME NEW w \in Workers, NEW failure \in Failures, Fail(w, failure) \/ StartFails(w, failure)
      PROVE  SupervisorNext
  BY <1>2 DEF SupervisorNext
<1>3. {"thrown", "creation", "capture", "transport", "invariant"} \subseteq Failures
  BY RuntimeFailures
<1>4. CASE RunStep
  <2>1. CASE SpawnNetwork
    BY <1>1, <1>2, <1>3, <2>1 DEF SpawnNetwork, Admit, SupervisorNext
  <2>2. CASE RunSimulation
    BY <1>1, <2>2 DEF RunSimulation, SupervisorNext
  <2>3. CASE JoinNetwork
    BY <2>3 DEF JoinNetwork, SupervisorNext
  <2>4. CASE RunReturns
    BY <2>4 DEF RunReturns
  <2>5. QED
    BY <1>4, <2>1, <2>2, <2>3, <2>4 DEF RunStep
<1>5. ASSUME NEW w \in Workers, NEW next, Work(w, next) \/ WorkThrows(w)
      PROVE  [SupervisorNext]_supervisorVars
  BY <1>2, <1>3, <1>5 DEF Work, WorkThrows
<1>6. CASE NetworkStep
  <2>1. CASE NetworkCheck
    BY <1>1, <2>1 DEF NetworkCheck, SupervisorNext
  <2>2. ASSUME NEW l \in Failures, NEW next, NetworkTakes(l, next)
        PROVE  [SupervisorNext]_supervisorVars
    BY <1>1, <1>2, <2>2 DEF NetworkTakes
  <2>3. QED
    BY <1>1, <1>3, <1>5, <1>6, <2>1, <2>2 DEF NetworkStep
<1>7. CASE SimulationStep
  <2>1. CASE TickCheck
    BY <2>1 DEF TickCheck
  <2>2. ASSUME NEW l, NEW next, SimulationTakes(l, next)
        PROVE  [SupervisorNext]_supervisorVars
    BY <2>2 DEF SimulationTakes
  <2>3. CASE FinishCapture
    <3>1. SimulationResult \in Failures \cup {NoFailure}
      BY <1>3 DEF SimulationResult
    <3>2. QED
      BY <1>1, <1>2, <2>3, <3>1 DEF FinishCapture, SupervisorNext
  <2>4. QED
    BY <1>1, <1>5, <1>7, <2>1, <2>2, <2>3 DEF SimulationStep
<1>8. CASE WriterLoses
  BY <1>8 DEF WriterLoses
<1>9. CASE Stop
  BY <1>9 DEF Stop, SupervisorNext
<1>10. CASE \E w \in Workers : Recording(w)
  BY <1>10 DEF Recording, SupervisorNext
<1>11. QED
  BY <1>4, <1>6, <1>7, <1>8, <1>9, <1>10 DEF Next


(***************************************************************************)
(* A round or a tick records what it meets, or throws it (Work).           *)
(***************************************************************************)
LEMMA WorkInv ==
  ASSUME RuntimeIInv, NEW w \in Workers, Work(w, "transport") \/ WorkThrows(w)
  PROVE  FailuresInv'
<1>. USE RuntimeWorkers, RuntimeFailures, NoFailureAssumption
     DEF RuntimeIInv, FailuresInv, TypeOK, KnownFailures, Latches, Goto, Running,
         runtimeVars, supervisorVars, SupervisorInv, SupervisorTypeOK, WorkerStates, StopRequested
<1>1. owner # "joined" /\ outcome = Running
  <2>1. CASE Work(w, "transport")
    BY <2>1 DEF Work, OverIsOver
  <2>2. CASE WorkThrows(w)
    BY <2>2 DEF WorkThrows, Fail, OverIsOver
  <2>3. QED
    BY <2>1, <2>2
<1>2. CASE Work(w, "transport")
  <2>1. TypeOK' /\ KnownFailures'
    <3>1. CASE UNCHANGED <<recorded, held, met>>
      BY <1>2, <3>1 DEF Work
    <3>2. ASSUME NEW l \in Latches, Record(l)
          PROVE  TypeOK' /\ KnownFailures'
      BY <1>2, <3>2 DEF Work, Record
    <3>3. QED
      BY <1>2, <3>1, <3>2 DEF Work
  <2>2. TruthOfFailures'
    BY <1>2 DEF Work, Record, TruthOfFailures
  <2>3. NothingLeftBehind'
    BY <1>2 DEF Work, Record, NothingLeftBehind, OnItsWay, StillAsks
  <2>4. OverIsOver' /\ NothingSwallowed'
    BY <1>1, <1>2 DEF Work, OverIsOver, NothingSwallowed
  <2>5. TakenOnce'
    BY <1>2 DEF Work, Record, TakenOnce
  <2>6. QED
    BY <2>1, <2>2, <2>3, <2>4, <2>5
<1>3. CASE WorkThrows(w)
  <2>1. TypeOK' /\ KnownFailures'
    BY <1>3 DEF WorkThrows
  <2>2. TruthOfFailures'
    BY <1>3 DEF WorkThrows, Fail, TruthOfFailures
  <2>3. NothingLeftBehind'
    BY <1>3 DEF WorkThrows, Fail, NothingLeftBehind, OnItsWay, StillAsks
  <2>4. OverIsOver' /\ NothingSwallowed'
    BY <1>1, <1>3 DEF WorkThrows, OverIsOver, NothingSwallowed
  <2>5. TakenOnce'
    BY <1>3 DEF WorkThrows, TakenOnce
  <2>6. QED
    BY <2>1, <2>2, <2>3, <2>4, <2>5
<1>4. QED
  BY <1>2, <1>3

(***************************************************************************)
(* The network worker looks at the stop and at each latch in turn          *)
(* (NetworkThreadMain, ServedResult).                                      *)
(***************************************************************************)
LEMMA NetworkInv ==
  ASSUME RuntimeIInv,
         \/ NetworkCheck
         \/ NetworkTakes("transport", "invariant") \/ NetworkTakes("invariant", "check")
  PROVE  FailuresInv'
<1>. USE RuntimeWorkers, RuntimeFailures, NoFailureAssumption
     DEF RuntimeIInv, FailuresInv, TypeOK, KnownFailures, Latches, Goto, Running,
         runtimeVars, supervisorVars, SupervisorInv, SupervisorTypeOK, WorkerStates, StopRequested
<1>1. owner # "joined" /\ outcome = Running
  BY DEF NetworkCheck, NetworkTakes, OverIsOver
<1>2. CASE NetworkCheck
  <2>1. TypeOK' /\ KnownFailures'
    BY <1>2 DEF NetworkCheck
  <2>2. TruthOfFailures'
    BY <1>2 DEF NetworkCheck, Return, TruthOfFailures
  <2>3. NothingLeftBehind'
    BY <1>2 DEF NetworkCheck, Return, NothingLeftBehind, OnItsWay, StillAsks
  <2>4. OverIsOver' /\ NothingSwallowed' /\ TakenOnce'
    BY <1>1, <1>2 DEF NetworkCheck, OverIsOver, NothingSwallowed, TakenOnce
  <2>5. QED
    BY <2>1, <2>2, <2>3, <2>4
<1>3. ASSUME NEW l \in Latches, NEW next \in {"invariant", "check"}, NetworkTakes(l, next),
             l = "transport" => next = "invariant"
      PROVE  FailuresInv'
  <2>1. TypeOK' /\ KnownFailures'
    BY <1>3, ZenonT(30) DEF NetworkTakes, Take
  <2>2. TruthOfFailures'
    BY <1>3 DEF NetworkTakes, Fail, TruthOfFailures, NothingLeftBehind
  <2>3. NothingLeftBehind'
    <3>1. CASE l \in held
      <4>1. OnItsWay'
        BY <1>3, <3>1 DEF NetworkTakes, Fail, OnItsWay
      <4>2. QED
        BY <1>3, <4>1 DEF NetworkTakes, NothingLeftBehind
    <3>2. CASE l \notin held
      <4>1. OnItsWay' <=> OnItsWay
        BY <1>3, <3>2 DEF NetworkTakes, OnItsWay
      <4>2. ASSUME NEW k \in held, NEW v \in Workers, worker[v] = "running", at[v] \in StillAsks(k)
            PROVE  worker'[v] = "running" /\ at'[v] \in StillAsks(k)
        BY <1>3, <3>2, <4>2 DEF NetworkTakes, StillAsks
      <4>3. QED
        BY <1>3, <3>2, <4>1, <4>2 DEF NetworkTakes, NothingLeftBehind
    <3>3. QED
      BY <3>1, <3>2
  <2>4. OverIsOver' /\ NothingSwallowed'
    BY <1>1, <1>3 DEF NetworkTakes, OverIsOver, NothingSwallowed
  <2>5. TakenOnce'
    BY <1>3 DEF NetworkTakes, Take, Reported, TakenOnce
  <2>6. QED
    BY <2>1, <2>2, <2>3, <2>4, <2>5
<1>4. QED
  BY <1>2, <1>3

(***************************************************************************)
(* The Simulation loop looks at the stop, the captures' loss and each      *)
(* latch in turn, and finishes the captures however it ended               *)
(* (TickUntilStopped, SimulationLoop).                                     *)
(***************************************************************************)
LEMMA SimulationInv ==
  ASSUME RuntimeIInv,
         \/ TickCheck \/ FinishCapture
         \/ SimulationTakes("transport", "invariant") \/ SimulationTakes("invariant", "check")
  PROVE  FailuresInv'
<1>. USE RuntimeWorkers, RuntimeFailures, NoFailureAssumption
     DEF RuntimeIInv, FailuresInv, TypeOK, KnownFailures, Latches, Goto, Running,
         runtimeVars, supervisorVars, SupervisorInv, SupervisorTypeOK, WorkerStates, StopRequested
<1>1. owner # "joined" /\ outcome = Running /\ worker["simulation"] = "running"
  BY DEF TickCheck, SimulationTakes, FinishCapture, OverIsOver
<1>2. CASE TickCheck
  <2>1. TypeOK' /\ KnownFailures'
    BY <1>2 DEF TickCheck
  <2>2. TruthOfFailures'
    BY <1>2 DEF TickCheck, LossKnown, TruthOfFailures, NothingLeftBehind
  <2>3. NothingLeftBehind'
    <3>1. OnItsWay => OnItsWay'
      BY <1>2 DEF TickCheck, OnItsWay
    <3>2. ASSUME NEW k \in held, NEW v \in Workers, worker[v] = "running", at[v] \in StillAsks(k)
          PROVE  worker'[v] = "running" /\ at'[v] \in StillAsks(k)
      BY <1>2, <3>2 DEF TickCheck, StillAsks
    <3>3. QED
      BY <1>2, <3>1, <3>2 DEF TickCheck, NothingLeftBehind
  <2>4. OverIsOver' /\ NothingSwallowed' /\ TakenOnce'
    BY <1>1, <1>2 DEF TickCheck, OverIsOver, NothingSwallowed, TakenOnce
  <2>5. QED
    BY <2>1, <2>2, <2>3, <2>4
<1>3. ASSUME NEW l \in Latches, NEW next \in {"invariant", "check"}, SimulationTakes(l, next),
             l = "transport" => next = "invariant"
      PROVE  FailuresInv'
  <2>1. TypeOK' /\ KnownFailures'
    BY <1>3, ZenonT(30) DEF SimulationTakes, Take
  <2>2. TruthOfFailures'
    BY <1>3 DEF SimulationTakes, TruthOfFailures, NothingLeftBehind
  <2>3. NothingLeftBehind'
    <3>1. CASE l \in held
      <4>1. OnItsWay'
        BY <1>1, <1>3, <3>1 DEF SimulationTakes, OnItsWay
      <4>2. QED
        BY <1>3, <4>1 DEF SimulationTakes, NothingLeftBehind
    <3>2. CASE l \notin held
      <4>1. OnItsWay => OnItsWay'
        BY <1>3, <3>2 DEF SimulationTakes, OnItsWay
      <4>2. ASSUME NEW k \in held, NEW v \in Workers, worker[v] = "running", at[v] \in StillAsks(k)
            PROVE  worker'[v] = "running" /\ at'[v] \in StillAsks(k)
        BY <1>3, <3>2, <4>2 DEF SimulationTakes, StillAsks
      <4>3. QED
        BY <1>3, <3>2, <4>1, <4>2 DEF SimulationTakes, NothingLeftBehind
    <3>3. QED
      BY <3>1, <3>2
  <2>4. OverIsOver' /\ NothingSwallowed'
    BY <1>1, <1>3 DEF SimulationTakes, OverIsOver, NothingSwallowed
  <2>5. TakenOnce'
    BY <1>3 DEF SimulationTakes, Take, Reported, TakenOnce
  <2>6. QED
    BY <2>1, <2>2, <2>3, <2>4, <2>5
<1>4. CASE FinishCapture
  <2>1. TypeOK' /\ KnownFailures'
    BY <1>4 DEF FinishCapture
  <2>2. SimulationResult # NoFailure => SimulationResult \in met /\ SimulationResult \in Failures
    BY DEF SimulationResult, TruthOfFailures, NothingLeftBehind
  <2>3. TruthOfFailures'
    BY <1>4, <2>2 DEF FinishCapture, Return, Fail, TruthOfFailures
  <2>4. NothingLeftBehind'
    <3>1. OnItsWay => OnItsWay'
      BY <1>4 DEF FinishCapture, SimulationResult, Return, Fail, OnItsWay
    <3>2. ASSUME NEW k \in held, NEW v \in Workers, worker[v] = "running", at[v] \in StillAsks(k)
          PROVE  worker'[v] = "running" /\ at'[v] \in StillAsks(k)
      BY <1>4, <3>2 DEF FinishCapture, Return, Fail, StillAsks
    <3>3. QED
      BY <1>4, <3>1, <3>2 DEF FinishCapture, NothingLeftBehind
  <2>5. OverIsOver' /\ NothingSwallowed' /\ TakenOnce'
    BY <1>1, <1>4 DEF FinishCapture, OverIsOver, NothingSwallowed, TakenOnce
  <2>6. QED
    BY <2>1, <2>3, <2>4, <2>5
<1>5. QED
  BY <1>2, <1>3, <1>4

(***************************************************************************)
(* Run's own steps, on the thread that owns the Supervisor (Spawn, Run,    *)
(* StopAndJoin and what Run returns), and the capture writer's loss.       *)
(***************************************************************************)
LEMMA RunInv ==
  ASSUME RuntimeIInv, RunStep \/ WriterLoses
  PROVE  FailuresInv'
<1>. USE RuntimeWorkers, RuntimeFailures, NoFailureAssumption
     DEF RuntimeIInv, FailuresInv, TypeOK, KnownFailures, Latches, Goto, Running,
         runtimeVars, supervisorVars, SupervisorInv, SupervisorTypeOK, WorkerStates, StopRequested
<1>1. CASE SpawnNetwork
  <2>1. owner # "joined" /\ outcome = Running
    BY <1>1 DEF SpawnNetwork, Admit, Refuse, Start, StartFails, OverIsOver
  <2>2. CASE (Refuse("network") \/ Start("network")) /\ UNCHANGED runtimeVars
    <3>1. OnItsWay => OnItsWay'
      BY <2>2 DEF Refuse, Start, OnItsWay
    <3>2. ASSUME NEW k \in held, NEW v \in Workers, worker[v] = "running", at[v] \in StillAsks(k)
          PROVE  worker'[v] = "running" /\ at'[v] \in StillAsks(k)
      BY <2>2, <3>2 DEF Refuse, Start
    <3>3. NothingLeftBehind'
      BY <2>2, <3>1, <3>2 DEF NothingLeftBehind
    <3>4. TruthOfFailures'
      BY <2>2 DEF Refuse, Start, TruthOfFailures
    <3>5. QED
      BY <2>1, <2>2, <3>3, <3>4 DEF OverIsOver, NothingSwallowed, TakenOnce
  <2>3. CASE StartFails("network", "creation") /\ met' = met \cup {"creation"}
             /\ UNCHANGED <<recorded, held, at, ended, lost, finished, outcome, reports>>
    <3>1. OnItsWay'
      BY <2>3 DEF StartFails, OnItsWay
    <3>2. NothingLeftBehind'
      BY <2>3, <3>1 DEF NothingLeftBehind
    <3>3. TruthOfFailures'
      BY <2>3 DEF StartFails, TruthOfFailures
    <3>4. QED
      BY <2>1, <2>3, <3>2, <3>3 DEF OverIsOver, NothingSwallowed, TakenOnce
  <2>4. QED
    BY <1>1, <2>2, <2>3 DEF SpawnNetwork, Admit
<1>2. CASE RunSimulation
  <2>1. owner # "joined" /\ outcome = Running
    BY <1>2 DEF RunSimulation, Refuse, Start, OverIsOver
  <2>2. OnItsWay => OnItsWay'
    BY <1>2 DEF RunSimulation, Refuse, Start, OnItsWay
  <2>3. ASSUME NEW k \in held, NEW v \in Workers, worker[v] = "running", at[v] \in StillAsks(k)
        PROVE  worker'[v] = "running" /\ at'[v] \in StillAsks(k)
    BY <1>2, <2>3 DEF RunSimulation, Refuse, Start
  <2>4. NothingLeftBehind'
    BY <1>2, <2>2, <2>3 DEF RunSimulation, NothingLeftBehind
  <2>5. TruthOfFailures'
    BY <1>2 DEF RunSimulation, Refuse, Start, TruthOfFailures
  <2>6. QED
    BY <1>2, <2>1, <2>4, <2>5 DEF RunSimulation, OverIsOver, NothingSwallowed, TakenOnce
<1>3. CASE JoinNetwork
  <2>1. owner # "joined" /\ outcome = Running
    BY <1>3 DEF JoinNetwork, StopToJoin, Joined, OverIsOver
  <2>2. UNCHANGED <<cause, worker, failing, runtimeVars>>
    BY <1>3 DEF JoinNetwork, StopToJoin, Joined
  <2>3. QED
    BY <2>1, <2>2
    DEF OverIsOver, NothingSwallowed, TakenOnce, TruthOfFailures, NothingLeftBehind, OnItsWay
<1>4. CASE RunReturns
  <2>1. UNCHANGED <<cause, worker, failing, recorded, held, at, ended, lost, met, reports>>
    BY <1>4 DEF RunReturns
  <2>2. TruthOfFailures' /\ NothingLeftBehind' /\ TakenOnce' /\ OverIsOver'
    BY <1>4, <2>1
    DEF RunReturns, OverIsOver, TakenOnce, TruthOfFailures, NothingLeftBehind, OnItsWay
  <2>3. \A w \in Workers : worker[w] \in {"none", "ended"}
    BY <1>4 DEF RunReturns
  <2>4. cause = NoFailure => ~OnItsWay /\ held = {}
    BY <2>3 DEF OnItsWay, NothingLeftBehind
  <2>5. NothingSwallowed'
    BY <1>4, <2>1, <2>4 DEF RunReturns, NothingSwallowed, NothingLeftBehind, TruthOfFailures
  <2>6. QED
    BY <1>4, <2>1, <2>2, <2>5 DEF RunReturns
<1>5. CASE WriterLoses
  <2>1. owner # "joined" \/ ~finished
    BY <1>5 DEF WriterLoses
  <2>2. outcome = Running
    BY <1>5 DEF WriterLoses, OverIsOver
  <2>3. OnItsWay' <=> OnItsWay
    BY <1>5 DEF WriterLoses, OnItsWay
  <2>4. NothingLeftBehind'
    BY <1>5, <2>3 DEF WriterLoses, NothingLeftBehind
  <2>5. TruthOfFailures' /\ TakenOnce' /\ OverIsOver' /\ NothingSwallowed'
    BY <1>5, <2>2 DEF WriterLoses, TruthOfFailures, TakenOnce, OverIsOver, NothingSwallowed
  <2>6. QED
    BY <1>5, <2>4, <2>5 DEF WriterLoses
<1>6. QED
  BY <1>1, <1>2, <1>3, <1>4, <1>5 DEF RunStep

(***************************************************************************)
(* A stop from outside, and the two steps by which a failure becomes the   *)
(* cause (Supervisor::RecordFailure).                                      *)
(***************************************************************************)
LEMMA RecordingFailuresInv ==
  ASSUME RuntimeIInv, Stop \/ (\E w \in Workers : Recording(w)) \/ UNCHANGED vars
  PROVE  FailuresInv'
<1>. USE RuntimeWorkers, RuntimeFailures, NoFailureAssumption
     DEF RuntimeIInv, FailuresInv, TypeOK, KnownFailures, Latches, Goto, Running,
         runtimeVars, supervisorVars, SupervisorInv, SupervisorTypeOK, WorkerStates, StopRequested
<1>1. CASE Stop \/ UNCHANGED vars
  <2>1. UNCHANGED <<cause, worker, failing, owner, runtimeVars>>
    BY <1>1 DEF Stop, RequestStop, vars
  <2>2. QED
    BY <2>1
    DEF OverIsOver, NothingSwallowed, TakenOnce, TruthOfFailures, NothingLeftBehind, OnItsWay
<1>2. ASSUME NEW w \in Workers, RecordStop(w) \/ Publish(w), UNCHANGED runtimeVars
      PROVE  FailuresInv'
  <2>1. owner # "joined" /\ outcome = Running
    BY <1>2 DEF RecordStop, Publish, OverIsOver
  <2>2. TruthOfFailures'
    BY <1>2 DEF RecordStop, Publish, FirstCause, TruthOfFailures
  <2>3. OnItsWay'
    BY <1>2 DEF RecordStop, Publish, FirstCause, OnItsWay
  <2>4. NothingLeftBehind'
    BY <1>2, <2>3 DEF NothingLeftBehind
  <2>5. QED
    BY <1>2, <2>1, <2>2, <2>4 DEF OverIsOver, NothingSwallowed, TakenOnce
<1>3. QED
  BY <1>1, <1>2 DEF Recording

-----------------------------------------------------------------------------
(* The runtime starts with nothing met and nothing recorded.               *)
LEMMA InitRuntimeInv == Init => RuntimeIInv
<1>. SUFFICES ASSUME Init PROVE RuntimeIInv
  OBVIOUS
<1>1. SupervisorInv
  BY InitInv DEF Init
<1>2. FailuresInv
  BY RuntimeWorkers, RuntimeFailures, NoFailureAssumption
  DEF Init, SupervisorInit, FailuresInv, TypeOK, KnownFailures, Latches, Running,
      TruthOfFailures, NothingLeftBehind, OverIsOver, TakenOnce, NothingSwallowed
<1>3. QED
  BY <1>1, <1>2 DEF RuntimeIInv

(* Every step of the server preserves the strengthening.                   *)
LEMMA NextRuntimeInv == RuntimeIInv /\ [Next]_vars => RuntimeIInv'
<1>. SUFFICES ASSUME RuntimeIInv, [Next]_vars PROVE RuntimeIInv'
  OBVIOUS
<1>1. [SupervisorNext]_supervisorVars
  BY StepIsSupervisors DEF RuntimeIInv, FailuresInv, KnownFailures, vars
<1>2. SupervisorInv'
  BY <1>1, NextInv DEF RuntimeIInv
<1>3. FailuresInv'
  BY RuntimeWorkers,
     WorkInv, NetworkInv, SimulationInv, RunInv, RecordingFailuresInv
  DEF Next, NetworkStep, SimulationStep
<1>4. QED
  BY <1>2, <1>3 DEF RuntimeIInv

(***************************************************************************)
(* No failure the server meets is swallowed, and none is reported by both  *)
(* workers: once Run has returned, it says it failed, with one it met      *)
(* (ServedResult, Run and FailureLatch::Take).                             *)
(***************************************************************************)
THEOREM RuntimeInvariant == Spec => []RuntimeInv
<1>1. Spec => []RuntimeIInv
  BY InitRuntimeInv, NextRuntimeInv, PTL DEF Spec
<1>2. RuntimeIInv => RuntimeInv
  BY DEF RuntimeIInv, FailuresInv, RuntimeInv, ReportedOnce, TakenOnce
<1>3. QED
  BY <1>1, <1>2, PTL

(***************************************************************************)
(* The runtime's two threads are workers of a Supervisor: whatever they    *)
(* meet, its state and cause change as the Supervisor says, so its         *)
(* invariant and its promise hold of the server (server.cpp over           *)
(* supervisor.h).                                                          *)
(***************************************************************************)
THEOREM RuntimeIsSupervised == Spec => SupervisorSpec
<1>1. Init => SupervisorInit
  BY DEF Init
<1>2. RuntimeIInv /\ [Next]_vars => [SupervisorNext]_supervisorVars
  BY StepIsSupervisors DEF RuntimeIInv, FailuresInv, KnownFailures, vars
<1>3. Spec => []RuntimeIInv
  BY InitRuntimeInv, NextRuntimeInv, PTL DEF Spec
<1>4. QED
  BY <1>1, <1>2, <1>3, PTL DEF Spec, SupervisorSpec

(* The server never goes back on a stop, nor replaces the cause it stops   *)
(* on: OneWayStop's promise, kept by the whole runtime.                    *)
THEOREM RuntimeKeepsPromise == Spec => KeepsPromise
  BY RuntimeIsSupervised, SupervisorKeepsPromise, PTL

-----------------------------------------------------------------------------
USE CaptureAssumption DEF None, Idle, Item

-----------------------------------------------------------------------------
Items == [kind : {"open", "record", "close"}, match : Matches, record : Nat]

CaptureTyped ==
  /\ mode \in {"optional", "strict"}
  /\ sim \in {"check", "tick", "begin", "open", "joins", "events", "close", "finish", "finished"}
  /\ open \in BOOLEAN /\ broken \in BOOLEAN
  /\ match \in 0..MaxMatches /\ toJoin \in 0..Entrants /\ faults \in Nat
  /\ queue \in Seq(Items) /\ queued = Records(queue) /\ queued \in 0..Capacity
  /\ stopped \subseteq Matches /\ completed \subseteq Matches
  /\ openMatch \in 0..MaxMatches /\ loss \in 0..MaxMatches /\ file \in 0..MaxMatches
  /\ health \in {"enabled", "degraded", "stopped"}
  /\ lastTold \in {"idle", "capturing", "stopped"}
  /\ hand = Idle \/ hand \in [item : Items, at : {"taken", "handled", "failed"}]
  /\ given \in [Matches -> Nat] /\ stops \in [Matches -> Nat]
  /\ written \in [Matches -> Seq(Nat)]

(***************************************************************************)
(* Where the Simulation thread is, and what can no longer be then.         *)
(***************************************************************************)
Places ==
  /\ sim \in {"begin", "open", "joins", "close"} => open
  /\ open => match \in Matches
  /\ sim = "finished" => queue = <<>> /\ hand = Idle /\ ~open
  /\ health = "stopped" /\ mode = "optional" => sim = "finished"
  /\ openMatch # None => openMatch = match /\ (sim = "finished" \/ (open /\ sim # "begin"))
  /\ loss # None => health # "enabled"
  /\ hand.at = "failed" => hand.item.kind # "close"

(***************************************************************************)
(* The line to the file: what is queued and what the writer has taken.     *)
(***************************************************************************)
Queued == {queue[i] : i \in DOMAIN queue}
Taken == {x \in {hand.item} : hand.at = "taken"}
Holding == {x \in {hand.item} : hand.at # "idle"}
InLine == Queued \cup Taken

Before(a, b) ==
  \/ a.match < b.match
  \/ /\ a.match = b.match
     /\ a.kind # "close" /\ b.kind # "open"
     /\ a.kind = "record" /\ b.kind = "record" => a.record < b.record

InOrder ==
  /\ \A i, j \in DOMAIN queue : i < j => Before(queue[i], queue[j])
  /\ \A x \in Taken, y \in Queued : Before(x, y)

Entered ==
  \A x \in Queued \cup Holding :
    /\ x.match <= match
    /\ sim \in {"begin", "open"} => x.match < match
    /\ x.kind = "record" => x.record \in 1..given[x.match]
    /\ x.kind = "close" => ~(open /\ x.match = match)

Fresh ==
  \A m \in Matches :
    m > match \/ (m = match /\ sim \in {"begin", "open"}) => given[m] = 0 /\ m \notin stopped

Over(m) ==
  /\ m <= match /\ ~(open /\ m = match)
  /\ \A x \in Queued : x.match # m
  /\ ~(hand.at \in {"taken", "failed"} /\ hand.item.match = m)

Tellings ==
  \A m \in Matches :
    /\ stops[m] \in {0, 1}
    /\ m \in stopped => stops[m] = 1
    /\ stops[m] = 1 => m \in stopped \/ Over(m)
    /\ m \in completed => Over(m) /\ stops[m] = 0

Reached(m) == file = m \/ \E x \in InLine : x.match = m /\ x.kind = "open"
Failing(m) == hand.at = "failed" /\ hand.item.match = m
InFileOrLine(m, n) == n <= Len(written[m]) \/ Item("record", m, n) \in InLine

NoGap ==
  \A x \in InLine :
    x.kind = "record" /\ Reached(x.match) /\ ~Failing(x.match) =>
      /\ x.record > Len(written[x.match])
      /\ \A n \in 1..(x.record - 1) : InFileOrLine(x.match, n)

NothingLost ==
  \A m \in Matches :
    /\ Reached(m) /\ ~Failing(m) /\ m \notin stopped
    /\ health # "stopped" \/ mode = "optional"
    => \A n \in 1..given[m] : InFileOrLine(m, n)

WrittenWasGiven == \A m \in Matches : Len(written[m]) <= given[m]

LineInv == CaptureTyped /\ Places /\ InOrder /\ Entered /\ Fresh

-----------------------------------------------------------------------------
(* The positions of the records of a queue are finitely many.              *)
LEMMA RecordsCount ==
  ASSUME NEW q \in Seq(Items)
  PROVE  /\ IsFiniteSet({i \in DOMAIN q : q[i].kind = "record"})
         /\ Records(q) \in Nat
<1>1. {i \in DOMAIN q : q[i].kind = "record"} \in SUBSET (1..Len(q)) /\ Len(q) \in Nat
  OBVIOUS
<1>2. QED
  BY <1>1, PositionsAreFinite DEF Records

(* Queueing an item.                                                       *)
LEMMA AppendItem ==
  ASSUME NEW q \in Seq(Items), NEW x \in Items
  PROVE  /\ Append(q, x) \in Seq(Items)
         /\ DOMAIN Append(q, x) = DOMAIN q \cup {Len(q) + 1}
         /\ DOMAIN q = 1..Len(q) /\ Len(q) \in Nat
         /\ Append(q, x)[Len(q) + 1] = x
         /\ \A i \in DOMAIN q : Append(q, x)[i] = q[i]
         /\ Records(Append(q, x)) = Records(q) + (IF x.kind = "record" THEN 1 ELSE 0)
<1>. DEFINE before == {i \in DOMAIN q : q[i].kind = "record"}
            after == {i \in DOMAIN Append(q, x) : Append(q, x)[i].kind = "record"}
<1>1. /\ Append(q, x) \in Seq(Items)
      /\ DOMAIN Append(q, x) = DOMAIN q \cup {Len(q) + 1}
      /\ DOMAIN q = 1..Len(q) /\ Len(q) \in Nat
      /\ Append(q, x)[Len(q) + 1] = x
      /\ \A i \in DOMAIN q : Append(q, x)[i] = q[i]
  OBVIOUS
<1>2. Len(q) + 1 \notin DOMAIN q
  BY <1>1
<1>3. after = before \cup {i \in {Len(q) + 1} : x.kind = "record"}
  BY <1>1, <1>2
<1>4. IsFiniteSet(before) /\ Cardinality(before) \in Nat
  BY RecordsCount DEF Records
<1>5. Cardinality(after) = Cardinality(before) + (IF x.kind = "record" THEN 1 ELSE 0)
  <2>1. CASE x.kind = "record"
    <3>1. after = before \cup {Len(q) + 1} /\ Len(q) + 1 \notin before
      BY <1>2, <1>3, <2>1
    <3>2. QED
      BY <1>4, <2>1, <3>1, FS_AddElement
  <2>2. CASE x.kind # "record"
    <3>1. after = before
      BY <1>3, <2>2
    <3>2. Cardinality(after) = Cardinality(before)
      BY <3>1, Zenon
    <3>. HIDE DEF before, after
    <3>3. QED
      BY <1>4, <2>2, <3>2
  <2>3. QED
    BY <2>1, <2>2
<1>6. QED
  BY <1>1, <1>5 DEF Records

(* Taking the oldest.                                                      *)
LEMMA TakeItem ==
  ASSUME NEW q \in Seq(Items), q # <<>>
  PROVE  /\ Head(q) \in Items /\ Head(q) = q[1] /\ 1 \in DOMAIN q
         /\ Tail(q) \in Seq(Items)
         /\ \A i \in DOMAIN Tail(q) : i + 1 \in DOMAIN q /\ 1 < i + 1 /\ Tail(q)[i] = q[i + 1]
         /\ \A i \in DOMAIN q : i = 1 \/ (i - 1 \in DOMAIN Tail(q) /\ Tail(q)[i - 1] = q[i])
         /\ Records(q) = Records(Tail(q)) + (IF Head(q).kind = "record" THEN 1 ELSE 0)
<1>. DEFINE before == {i \in DOMAIN q : q[i].kind = "record"}
            after == {i \in DOMAIN Tail(q) : Tail(q)[i].kind = "record"}
            up == [i \in after |-> i + 1]
<1>1. /\ Head(q) \in Items /\ Head(q) = q[1] /\ 1 \in DOMAIN q
      /\ Tail(q) \in Seq(Items)
      /\ \A i \in DOMAIN Tail(q) : i \in Nat \ {0} /\ i + 1 \in DOMAIN q /\ 1 < i + 1 /\ Tail(q)[i] = q[i + 1]
      /\ \A i \in DOMAIN q : i = 1 \/ (i - 1 \in DOMAIN Tail(q) /\ Tail(q)[i - 1] = q[i])
      /\ DOMAIN q \subseteq Nat
  OBVIOUS
<1>2. up \in Bijection(after, before \ {1})
  <2>1. up \in [after -> before \ {1}]
    BY <1>1
  <2>2. \A a, b \in after : up[a] = up[b] => a = b
    BY <1>1
  <2>3. \A t \in before \ {1} : \E a \in after : up[a] = t
    <3>1. ASSUME NEW t \in before \ {1} PROVE t - 1 \in after /\ up[t - 1] = t
      BY <1>1
    <3>2. QED
      BY <3>1
  <2>. HIDE DEF up, after, before
  <2>4. QED
    BY <2>1, <2>2, <2>3 DEF Bijection, Injection, Surjection, IsInjective
<1>3. IsFiniteSet(before) /\ Cardinality(before) \in Nat /\ IsFiniteSet(after) /\ Cardinality(after) \in Nat
  BY <1>1, RecordsCount DEF Records
<1>4. Cardinality(before \ {1}) = Cardinality(after)
  BY <1>2, <1>3, FS_Bijection, ZenonT(30) DEF ExistsBijection
<1>5. Cardinality(before) = Cardinality(after) + (IF Head(q).kind = "record" THEN 1 ELSE 0)
  <2>1. CASE Head(q).kind = "record"
    <3>1. 1 \in before
      BY <1>1, <2>1
    <3>2. Cardinality(before \ {1}) = Cardinality(before) - 1
      BY <1>3, <3>1, FS_RemoveElement
    <3>. HIDE DEF before, after
    <3>3. QED
      BY <1>3, <1>4, <2>1, <3>2
  <2>2. CASE Head(q).kind # "record"
    <3>1. before \ {1} = before
      BY <1>1, <2>2
    <3>. HIDE DEF before, after
    <3>2. Cardinality(before) = Cardinality(after)
      BY <1>4, <3>1, Zenon
    <3>3. QED
      BY <1>3, <2>2, <3>2
  <2>3. QED
    BY <2>1, <2>2
<1>6. QED
  BY <1>1, <1>5 DEF Records

(***************************************************************************)
(* What is kept of the queue when a match's capture failed: the rest, in   *)
(* its order, and no more records than there were.                         *)
(***************************************************************************)
LEMMA KeptItems ==
  ASSUME queue \in Seq(Items), NEW m
  PROVE  /\ Kept(m) \in Seq(Items)
         /\ {Kept(m)[k] : k \in DOMAIN Kept(m)} =
              {x \in Queued : ~(x.kind = "record" /\ x.match = m)}
         /\ Records(Kept(m)) \in 0..Records(queue)
         /\ (\A i, j \in DOMAIN queue : i < j => Before(queue[i], queue[j])) =>
              \A k, l \in DOMAIN Kept(m) : k < l => Before(Kept(m)[k], Kept(m)[l])
<1>. DEFINE rest == {i \in DOMAIN queue : ~(queue[i].kind = "record" /\ queue[i].match = m)}
<1>1. Kept(m) = Subsequence(queue, rest) /\ rest \in SUBSET DOMAIN queue
  BY DEF Kept
<1>2. /\ Kept(m) \in Seq(Items) /\ Len(Kept(m)) = Cardinality(rest) /\ Cardinality(rest) \in Nat
      /\ \E from \in [1..Cardinality(rest) -> rest] :
           /\ \A k \in 1..Cardinality(rest) : Kept(m)[k] = queue[from[k]]
           /\ \A k, l \in 1..Cardinality(rest) : k < l => from[k] < from[l]
           /\ \A i \in rest : \E k \in 1..Cardinality(rest) : from[k] = i
  <2>. HIDE DEF rest
  <2>. DEFINE kept == Subsequence(queue, rest)
  <2>1. /\ kept \in Seq(Items) /\ Len(kept) = Cardinality(rest) /\ Cardinality(rest) \in Nat
        /\ \E from \in [1..Cardinality(rest) -> rest] :
             /\ \A k \in 1..Cardinality(rest) : kept[k] = queue[from[k]]
             /\ \A k, l \in 1..Cardinality(rest) : k < l => from[k] < from[l]
             /\ \A i \in rest : \E k \in 1..Cardinality(rest) : from[k] = i
    BY <1>1, SubsequenceIsOrdered
  <2>2. Kept(m) = kept
    BY <1>1
  <2>. HIDE DEF kept
  <2>3. QED
    BY <2>1, <2>2, Zenon
<1>3. DOMAIN Kept(m) = 1..Cardinality(rest)
  BY <1>2
<1>a. PICK from \in [1..Cardinality(rest) -> rest] :
           /\ \A k \in 1..Cardinality(rest) : Kept(m)[k] = queue[from[k]]
           /\ \A k, l \in 1..Cardinality(rest) : k < l => from[k] < from[l]
           /\ \A i \in rest : \E k \in 1..Cardinality(rest) : from[k] = i
  BY <1>2
<1>4. /\ \A k \in DOMAIN Kept(m) : from[k] \in rest
      /\ \A k \in DOMAIN Kept(m) : Kept(m)[k] = queue[from[k]]
      /\ \A k, l \in DOMAIN Kept(m) : k < l => from[k] < from[l]
      /\ \A i \in rest : \E k \in DOMAIN Kept(m) : from[k] = i
  <2>. HIDE DEF rest
  <2>1. QED
    BY <1>3, <1>a
<1>5. {Kept(m)[k] : k \in DOMAIN Kept(m)} = {x \in Queued : ~(x.kind = "record" /\ x.match = m)}
  <2>1. ASSUME NEW k \in DOMAIN Kept(m)
        PROVE  Kept(m)[k] \in Queued /\ ~(Kept(m)[k].kind = "record" /\ Kept(m)[k].match = m)
    <3>1. from[k] \in rest /\ Kept(m)[k] = queue[from[k]]
      BY <1>4
    <3>2. QED
      BY <3>1 DEF Queued
  <2>2. ASSUME NEW x \in Queued, ~(x.kind = "record" /\ x.match = m)
        PROVE  \E k \in DOMAIN Kept(m) : Kept(m)[k] = x
    <3>1. PICK i \in DOMAIN queue : queue[i] = x
      BY DEF Queued
    <3>2. i \in rest
      BY <2>2, <3>1
    <3>3. PICK k \in DOMAIN Kept(m) : from[k] = i
      BY <1>4, <3>2
    <3>4. QED
      BY <1>4, <3>1, <3>3
  <2>3. QED
    BY <2>1, <2>2
<1>6. Records(Kept(m)) \in 0..Records(queue)
  <2>. DEFINE kept == {k \in DOMAIN Kept(m) : Kept(m)[k].kind = "record"}
              all == {i \in DOMAIN queue : queue[i].kind = "record"}
              in == [k \in kept |-> from[k]]
  <2>1. IsFiniteSet(all) /\ Cardinality(all) \in Nat /\ Cardinality(kept) \in Nat
    BY <1>2, RecordsCount DEF Records
  <2>2. \A k \in kept : from[k] \in all
    BY <1>4
  <2>3. \A k, l \in kept : from[k] = from[l] => k = l
    <3>1. \A k \in DOMAIN Kept(m) : k \in Nat /\ from[k] \in Nat
      BY <1>2, <1>3, <1>4
    <3>2. \A k, l \in DOMAIN Kept(m) : from[k] = from[l] => ~(k < l) /\ ~(l < k)
      <4>1. \A k, l \in DOMAIN Kept(m) : k < l => from[k] < from[l]
        BY <1>4
      <4>. HIDE DEF rest, kept, all, in
      <4>2. QED
        BY <3>1, <4>1
    <3>3. kept \subseteq DOMAIN Kept(m)
      OBVIOUS
    <3>. HIDE DEF rest, kept, all, in
    <3>4. QED
      BY <3>1, <3>2, <3>3
  <2>4. in \in Injection(kept, all)
    <3>. HIDE DEF kept, all
    <3>1. QED
      BY <2>2, <2>3 DEF Injection, IsInjective
  <2>5. Cardinality(kept) <= Cardinality(all)
    <3>. HIDE DEF kept, all, in
    <3>1. QED
      BY <2>1, <2>4, FS_Injection
  <2>6. QED
    BY <2>1, <2>5 DEF Records
<1>7. (\A i, j \in DOMAIN queue : i < j => Before(queue[i], queue[j])) =>
         \A k, l \in DOMAIN Kept(m) : k < l => Before(Kept(m)[k], Kept(m)[l])
  <2>. HIDE DEF rest
  <2>1. \A k \in DOMAIN Kept(m) : from[k] \in DOMAIN queue
    BY <1>1, <1>4
  <2>2. QED
    BY <1>4, <2>1
<1>8. QED
  BY <1>2, <1>5, <1>6, <1>7
-----------------------------------------------------------------------------
(* The line when neither thread touches it.                                *)
LEMMA SameLine ==
  ASSUME UNCHANGED <<queue, hand>>
  PROVE  /\ Queued' = Queued /\ Taken' = Taken /\ Holding' = Holding /\ InLine' = InLine
         /\ InOrder => InOrder'
<1>1. Queued' = Queued /\ Taken' = Taken /\ Holding' = Holding
  BY DEF Queued, Taken, Holding
<1>2. InOrder => InOrder'
  BY <1>1 DEF InOrder
<1>3. QED
  BY <1>1, <1>2 DEF InLine

(* The line when the Simulation thread queues an item behind the rest.     *)
LEMMA LongerLine ==
  ASSUME CaptureTyped, InOrder, NEW x \in Items,
         queue' = Append(queue, x), hand' = hand,
         \A y \in InLine : Before(y, x)
  PROVE  /\ queue' \in Seq(Items)
         /\ Records(queue') = Records(queue) + (IF x.kind = "record" THEN 1 ELSE 0)
         /\ Queued' = Queued \cup {x} /\ Taken' = Taken /\ Holding' = Holding
         /\ InLine' = InLine \cup {x}
         /\ InOrder'
<1>1. queue \in Seq(Items)
  BY DEF CaptureTyped
<1>2. /\ queue' \in Seq(Items)
      /\ DOMAIN queue' = DOMAIN queue \cup {Len(queue) + 1}
      /\ DOMAIN queue = 1..Len(queue) /\ Len(queue) \in Nat
      /\ queue'[Len(queue) + 1] = x
      /\ \A i \in DOMAIN queue : queue'[i] = queue[i]
      /\ Records(queue') = Records(queue) + (IF x.kind = "record" THEN 1 ELSE 0)
  BY <1>1, AppendItem
<1>3. Queued' = Queued \cup {x}
  BY <1>2 DEF Queued
<1>4. Taken' = Taken /\ Holding' = Holding
  BY DEF Taken, Holding
<1>5. InOrder'
  <2>1. ASSUME NEW i \in DOMAIN queue', NEW j \in DOMAIN queue', i < j
        PROVE  Before(queue'[i], queue'[j])
    <3>1. i \in DOMAIN queue
      BY <1>2, <2>1
    <3>2. CASE j \in DOMAIN queue
      BY <1>2, <2>1, <3>1, <3>2 DEF InOrder
    <3>3. CASE j = Len(queue) + 1
      BY <1>2, <3>1, <3>3 DEF InLine, Queued
    <3>4. QED
      BY <1>2, <3>2, <3>3
  <2>2. ASSUME NEW t \in Taken', NEW y \in Queued' PROVE Before(t, y)
    BY <1>3, <1>4 DEF InOrder, InLine
  <2>3. QED
    BY <2>1, <2>2 DEF InOrder, Before
<1>6. QED
  BY <1>2, <1>3, <1>4, <1>5 DEF InLine

(* The line when the writer takes the oldest item.                         *)
LEMMA TakenLine ==
  ASSUME CaptureTyped, InOrder, TakeRecord
  PROVE  /\ queue' \in Seq(Items) /\ Head(queue) \in Queued /\ Head(queue) \in Items
         /\ hand' = [item |-> Head(queue), at |-> "taken"]
         /\ Queued = Queued' \cup {Head(queue)}
         /\ Taken = {} /\ Holding = {}
         /\ Taken' = {Head(queue)} /\ Holding' = {Head(queue)}
         /\ InLine' = InLine
         /\ queued' = Records(queue') /\ queued' \in 0..Capacity
         /\ InOrder'
<1>1. queue \in Seq(Items) /\ queue # <<>> /\ queue' = Tail(queue) /\ hand = Idle
      /\ hand' = [item |-> Head(queue), at |-> "taken"]
  BY DEF CaptureTyped, TakeRecord
<1>2. /\ Head(queue) \in Items /\ Head(queue) = queue[1] /\ 1 \in DOMAIN queue
      /\ queue' \in Seq(Items)
      /\ \A i \in DOMAIN queue' : i + 1 \in DOMAIN queue /\ 1 < i + 1 /\ queue'[i] = queue[i + 1]
      /\ \A i \in DOMAIN queue : i = 1 \/ (i - 1 \in DOMAIN queue' /\ queue'[i - 1] = queue[i])
      /\ Records(queue) = Records(queue') + (IF Head(queue).kind = "record" THEN 1 ELSE 0)
  BY <1>1, TakeItem
<1>3. Queued = Queued' \cup {Head(queue)} /\ Head(queue) \in Queued
  <2>1. \A y \in Queued' : y \in Queued
    BY <1>2 DEF Queued
  <2>2. \A y \in Queued : y = Head(queue) \/ y \in Queued'
    BY <1>2 DEF Queued
  <2>3. Head(queue) \in Queued
    BY <1>2 DEF Queued
  <2>4. QED
    BY <2>1, <2>2, <2>3
<1>4. Taken = {} /\ Holding = {} /\ Taken' = {Head(queue)} /\ Holding' = {Head(queue)}
  BY <1>1 DEF Taken, Holding
<1>5. queued' = Records(queue') /\ queued' \in 0..Capacity
  <2>1. /\ queued = Records(queue) /\ queued \in 0..Capacity /\ Capacity \in Nat
        /\ queued' = IF Head(queue).kind = "record" THEN queued - 1 ELSE queued
    BY DEF CaptureTyped, TakeRecord
  <2>2. Records(queue') \in Nat
    BY <1>2, RecordsCount
  <2>3. QED
    BY <1>2, <2>1, <2>2
<1>6. InOrder'
  <2>1. DOMAIN queue' \subseteq Nat
    BY <1>2
  <2>2. ASSUME NEW i \in DOMAIN queue', NEW j \in DOMAIN queue', i < j
        PROVE  Before(queue'[i], queue'[j])
    <3>1. i + 1 < j + 1
      BY <2>1, <2>2
    <3>2. Before(queue[i + 1], queue[j + 1])
      BY <1>2, <3>1 DEF InOrder
    <3>3. QED
      BY <1>2, <3>2
  <2>3. ASSUME NEW y \in Queued' PROVE Before(Head(queue), y)
    <3>1. PICK i \in DOMAIN queue' : y = queue'[i]
      BY DEF Queued
    <3>2. Before(queue[1], queue[i + 1])
      BY <1>2 DEF InOrder
    <3>3. QED
      BY <1>2, <3>1, <3>2
  <2>4. QED
    BY <1>4, <2>2, <2>3 DEF InOrder, Before
<1>7. QED
  BY <1>1, <1>2, <1>3, <1>4, <1>5, <1>6 DEF InLine

(* The line while the writer deals with what it took.                      *)
LEMMA HandledLine ==
  ASSUME CaptureTyped, InOrder, queue' = queue, hand.at = "taken",
         hand' \in {[hand EXCEPT !.at = "handled"], [hand EXCEPT !.at = "failed"]}
  PROVE  /\ hand \in [item : Items, at : {"taken", "handled", "failed"}]
         /\ hand' \in [item : Items, at : {"taken", "handled", "failed"}]
         /\ hand'.item = hand.item /\ hand'.at \in {"handled", "failed"}
         /\ Queued' = Queued
         /\ Taken = {hand.item} /\ Taken' = {} /\ Holding = {hand.item} /\ Holding' = {hand.item}
         /\ InLine = Queued \cup {hand.item} /\ InLine' = Queued
         /\ \A y \in Queued : Before(hand.item, y)
         /\ InOrder'
<1>1. hand \in [item : Items, at : {"taken", "handled", "failed"}]
  BY DEF CaptureTyped
<1>2. /\ hand' \in [item : Items, at : {"taken", "handled", "failed"}]
      /\ hand'.item = hand.item /\ hand'.at \in {"handled", "failed"}
  BY <1>1
<1>3. Queued' = Queued
  BY DEF Queued
<1>4. Taken = {hand.item} /\ Taken' = {} /\ Holding = {hand.item} /\ Holding' = {hand.item}
  BY <1>2 DEF Taken, Holding
<1>5. QED
  BY <1>1, <1>2, <1>3, <1>4 DEF InOrder, InLine

(* What is in line, or was last handled, is an item.                       *)
LEMMA HeldItems ==
  ASSUME CaptureTyped
  PROVE  \A x \in Queued \cup Holding \cup InLine : x \in Items
<1>1. \A x \in Queued : x \in Items
  BY DEF CaptureTyped, Queued
<1>2. \A x \in Holding \cup Taken : x \in Items
  BY DEF CaptureTyped, Holding, Taken
<1>3. QED
  BY <1>1, <1>2 DEF InLine

(***************************************************************************)
(* A capture that stops: it is in stopped, and the health and the first    *)
(* loss go one way.                                                        *)
(***************************************************************************)
LEMMA StopEffect ==
  ASSUME CaptureTyped, Places, NEW m \in Matches, StopLocked(m)
  PROVE  /\ stopped' = stopped \cup {m}
         /\ health' \in {"enabled", "degraded", "stopped"} /\ loss' \in 0..MaxMatches
         /\ lastTold' \in {"idle", "capturing", "stopped"}
         /\ stops' \in [Matches -> Nat]
         /\ \A k \in Matches : k # m => stops'[k] = stops[k]
         /\ stops'[m] = IF m \in stopped THEN stops[m] ELSE stops[m] + 1
         /\ lastTold' = IF m \in stopped \/ m # openMatch THEN lastTold ELSE "stopped"
         /\ loss' # None => health' # "enabled"
         /\ mode = "optional" /\ health' = "stopped" => health = "stopped"
         /\ health = "stopped" => health' = "stopped"
<1>1. CASE m \in stopped
  BY <1>1 DEF StopLocked, toldVars, CaptureTyped, Places
<1>2. CASE m \notin stopped
  <2>1. /\ stopped' = stopped \cup {m}
        /\ stops' = [stops EXCEPT ![m] = @ + 1] /\ stops \in [Matches -> Nat]
        /\ lastTold' = IF m = openMatch THEN "stopped" ELSE lastTold
        /\ health' = IF health = "enabled" THEN LostHealth ELSE health
        /\ loss' = IF health = "enabled" THEN m ELSE loss
    BY <1>2 DEF StopLocked, StateStopped, LosesFirst, CaptureTyped
  <2>2. LostHealth \in {"degraded", "stopped"} /\ (mode = "optional" => LostHealth = "degraded")
    BY DEF LostHealth
  <2>3. health' \in {"enabled", "degraded", "stopped"} /\ loss' \in 0..MaxMatches
        /\ lastTold' \in {"idle", "capturing", "stopped"}
    BY <2>1, <2>2 DEF CaptureTyped, Matches
  <2>4. (loss' # None => health' # "enabled") /\ (health = "stopped" => health' = "stopped")
        /\ (mode = "optional" /\ health' = "stopped" => health = "stopped")
    BY <2>1, <2>2 DEF Places
  <2>5. /\ stops' \in [Matches -> Nat]
        /\ \A k \in Matches : k # m => stops'[k] = stops[k]
        /\ stops'[m] = stops[m] + 1
    BY <2>1
  <2>6. QED
    BY <1>2, <2>1, <2>3, <2>4, <2>5
<1>3. QED
  BY <1>1, <1>2
-----------------------------------------------------------------------------
(* The Simulation thread's steps that leave the line alone.                *)
LEMMA LineOfQuietSteps ==
  ASSUME LineInv, CheckLoss \/ StartMatch \/ Begin \/ Finish \/ EndTick
  PROVE  LineInv'
<1>. USE DEF lockedVars, writerVars, toldVars
<1>1. UNCHANGED <<queue, hand>>
  BY DEF CheckLoss, StartMatch, Begin, Finish, EndTick
<1>2. InOrder' /\ Queued' = Queued /\ Holding' = Holding
  BY <1>1, SameLine DEF LineInv
<1>3. CASE CheckLoss
  <2>1. CaptureTyped'
    BY <1>3 DEF CheckLoss, Proceed, LineInv, CaptureTyped
  <2>2. Places'
    BY <1>3 DEF CheckLoss, Proceed, LineInv, Places
  <2>3. Entered'
    BY <1>2, <1>3 DEF CheckLoss, Proceed, LineInv, Entered
  <2>4. Fresh'
    BY <1>3 DEF CheckLoss, Proceed, LineInv, Fresh
  <2>5. QED
    BY <1>2, <2>1, <2>2, <2>3, <2>4 DEF LineInv
<1>4. CASE StartMatch
  <2>. DEFINE stays == sim' = "events" /\ UNCHANGED <<open, match, toJoin>>
              begins == sim' = "begin" /\ match' = match + 1 /\ open' = TRUE /\ toJoin' = Entrants
  <2>1. /\ sim = "tick" /\ ~open /\ match < MaxMatches /\ match \in Nat /\ MaxMatches \in Nat
        /\ stays \/ begins
        /\ UNCHANGED <<mode, broken, lockedVars, writerVars, toldVars, given, faults>>
        /\ CaptureTyped /\ Places /\ Entered /\ Fresh
    BY <1>4 DEF StartMatch, Proceed, LineInv, CaptureTyped
  <2>2. CASE stays
    <3>1. CaptureTyped' /\ Places'
      BY <2>1, <2>2 DEF CaptureTyped, Places
    <3>2. Entered' /\ Fresh'
      BY <1>2, <2>1, <2>2 DEF Entered, Fresh
    <3>3. QED
      BY <1>2, <3>1, <3>2 DEF LineInv
  <2>3. CASE begins
    <3>1. match' \in 0..MaxMatches /\ match' \in Matches /\ match < match'
      BY <2>1, <2>3 DEF Matches
    <3>2. CaptureTyped'
      BY <2>1, <2>3, <3>1, SMTT(30) DEF CaptureTyped
    <3>3. Places'
      BY <2>1, <2>3, <3>1 DEF Places
    <3>4. \A x \in Queued \cup Holding : x.match \in Nat
      BY <2>1, HeldItems DEF Items, Matches
    <3>5. Entered'
      BY <1>2, <2>1, <2>3, <3>1, <3>4 DEF Entered
    <3>6. Fresh'
      BY <2>1, <2>3 DEF Fresh, Matches
    <3>7. QED
      BY <1>2, <3>2, <3>3, <3>5, <3>6 DEF LineInv
  <2>4. QED
    BY <2>1, <2>2, <2>3
<1>5. CASE Begin
  <2>1. CaptureTyped'
    BY <1>5 DEF Begin, Proceed, LineInv, CaptureTyped
  <2>2. Places'
    BY <1>5 DEF Begin, Proceed, LineInv, Places
  <2>3. Entered'
    BY <1>2, <1>5 DEF Begin, Proceed, LineInv, Entered
  <2>4. Fresh'
    BY <1>5 DEF Begin, Proceed, LineInv, Fresh
  <2>5. QED
    BY <1>2, <2>1, <2>2, <2>3, <2>4 DEF LineInv
<1>6. CASE Finish
  <2>1. CaptureTyped'
    BY <1>6 DEF Finish, Proceed, LineInv, CaptureTyped
  <2>2. Places'
    BY <1>6 DEF Finish, Proceed, LineInv, Places
  <2>3. Entered'
    BY <1>2, <1>6 DEF Finish, Proceed, LineInv, Entered
  <2>4. Fresh'
    BY <1>6 DEF Finish, Proceed, LineInv, Fresh
  <2>5. QED
    BY <1>2, <2>1, <2>2, <2>3, <2>4 DEF LineInv
<1>7. CASE EndTick
  <2>1. CaptureTyped'
    BY <1>7 DEF EndTick, Proceed, LineInv, CaptureTyped
  <2>2. Places'
    BY <1>7 DEF EndTick, Proceed, LineInv, Places
  <2>3. Entered'
    BY <1>2, <1>7 DEF EndTick, Proceed, LineInv, Entered
  <2>4. Fresh'
    BY <1>7 DEF EndTick, Proceed, LineInv, Fresh
  <2>5. QED
    BY <1>2, <2>1, <2>2, <2>3, <2>4 DEF LineInv
<1>8. QED
  BY <1>3, <1>4, <1>5, <1>6, <1>7

(* The next record of the match open comes after what is in line.          *)
LEMMA RecordIsLast ==
  ASSUME CaptureTyped, Entered, open, match \in Matches
  PROVE  \A y \in InLine : Before(y, Item("record", match, given[match] + 1))
<1>1. InLine \subseteq Queued \cup Holding
  BY DEF InLine, Taken, Holding
<1>2. match \in Nat /\ given \in [Matches -> Nat] /\ given[match] \in Nat
  BY DEF CaptureTyped, Matches
<1>3. ASSUME NEW y \in Queued \cup Holding PROVE Before(y, Item("record", match, given[match] + 1))
  <2>1. /\ y.match \in Nat /\ y.record \in Nat /\ y.match <= match
        /\ y.kind = "record" => y.record \in 1..given[y.match]
        /\ y.kind = "close" => y.match # match
    BY HeldItems DEF Entered, Items, Matches
  <2>2. QED
    BY <1>2, <2>1 DEF Before
<1>4. QED
  BY <1>1, <1>3

(***************************************************************************)
(* Handing a record of the open match in, with the thread anywhere the     *)
(* match has begun.                                                        *)
(***************************************************************************)
Handing ==
  /\ Hand /\ open /\ sim \notin {"begin", "open", "finished"}
  /\ sim' \in {"joins", "events", "close"} /\ toJoin' \in 0..Entrants
  /\ UNCHANGED <<mode, open, match, hand, file, written, completed>>

LEMMA LineOfHanding ==
  ASSUME LineInv, Handing
  PROVE  LineInv'
<1>. USE DEF lockedVars, toldVars
<1>1. /\ open /\ match \in Matches /\ sim \notin {"begin", "open", "finished"}
      /\ sim' \in {"joins", "events", "close"} /\ toJoin' \in 0..Entrants
      /\ UNCHANGED <<mode, open, match, hand, file, written, completed>>
      /\ CaptureTyped /\ Places /\ InOrder /\ Entered /\ Fresh
  BY DEF Handing, LineInv, Places
<1>a. given \in [Matches -> Nat] /\ given[match] \in Nat /\ match \in Nat
      /\ faults \in Nat /\ broken \in BOOLEAN
  BY <1>1 DEF CaptureTyped, Matches
<1>2. openMatch' = openMatch
  BY DEF Handing, Hand, Push
<1>3. /\ given' \in [Matches -> Nat] /\ broken' \in BOOLEAN /\ faults' \in Nat
      /\ \A k \in Matches : given'[k] \in Nat /\ given'[k] >= given[k] /\ (k # match => given'[k] = given[k])
  <2>1. \/ given' = [given EXCEPT ![match] = @ + 1]
        \/ given' = given
    BY DEF Handing, Hand, Push
  <2>2. broken' \in BOOLEAN /\ faults' \in Nat
    <3>1. broken' = TRUE \/ broken' = broken
      BY DEF Handing, Hand, Push, Fault
    <3>2. faults' = faults \/ faults' = faults + 1
      BY DEF Handing, Hand, Push, Fault
    <3>3. broken' \in BOOLEAN
      BY <1>a, <3>1
    <3>4. faults' \in Nat
      BY <1>a, <3>2
    <3>5. QED
      BY <3>3, <3>4
  <2>3. CASE given' = given
    <3>1. \A k \in Matches : given'[k] \in Nat /\ given'[k] >= given[k] /\ given'[k] = given[k]
      BY <1>a, <2>3
    <3>2. QED
      BY <1>a, <2>2, <2>3, <3>1, Zenon
  <2>4. CASE given' = [given EXCEPT ![match] = @ + 1]
    <3>1. given' \in [Matches -> Nat] /\ given'[match] = given[match] + 1
      BY <1>a, <1>1, <2>4
    <3>2. \A k \in Matches : k # match => given'[k] = given[k]
      BY <1>a, <2>4
    <3>3. QED
      <4>1. \A k \in Matches : given'[k] \in Nat /\ given'[k] >= given[k]
        BY <1>a, <3>1, <3>2
      <4>2. QED
        BY <2>2, <3>1, <3>2, <4>1, Zenon
  <2>5. QED
    BY <2>1, <2>3, <2>4
<1>4. ASSUME NEW x \in Queued \cup Holding
      PROVE  /\ x \in Items /\ x.match \in Matches /\ x.record \in Nat
             /\ given[x.match] <= given'[x.match]
             /\ given[x.match] \in Nat /\ given'[x.match] \in Nat
  <2>1. x \in Items
    BY <1>1, HeldItems
  <2>2. x.match \in Matches /\ x.record \in Nat
    BY <2>1 DEF Items
  <2>3. QED
    BY <1>a, <1>3, <2>1, <2>2
<1>5. CASE UNCHANGED <<queue, queued, stopped, health, loss, lastTold, stops>>
  <2>1. InOrder' /\ Queued' = Queued /\ Holding' = Holding
    BY <1>1, <1>5, SameLine
  <2>2. CaptureTyped'
    BY <1>1, <1>2, <1>3, <1>5 DEF CaptureTyped
  <2>3. Places'
    BY <1>1, <1>2, <1>5 DEF Places
  <2>4. Entered'
    BY <1>1, <1>3, <1>4, <2>1 DEF Entered, Items
  <2>5. Fresh'
    BY <1>1, <1>3, <1>5 DEF Fresh, Matches
  <2>6. QED
    BY <2>1, <2>2, <2>3, <2>4, <2>5 DEF LineInv
<1>6. CASE UNCHANGED <<queue, queued>> /\ StopLocked(match)
  <2>1. InOrder' /\ Queued' = Queued /\ Holding' = Holding
    BY <1>1, <1>6, SameLine
  <2>2. /\ stopped' = stopped \cup {match}
        /\ health' \in {"enabled", "degraded", "stopped"} /\ loss' \in 0..MaxMatches
        /\ lastTold' \in {"idle", "capturing", "stopped"} /\ stops' \in [Matches -> Nat]
        /\ loss' # None => health' # "enabled"
        /\ mode = "optional" /\ health' = "stopped" => health = "stopped"
    BY <1>1, <1>6, StopEffect
  <2>3. CaptureTyped'
    BY <1>1, <1>2, <1>3, <1>6, <2>2 DEF CaptureTyped
  <2>4. Places'
    BY <1>1, <1>2, <1>6, <2>2 DEF Places
  <2>5. Entered'
    BY <1>1, <1>3, <1>4, <2>1 DEF Entered, Items
  <2>6. Fresh'
    BY <1>1, <1>3, <2>2, SMTT(30) DEF Fresh, Matches
  <2>7. QED
    BY <2>1, <2>3, <2>4, <2>5, <2>6 DEF LineInv
<1>7. CASE /\ queue' = Append(queue, Item("record", match, given[match] + 1))
           /\ queued' = queued + 1 /\ queued < Capacity
           /\ given' = [given EXCEPT ![match] = @ + 1]
           /\ UNCHANGED <<stopped, health, loss, lastTold, stops>>
  <2>. DEFINE x == Item("record", match, given[match] + 1)
  <2>1. x \in Items
    BY <1>1, <1>a DEF Items
  <2>2. \A y \in InLine : Before(y, x)
    BY <1>1, RecordIsLast
  <2>3. /\ queue' \in Seq(Items) /\ Records(queue') = Records(queue) + 1
        /\ Queued' = Queued \cup {x} /\ Holding' = Holding /\ InOrder'
    <3>1. x.kind = "record"
      OBVIOUS
    <3>. HIDE DEF x
    <3>2. QED
      BY <1>1, <1>7, <2>1, <2>2, <3>1, LongerLine DEF x
  <2>4. CaptureTyped'
    <3>1. queued' = Records(queue') /\ queued' \in 0..Capacity
      BY <1>1, <1>7, <2>3, SMTT(30) DEF CaptureTyped
    <3>2. QED
      BY <1>1, <1>2, <1>3, <1>7, <2>3, <3>1 DEF CaptureTyped
  <2>5. Places'
    BY <1>1, <1>2, <1>7 DEF Places
  <2>6. Entered'
    <3>1. given'[match] = given[match] + 1
      BY <1>1, <1>7 DEF CaptureTyped
    <3>2. ASSUME NEW y \in Queued \cup Holding
          PROVE  /\ y.match <= match /\ (y.kind = "close" => ~(open /\ y.match = match))
                 /\ y.kind = "record" => y.record \in 1..given'[y.match]
      BY <1>1, <1>4 DEF Entered
    <3>3. x.record \in 1..given'[match] /\ x.match = match /\ x.kind = "record"
      BY <1>a, <3>1
    <3>. HIDE DEF x
    <3>4. QED
      BY <1>1, <1>a, <2>3, <3>2, <3>3 DEF Entered
  <2>7. Fresh'
    BY <1>1, <1>3, <1>7 DEF Fresh, Matches
  <2>8. QED
    BY <2>3, <2>4, <2>5, <2>6, <2>7 DEF LineInv
<1>8. QED
  <2>1. Hand
    BY DEF Handing
  <2>2. QED
    BY <1>1, <1>5, <1>6, <1>7, <2>1, SMTT(30) DEF Hand, Push, QueueFull, CaptureTyped
(* Where the Simulation thread hands a record in, a match has begun.       *)
LEMMA WhereHandingHappens ==
  ASSUME CaptureTyped, Places, (Join /\ toJoin > 0) \/ Event \/ EndMatch
  PROVE  Handing
<1>. USE DEF writerVars
<1>1. CASE Join /\ toJoin > 0
  <2>1. toJoin - 1 \in 0..Entrants /\ toJoin # 0
    BY <1>1 DEF CaptureTyped
  <2>2. QED
    BY <1>1, <2>1 DEF Join, Handing, Places
<1>2. CASE Event
  BY <1>2 DEF Event, Handing, CaptureTyped
<1>3. CASE EndMatch
  BY <1>3 DEF EndMatch, Handing, Proceed, CaptureTyped
<1>4. QED
  BY <1>1, <1>2, <1>3

(* A match's file is queued to be opened, or its header is not admitted.   *)
LEMMA LineOfOpen ==
  ASSUME LineInv, Open
  PROVE  LineInv'
<1>. USE DEF writerVars, toldVars
<1>1. /\ sim = "open" /\ open /\ match \in Matches /\ match \in Nat
      /\ UNCHANGED <<mode, open, match, toJoin, queued, openMatch, given, hand, file, written, completed>>
      /\ CaptureTyped /\ Places /\ InOrder /\ Entered /\ Fresh
  BY DEF Open, LineInv, Places, Matches
<1>2. CASE /\ queue' = Append(queue, Item("open", match, 0)) /\ sim' = "joins"
           /\ UNCHANGED <<broken, stopped, health, loss, lastTold, stops, faults>>
  <2>. DEFINE x == Item("open", match, 0)
  <2>1. x \in Items /\ x.kind = "open" /\ x.match = match
    BY <1>1 DEF Items
  <2>2. \A y \in InLine : Before(y, x)
    <3>1. InLine \subseteq Queued \cup Holding
      BY DEF InLine, Taken, Holding
    <3>2. QED
      BY <1>1, <2>1, <3>1 DEF Entered, Before
  <2>. HIDE DEF x
  <2>3. /\ queue' \in Seq(Items) /\ Records(queue') = Records(queue)
        /\ Queued' = Queued \cup {x} /\ Holding' = Holding /\ InOrder'
    <3>1. Records(queue) \in Nat
      BY <1>1, RecordsCount DEF CaptureTyped
    <3>2. Records(queue') = Records(queue) + 0 /\ queue' \in Seq(Items)
          /\ Queued' = Queued \cup {x} /\ Holding' = Holding /\ InOrder'
      BY <1>1, <1>2, <2>1, <2>2, LongerLine DEF x
    <3>3. QED
      BY <3>1, <3>2
  <2>4. CaptureTyped'
    BY <1>1, <1>2, <2>3 DEF CaptureTyped
  <2>5. Places'
    BY <1>1, <1>2 DEF Places
  <2>6. Entered'
    BY <1>1, <1>2, <2>1, <2>3 DEF Entered
  <2>7. Fresh'
    BY <1>1, <1>2 DEF Fresh
  <2>8. QED
    BY <2>3, <2>4, <2>5, <2>6, <2>7 DEF LineInv
<1>3. CASE UNCHANGED queue /\ sim' = "events"
  <2>1. InOrder' /\ Queued' = Queued /\ Holding' = Holding
    BY <1>1, <1>3, SameLine
  <2>2. broken' \in BOOLEAN /\ faults' \in Nat
    <3>1. (broken' = TRUE \/ broken' = broken) /\ (faults' = faults + 1 \/ faults' = faults)
      BY DEF Open, Fault
    <3>2. faults \in Nat /\ broken \in BOOLEAN
      BY <1>1 DEF CaptureTyped
    <3>3. broken' \in BOOLEAN
      BY <3>1, <3>2
    <3>4. faults' \in Nat
      BY <3>1, <3>2
    <3>5. QED
      BY <3>3, <3>4
  <2>3. /\ stopped' \in {stopped, stopped \cup {match}}
        /\ health' \in {"enabled", "degraded", "stopped"} /\ loss' \in 0..MaxMatches
        /\ lastTold' \in {"idle", "capturing", "stopped"} /\ stops' \in [Matches -> Nat]
        /\ loss' # None => health' # "enabled"
        /\ mode = "optional" /\ health' = "stopped" => health = "stopped"
    <3>1. StopLocked(match) \/ UNCHANGED <<stopped, health, loss, toldVars>>
      BY DEF Open
    <3>2. QED
      BY <1>1, <3>1, StopEffect DEF CaptureTyped, Places
  <2>4. CaptureTyped'
    BY <1>1, <1>3, <2>2, <2>3 DEF CaptureTyped
  <2>5. Places'
    BY <1>1, <1>3, <2>3 DEF Places
  <2>6. Entered'
    BY <1>1, <1>3, <2>1 DEF Entered
  <2>7. Fresh'
    BY <1>1, <1>3, <2>3 DEF Fresh, Matches
  <2>8. QED
    BY <2>1, <2>4, <2>5, <2>6, <2>7 DEF LineInv
<1>4. QED
  BY <1>2, <1>3 DEF Open, Proceed

(* No item follows a match's close.                                        *)
LEMMA LineOfClose ==
  ASSUME LineInv, Close
  PROVE  LineInv'
<1>. USE DEF writerVars, toldVars
<1>1. /\ sim = "close" /\ sim' = "events" /\ open /\ match \in Matches /\ match \in Nat
      /\ queue' = Append(queue, Item("close", match, 0))
      /\ openMatch' = None /\ lastTold' = "idle" /\ open' = FALSE /\ toJoin' = 0
      /\ UNCHANGED <<mode, match, broken, queued, stopped, health, loss,
                     hand, file, written, completed, stops, given, faults>>
      /\ CaptureTyped /\ Places /\ InOrder /\ Entered /\ Fresh
  BY DEF Close, Proceed, LineInv, Places, Matches
<1>. DEFINE x == Item("close", match, 0)
<1>2. x \in Items /\ x.kind = "close" /\ x.match = match
  BY <1>1 DEF Items
<1>3. \A y \in InLine : Before(y, x)
  <2>1. InLine \subseteq Queued \cup Holding
    BY DEF InLine, Taken, Holding
  <2>2. \A y \in Queued \cup Holding : y.match \in Nat
    BY <1>1, HeldItems DEF Items, Matches
  <2>3. QED
    BY <1>1, <1>2, <2>1, <2>2 DEF Entered, Before
<1>. HIDE DEF x
<1>4. /\ queue' \in Seq(Items) /\ Records(queue') = Records(queue)
      /\ Queued' = Queued \cup {x} /\ Holding' = Holding /\ InOrder'
  <2>1. Records(queue) \in Nat
    BY <1>1, RecordsCount DEF CaptureTyped
  <2>2. Records(queue') = Records(queue) + 0 /\ queue' \in Seq(Items)
        /\ Queued' = Queued \cup {x} /\ Holding' = Holding /\ InOrder'
    BY <1>1, <1>2, <1>3, LongerLine DEF x
  <2>3. QED
    BY <2>1, <2>2
<1>5. CaptureTyped'
  <2>1. openMatch' \in 0..MaxMatches /\ toJoin' \in 0..Entrants
    BY <1>1
  <2>2. open' \in BOOLEAN
    BY <1>1
  <2>3. QED
    BY <1>1, <1>4, <2>1, <2>2 DEF CaptureTyped
<1>6. Places'
  BY <1>1 DEF Places
<1>7. Entered'
  BY <1>1, <1>2, <1>4 DEF Entered
<1>8. Fresh'
  BY <1>1 DEF Fresh
<1>9. QED
  BY <1>4, <1>5, <1>6, <1>7, <1>8 DEF LineInv

(* The writer takes the oldest item.                                       *)
LEMMA LineOfTakeRecord ==
  ASSUME LineInv, TakeRecord
  PROVE  LineInv'
<1>1. /\ CaptureTyped /\ Places /\ InOrder /\ Entered /\ Fresh
      /\ UNCHANGED <<mode, sim, open, match, toJoin, broken, stopped, openMatch, health, loss,
                     file, written, completed, lastTold, stops, given, faults>>
      /\ queue # <<>>
  BY DEF TakeRecord, LineInv, simVars, toldVars
<1>2. /\ queue' \in Seq(Items) /\ Head(queue) \in Queued /\ Head(queue) \in Items
      /\ hand' = [item |-> Head(queue), at |-> "taken"]
      /\ Queued = Queued' \cup {Head(queue)} /\ Holding' = {Head(queue)}
      /\ queued' = Records(queue') /\ queued' \in 0..Capacity /\ InOrder'
  BY <1>1, TakenLine
<1>3. CaptureTyped'
  BY <1>1, <1>2 DEF CaptureTyped
<1>4. Places'
  BY <1>1, <1>2 DEF Places
<1>5. Entered'
  BY <1>1, <1>2 DEF Entered
<1>6. Fresh'
  BY <1>1 DEF Fresh
<1>7. QED
  BY <1>2, <1>3, <1>4, <1>5, <1>6 DEF LineInv

(* The writer opens a file, writes a record or closes the file.            *)
LEMMA LineOfWriting ==
  ASSUME LineInv, OpenFile \/ Persist \/ CloseFile
  PROVE  LineInv'
<1>1. /\ CaptureTyped /\ Places /\ InOrder /\ Entered /\ Fresh
      /\ hand.at = "taken"
      /\ hand' \in {[hand EXCEPT !.at = "handled"], [hand EXCEPT !.at = "failed"]}
      /\ UNCHANGED <<mode, sim, open, match, toJoin, broken, queue, queued, openMatch, health, loss,
                     lastTold, stops, given>>
  BY DEF OpenFile, Persist, CloseFile, Handling, Handled, Fails, LineInv, simVars, toldVars, lockedVars
<1>2. /\ hand \in [item : Items, at : {"taken", "handled", "failed"}]
      /\ hand' \in [item : Items, at : {"taken", "handled", "failed"}]
      /\ hand'.item = hand.item /\ hand'.at \in {"handled", "failed"}
      /\ Queued' = Queued /\ Holding' = Holding /\ InOrder'
  BY <1>1, HandledLine
<1>3. hand.item \in Items /\ hand.item.match \in Matches /\ hand.item.record \in Nat
      /\ hand.item.match \in 0..MaxMatches
  BY <1>2 DEF Items, Matches
<1>4. /\ stopped' \subseteq stopped /\ completed' \subseteq Matches /\ file' \in 0..MaxMatches
      /\ faults' \in Nat
  <2>1. stopped' \subseteq stopped
    BY DEF OpenFile, Persist, CloseFile, lockedVars
  <2>2. completed' \subseteq Matches
    BY <1>1, <1>3, SMTT(30) DEF OpenFile, Persist, CloseFile, CaptureTyped
  <2>3. file' \in 0..MaxMatches
    <3>1. file' = file \/ file' = hand.item.match \/ file' = None
      BY DEF OpenFile, Persist, CloseFile
    <3>2. None \in 0..MaxMatches /\ file \in 0..MaxMatches
      BY <1>1 DEF CaptureTyped
    <3>3. QED
      BY <1>3, <3>1, <3>2
  <2>4. faults' = faults \/ faults' = faults + 1
    BY DEF OpenFile, Persist, CloseFile, Fails, Fault
  <2>5. QED
    BY <1>1, <2>1, <2>2, <2>3, <2>4 DEF CaptureTyped
<1>5. written' \in [Matches -> Seq(Nat)]
  <2>1. \/ written' = written
        \/ file = hand.item.match /\ written' = [written EXCEPT ![file] = Append(@, hand.item.record)]
    BY DEF OpenFile, Persist, CloseFile
  <2>2. written \in [Matches -> Seq(Nat)]
    BY <1>1 DEF CaptureTyped
  <2>3. Append(written[hand.item.match], hand.item.record) \in Seq(Nat)
    BY <1>3, <2>2
  <2>4. QED
    BY <1>3, <2>1, <2>2, <2>3
<1>6. hand'.at = "failed" => hand'.item.kind # "close"
  BY <1>2 DEF OpenFile, Persist, CloseFile, Handling, Handled
<1>7. CaptureTyped'
  BY SMTT(30), <1>1, <1>2, <1>4, <1>5 DEF CaptureTyped
<1>8. Places'
  <2>1. hand # Idle
    BY <1>1
  <2>2. QED
    BY <1>1, <1>6, <2>1 DEF Places
<1>9. Entered'
  BY <1>1, <1>2 DEF Entered
<1>10. Fresh'
  BY <1>1, <1>4 DEF Fresh
<1>11. QED
  BY <1>2, <1>7, <1>8, <1>9, <1>10 DEF LineInv

(* The writer rests, after it dropped the records of a capture that failed. *)
LEMMA LineOfDone ==
  ASSUME LineInv, Done
  PROVE  LineInv'
<1>. USE DEF toldVars
<1>1. /\ CaptureTyped /\ Places /\ InOrder /\ Entered /\ Fresh
      /\ hand.at \in {"handled", "failed"} /\ hand' = Idle
      /\ UNCHANGED <<mode, sim, open, match, toJoin, broken, openMatch, file, written, completed,
                     given, faults>>
  BY DEF Done, Rested, LineInv, simVars
<1>2. hand \in [item : Items, at : {"taken", "handled", "failed"}] /\ Holding = {hand.item}
  BY <1>1 DEF CaptureTyped, Holding
<1>3. Taken' = {} /\ Holding' = {}
  BY <1>1 DEF Taken, Holding
<1>4. CASE UNCHANGED <<queue, queued, stopped, health, loss, lastTold, stops>>
  <2>1. Queued' = Queued
    BY <1>4 DEF Queued
  <2>2. InOrder'
    BY <1>1, <1>3, <1>4 DEF InOrder
  <2>3. CaptureTyped'
    BY <1>1, <1>4 DEF CaptureTyped
  <2>4. Places'
    BY <1>1, <1>4 DEF Places
  <2>5. Entered' /\ Fresh'
    BY <1>1, <1>3, <1>4, <2>1 DEF Entered, Fresh
  <2>6. QED
    BY <2>2, <2>3, <2>4, <2>5 DEF LineInv
<1>5. CASE hand.at = "failed" /\ queue' = Kept(hand.item.match)
           /\ queued' = Records(queue') /\ StopLocked(hand.item.match)
  <2>. DEFINE m == hand.item.match
  <2>1. m \in Matches /\ m <= match /\ (sim \in {"begin", "open"} => m < match)
    BY <1>1, <1>2 DEF Items, Entered
  <2>2. /\ queue' \in Seq(Items) /\ Queued' \subseteq Queued
        /\ Records(queue') \in 0..Records(queue)
        /\ \A i, j \in DOMAIN queue' : i < j => Before(queue'[i], queue'[j])
    <3>1. /\ queue' \in Seq(Items)
          /\ Queued' = {x \in Queued : ~(x.kind = "record" /\ x.match = m)}
          /\ Records(queue') \in 0..Records(queue)
          /\ \A i, j \in DOMAIN queue' : i < j => Before(queue'[i], queue'[j])
      <4>1. /\ Kept(m) \in Seq(Items)
            /\ {Kept(m)[k] : k \in DOMAIN Kept(m)} = {x \in Queued : ~(x.kind = "record" /\ x.match = m)}
            /\ Records(Kept(m)) \in 0..Records(queue)
            /\ \A k, l \in DOMAIN Kept(m) : k < l => Before(Kept(m)[k], Kept(m)[l])
        <5>. HIDE DEF m
        <5>1. QED
          BY <1>1, KeptItems DEF CaptureTyped, InOrder
      <4>2. queue' = Kept(m)
        BY <1>5
      <4>. HIDE DEF m
      <4>3. Queued' = {queue'[k] : k \in DOMAIN queue'}
        BY DEF Queued
      <4>4. QED
        BY <4>1, <4>2, <4>3
    <3>2. QED
      BY <3>1
  <2>3. /\ stopped' = stopped \cup {m}
        /\ health' \in {"enabled", "degraded", "stopped"} /\ loss' \in 0..MaxMatches
        /\ lastTold' \in {"idle", "capturing", "stopped"} /\ stops' \in [Matches -> Nat]
        /\ loss' # None => health' # "enabled"
        /\ mode = "optional" /\ health' = "stopped" => health = "stopped"
    BY <1>1, <1>5, <2>1, StopEffect
  <2>4. CaptureTyped'
    <3>1. queued' \in 0..Capacity
      BY <1>1, <1>5, <2>2 DEF CaptureTyped
    <3>2. QED
      BY <1>1, <1>5, <2>1, <2>2, <2>3, <3>1 DEF CaptureTyped
  <2>5. Places'
    <3>1. hand # Idle /\ hand'.at = "idle"
      BY <1>1
    <3>2. QED
      BY <1>1, <2>3, <3>1 DEF Places
  <2>6. InOrder'
    BY <1>3, <2>2 DEF InOrder, Before
  <2>7. Entered'
    BY <1>1, <1>3, <2>2 DEF Entered
  <2>8. Fresh'
    <3>1. ASSUME NEW k \in Matches, k > match \/ (k = match /\ sim \in {"begin", "open"})
          PROVE  given[k] = 0 /\ k \notin stopped'
      <4>1. k # m
        BY <1>1, <2>1, <3>1 DEF Matches, CaptureTyped
      <4>2. QED
        BY <1>1, <2>3, <3>1, <4>1 DEF Fresh
    <3>2. QED
      BY <1>1, <3>1 DEF Fresh
  <2>9. QED
    BY <2>4, <2>5, <2>6, <2>7, <2>8 DEF LineInv
<1>6. QED
  BY <1>4, <1>5 DEF Done

(* The line is in order, whichever thread steps.                           *)
LEMMA LineStep ==
  ASSUME LineInv, [CaptureNext]_captureVars
  PROVE  LineInv'
<1>1. CASE CaptureNext
  <2>1. CASE Join /\ ~(toJoin > 0)
    <3>1. /\ sim' = "events" /\ sim = "joins"
          /\ UNCHANGED <<mode, open, match, toJoin, broken, lockedVars, writerVars, toldVars, given, faults>>
          /\ CaptureTyped /\ Places /\ InOrder /\ Entered /\ Fresh
      BY <2>1 DEF Join, Proceed, LineInv
    <3>2. InOrder' /\ Queued' = Queued /\ Holding' = Holding
      BY <3>1, SameLine DEF lockedVars, writerVars
    <3>. USE DEF lockedVars, writerVars, toldVars
    <3>3. CaptureTyped' /\ Places'
      BY <3>1 DEF CaptureTyped, Places
    <3>4. Entered' /\ Fresh'
      BY <3>1, <3>2 DEF Entered, Fresh
    <3>5. QED
      BY <3>2, <3>3, <3>4 DEF LineInv
  <2>2. CASE (Join /\ toJoin > 0) \/ Event \/ EndMatch
    BY <2>2, WhereHandingHappens, LineOfHanding DEF LineInv
  <2>3. CASE CheckLoss \/ StartMatch \/ Begin \/ Finish \/ EndTick
    BY <2>3, LineOfQuietSteps
  <2>4. CASE Open
    BY <2>4, LineOfOpen
  <2>5. CASE Close
    BY <2>5, LineOfClose
  <2>6. CASE TakeRecord
    BY <2>6, LineOfTakeRecord
  <2>7. CASE OpenFile \/ Persist \/ CloseFile
    BY <2>7, LineOfWriting
  <2>8. CASE Done
    BY <2>8, LineOfDone
  <2>9. QED
    BY <1>1, <2>1, <2>2, <2>3, <2>4, <2>5, <2>6, <2>7, <2>8 DEF CaptureNext, CapturingStep, WriterStep
<1>2. CASE UNCHANGED captureVars
  <2>1. /\ UNCHANGED <<simVars, lockedVars, writerVars, toldVars, given, faults>>
        /\ CaptureTyped /\ Places /\ InOrder /\ Entered /\ Fresh
    BY <1>2 DEF captureVars, LineInv
  <2>. USE DEF simVars, lockedVars, writerVars, toldVars
  <2>2. InOrder' /\ Queued' = Queued /\ Holding' = Holding
    BY <2>1, SameLine
  <2>3. CaptureTyped' /\ Places'
    BY <2>1 DEF CaptureTyped, Places
  <2>4. Entered' /\ Fresh'
    BY <2>1, <2>2 DEF Entered, Fresh
  <2>5. QED
    BY <2>2, <2>3, <2>4 DEF LineInv
<1>3. QED
  BY <1>1, <1>2

LEMMA LineStart ==
  ASSUME CaptureInit
  PROVE  LineInv
<1>. USE DEF CaptureInit
<1>1. Queued = {} /\ Taken = {} /\ Holding = {}
  BY DEF Queued, Taken, Holding
<1>2. Records(<<>>) = 0
  <2>1. {i \in DOMAIN <<>> : <<>>[i].kind = "record"} = {}
    OBVIOUS
  <2>2. QED
    BY <2>1, FS_EmptySet DEF Records
<1>3. CaptureTyped
  <2>1. queue \in Seq(Items)
    OBVIOUS
  <2>2. given \in [Matches -> Nat] /\ stops \in [Matches -> Nat] /\ written \in [Matches -> Seq(Nat)]
    OBVIOUS
  <2>3. mode \in {"optional", "strict"} /\ queued \in 0..Capacity
    OBVIOUS
  <2>4. open \in BOOLEAN /\ broken \in BOOLEAN
    OBVIOUS
  <2>5. match \in 0..MaxMatches /\ toJoin \in 0..Entrants /\ openMatch \in 0..MaxMatches
        /\ loss \in 0..MaxMatches /\ file \in 0..MaxMatches
    OBVIOUS
  <2>6. QED
    BY <1>2, <2>1, <2>2, <2>3, <2>4, <2>5 DEF CaptureTyped
<1>4. Places
  BY DEF Places
<1>5. InOrder /\ Entered
  BY <1>1 DEF InOrder, Entered
<1>6. Fresh
  BY DEF Fresh
<1>7. QED
  BY <1>3, <1>4, <1>5, <1>6 DEF LineInv
-----------------------------------------------------------------------------
(* What a step may put in line, and where the writer's item comes from.    *)
LEMMA LineFlow ==
  ASSUME LineInv, [CaptureNext]_captureVars
  PROVE  /\ \A x \in Queued' : x \in Queued \/ (open /\ x.match = match)
         /\ hand'.at \in {"taken", "failed"} =>
              hand'.item \in Queued \/ (hand.at \in {"taken", "failed"} /\ hand'.item = hand.item)
         /\ match \in Nat /\ \/ match' = match /\ (open' => open)
                             \/ match' = match + 1 /\ ~open
<1>. USE DEF simVars, lockedVars, writerVars, toldVars
<1>1. CaptureTyped /\ Places /\ InOrder /\ match \in Nat
  BY DEF LineInv, CaptureTyped
<1>2. CASE CaptureNext
  <2>1. CASE queue' = queue /\ hand' = hand /\ (CheckLoss \/ Begin \/ Finish \/ EndTick \/ Join \/ Event \/ EndMatch \/ Open)
    <3>1. Queued' = Queued
      BY <2>1 DEF Queued
    <3>2. match' = match /\ (open' => open)
      BY <2>1 DEF CheckLoss, Begin, Finish, EndTick, Join, Event, EndMatch, Open
    <3>3. QED
      BY <1>1, <2>1, <3>1, <3>2
  <2>2. CASE StartMatch
    <3>1. queue' = queue /\ hand' = hand
      BY <2>2 DEF StartMatch
    <3>2. Queued' = Queued
      BY <3>1 DEF Queued
    <3>3. \/ match' = match /\ (open' => open)
          \/ match' = match + 1 /\ ~open
      BY <2>2 DEF StartMatch
    <3>4. QED
      BY <1>1, <3>1, <3>2, <3>3
  <2>3. CASE open /\ match' = match /\ (open' => open) /\ hand' = hand
             /\ \E kind \in {"open", "record", "close"}, n \in Nat : queue' = Append(queue, Item(kind, match, n))
    <3>1. PICK kind \in {"open", "record", "close"}, n \in Nat : queue' = Append(queue, Item(kind, match, n))
      BY <2>3
    <3>2. Item(kind, match, n) \in Items
      BY <1>1, <2>3 DEF Places, Items
    <3>3. queue \in Seq(Items)
      BY <1>1 DEF CaptureTyped
    <3>4. ASSUME NEW x \in Queued' PROVE x \in Queued \/ x.match = match
      <4>1. PICK i \in DOMAIN queue' : x = queue'[i]
        BY DEF Queued
      <4>2. i \in DOMAIN queue \/ i = Len(queue) + 1
        BY <3>1, <3>2, <3>3, <4>1, AppendItem
      <4>3. CASE i \in DOMAIN queue
        BY <3>1, <3>2, <3>3, <4>1, <4>3, AppendItem DEF Queued
      <4>4. CASE i = Len(queue) + 1
        BY <3>1, <3>2, <3>3, <4>1, <4>4, AppendItem
      <4>5. QED
        BY <4>2, <4>3, <4>4
    <3>5. QED
      BY <1>1, <2>3, <3>4
  <2>4. CASE TakeRecord
    <3>1. /\ Head(queue) \in Queued /\ hand' = [item |-> Head(queue), at |-> "taken"]
          /\ Queued = Queued' \cup {Head(queue)}
      BY <1>1, <2>4, TakenLine
    <3>2. match' = match /\ open' = open
      BY <2>4 DEF TakeRecord
    <3>3. QED
      BY <1>1, <3>1, <3>2
  <2>5. CASE OpenFile \/ Persist \/ CloseFile
    <3>1. /\ hand.at = "taken" /\ queue' = queue /\ match' = match /\ open' = open
          /\ hand' \in {[hand EXCEPT !.at = "handled"], [hand EXCEPT !.at = "failed"]}
      BY <2>5 DEF OpenFile, Persist, CloseFile, Handling, Handled, Fails
    <3>2. Queued' = Queued /\ hand'.item = hand.item
      BY <1>1, <3>1, HandledLine
    <3>3. QED
      BY <1>1, <3>1, <3>2
  <2>6. CASE Done
    <3>1. hand'.at = "idle" /\ match' = match /\ open' = open
      BY <2>6 DEF Done, Rested
    <3>2. CASE queue' = queue
      BY <1>1, <3>1, <3>2 DEF Queued
    <3>3. CASE queue' = Kept(hand.item.match)
      <4>1. queue \in Seq(Items)
        BY <1>1 DEF CaptureTyped
      <4>2. \A x \in {Kept(hand.item.match)[k] : k \in DOMAIN Kept(hand.item.match)} : x \in Queued
        BY <4>1, KeptItems
      <4>3. \A x \in Queued' : x \in Queued
        BY <3>3, <4>2 DEF Queued
      <4>4. QED
        BY <1>1, <3>1, <4>3
    <3>4. QED
      BY <2>6, <3>2, <3>3 DEF Done
  <2>7. CASE Open \/ Close
    <3>1. open /\ match' = match /\ (open' => open) /\ hand' = hand
      BY <1>1, <2>7 DEF Open, Close, Places
    <3>2. CASE Open /\ queue' = queue
      BY <2>1, <3>1, <3>2
    <3>3. CASE \E kind \in {"open", "record", "close"}, n \in Nat : queue' = Append(queue, Item(kind, match, n))
      BY <2>3, <3>1, <3>3
    <3>4. QED
      BY <2>7, <3>2, <3>3 DEF Open, Close
  <2>8. CASE Join \/ Event \/ EndMatch
    <3>1. CASE Join /\ ~(toJoin > 0)
      BY <2>1, <3>1 DEF Join
    <3>2. CASE (Join /\ toJoin > 0) \/ Event \/ EndMatch
      <4>1. Handing
        BY <1>1, <3>2, WhereHandingHappens
      <4>2. open /\ match' = match /\ (open' => open) /\ hand' = hand
        BY <4>1 DEF Handing
      <4>3. match \in Matches /\ given[match] + 1 \in Nat
        BY <1>1, <4>2 DEF Places, CaptureTyped
      <4>4. CASE queue' = queue
        BY <2>1, <2>8, <4>2, <4>4
      <4>5. CASE queue' = Append(queue, Item("record", match, given[match] + 1))
        BY <2>3, <4>2, <4>3, <4>5
      <4>6. QED
        BY <4>1, <4>4, <4>5 DEF Handing, Hand, Push
    <3>3. QED
      BY <2>8, <3>1, <3>2
  <2>9. CASE CheckLoss \/ Begin \/ Finish \/ EndTick
    <3>1. queue' = queue /\ hand' = hand
      BY <2>9 DEF CheckLoss, Begin, Finish, EndTick
    <3>2. QED
      BY <2>1, <2>9, <3>1
  <2>10. QED
    BY <1>2, <2>2, <2>4, <2>5, <2>6, <2>7, <2>8, <2>9 DEF CaptureNext, CapturingStep, WriterStep
<1>3. CASE UNCHANGED captureVars
  <2>1. queue' = queue /\ hand' = hand /\ match' = match /\ open' = open
    BY <1>3 DEF captureVars
  <2>2. QED
    BY <1>1, <2>1 DEF Queued
<1>4. QED
  BY <1>2, <1>3

(* A match whose capture is over stays over.                               *)
LEMMA OverStays ==
  ASSUME LineInv, [CaptureNext]_captureVars, NEW m \in Matches, Over(m)
  PROVE  Over(m)'
<1>1. m \in Nat
  BY DEF Matches
<1>2. m <= match' /\ ~(open' /\ m = match')
  BY <1>1, LineFlow DEF Over
<1>3. \A x \in Queued' : x.match # m
  BY LineFlow DEF Over
<1>4. ~(hand'.at \in {"taken", "failed"} /\ hand'.item.match = m)
  BY LineFlow DEF Over
<1>5. QED
  BY <1>2, <1>3, <1>4 DEF Over

(***************************************************************************)
(* Every step tells nothing of how a capture ends, stops a capture that is *)
(* not over, or closes a file.                                             *)
(***************************************************************************)
LEMMA HowTold ==
  ASSUME LineInv, [CaptureNext]_captureVars
  PROVE  \/ /\ UNCHANGED <<stopped, stops, completed>>
            /\ UNCHANGED <<lastTold, openMatch>> \/ Begin \/ Close
         \/ /\ \E m \in Matches : StopLocked(m) /\ ~Over(m)
            /\ UNCHANGED <<completed, openMatch>>
         \/ CloseFile
<1>. USE DEF simVars, lockedVars, writerVars, toldVars
<1>1. CaptureTyped /\ Places
  BY DEF LineInv
<1>2. CASE CaptureNext
  <2>1. CASE (Join /\ toJoin > 0) \/ Event \/ EndMatch
    <3>1. Handing
      BY <1>1, <2>1, WhereHandingHappens
    <3>2. match \in Matches /\ ~Over(match) /\ UNCHANGED completed
      BY <1>1, <3>1 DEF Handing, Places, Over
    <3>3. openMatch' = openMatch /\ (StopLocked(match) \/ UNCHANGED <<stopped, stops, lastTold>>)
      BY <3>1 DEF Handing, Hand, Push
    <3>4. QED
      BY <3>2, <3>3
  <2>2. CASE Open
    <3>1. match \in Matches /\ ~Over(match) /\ UNCHANGED <<completed, openMatch>>
      BY <1>1, <2>2 DEF Open, Places, Over
    <3>2. StopLocked(match) \/ UNCHANGED <<stopped, stops, lastTold>>
      BY <2>2 DEF Open
    <3>3. QED
      BY <3>1, <3>2
  <2>3. CASE Done
    <3>1. UNCHANGED <<completed, openMatch>>
      BY <2>3 DEF Done
    <3>2. CASE hand.at = "failed" /\ StopLocked(hand.item.match)
      <4>1. hand.item.match \in Matches
        BY <1>1, <3>2 DEF CaptureTyped, Items
      <4>2. ~Over(hand.item.match)
        BY <3>2 DEF Over
      <4>3. QED
        BY <3>1, <3>2, <4>1, <4>2
    <3>3. QED
      BY <2>3, <3>1, <3>2 DEF Done
  <2>4. CASE (Join /\ ~(toJoin > 0)) \/ CheckLoss \/ StartMatch \/ Finish \/ EndTick \/ TakeRecord \/ OpenFile \/ Persist
    BY <2>4 DEF Join, CheckLoss, StartMatch, Finish, EndTick, TakeRecord, OpenFile, Persist
  <2>5. CASE Begin \/ Close
    BY <2>5 DEF Begin, Close
  <2>6. QED
    BY <1>2, <2>1, <2>2, <2>3, <2>4, <2>5 DEF CaptureNext, CapturingStep, WriterStep
<1>3. CASE UNCHANGED captureVars
  BY <1>3 DEF captureVars
<1>4. QED
  BY <1>2, <1>3

(* A file closed is that of a match whose capture is over then.            *)
LEMMA ClosedIsOver ==
  ASSUME LineInv, CloseFile, NEW m, m = hand.item.match
  PROVE  m \in Matches /\ ~Over(m) /\ Over(m)' /\ (openMatch # None => m # openMatch)
<1>1. /\ CaptureTyped /\ Places /\ InOrder /\ Entered
      /\ hand.at = "taken" /\ hand.item.kind = "close" /\ hand # Idle
      /\ hand' = [hand EXCEPT !.at = "handled"]
      /\ UNCHANGED <<sim, open, match, queue>>
  BY DEF LineInv, CloseFile, Handling, Handled, simVars
<1>2. /\ hand \in [item : Items, at : {"taken", "handled", "failed"}]
      /\ hand'.at \in {"handled", "failed"} /\ Queued' = Queued /\ Holding = {hand.item}
      /\ \A y \in Queued : Before(hand.item, y)
  BY <1>1, HandledLine
<1>3. hand'.at = "handled"
  BY <1>1, <1>2
<1>4. m \in Matches /\ m <= match /\ ~(open /\ m = match)
  BY <1>1, <1>2 DEF Items, Entered
<1>5. \A y \in Queued : y.match # m
  <2>1. \A y \in Queued : y.match \in Nat
    BY <1>1, HeldItems DEF Items, Matches
  <2>2. m \in Nat
    BY <1>4 DEF Matches
  <2>3. QED
    BY <1>1, <1>2, <2>1, <2>2 DEF Before
<1>6. ~Over(m)
  BY <1>1 DEF Over
<1>7. Over(m)'
  <2>1. m <= match' /\ ~(open' /\ m = match')
    BY <1>1, <1>4
  <2>2. \A y \in Queued' : y.match # m
    BY <1>2, <1>5
  <2>3. hand'.item.match = m
    BY <1>1, <1>2
  <2>4. QED
    BY <1>3, <2>1, <2>2, <2>3 DEF Over
<1>8. openMatch # None => m # openMatch
  BY <1>1, <1>4 DEF Places
<1>9. QED
  BY <1>4, <1>6, <1>7, <1>8

(***************************************************************************)
(* Each match's capture is told stopped at most once, and completed only   *)
(* if it never was.                                                        *)
(***************************************************************************)
LEMMA TellingsStep ==
  ASSUME LineInv, Tellings, [CaptureNext]_captureVars
  PROVE  Tellings'
<1>1. CaptureTyped /\ Places /\ \A k \in Matches : stops[k] \in Nat
  BY DEF LineInv, CaptureTyped
<1>2. \A k \in Matches : Over(k) => Over(k)'
  BY OverStays
<1>3. CASE UNCHANGED <<stopped, stops, completed>>
  BY <1>2, <1>3 DEF Tellings
<1>4. ASSUME NEW m \in Matches, StopLocked(m), ~Over(m), UNCHANGED completed
      PROVE  Tellings'
  <2>1. /\ stopped' = stopped \cup {m}
        /\ \A k \in Matches : k # m => stops'[k] = stops[k]
        /\ stops'[m] = IF m \in stopped THEN stops[m] ELSE stops[m] + 1
    BY <1>1, <1>4, StopEffect
  <2>2. stops'[m] = 1 /\ m \notin completed
    BY <1>1, <1>4, <2>1 DEF Tellings
  <2>3. ASSUME NEW k \in Matches
        PROVE  /\ stops'[k] \in {0, 1}
               /\ k \in stopped' => stops'[k] = 1
               /\ stops'[k] = 1 => k \in stopped' \/ Over(k)'
               /\ k \in completed' => Over(k)' /\ stops'[k] = 0
    <3>1. CASE k = m
      BY <1>4, <2>1, <2>2, <3>1
    <3>2. CASE k # m
      BY <1>2, <1>4, <2>1, <3>2 DEF Tellings
    <3>3. QED
      BY <3>1, <3>2
  <2>4. QED
    BY <2>3 DEF Tellings
<1>5. CASE CloseFile
  <2>. DEFINE m == hand.item.match
  <2>1. \A k \in Matches : k = m => ~Over(k) /\ Over(k)'
    BY <1>5, ClosedIsOver
  <2>2. /\ stopped' = stopped \ {m} /\ stops' = stops
        /\ completed' = IF Completes(m) THEN completed \cup {m} ELSE completed
    BY <1>5 DEF CloseFile, toldVars
  <2>3. m \in Matches
    BY <1>5, ClosedIsOver
  <2>. HIDE DEF m
  <2>4. ASSUME NEW k \in Matches
        PROVE  /\ stops'[k] \in {0, 1}
               /\ k \in stopped' => stops'[k] = 1
               /\ stops'[k] = 1 => k \in stopped' \/ Over(k)'
               /\ k \in completed' => Over(k)' /\ stops'[k] = 0
    <3>1. CASE k = m
      <4>1. ~Over(k) /\ Over(k)' /\ stops[k] \in {0, 1} /\ k \notin completed
            /\ (k \notin stopped => stops[k] = 0)
        BY <2>1, <3>1 DEF Tellings
      <4>2. k \in completed' => k \notin stopped
        BY <2>2, <3>1, <4>1 DEF Completes
      <4>3. QED
        BY <2>2, <3>1, <4>1, <4>2
    <3>2. CASE k # m
      BY <1>2, <2>2, <3>2 DEF Tellings
    <3>3. QED
      BY <3>1, <3>2
  <2>5. QED
    BY <2>4 DEF Tellings
<1>6. QED
  BY <1>3, <1>4, <1>5, HowTold

(* The state told last is that of the match open.                          *)
LEMMA StateStep ==
  ASSUME LineInv, StateOfOpenMatch, [CaptureNext]_captureVars
  PROVE  StateOfOpenMatch'
<1>1. CaptureTyped /\ Places /\ Fresh
  BY DEF LineInv
<1>2. CASE UNCHANGED <<stopped, lastTold, openMatch>>
  BY <1>2 DEF StateOfOpenMatch
<1>3. CASE Begin /\ UNCHANGED stopped
  <2>1. match \in Matches /\ match # None /\ match \notin stopped
    BY <1>1, <1>3 DEF Begin, Places, Fresh, Matches
  <2>2. QED
    BY <1>3, <2>1 DEF Begin, StateOfOpenMatch
<1>4. CASE Close
  BY <1>4 DEF Close, StateOfOpenMatch
<1>5. ASSUME NEW m \in Matches, StopLocked(m), UNCHANGED openMatch
      PROVE  StateOfOpenMatch'
  <2>1. /\ stopped' = stopped \cup {m} /\ m # None
        /\ lastTold' = IF m \in stopped \/ m # openMatch THEN lastTold ELSE "stopped"
    BY <1>1, <1>5, StopEffect DEF Matches
  <2>2. QED
    BY <1>5, <2>1 DEF StateOfOpenMatch
<1>6. CASE CloseFile
  <2>1. /\ openMatch # None => hand.item.match # openMatch
        /\ stopped' = stopped \ {hand.item.match} /\ UNCHANGED <<lastTold, openMatch>>
    BY <1>6, ClosedIsOver DEF CloseFile, toldVars
  <2>2. QED
    BY <2>1 DEF StateOfOpenMatch
<1>7. QED
  BY <1>2, <1>3, <1>4, <1>5, <1>6, HowTold
-----------------------------------------------------------------------------
WholeInv == NoGap /\ NothingLost /\ WrittenWasGiven /\ FileIsPrefix

(* What is given or lost while nothing moves in line.                      *)
LEMMA WholeOnceStopped ==
  ASSUME CaptureTyped, WholeInv, UNCHANGED <<mode, queue, hand, file, written>>,
         stopped \subseteq stopped', health = "stopped" => health' = "stopped",
         \A k \in Matches : \/ given'[k] = given[k]
                            \/ /\ given'[k] = given[k] + 1
                               /\ k \in stopped' \/ (health = "stopped" /\ mode # "optional")
  PROVE  WholeInv'
<1>1. InLine' = InLine /\ NoGap /\ NothingLost /\ WrittenWasGiven /\ FileIsPrefix
  BY SameLine DEF WholeInv
<1>2. NoGap'
  <2>1. ASSUME NEW x \in InLine', x.kind = "record", Reached(x.match)', ~Failing(x.match)'
        PROVE  x.record > Len(written'[x.match]) /\ \A n \in 1..(x.record - 1) : InFileOrLine(x.match, n)'
    <3>1. Reached(x.match) /\ ~Failing(x.match) /\ x \in InLine
      BY <1>1, <2>1 DEF Reached, Failing
    <3>2. x.record > Len(written[x.match]) /\ \A n \in 1..(x.record - 1) : InFileOrLine(x.match, n)
      BY <1>1, <2>1, <3>1 DEF NoGap
    <3>3. QED
      BY <1>1, <3>2 DEF InFileOrLine
  <2>2. QED
    BY <2>1 DEF NoGap
<1>3. NothingLost'
  <2>1. ASSUME NEW k \in Matches, Reached(k)', ~Failing(k)', k \notin stopped',
               health' # "stopped" \/ mode' = "optional"
        PROVE  \A n \in 1..given'[k] : InFileOrLine(k, n)'
    <3>1. Reached(k) /\ ~Failing(k)
      BY <1>1, <2>1 DEF Reached, Failing
    <3>2. given'[k] = given[k]
      BY <2>1
    <3>3. \A n \in 1..given[k] : InFileOrLine(k, n)
      BY <1>1, <2>1, <3>1 DEF NothingLost
    <3>4. QED
      BY <1>1, <3>2, <3>3 DEF InFileOrLine
  <2>2. QED
    BY <2>1 DEF NothingLost
<1>4. WrittenWasGiven'
  <2>1. ASSUME NEW k \in Matches PROVE Len(written'[k]) <= given'[k]
    <3>1. Len(written[k]) \in Nat /\ given[k] \in Nat /\ Len(written[k]) <= given[k]
      BY <1>1 DEF CaptureTyped, WrittenWasGiven
    <3>2. given'[k] = given[k] \/ given'[k] = given[k] + 1
      OBVIOUS
    <3>3. QED
      BY <3>1, <3>2
  <2>2. QED
    BY <2>1 DEF WrittenWasGiven
<1>5. FileIsPrefix'
  BY <1>1 DEF FileIsPrefix
<1>6. QED
  BY <1>2, <1>3, <1>4, <1>5 DEF WholeInv

(***************************************************************************)
(* A record queued is the one after those of its match in file or in line: *)
(* its capture did not stop, so none is missing.                           *)
(***************************************************************************)
LEMMA WholeWithRecord ==
  ASSUME LineInv, WholeInv, match \in Matches, match \notin stopped, health # "stopped",
         queue' = Append(queue, Item("record", match, given[match] + 1)),
         given' = [given EXCEPT ![match] = @ + 1],
         UNCHANGED <<mode, hand, file, written, stopped, health>>,
         \A y \in InLine : Before(y, Item("record", match, given[match] + 1))
  PROVE  WholeInv'
<1>. DEFINE x == Item("record", match, given[match] + 1)
<1>1. /\ CaptureTyped /\ InOrder /\ NoGap /\ NothingLost /\ WrittenWasGiven /\ FileIsPrefix
  BY DEF LineInv, WholeInv
<1>a. given \in [Matches -> Nat] /\ written \in [Matches -> Seq(Nat)] /\ match \in Nat
  BY <1>1 DEF CaptureTyped, Matches
<1>2. x \in Items /\ x.kind = "record" /\ x.match = match /\ x.record = given[match] + 1
  BY <1>1, <1>a DEF Items
<1>3. InLine' = InLine \cup {x}
  <2>. HIDE DEF x
  <2>1. QED
    BY <1>1, <1>a, <1>2, LongerLine DEF x
<1>4. x.record > Len(written[match]) /\ \A k \in Matches : Len(written[k]) \in Nat
  BY <1>1, <1>a, <1>2 DEF WrittenWasGiven
<1>5. given'[match] = given[match] + 1 /\ \A k \in Matches : k # match => given'[k] = given[k]
  BY <1>1, <1>a
<1>6. \A k \in Matches : Reached(k)' => Reached(k)
  BY <1>2, <1>3 DEF Reached
<1>7. \A k \in Matches : ~Failing(k)' => ~Failing(k)
  BY DEF Failing
<1>8. \A k \in Matches, n \in Nat : InFileOrLine(k, n) => InFileOrLine(k, n)'
  BY <1>3 DEF InFileOrLine
<1>9. Reached(match) /\ ~Failing(match) => \A n \in 1..given[match] : InFileOrLine(match, n)
  BY <1>1, <1>a DEF NothingLost
<1>10. NoGap'
  <2>1. ASSUME NEW y \in InLine', y.kind = "record", Reached(y.match)', ~Failing(y.match)', y.match \in Matches
        PROVE  y.record > Len(written'[y.match]) /\ \A n \in 1..(y.record - 1) : InFileOrLine(y.match, n)'
    <3>1. CASE y \in InLine
      <4>1. y.record \in Nat
        BY <1>1, <1>a, <3>1, HeldItems DEF Items
      <4>2. y.record > Len(written[y.match]) /\ \A n \in 1..(y.record - 1) : InFileOrLine(y.match, n)
        BY <1>1, <1>a, <1>6, <1>7, <2>1, <3>1 DEF NoGap
      <4>3. QED
        BY <1>8, <2>1, <4>1, <4>2
    <3>2. CASE y = x
      <4>1. Reached(match) /\ ~Failing(match)
        BY <1>2, <1>3, <2>1, <3>2 DEF Reached, Failing
      <4>2. \A n \in 1..given[match] : InFileOrLine(match, n)
        BY <1>9, <4>1
      <4>3. y.match = match /\ y.record - 1 = given[match]
        BY <1>1, <1>a, <1>2, <3>2
      <4>4. QED
        <5>1. y.record > Len(written'[y.match])
          BY <1>4, <3>2, <4>3
        <5>2. \A n \in 1..(y.record - 1) : n \in Nat /\ InFileOrLine(y.match, n)
          BY <4>2, <4>3, <1>1
        <5>3. \A n \in 1..(y.record - 1) : InFileOrLine(y.match, n)'
          BY <1>8, <2>1, <5>2
        <5>4. QED
          BY <5>1, <5>3
    <3>. HIDE DEF x
    <3>3. QED
      BY <1>3, <2>1, <3>1, <3>2
  <2>2. \A y \in InLine' : y.match \in Matches
    BY <1>1, <1>a, <1>2, <1>3, HeldItems DEF Items
  <2>3. QED
    BY <2>1, <2>2 DEF NoGap
<1>11. NothingLost'
  <2>1. ASSUME NEW k \in Matches, Reached(k)', ~Failing(k)', k \notin stopped',
               health' # "stopped" \/ mode' = "optional"
        PROVE  \A n \in 1..given'[k] : InFileOrLine(k, n)'
    <3>1. \A n \in 1..given[k] : InFileOrLine(k, n)'
      <4>1. \A n \in 1..given[k] : InFileOrLine(k, n)
        BY <1>1, <1>a, <1>6, <1>7, <2>1 DEF NothingLost
      <4>2. QED
        BY <1>8, <4>1
    <3>2. CASE k # match
      BY <1>5, <3>1, <3>2
    <3>3. CASE k = match
      <4>1. \A n \in 1..(given[k] + 1) : n \in 1..given[k] \/ n = given[k] + 1
        BY <1>1, <1>a
      <4>3. \A n : n = given[k] + 1 => InFileOrLine(k, n)'
        BY <1>3, <3>3 DEF InFileOrLine
      <4>4. QED
        BY <1>5, <3>1, <3>3, <4>1, <4>3
    <3>4. QED
      BY <3>2, <3>3
  <2>2. QED
    BY <2>1 DEF NothingLost
<1>12. WrittenWasGiven'
  BY <1>1, <1>a, <1>4, <1>5 DEF WrittenWasGiven
<1>13. FileIsPrefix'
  BY <1>1, <1>a DEF FileIsPrefix
<1>14. QED
  BY <1>10, <1>11, <1>12, <1>13 DEF WholeInv
(***************************************************************************)
(* What moves in line without a record of a capture that goes on being     *)
(* written or dropped.                                                     *)
(***************************************************************************)
LEMMA WholeElsewhere ==
  ASSUME CaptureTyped, WholeInv, UNCHANGED <<mode, given, written>>,
         health = "stopped" => health' = "stopped",
         InLine' \subseteq Items,
         \A k \in Matches :
           Reached(k)' /\ ~Failing(k)' =>
             \/ /\ Reached(k) /\ ~Failing(k) /\ (k \notin stopped' => k \notin stopped)
                /\ \A x \in Items : x.kind = "record" /\ x.match = k => (x \in InLine' <=> x \in InLine)
             \/ /\ \A x \in InLine' : ~(x.kind = "record" /\ x.match = k)
                /\ k \in stopped' \/ given[k] = 0
  PROVE  WholeInv'
<1>1. NoGap /\ NothingLost /\ WrittenWasGiven /\ FileIsPrefix
  BY DEF WholeInv
<1>2. ASSUME NEW k \in Matches, NEW n \in Nat,
             \A x \in Items : x.kind = "record" /\ x.match = k => (x \in InLine' <=> x \in InLine)
      PROVE  InFileOrLine(k, n) => InFileOrLine(k, n)'
  <2>1. Item("record", k, n) \in Items
    BY DEF Items
  <2>2. Item("record", k, n) \in InLine => Item("record", k, n) \in InLine'
    BY <1>2, <2>1
  <2>3. QED
    BY <2>2 DEF InFileOrLine
<1>3. NoGap'
  <2>1. ASSUME NEW y \in InLine', y.kind = "record", Reached(y.match)', ~Failing(y.match)'
        PROVE  y.record > Len(written'[y.match]) /\ \A n \in 1..(y.record - 1) : InFileOrLine(y.match, n)'
    <3>1. y \in Items /\ y.match \in Matches /\ y.record \in Nat
      BY DEF Items
    <3>2. /\ Reached(y.match) /\ ~Failing(y.match)
          /\ \A x \in Items : x.kind = "record" /\ x.match = y.match => (x \in InLine' <=> x \in InLine)
      BY <2>1, <3>1
    <3>3. y.record > Len(written[y.match]) /\ \A n \in 1..(y.record - 1) : InFileOrLine(y.match, n)
      BY <1>1, <2>1, <3>1, <3>2 DEF NoGap
    <3>4. \A n \in 1..(y.record - 1) : n \in Nat
      BY <3>1
    <3>5. \A n \in 1..(y.record - 1) : InFileOrLine(y.match, n)'
      BY <1>2, <3>1, <3>2, <3>3, <3>4
    <3>6. QED
      BY <3>3, <3>5
  <2>2. QED
    BY <2>1 DEF NoGap
<1>4. NothingLost'
  <2>1. ASSUME NEW k \in Matches, Reached(k)', ~Failing(k)', k \notin stopped',
               health' # "stopped" \/ mode' = "optional"
        PROVE  \A n \in 1..given'[k] : InFileOrLine(k, n)'
    <3>1. given[k] \in Nat /\ \A n \in 1..given[k] : n \in Nat
      BY DEF CaptureTyped
    <3>2. CASE given[k] = 0
      BY <3>2
    <3>3. CASE given[k] # 0
      <4>1. /\ Reached(k) /\ ~Failing(k) /\ k \notin stopped
            /\ \A x \in Items : x.kind = "record" /\ x.match = k => (x \in InLine' <=> x \in InLine)
        BY <2>1, <3>3
      <4>2. \A n \in 1..given[k] : InFileOrLine(k, n)
        BY <1>1, <2>1, <4>1 DEF NothingLost
      <4>3. QED
        BY <1>2, <3>1, <4>1, <4>2
    <3>4. QED
      BY <3>2, <3>3
  <2>2. QED
    BY <2>1 DEF NothingLost
<1>5. WrittenWasGiven' /\ FileIsPrefix'
  BY <1>1 DEF WrittenWasGiven, FileIsPrefix
<1>6. QED
  BY <1>3, <1>4, <1>5 DEF WholeInv

(* Sequences of one length with the same elements are one.                 *)
LEMMA SameSequence ==
  ASSUME NEW s \in Seq(Nat), NEW t \in Seq(Nat), Len(s) = Len(t),
         \A n \in 1..Len(s) : s[n] = t[n]
  PROVE  s = t
OBVIOUS

(***************************************************************************)
(* The record the writer took goes to its file: it is the next of its      *)
(* match, so the file stays a prefix of what the match was given.          *)
(***************************************************************************)
LEMMA WholePersisted ==
  ASSUME LineInv, WholeInv, UNCHANGED <<mode, given, queue, stopped, health, file>>,
         hand.at = "taken", hand.item.kind = "record", file = hand.item.match,
         hand' = [hand EXCEPT !.at = "handled"],
         written' = [written EXCEPT ![file] = Append(@, hand.item.record)]
  PROVE  WholeInv'
<1>. DEFINE x == hand.item
            m == hand.item.match
            r == hand.item.record
<1>1. CaptureTyped /\ InOrder /\ Entered /\ NoGap /\ NothingLost /\ WrittenWasGiven /\ FileIsPrefix
  BY DEF LineInv, WholeInv
<1>2. /\ hand \in [item : Items, at : {"taken", "handled", "failed"}]
      /\ hand'.at \in {"handled", "failed"} /\ Holding = {x}
      /\ InLine = Queued \cup {x} /\ InLine' = Queued
      /\ \A y \in Queued : Before(x, y)
  BY <1>1, HandledLine
<1>3. hand'.at = "handled"
  BY <1>2
<1>4. x \in Items /\ m \in Matches /\ r \in Nat /\ m \in Nat
      /\ written \in [Matches -> Seq(Nat)] /\ given \in [Matches -> Nat]
  BY <1>1, <1>2, SMTT(30) DEF Items, Matches, CaptureTyped
<1>5. Reached(m) /\ ~Failing(m) /\ x \in InLine
  BY <1>2 DEF Reached, Failing
<1>6. r > Len(written[m]) /\ \A n \in 1..(r - 1) : InFileOrLine(m, n)
  BY <1>1, <1>5 DEF NoGap
<1>7. \A y \in Queued : y \in Items /\ y.match \in Nat /\ y.record \in Nat
                        /\ (y.match = m => y.kind # "open")
                        /\ (y.kind = "record" /\ y.match = m => r < y.record)
  <2>1. \A y \in Queued : y \in Items /\ y.match \in Nat /\ y.record \in Nat
    BY <1>1, HeldItems DEF Items, Matches
  <2>2. QED
    BY <1>2, <1>4, <2>1 DEF Before
<1>8. r = Len(written[m]) + 1
  <2>1. Len(written[m]) \in Nat
    BY <1>4
  <2>2. CASE Len(written[m]) + 1 < r
    <3>1. Len(written[m]) + 1 \in 1..(r - 1)
      BY SMTT(30), <1>4, <2>1, <2>2
    <3>2. Item("record", m, Len(written[m]) + 1) \in InLine
      BY SMTT(30), <1>6, <2>1, <3>1 DEF InFileOrLine
    <3>3. Item("record", m, Len(written[m]) + 1) \in Queued
      BY <1>2, <1>4, <2>1, <2>2, <3>2
    <3>4. r < Len(written[m]) + 1
      BY <1>7, <3>3
    <3>5. QED
      BY <1>4, <2>1, <2>2, <3>4
  <2>3. QED
    BY <1>4, <1>6, <2>1, <2>2, SMTT(30)
<1>9. /\ written'[m] = Append(written[m], r) /\ Len(written'[m]) = r /\ r \in 1..given[m]
      /\ \A k \in Matches : k # m => written'[k] = written[k]
      /\ \A k \in Matches : Len(written[k]) \in Nat
  <2>1. written'[m] = Append(written[m], r) /\ \A k \in Matches : k # m => written'[k] = written[k]
    BY <1>4
  <2>2. Len(Append(written[m], r)) = Len(written[m]) + 1
    BY <1>4
  <2>3. r \in 1..given[m]
    BY <1>1, <1>2 DEF Entered
  <2>4. QED
    BY <1>4, <1>8, <2>1, <2>2, <2>3
<1>10. ASSUME NEW k \in Matches, NEW n \in Nat, InFileOrLine(k, n)
       PROVE  InFileOrLine(k, n)'
  <2>1. CASE k # m
    <3>1. Item("record", k, n) # x
      BY <2>1
    <3>2. QED
      BY <1>2, <1>9, <1>10, <2>1, <3>1 DEF InFileOrLine
  <2>2. CASE k = m
    <3>1. CASE n <= r
      <4>1. n <= Len(written'[k])
        BY <1>9, <2>2, <3>1
      <4>2. QED
        BY <4>1 DEF InFileOrLine
    <3>2. CASE ~(n <= r)
      <4>1. Item("record", k, n) # x /\ ~(n <= Len(written[k]))
        BY <1>4, <1>8, <2>2, <3>2
      <4>2. Item("record", k, n) \in InLine'
        BY <1>2, <1>10, <4>1 DEF InFileOrLine
      <4>3. QED
        BY <4>2 DEF InFileOrLine
    <3>3. QED
      BY <3>1, <3>2
  <2>3. QED
    BY <2>1, <2>2
<1>11. \A k \in Matches : (Reached(k)' => Reached(k)) /\ (~Failing(k)' => ~Failing(k))
  BY <1>2, <1>3 DEF Reached, Failing
<1>12. NoGap'
  <2>1. ASSUME NEW y \in InLine', y.kind = "record", Reached(y.match)', ~Failing(y.match)'
        PROVE  y.record > Len(written'[y.match]) /\ \A n \in 1..(y.record - 1) : InFileOrLine(y.match, n)'
    <3>1. y \in InLine /\ y \in Queued /\ y \in Items /\ y.match \in Matches /\ y.record \in Nat
      BY <1>2, <1>7 DEF Items
    <3>2. y.record > Len(written[y.match]) /\ \A n \in 1..(y.record - 1) : InFileOrLine(y.match, n)
      BY <1>1, <1>11, <2>1, <3>1 DEF NoGap
    <3>3. \A n \in 1..(y.record - 1) : n \in Nat
      BY <3>1
    <3>4. \A n \in 1..(y.record - 1) : InFileOrLine(y.match, n)'
      BY <1>10, <3>1, <3>2, <3>3
    <3>5. y.record > Len(written'[y.match])
      BY <1>7, <1>9, <2>1, <3>1, <3>2
    <3>6. QED
      BY <3>4, <3>5
  <2>2. QED
    BY <2>1 DEF NoGap
<1>13. NothingLost'
  <2>1. ASSUME NEW k \in Matches, Reached(k)', ~Failing(k)', k \notin stopped',
               health' # "stopped" \/ mode' = "optional"
        PROVE  \A n \in 1..given'[k] : InFileOrLine(k, n)'
    <3>1. \A n \in 1..given[k] : n \in Nat
      BY <1>4
    <3>2. \A n \in 1..given[k] : InFileOrLine(k, n)
      BY <1>1, <1>11, <2>1 DEF NothingLost
    <3>3. QED
      BY <1>10, <3>1, <3>2
  <2>2. QED
    BY <2>1 DEF NothingLost
<1>14. WrittenWasGiven'
  <2>1. ASSUME NEW k \in Matches PROVE Len(written'[k]) <= given[k]
    <3>1. CASE k = m
      BY <1>4, <1>9, <3>1
    <3>2. CASE k # m
      BY <1>1, <1>9, <3>2 DEF WrittenWasGiven
    <3>3. QED
      BY <3>1, <3>2
  <2>2. QED
    BY <2>1 DEF WrittenWasGiven
<1>15. FileIsPrefix'
  <2>1. ASSUME NEW k \in Matches PROVE written'[k] = [n \in 1..Len(written'[k]) |-> n]
    <3>1. CASE k # m
      BY <1>1, <1>9, <3>1 DEF FileIsPrefix
    <3>2. CASE k = m
      <4>1. written[m] = [n \in 1..Len(written[m]) |-> n] /\ Len(written[m]) \in Nat /\ written[m] \in Seq(Nat)
        <5>. HIDE DEF m
        <5>1. written[m] = [n \in 1..Len(written[m]) |-> n]
          BY <1>1, <1>4, Zenon DEF FileIsPrefix
        <5>2. Len(written[m]) \in Nat /\ written[m] \in Seq(Nat)
          BY <1>4
        <5>3. QED
          BY <5>1, <5>2
      <4>2. Append(written[m], r) = [n \in 1..r |-> n]
        <5>. DEFINE w == written[m]
        <5>1. w \in Seq(Nat) /\ Len(w) \in Nat /\ r \in Nat /\ r = Len(w) + 1
          BY <1>4, <1>8
        <5>2. \A n \in 1..Len(w) : w[n] = n
          BY <4>1, <5>1
        <5>. HIDE DEF w, r
        <5>3. Append(w, r) \in Seq(Nat) /\ Len(Append(w, r)) = r
          BY <5>1
        <5>4. \A n \in 1..r : Append(w, r)[n] = n
          BY <5>1, <5>2
        <5>5. [n \in 1..r |-> n] \in Seq(Nat) /\ Len([n \in 1..r |-> n]) = r
          BY <5>1
        <5>6. Append(w, r) = [n \in 1..r |-> n]
          <6>1. \A n \in 1..r : Append(w, r)[n] = [j \in 1..r |-> j][n]
            BY <5>4
          <6>2. QED
            BY <5>3, <5>5, <6>1, SameSequence
        <5>7. QED
          BY <5>6 DEF w
      <4>3. QED
        BY <1>9, <3>2, <4>2
    <3>3. QED
      BY <3>1, <3>2
  <2>2. QED
    BY <2>1 DEF FileIsPrefix
<1>16. QED
  BY <1>12, <1>13, <1>14, <1>15 DEF WholeInv
(* A match's file is queued to be opened: nothing was given of it yet.     *)
LEMMA WholeOfOpen ==
  ASSUME LineInv, WholeInv, Open, queue' # queue
  PROVE  WholeInv'
<1>. USE DEF writerVars, toldVars
<1>. DEFINE x == Item("open", match, 0)
<1>1. /\ CaptureTyped /\ InOrder /\ sim = "open" /\ match \in Matches /\ match \in Nat
      /\ given[match] = 0 /\ \A y \in Queued \cup Holding : y.match < match
      /\ UNCHANGED <<mode, given, written, file, hand>>
  BY DEF LineInv, Open, Places, Fresh, Entered, Matches
<1>2. queue' = Append(queue, x) /\ UNCHANGED <<stopped, health>>
  BY DEF Open
<1>3. x \in Items /\ x.kind = "open" /\ x.match = match
  BY <1>1 DEF Items
<1>4. InLine \subseteq Queued \cup Holding
  BY DEF InLine, Taken, Holding
<1>5. \A y \in InLine : Before(y, x)
  BY <1>1, <1>3, <1>4 DEF Before
<1>. HIDE DEF x
<1>6. InLine' = InLine \cup {x}
  BY <1>1, <1>2, <1>3, <1>5, LongerLine
<1>7. InLine' \subseteq Items
  BY <1>1, <1>3, <1>6, HeldItems
<1>8. ASSUME NEW k \in Matches, Reached(k)', ~Failing(k)'
      PROVE  \/ /\ Reached(k) /\ ~Failing(k) /\ (k \notin stopped' => k \notin stopped)
                /\ \A y \in Items : y.kind = "record" /\ y.match = k => (y \in InLine' <=> y \in InLine)
             \/ /\ \A y \in InLine' : ~(y.kind = "record" /\ y.match = k)
                /\ k \in stopped' \/ given[k] = 0
  <2>1. CASE k = match
    BY <1>1, <1>3, <1>4, <1>6, <2>1
  <2>2. CASE k # match
    BY <1>1, <1>2, <1>3, <1>6, <1>8, <2>2 DEF Reached, Failing
  <2>3. QED
    BY <2>1, <2>2
<1>9. QED
  BY <1>1, <1>2, <1>7, <1>8, WholeElsewhere

(* A match's file is queued to be closed.                                  *)
LEMMA WholeOfClose ==
  ASSUME LineInv, WholeInv, Close
  PROVE  WholeInv'
<1>. USE DEF writerVars, toldVars
<1>. DEFINE x == Item("close", match, 0)
<1>1. /\ CaptureTyped /\ InOrder /\ Entered /\ open /\ match \in Matches /\ match \in Nat
      /\ queue' = Append(queue, x)
      /\ UNCHANGED <<mode, given, written, file, hand, stopped, health>>
  BY DEF LineInv, Close, Places, Matches
<1>2. x \in Items /\ x.kind = "close" /\ x.match = match
  BY <1>1 DEF Items
<1>3. InLine \subseteq Queued \cup Holding
  BY DEF InLine, Taken, Holding
<1>4. \A y \in InLine : Before(y, x)
  <2>1. \A y \in Queued \cup Holding : y.match \in Nat
    BY <1>1, HeldItems DEF Items, Matches
  <2>2. QED
    BY <1>1, <1>2, <1>3, <2>1 DEF Entered, Before
<1>. HIDE DEF x
<1>5. InLine' = InLine \cup {x}
  BY <1>1, <1>2, <1>4, LongerLine
<1>6. InLine' \subseteq Items
  BY <1>1, <1>2, <1>5, HeldItems
<1>7. \A k \in Matches : Reached(k)' /\ ~Failing(k)' => Reached(k) /\ ~Failing(k)
  BY <1>1, <1>2, <1>5 DEF Reached, Failing
<1>8. QED
  BY <1>1, <1>2, <1>5, <1>6, <1>7, WholeElsewhere

(* The writer takes the oldest item, and rests.                            *)
LEMMA WholeOfTakeRecord ==
  ASSUME LineInv, WholeInv, TakeRecord
  PROVE  WholeInv'
<1>1. /\ CaptureTyped /\ InOrder /\ hand = Idle
      /\ UNCHANGED <<mode, given, written, file, stopped, health>>
  BY DEF LineInv, TakeRecord, simVars
<1>2. InLine' = InLine /\ hand' = [item |-> Head(queue), at |-> "taken"]
  BY <1>1, TakenLine
<1>3. InLine' \subseteq Items
  BY <1>1, <1>2, HeldItems
<1>4. \A k \in Matches : Reached(k)' /\ ~Failing(k)' => Reached(k) /\ ~Failing(k)
  BY <1>1, <1>2 DEF Reached, Failing
<1>5. QED
  BY <1>1, <1>2, <1>3, <1>4, WholeElsewhere

(* A file is opened, closed, or a record is not written.                   *)
LEMMA WholeOfWriting ==
  ASSUME LineInv, WholeInv, OpenFile \/ Persist \/ CloseFile
  PROVE  WholeInv'
<1>. DEFINE x == hand.item
            m == hand.item.match
<1>1. /\ CaptureTyped /\ InOrder /\ hand.at = "taken"
      /\ hand' \in {[hand EXCEPT !.at = "handled"], [hand EXCEPT !.at = "failed"]}
      /\ UNCHANGED <<mode, given, queue, health>>
  BY DEF LineInv, OpenFile, Persist, CloseFile, Handling, Handled, Fails, simVars, lockedVars
<1>2. /\ hand \in [item : Items, at : {"taken", "handled", "failed"}]
      /\ hand'.item = hand.item /\ Queued' = Queued
      /\ InLine = Queued \cup {x} /\ InLine' = Queued
      /\ \A y \in Queued : Before(x, y)
  BY <1>1, HandledLine
<1>3. x \in Items /\ m \in Matches /\ m \in Nat /\ m # None
  BY <1>2 DEF Items, Matches
<1>4. \A y \in Queued : y \in Items /\ y.match \in Nat
  BY <1>1, HeldItems DEF Items, Matches
<1>5. InLine' \subseteq Items
  BY <1>2, <1>4
<1>6. CASE OpenFile
  <2>1. /\ x.kind = "open" /\ UNCHANGED <<written, stopped>>
        /\ file' = file \/ file' = m
        /\ file' = m \/ hand'.at = "failed"
    BY <1>2, <1>6 DEF OpenFile, Handling, Handled, Fails, lockedVars
  <2>2. Reached(m) /\ ~Failing(m)
    BY <1>1, <1>2, <2>1 DEF Reached, Failing
  <2>3. \A k \in Matches : Reached(k)' /\ ~Failing(k)' => Reached(k) /\ ~Failing(k)
    <3>1. ASSUME NEW k \in Matches, Reached(k)' PROVE Reached(k) /\ ~Failing(k)
      BY <1>1, <1>2, <2>1, <3>1 DEF Reached, Failing
    <3>2. QED
      BY <3>1
  <2>4. \A y \in Items : y.kind = "record" => (y \in InLine' <=> y \in InLine)
    BY <1>2, <2>1
  <2>. HIDE DEF m
  <2>5. QED
    BY <1>1, <1>5, <2>1, <2>3, <2>4, WholeElsewhere
<1>7. CASE Persist /\ file = m /\ hand' = [hand EXCEPT !.at = "handled"]
           /\ written' = [written EXCEPT ![file] = Append(@, hand.item.record)]
  BY <1>1, <1>7, WholePersisted DEF Persist, Handling, lockedVars
<1>8. CASE Persist /\ UNCHANGED written /\ (file # m \/ hand'.at = "failed")
  <2>1. x.kind = "record" /\ UNCHANGED <<file, stopped>>
    BY <1>8 DEF Persist, Handling, lockedVars
  <2>2. \A y \in Queued : y.match = m => y.kind # "open"
    BY <1>2, <1>3, <1>4, <2>1 DEF Before
  <2>3. ASSUME NEW k \in Matches, Reached(k)', ~Failing(k)' PROVE k # m /\ Reached(k) /\ ~Failing(k)
    <3>1. k # m
      BY <1>2, <1>8, <2>1, <2>2, <2>3 DEF Reached, Failing
    <3>2. QED
      BY <1>1, <1>2, <2>1, <2>3, <3>1 DEF Reached, Failing
  <2>4. \A y \in Items : y.match # m => (y \in InLine' <=> y \in InLine)
    BY <1>2
  <2>. HIDE DEF m
  <2>5. QED
    BY <1>1, <1>5, <1>8, <2>1, <2>3, <2>4, WholeElsewhere
<1>9. CASE CloseFile
  <2>1. /\ x.kind = "close" /\ UNCHANGED written /\ stopped' = stopped \ {m}
        /\ file' = IF file = m THEN None ELSE file
    BY <1>9 DEF CloseFile, Handling
  <2>2. \A y \in Queued : y.match # m
    BY <1>2, <1>3, <1>4, <2>1 DEF Before
  <2>3. ASSUME NEW k \in Matches, Reached(k)', ~Failing(k)'
        PROVE k # m /\ Reached(k) /\ ~Failing(k) /\ (k \notin stopped' => k \notin stopped)
    <3>1. k # None
      BY DEF Matches
    <3>2. k # m /\ Reached(k) /\ ~Failing(k)
      BY <1>1, <1>2, <1>3, <2>1, <2>2, <2>3, <3>1 DEF Reached, Failing
    <3>3. QED
      BY <2>1, <3>2
  <2>4. \A y \in Items : y.match # m => (y \in InLine' <=> y \in InLine)
    BY <1>2
  <2>. HIDE DEF m
  <2>5. QED
    BY <1>1, <1>5, <2>1, <2>3, <2>4, WholeElsewhere
<1>10. QED
  <2>1. Persist => \/ UNCHANGED written /\ (file # m \/ hand'.at = "failed")
                   \/ file = m /\ hand' = [hand EXCEPT !.at = "handled"]
                      /\ written' = [written EXCEPT ![file] = Append(@, hand.item.record)]
    BY <1>2 DEF Persist, Fails, Handled
  <2>2. QED
    BY <1>6, <1>7, <1>8, <1>9, <2>1

(***************************************************************************)
(* The writer rests.  Of a capture that failed nothing more is written:    *)
(* its records are out of line and it is stopped.                          *)
(***************************************************************************)
LEMMA WholeOfDone ==
  ASSUME LineInv, WholeInv, Done
  PROVE  WholeInv'
<1>1. /\ CaptureTyped /\ Places /\ InOrder /\ hand.at \in {"handled", "failed"} /\ hand'.at = "idle"
      /\ UNCHANGED <<mode, given, written, file>>
  BY DEF LineInv, Done, Rested, simVars
<1>2. Taken = {} /\ Taken' = {} /\ InLine = Queued /\ InLine' = Queued'
  BY <1>1 DEF Taken, InLine
<1>3. \A k \in Matches : ~Failing(k)'
  BY <1>1 DEF Failing
<1>4. InLine \subseteq Items
  BY <1>1, HeldItems
<1>5. CASE hand.at = "handled" /\ UNCHANGED <<queue, stopped, health>>
  <2>1. InLine' = InLine
    BY <1>2, <1>5 DEF Queued
  <2>2. \A k \in Matches : Reached(k)' => Reached(k) /\ ~Failing(k)
    BY <1>1, <1>5, <2>1 DEF Reached, Failing
  <2>3. QED
    BY <1>1, <1>4, <1>5, <2>1, <2>2, WholeElsewhere
<1>6. CASE /\ hand.at = "failed" /\ queue' = Kept(hand.item.match) /\ StopLocked(hand.item.match)
  <2>. DEFINE m == hand.item.match
  <2>1. m \in Matches
    BY <1>1, <1>6 DEF CaptureTyped, Items
  <2>2. stopped' = stopped \cup {m} /\ (health = "stopped" => health' = "stopped")
    BY <1>1, <1>6, <2>1, StopEffect
  <2>3. InLine' = {x \in InLine : ~(x.kind = "record" /\ x.match = m)}
    <3>1. {Kept(m)[k] : k \in DOMAIN Kept(m)} = {x \in Queued : ~(x.kind = "record" /\ x.match = m)}
      BY <1>1, KeptItems DEF CaptureTyped
    <3>2. Queued' = {queue'[k] : k \in DOMAIN queue'}
      BY DEF Queued
    <3>3. queue' = Kept(m)
      BY <1>6
    <3>. HIDE DEF m
    <3>4. QED
      BY <1>2, <3>1, <3>2, <3>3
  <2>. HIDE DEF m
  <2>4. \A k \in Matches : Reached(k)' => Reached(k)
    BY <1>1, <2>3 DEF Reached
  <2>5. \A k \in Matches : k # m => ~Failing(k)
    BY DEF Failing, m
  <2>6. ASSUME NEW k \in Matches, Reached(k)', ~Failing(k)'
        PROVE  \/ /\ Reached(k) /\ ~Failing(k) /\ (k \notin stopped' => k \notin stopped)
                  /\ \A y \in Items : y.kind = "record" /\ y.match = k => (y \in InLine' <=> y \in InLine)
               \/ /\ \A y \in InLine' : ~(y.kind = "record" /\ y.match = k)
                  /\ k \in stopped' \/ given[k] = 0
    <3>1. CASE k = m
      BY <2>2, <2>3, <3>1
    <3>2. CASE k # m
      BY <2>2, <2>3, <2>4, <2>5, <2>6, <3>2
    <3>3. QED
      BY <3>1, <3>2
  <2>7. InLine' \subseteq Items
    BY <1>4, <2>3
  <2>8. QED
    BY <1>1, <2>2, <2>6, <2>7, WholeElsewhere
<1>7. QED
  BY <1>5, <1>6 DEF Done

(***************************************************************************)
(* A record handed in is queued behind the rest of its match, or it is     *)
(* dropped and its capture stopped, or every capture has.                  *)
(***************************************************************************)
LEMMA WholeOfHanding ==
  ASSUME LineInv, WholeInv, Handing
  PROVE  WholeInv'
<1>. USE DEF toldVars, lockedVars
<1>1. /\ CaptureTyped /\ Places /\ Entered /\ open /\ match \in Matches /\ match \in Nat
      /\ UNCHANGED <<mode, hand, file, written, match>> /\ sim # "finished"
      /\ given \in [Matches -> Nat]
  <2>1. CaptureTyped /\ Places /\ Entered
    BY DEF LineInv
  <2>2. UNCHANGED <<mode, hand, file, written, match>> /\ open /\ sim # "finished"
    BY DEF Handing
  <2>3. match \in Matches /\ match \in Nat
    BY <2>1, <2>2 DEF Places, Matches
  <2>4. given \in [Matches -> Nat]
    BY <2>1 DEF CaptureTyped
  <2>5. QED
    BY <2>1, <2>2, <2>3, <2>4
<1>2. CASE /\ given' = [given EXCEPT ![match] = @ + 1] /\ UNCHANGED queue
           /\ \/ StopLocked(match)
              \/ Drops /\ UNCHANGED <<stopped, health>>
  <2>1. stopped \subseteq stopped' /\ (health = "stopped" => health' = "stopped")
    BY <1>1, <1>2, StopEffect
  <2>2. match \in stopped' \/ (health = "stopped" /\ mode # "optional")
    BY <1>1, <1>2, StopEffect DEF Drops, Places
  <2>3. given'[match] = given[match] + 1 /\ \A k \in Matches : k # match => given'[k] = given[k]
    BY <1>1, <1>2
  <2>4. QED
    BY <1>1, <1>2, <2>1, <2>2, <2>3, WholeOnceStopped
<1>3. CASE UNCHANGED <<queue, stopped, health, given>>
  BY <1>1, <1>3, WholeOnceStopped
<1>4. CASE /\ given' = [given EXCEPT ![match] = @ + 1] /\ ~Drops
           /\ queue' = Append(queue, Item("record", match, given[match] + 1))
           /\ UNCHANGED <<stopped, health>>
  <2>1. match \notin stopped /\ health # "stopped"
    BY <1>4 DEF Drops
  <2>2. \A y \in InLine : Before(y, Item("record", match, given[match] + 1))
    BY <1>1, RecordIsLast
  <2>3. QED
    BY <1>1, <1>4, <2>1, <2>2, WholeWithRecord
<1>5. QED
  BY <1>2, <1>3, <1>4 DEF Handing, Hand, Push

(* Whichever thread steps.                                                 *)
LEMMA WholeStep ==
  ASSUME LineInv, WholeInv, [CaptureNext]_captureVars
  PROVE  WholeInv'
<1>. USE DEF simVars, lockedVars, writerVars, toldVars
<1>1. CaptureTyped /\ Places
  BY DEF LineInv
<1>2. CASE CaptureNext
  <2>1. CASE \/ CheckLoss \/ StartMatch \/ Begin \/ Finish \/ EndTick
             \/ (Join /\ ~(toJoin > 0)) \/ (Open /\ queue' = queue)
    <3>1. UNCHANGED <<mode, queue, hand, file, written, given>>
      BY <2>1 DEF CheckLoss, StartMatch, Begin, Finish, EndTick, Join, Open
    <3>2. stopped \subseteq stopped' /\ (health = "stopped" => health' = "stopped")
      <4>1. CASE Open /\ StopLocked(match)
        <5>1. match \in Matches
          BY <1>1, <4>1 DEF Open, Places
        <5>2. QED
          BY <1>1, <4>1, <5>1, StopEffect
      <4>2. QED
        BY <2>1, <4>1 DEF CheckLoss, StartMatch, Begin, Finish, EndTick, Join, Open
    <3>3. QED
      BY <1>1, <3>1, <3>2, WholeOnceStopped
  <2>2. CASE (Join /\ toJoin > 0) \/ Event \/ EndMatch
    BY <1>1, <2>2, WhereHandingHappens, WholeOfHanding
  <2>3. CASE Open /\ queue' # queue
    BY <2>3, WholeOfOpen
  <2>4. CASE Close
    BY <2>4, WholeOfClose
  <2>5. CASE TakeRecord
    BY <2>5, WholeOfTakeRecord
  <2>6. CASE OpenFile \/ Persist \/ CloseFile
    BY <2>6, WholeOfWriting
  <2>7. CASE Done
    BY <2>7, WholeOfDone
  <2>8. QED
    BY <1>2, <2>1, <2>2, <2>3, <2>4, <2>5, <2>6, <2>7 DEF CaptureNext, CapturingStep, WriterStep
<1>3. CASE UNCHANGED captureVars
  BY <1>1, <1>3, WholeOnceStopped DEF captureVars
<1>4. QED
  BY <1>2, <1>3

-----------------------------------------------------------------------------
(* A capture told completed, in optional mode, has every record in its file. *)
LEMMA CompletedStep ==
  ASSUME LineInv, WholeInv, WholeInv', Tellings, OptionalCompletedIsWhole, [CaptureNext]_captureVars
  PROVE  OptionalCompletedIsWhole'
<1>. USE DEF simVars, lockedVars, writerVars, toldVars
<1>1. /\ CaptureTyped /\ Places /\ InOrder /\ Entered
      /\ given \in [Matches -> Nat] /\ written \in [Matches -> Seq(Nat)] /\ completed \subseteq Matches
      /\ \A k \in completed : Over(k)
  BY DEF LineInv, CaptureTyped, Tellings
<1>2. mode' = mode
  BY DEF CaptureNext, CapturingStep, WriterStep, CheckLoss, StartMatch, Begin, Open, Join, EndMatch,
         Close, Finish, EndTick, Event, TakeRecord, OpenFile, Persist, CloseFile, Done, captureVars
<1>3. \A k \in completed : given'[k] = given[k]
  <2>1. given' = given \/ (Handing /\ given' = [given EXCEPT ![match] = @ + 1])
    <3>1. CASE (Join /\ toJoin > 0) \/ Event \/ EndMatch
      <4>1. Handing
        BY <1>1, <3>1, WhereHandingHappens
      <4>2. QED
        BY <4>1 DEF Handing, Hand, Push
    <3>2. CASE ~((Join /\ toJoin > 0) \/ Event \/ EndMatch)
      BY <3>2 DEF CaptureNext, CapturingStep, WriterStep, CheckLoss, StartMatch, Begin, Open, Join,
         Close, Finish, EndTick, TakeRecord, OpenFile, Persist, CloseFile, Done, captureVars
    <3>3. QED
      BY <3>1, <3>2
  <2>2. Handing => \A k \in completed : k # match
    BY <1>1 DEF Over, Handing
  <2>3. QED
    BY <1>1, <2>1, <2>2
<1>4. \A k \in completed : written'[k] = written[k]
  <2>1. \/ written' = written
        \/ /\ Persist /\ file = hand.item.match
           /\ written' = [written EXCEPT ![file] = Append(@, hand.item.record)]
    BY DEF CaptureNext, CapturingStep, WriterStep, CheckLoss, StartMatch, Begin, Open, Join, EndMatch,
         Close, Finish, EndTick, Event, TakeRecord, OpenFile, Persist, CloseFile, Done, captureVars
  <2>2. Persist => \A k \in completed : k # hand.item.match
    BY <1>1 DEF Over, Persist, Handling
  <2>3. QED
    BY <1>1, <2>1, <2>2
<1>5. ASSUME NEW k \in completed', k \notin completed, mode = "optional"
      PROVE  Len(written'[k]) = given'[k]
  <2>1. CloseFile /\ k = hand.item.match /\ file = k /\ k \notin stopped
        /\ UNCHANGED <<written, given, queue>>
    BY <1>5 DEF CaptureNext, CapturingStep, WriterStep, CheckLoss, StartMatch, Begin, Open, Join, EndMatch,
         Close, Finish, EndTick, Event, TakeRecord, OpenFile, Persist, CloseFile, Completes, Done, captureVars
  <2>2. k \in Matches /\ k \in Nat
    BY <2>1, ClosedIsOver DEF Matches
  <2>3. /\ hand.at = "taken" /\ hand.item.kind = "close"
        /\ hand' = [hand EXCEPT !.at = "handled"]
    BY <2>1 DEF CloseFile, Handling, Handled
  <2>4. InLine = Queued \cup {hand.item} /\ \A y \in Queued : Before(hand.item, y)
    BY <1>1, <2>1, <2>3, HandledLine
  <2>5. \A n \in 1..given[k] : InFileOrLine(k, n)
    BY <1>5, <2>1, <2>2, <2>3 DEF WholeInv, NothingLost, Reached, Failing
  <2>6. \A n \in Nat : Item("record", k, n) \notin InLine
    BY <2>1, <2>2, <2>3, <2>4 DEF Before
  <2>7. given[k] \in Nat /\ Len(written[k]) \in Nat /\ Len(written[k]) <= given[k]
    BY <1>1, <2>2 DEF WholeInv, WrittenWasGiven
  <2>8. given[k] # 0 => given[k] <= Len(written[k])
    <3>1. given[k] # 0 => given[k] \in 1..given[k]
      BY <2>7
    <3>2. QED
      BY <2>5, <2>6, <2>7, <3>1 DEF InFileOrLine
  <2>9. QED
    BY <2>1, <2>7, <2>8
<1>6. QED
  BY <1>2, <1>3, <1>4, <1>5 DEF OptionalCompletedIsWhole, CompletedIsWhole

-----------------------------------------------------------------------------
(***************************************************************************)
(* The inductive invariant: the three layers, the state told and what a    *)
(* capture told completed holds.                                           *)
(***************************************************************************)
CaptureIInv ==
  LineInv /\ Tellings /\ StateOfOpenMatch /\ WholeInv /\ OptionalCompletedIsWhole

LEMMA CaptureStart == CaptureInit => CaptureIInv
<1>. SUFFICES ASSUME CaptureInit PROVE CaptureIInv
  OBVIOUS
<1>1. LineInv
  BY LineStart
<1>. USE DEF CaptureInit
<1>2. Tellings
  BY DEF Tellings
<1>3. StateOfOpenMatch /\ OptionalCompletedIsWhole
  BY DEF StateOfOpenMatch, OptionalCompletedIsWhole, CompletedIsWhole
<1>4. InLine = {}
  BY DEF InLine, Queued, Taken
<1>5. NoGap /\ NothingLost
  BY <1>4 DEF NoGap, NothingLost
<1>6. WrittenWasGiven
  BY DEF WrittenWasGiven
<1>7. FileIsPrefix
  <2>1. \A m \in Matches : written[m] = <<>> /\ Len(<<>>) = 0
    OBVIOUS
  <2>2. [n \in 1..0 |-> n] = <<>>
    OBVIOUS
  <2>3. QED
    BY <2>1, <2>2 DEF FileIsPrefix
<1>8. QED
  BY <1>1, <1>2, <1>3, <1>5, <1>6, <1>7 DEF CaptureIInv, WholeInv

LEMMA CaptureStep == CaptureIInv /\ [CaptureNext]_captureVars => CaptureIInv'
<1>. SUFFICES ASSUME CaptureIInv, [CaptureNext]_captureVars PROVE CaptureIInv'
  OBVIOUS
<1>1. LineInv /\ Tellings /\ StateOfOpenMatch /\ WholeInv /\ OptionalCompletedIsWhole
  BY DEF CaptureIInv
<1>2. LineInv' /\ WholeInv'
  BY <1>1, LineStep, WholeStep
<1>3. Tellings' /\ StateOfOpenMatch'
  BY <1>1, TellingsStep, StateStep
<1>4. OptionalCompletedIsWhole'
  BY <1>1, <1>2, CompletedStep
<1>5. QED
  BY <1>2, <1>3, <1>4 DEF CaptureIInv

LEMMA CapturePromise == CaptureIInv => CaptureInv
<1>. SUFFICES ASSUME CaptureIInv PROVE CaptureInv
  OBVIOUS
<1>1. LineInv /\ Tellings /\ StateOfOpenMatch /\ WholeInv /\ OptionalCompletedIsWhole
  BY DEF CaptureIInv
<1>2. CaptureTypeOK
  BY <1>1 DEF LineInv, CaptureTyped, CaptureTypeOK
<1>3. ToldOnce
  BY <1>1 DEF Tellings, ToldOnce
<1>4. QED
  BY <1>1, <1>2, <1>3 DEF CaptureInv, WholeInv

(***************************************************************************)
(* The captures keep their promise, for any capacity of the queue: a file  *)
(* is a prefix of what its match handed in, the state told last is that of *)
(* the match open, each capture ends told once, and one told completed in  *)
(* optional mode is whole (capturer.cpp, capture_writer.cpp).              *)
(***************************************************************************)
THEOREM CaptureInvariant == CaptureSpec => []CaptureInv
<1>1. CaptureInit => CaptureIInv
  BY CaptureStart
<1>2. CaptureIInv /\ [CaptureNext]_captureVars => CaptureIInv'
  BY CaptureStep
<1>3. CaptureIInv => CaptureInv
  BY CapturePromise
<1>4. QED
  BY <1>1, <1>2, <1>3, PTL DEF CaptureSpec

(***************************************************************************)
(* The first loss names its match for good, and the health of the captures *)
(* never improves, whichever thread meets a loss (LoseLocked).             *)
(***************************************************************************)
THEOREM LossIsKept == CaptureSpec => FirstLossKept
<1>. DEFINE Kept1 == /\ loss # None => loss' = loss
                     /\ health = "stopped" => health' = "stopped"
                     /\ health = "degraded" => health' # "enabled"
<1>1. CaptureInit => LineInv
  BY LineStart
<1>2. LineInv /\ [CaptureNext]_captureVars => LineInv'
  BY LineStep
<1>3. LineInv /\ [CaptureNext]_captureVars => Kept1
  <2>. SUFFICES ASSUME LineInv, [CaptureNext]_captureVars PROVE Kept1
    OBVIOUS
  <2>1. loss # None => health # "enabled"
    BY DEF LineInv, Places
  <2>2. ASSUME NEW m, StopLocked(m) PROVE Kept1
    BY <2>1, <2>2 DEF StopLocked, LosesFirst, LostHealth
  <2>3. CASE UNCHANGED <<health, loss>>
    BY <2>3
  <2>4. CASE Finish
    BY <2>4 DEF Finish
  <2>5. QED
    BY <2>2, <2>3, <2>4
       DEF CaptureNext, CapturingStep, WriterStep, CheckLoss, StartMatch, Begin, Open, Join, EndMatch,
           Close, EndTick, Event, TakeRecord, OpenFile, Persist, CloseFile, Done, Hand, Push,
           captureVars, lockedVars
<1>4. QED
  BY <1>1, <1>2, <1>3, PTL DEF CaptureSpec, FirstLossKept
=============================================================================
