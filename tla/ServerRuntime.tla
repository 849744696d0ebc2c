---------------------------- MODULE ServerRuntime ---------------------------
(***************************************************************************)
(* The server's runtime (server/server.cpp): the Network I/O thread and    *)
(* the Simulation loop, on the thread that calls Run, under one Supervisor.*)
(* What either thread meets while sending or encoding is recorded in one   *)
(* of two latches (failure_latch.h), from which each worker takes, once,   *)
(* what it stops on; a strict capture's loss, found by the capture writer, *)
(* is asked for before each tick and when the captures are finished.       *)
(*                                                                         *)
(* The Host's work in a round or a tick is one step here, which may record *)
(* a failure in a latch, throw, or neither.                                *)
(***************************************************************************)
EXTENDS Supervisor, Naturals

ASSUME RuntimeWorkers == Workers = {"network", "simulation"}
ASSUME RuntimeFailures ==
  Failures = {"transport", "invariant", "capture", "thrown", "creation"}

Latches == {"transport", "invariant"}

VARIABLES
  recorded,  \* the latches that ever recorded a failure
  held,      \* the latches whose failure has not been taken
  at,        \* where each thread is in its loop
  ended,     \* what TickUntilStopped returned
  lost,      \* whether a strict capture has lost a record
  finished,  \* whether the captures are finished
  outcome,   \* what Run returned, once it has
  met,       \* history: every failure the server met
  reports    \* history: how many workers stopped on each latch's failure

runtimeVars == <<recorded, held, at, ended, lost, finished, outcome, met, reports>>
vars == <<supervisorVars, runtimeVars>>

Running == "running"  \* no outcome yet

Init ==
  /\ SupervisorInit
  /\ recorded = {} /\ held = {}
  /\ at = [w \in Workers |-> "check"]
  /\ ended = NoFailure
  /\ lost = FALSE /\ finished = FALSE
  /\ outcome = Running
  /\ met = {}
  /\ reports = [l \in Latches |-> 0]

Goto(w, place) == at' = [at EXCEPT ![w] = place]

-----------------------------------------------------------------------------
(***************************************************************************)
(* FailureLatch: Record keeps the first failure ever; Take gives it once.  *)
(***************************************************************************)
Record(l) ==
  /\ recorded' = recorded \cup {l}
  /\ held' = IF l \in recorded THEN held ELSE held \cup {l}
  /\ met' = met \cup {l}

Take(l) == held' = held \ {l}

(***************************************************************************)
(* A round of the network's work or a tick: PumpNetwork or Tick.           *)
(***************************************************************************)
Work(w, next) ==
  /\ worker[w] = "running" /\ at[w] = "work"
  /\ \/ Goto(w, next) /\ UNCHANGED <<recorded, held, met>>
     \/ \E l \in Latches : Record(l) /\ Goto(w, next)
  /\ UNCHANGED <<supervisorVars, ended, lost, finished, outcome, reports>>

WorkThrows(w) ==
  /\ at[w] = "work"
  /\ Fail(w, "thrown")
  /\ met' = met \cup {"thrown"}
  /\ UNCHANGED <<recorded, held, at, ended, lost, finished, outcome, reports>>

Reported(l) == reports' = [reports EXCEPT ![l] = @ + 1]

-----------------------------------------------------------------------------
(***************************************************************************)
(* NetworkThreadMain.  Between rounds ServedResult takes from the          *)
(* transport's latch, then from the invariant's, and the worker stops on   *)
(* what it finds.                                                          *)
(***************************************************************************)
NetworkCheck ==
  /\ worker["network"] = "running" /\ at["network"] = "check"
  /\ \/ StopRequested /\ Return("network") /\ UNCHANGED at
     \/ ~StopRequested /\ Goto("network", "work") /\ UNCHANGED supervisorVars
  /\ UNCHANGED <<recorded, held, ended, lost, finished, outcome, met, reports>>

NetworkTakes(l, next) ==
  /\ worker["network"] = "running" /\ at["network"] = l
  /\ \/ /\ l \in held
        /\ Take(l)
        /\ Reported(l)
        /\ Fail("network", l)
        /\ UNCHANGED at
     \/ /\ l \notin held
        /\ Goto("network", next)
        /\ UNCHANGED <<supervisorVars, held, reports>>
  /\ UNCHANGED <<recorded, ended, lost, finished, outcome, met>>

NetworkStep ==
  \/ NetworkCheck
  \/ Work("network", "transport") \/ WorkThrows("network")
  \/ NetworkTakes("transport", "invariant") \/ NetworkTakes("invariant", "check")

-----------------------------------------------------------------------------
(***************************************************************************)
(* SimulationLoop: TickUntilStopped, then the captures are finished,       *)
(* however it ended.                                                       *)
(***************************************************************************)
(* Mutant: the loop does not ask for a capture's loss. *)
MutLossKnownNever == FALSE

LossKnown == lost

TickCheck ==
  /\ worker["simulation"] = "running" /\ at["simulation"] = "check"
  /\ \/ StopRequested /\ Goto("simulation", "finish") /\ UNCHANGED ended
     \/ ~StopRequested /\ LossKnown /\ Goto("simulation", "finish") /\ ended' = "capture"
     \/ ~StopRequested /\ ~LossKnown /\ Goto("simulation", "work") /\ UNCHANGED ended
  /\ UNCHANGED <<supervisorVars, recorded, held, lost, finished, outcome, met, reports>>

SimulationTakes(l, next) ==
  /\ worker["simulation"] = "running" /\ at["simulation"] = l
  /\ \/ /\ l \in held
        /\ Take(l)
        /\ Reported(l)
        /\ ended' = l
        /\ Goto("simulation", "finish")
     \/ /\ l \notin held
        /\ Goto("simulation", next)
        /\ UNCHANGED <<held, ended, reports>>
  /\ UNCHANGED <<supervisorVars, recorded, lost, finished, outcome, met>>

SimulationResult == IF ended = NoFailure /\ lost THEN "capture" ELSE ended

FinishCapture ==
  /\ worker["simulation"] = "running" /\ at["simulation"] = "finish"
  /\ finished' = TRUE
  /\ IF SimulationResult = NoFailure THEN Return("simulation")
                                     ELSE Fail("simulation", SimulationResult)
  /\ UNCHANGED <<recorded, held, at, ended, lost, outcome, met, reports>>

SimulationStep ==
  \/ TickCheck
  \/ Work("simulation", "transport") \/ WorkThrows("simulation")
  \/ SimulationTakes("transport", "invariant") \/ SimulationTakes("invariant", "check")
  \/ FinishCapture

(* The capture writer meets a loss in what the Simulation loop captured,   *)
(* until the captures are finished.                                        *)
WriterLoses ==
  /\ ~lost /\ ~finished
  /\ worker["simulation"] = "running" \/ failing["simulation"] # NoFailure
  /\ lost' = TRUE
  /\ met' = met \cup {"capture"}
  /\ UNCHANGED <<supervisorVars, recorded, held, at, ended, finished, outcome, reports>>

-----------------------------------------------------------------------------
(***************************************************************************)
(* Run: the network worker is spawned, the Simulation loop run, both       *)
(* joined, and the captures finished if the loop did not; then the first   *)
(* cause is returned, or the loss.                                         *)
(***************************************************************************)
Admit(w) ==
  \/ (Refuse(w) \/ Start(w)) /\ UNCHANGED runtimeVars
  \/ /\ StartFails(w, "creation")
     /\ met' = met \cup {"creation"}
     /\ UNCHANGED <<recorded, held, at, ended, lost, finished, outcome, reports>>

SpawnNetwork == Admit("network")

(* A thread that cannot be started has recorded so before Spawn returns. *)
Spawned ==
  /\ worker["network"] # "none"
  /\ worker["network"] \in {"failed", "publishing"} => failing["network"] # "creation"

RunSimulation ==
  /\ Spawned
  /\ (Refuse("simulation") \/ Start("simulation")) /\ UNCHANGED runtimeVars

JoinNetwork ==
  \/ worker["simulation"] = "ended" /\ StopToJoin /\ UNCHANGED runtimeVars
  \/ Joined /\ UNCHANGED runtimeVars

RunReturns ==
  /\ owner = "joined" /\ outcome = Running
  /\ finished' = TRUE
  /\ outcome' = IF cause # NoFailure THEN cause
                ELSE IF lost THEN "capture" ELSE NoFailure
  /\ UNCHANGED <<supervisorVars, recorded, held, at, ended, lost, met, reports>>

RunStep == SpawnNetwork \/ RunSimulation \/ JoinNetwork \/ RunReturns

Recording(w) == (RecordStop(w) \/ Publish(w)) /\ UNCHANGED runtimeVars

(* ServerRuntime::Stop, from a signal handler. *)
Stop == RequestStop /\ UNCHANGED runtimeVars

Next ==
  \/ RunStep \/ NetworkStep \/ SimulationStep \/ WriterLoses \/ Stop
  \/ \E w \in Workers : Recording(w)

Spec == Init /\ [][Next]_vars

(***************************************************************************)
(* Every thread runs on: a round and a tick return, and a join waits for   *)
(* nothing but the worker it joins.                                        *)
(***************************************************************************)
FairSpec ==
  /\ Spec
  /\ WF_vars(RunStep) /\ WF_vars(NetworkStep) /\ WF_vars(SimulationStep)
  /\ \A w \in Workers : WF_vars(Recording(w))

-----------------------------------------------------------------------------
TypeOK ==
  /\ held \subseteq recorded /\ recorded \subseteq Latches
  /\ at \in [Workers -> {"check", "work", "transport", "invariant", "finish"}]
  /\ outcome \in Failures \cup {NoFailure, Running}

(***************************************************************************)
(* No failure is swallowed: if the server met one, on either thread, in    *)
(* either latch, in the writer, by a throw or before a worker ran, Run     *)
(* says it failed, with one it met.                                        *)
(***************************************************************************)
NothingSwallowed ==
  outcome # Running => IF met = {} THEN outcome = NoFailure ELSE outcome \in met

(***************************************************************************)
(* Each latch's failure is reported by one worker at most (failure_latch.h:*)
(* "Taken once, so exactly one worker reports it").                        *)
(***************************************************************************)
ReportedOnce == \A l \in Latches : reports[l] <= 1

(***************************************************************************)
(* What the runtime reports is what failed: nothing swallowed, nothing     *)
(* reported by both workers (ServedResult, Run and FailureLatch::Take).    *)
(***************************************************************************)
RuntimeInv == TypeOK /\ NothingSwallowed /\ ReportedOnce

(***************************************************************************)
(* Whatever it fails on, and whenever, the server ends: both threads       *)
(* return and are joined, and Run returns.                                 *)
(***************************************************************************)
FailureEnds == met # {} ~> outcome # Running
=============================================================================
