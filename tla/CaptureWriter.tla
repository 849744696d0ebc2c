---------------------------- MODULE CaptureWriter ---------------------------
(***************************************************************************)
(* A server's Match captures: the Capturer the Simulation thread hands     *)
(* each event of a tick to (host/capturer.cpp) and the writer thread behind *)
(* it (host/capture_writer.cpp), which creates, writes and closes each     *)
(* Match's file.  Between them are a bounded queue, the matches whose      *)
(* capture stopped, and the health of the captures, all under one mutex    *)
(* that is never held across a write; the health is also read without it.  *)
(*                                                                         *)
(* The Simulation thread is driven as the Host and the server's loop do:   *)
(* before each tick a strict capture's loss ends the run; a tick ends the  *)
(* match in progress or starts one, then hands its events in; at the end   *)
(* of the run the captures are finished.  A match is ended before another  *)
(* starts, so StartMatch never finds one open.                             *)
(*                                                                         *)
(* A record is its number in its match.                                    *)
(***************************************************************************)
EXTENDS Naturals, Sequences, FiniteSets, Subsequences

CONSTANTS
  Modes,      \* the CaptureModes a server may run with
  Capacity,   \* capacity_: how many records the queue holds
  Entrants,   \* how many Joins a match's capture starts with
  MaxMatches, \* bound: how many matches start
  MaxRecords, \* bound: how many events a match hands in, its Joins included
  MaxFaults   \* bound: how many disk faults, long records and broken ones

ASSUME CaptureAssumption ==
  /\ Modes \subseteq {"optional", "strict"}
  /\ Capacity \in Nat \ {0} /\ Entrants \in Nat
  /\ MaxMatches \in Nat /\ MaxRecords \in Nat /\ MaxFaults \in Nat

VARIABLES
  mode,      \* mode_
  sim,       \* where the Simulation thread is
  open,      \* open_
  match,     \* match_: the match open, or the last one
  toJoin,    \* Joins StartMatch has still to hand in
  broken,    \* failure_: a record the protocol cannot carry
  queue,     \* queue_
  queued,    \* records_queued_
  stopped,   \* stopped_
  openMatch, \* open_match_
  health,    \* health_
  loss,      \* loss_: the match that lost the first record
  hand,      \* the item the writer is handling
  file,      \* file_match_
  lastTold,    \* history: the last state of captures the observer was told
  given,     \* history: how many records each match's capture was handed
  written,   \* history: the records in each match's file
  completed, \* history: the matches told completed
  stops,     \* history: how many times each match was told stopped
  faults     \* how many faults there were, for the bound

simVars == <<mode, sim, open, match, toJoin, broken>>
lockedVars == <<queue, queued, stopped, openMatch, health, loss>>
writerVars == <<hand, file, written, completed>>
toldVars == <<lastTold, stops>>
captureVars == <<simVars, lockedVars, writerVars, toldVars, given, faults>>

None == 0
Matches == 1..MaxMatches

Item(kind, m, n) == [kind |-> kind, match |-> m, record |-> n]
Idle == [item |-> Item("none", None, 0), at |-> "idle"]

CaptureInit ==
  /\ mode \in Modes
  /\ sim = "check" /\ open = FALSE /\ match = None /\ toJoin = 0 /\ broken = FALSE
  /\ queue = <<>> /\ queued = 0 /\ stopped = {} /\ openMatch = None
  /\ health = "enabled" /\ loss = None
  /\ hand = Idle /\ file = None
  /\ lastTold = "idle"
  /\ given = [m \in Matches |-> 0] /\ written = [m \in Matches |-> <<>>]
  /\ completed = {} /\ stops = [m \in Matches |-> 0]
  /\ faults = 0

(* Something goes wrong, if it still may. *)
Fault == faults < MaxFaults /\ faults' = faults + 1

-----------------------------------------------------------------------------
(***************************************************************************)
(* StopLocked: a capture stops once, and is told so as the state only if   *)
(* its match is the one open.  LoseLocked keeps the run's first loss.      *)
(***************************************************************************)
LostHealth == IF mode = "optional" THEN "degraded" ELSE "stopped"

(* Mutant: every loss is taken for the first. *)
MutLosesFirst == TRUE

LosesFirst == health = "enabled"

StateStopped(m) == IF m = openMatch THEN "stopped" ELSE lastTold

StopLocked(m) ==
  IF m \in stopped THEN UNCHANGED <<stopped, health, loss, toldVars>>
  ELSE /\ stopped' = stopped \cup {m}
       /\ stops' = [stops EXCEPT ![m] = @ + 1]
       /\ lastTold' = StateStopped(m)
       /\ health' = IF LosesFirst THEN LostHealth ELSE health
       /\ loss' = IF LosesFirst THEN m ELSE loss

(***************************************************************************)
(* Push: a record of a capture that stopped, or after the last capture, is *)
(* dropped; one that finds the queue full stops the capture there.         *)
(***************************************************************************)

QueueFull == queued >= Capacity

Drops == match \in stopped \/ health = "stopped"

Push ==
  /\ given' = [given EXCEPT ![match] = @ + 1]
  /\ UNCHANGED openMatch
  /\ \/ Drops /\ UNCHANGED <<queue, queued, stopped, health, loss, toldVars>>
     \/ ~Drops /\ QueueFull /\ StopLocked(match) /\ UNCHANGED <<queue, queued>>
     \/ /\ ~Drops /\ ~QueueFull
        /\ queue' = Append(queue, Item("record", match, given[match] + 1))
        /\ queued' = queued + 1
        /\ UNCHANGED <<stopped, health, loss, toldVars>>

(* Admit and Queue: a record is pushed; or is too long, and stops the      *)
(* capture; or cannot be carried at all, which ends the run.               *)
Hand ==
  \/ Push /\ UNCHANGED <<broken, faults>>
  \/ /\ Fault
     /\ given' = [given EXCEPT ![match] = @ + 1]
     /\ StopLocked(match)
     /\ UNCHANGED <<queue, queued, openMatch, broken>>
  \/ /\ Fault
     /\ broken' = TRUE
     /\ UNCHANGED <<lockedVars, toldVars, given>>

-----------------------------------------------------------------------------
(***************************************************************************)
(* The Simulation thread: TickUntilStopped and a tick's PrepareTick.       *)
(***************************************************************************)
Proceed(place) == sim' = place

Lost == mode = "strict" /\ loss # None

CheckLoss ==
  /\ sim = "check"
  /\ \/ (Lost \/ broken) /\ Proceed("finish")
     \/ ~Lost /\ ~broken /\ (Proceed("tick") \/ Proceed("finish"))
  /\ UNCHANGED <<mode, open, match, toJoin, broken, lockedVars, writerVars, toldVars, given, faults>>

(***************************************************************************)
(* StartMatch reads the health without the lock, then begins the match,    *)
(* queues its file to be opened and hands its Joins in, each under the     *)
(* lock: the writer may go on between any two.                             *)
(***************************************************************************)
StartMatch ==
  /\ sim = "tick" /\ ~open
  /\ match < MaxMatches
  /\ \/ health = "stopped" /\ Proceed("events") /\ UNCHANGED <<open, match, toJoin>>
     \/ /\ health # "stopped"
        /\ match' = match + 1
        /\ open' = TRUE
        /\ toJoin' = Entrants
        /\ Proceed("begin")
  /\ UNCHANGED <<mode, broken, lockedVars, writerVars, toldVars, given, faults>>

Begin ==
  /\ sim = "begin"
  /\ openMatch' = match
  /\ lastTold' = "capturing"
  /\ Proceed("open")
  /\ UNCHANGED <<mode, open, match, toJoin, broken, queue, queued, stopped, health, loss,
                 writerVars, stops, given, faults>>

(* A header that cannot be admitted leaves the match without a file.       *)
Open ==
  /\ sim = "open"
  /\ \/ /\ queue' = Append(queue, Item("open", match, 0))
        /\ Proceed("joins")
        /\ UNCHANGED <<broken, stopped, health, loss, toldVars, faults>>
     \/ /\ Fault
        /\ \/ StopLocked(match) /\ UNCHANGED broken
           \/ broken' = TRUE /\ UNCHANGED <<stopped, health, loss, toldVars>>
        /\ Proceed("events")
        /\ UNCHANGED queue
  /\ UNCHANGED <<mode, open, match, toJoin, queued, openMatch, writerVars, given>>

Join ==
  /\ sim = "joins"
  /\ \/ toJoin = 0 /\ Proceed("events") /\ UNCHANGED <<toJoin, broken, lockedVars, toldVars, given, faults>>
     \/ toJoin > 0 /\ Hand /\ toJoin' = toJoin - 1 /\ UNCHANGED sim
  /\ UNCHANGED <<mode, open, match, writerVars>>

(* A Command, Leave or Death.  One of a match whose header was not         *)
(* admitted is of no player, and ignored.                                  *)
Event ==
  /\ sim = "events"
  /\ open /\ toJoin = 0
  /\ given[match] < MaxRecords
  /\ Hand
  /\ UNCHANGED <<mode, sim, open, match, toJoin, writerVars>>

EndTick ==
  /\ sim \in {"tick", "events"}
  /\ Proceed("check")
  /\ UNCHANGED <<mode, open, match, toJoin, broken, lockedVars, writerVars, toldVars, given, faults>>

(* EndMatch: the Match end is handed in, then the file queued to be closed. *)
EndMatch ==
  /\ sim = "tick" /\ open
  /\ Hand
  /\ Proceed("close")
  /\ UNCHANGED <<mode, open, match, toJoin, writerVars>>

Close ==
  /\ sim = "close"
  /\ queue' = Append(queue, Item("close", match, 0))
  /\ openMatch' = None
  /\ lastTold' = "idle"
  /\ open' = FALSE
  /\ toJoin' = 0
  /\ Proceed("events")
  /\ UNCHANGED <<mode, match, broken, queued, stopped, health, loss, writerVars, stops, given, faults>>

(* Finish waits until what is queued is written, then stops the captures.  *)
Finish ==
  /\ sim = "finish"
  /\ queue = <<>> /\ hand = Idle
  /\ health' = "stopped"
  /\ open' = FALSE
  /\ Proceed("finished")
  /\ UNCHANGED <<mode, match, toJoin, broken, queue, queued, stopped, openMatch, loss,
                 writerVars, toldVars, given, faults>>

CapturingStep ==
  \/ CheckLoss \/ StartMatch \/ Begin \/ Open \/ Join \/ EndMatch \/ Close \/ Finish
  \/ EndTick

-----------------------------------------------------------------------------
(***************************************************************************)
(* The writer thread's Run: an item is taken under the lock, handled       *)
(* without it, and what it lost is dealt with under the lock again.        *)
(***************************************************************************)
TakeRecord ==
  /\ hand = Idle
  /\ queue # <<>>
  /\ hand' = [item |-> Head(queue), at |-> "taken"]
  /\ queue' = Tail(queue)
  /\ queued' = IF Head(queue).kind = "record" THEN queued - 1 ELSE queued
  /\ UNCHANGED <<simVars, stopped, openMatch, health, loss, file, written, completed, toldVars,
                 given, faults>>

Handling(kind) == hand.at = "taken" /\ hand.item.kind = kind
Handled == hand' = [hand EXCEPT !.at = "handled"]
Fails == Fault /\ hand' = [hand EXCEPT !.at = "failed"]

(* OpenFile: no room or no file, or a file whose header failed, or a file. *)
OpenFile ==
  /\ Handling("open")
  /\ \/ Fails /\ (UNCHANGED file \/ file' = hand.item.match)
     \/ Handled /\ file' = hand.item.match /\ UNCHANGED faults
  /\ UNCHANGED <<simVars, lockedVars, written, completed, toldVars, given>>

Persist ==
  /\ Handling("record")
  /\ \/ /\ file = hand.item.match
        /\ \/ Fails /\ UNCHANGED written
           \/ /\ Handled
              /\ written' = [written EXCEPT ![file] = Append(@, hand.item.record)]
              /\ UNCHANGED faults
     \/ file # hand.item.match /\ Handled /\ UNCHANGED <<written, faults>>
  /\ UNCHANGED <<simVars, lockedVars, file, completed, toldVars, given>>

(* Mutant: a capture that stopped is told completed all the same. *)
MutCompletes(m) == file = m

Completes(m) == file = m /\ m \notin stopped

(* CloseFile takes the lock to forget that the capture stopped.            *)
CloseFile ==
  LET m == hand.item.match IN
  /\ Handling("close")
  /\ Handled
  /\ stopped' = stopped \ {m}
  /\ file' = IF file = m THEN None ELSE file
  /\ completed' = IF Completes(m) THEN completed \cup {m} ELSE completed
  /\ UNCHANGED <<simVars, queue, queued, openMatch, health, loss, written, toldVars, given, faults>>

(* What is queued once the records of the match that failed are dropped.   *)
Kept(m) ==
  Subsequence(queue, {i \in DOMAIN queue : ~(queue[i].kind = "record" /\ queue[i].match = m)})

(* Mutant: a failed write leaves the writer at work. *)
MutRested == [hand EXCEPT !.at = IF hand.at = "failed" THEN "stuck" ELSE "idle",
                          !.item = Item("none", None, 0)]

Rested == Idle

Records(items) == Cardinality({i \in DOMAIN items : items[i].kind = "record"})

Done ==
  /\ hand' = Rested
  /\ \/ hand.at = "handled" /\ UNCHANGED <<queue, queued, stopped, health, loss, toldVars>>
     \/ /\ hand.at = "failed"
        /\ queue' = Kept(hand.item.match)
        /\ queued' = Records(queue')
        /\ StopLocked(hand.item.match)
  /\ UNCHANGED <<simVars, openMatch, file, written, completed, given, faults>>

WriterStep == TakeRecord \/ OpenFile \/ Persist \/ CloseFile \/ Done

CaptureNext == CapturingStep \/ Event \/ WriterStep

CaptureSpec == CaptureInit /\ [][CaptureNext]_captureVars

(***************************************************************************)
(* Both threads run on: no write blocks for good.  The Simulation thread   *)
(* is not obliged to have events, nor to end the run.                      *)
(***************************************************************************)
CaptureFairSpec == CaptureSpec /\ WF_captureVars(CapturingStep) /\ WF_captureVars(WriterStep)

-----------------------------------------------------------------------------
CaptureTypeOK ==
  /\ sim \in {"check", "tick", "begin", "open", "joins", "events", "close", "finish", "finished"}
  /\ queued \in 0..Capacity /\ queued = Records(queue)
  /\ stopped \subseteq Matches /\ completed \subseteq Matches
  /\ health \in {"enabled", "degraded", "stopped"}
  /\ loss \in 0..MaxMatches /\ file \in 0..MaxMatches /\ openMatch \in 0..MaxMatches
  /\ lastTold \in {"idle", "capturing", "stopped"}

(***************************************************************************)
(* A file holds a prefix of what its match handed in: wherever its capture *)
(* stops, at a full queue, a long record or a failed write, every record   *)
(* before is kept and none after it is written (capturer.h: "its file      *)
(* keeps every whole record before it").                                   *)
(***************************************************************************)
FileIsPrefix == \A m \in Matches : written[m] = [n \in 1..Len(written[m]) |-> n]

(***************************************************************************)
(* Every match's capture is told stopped once at most, and never also      *)
(* completed, though the stop may be met by either thread and the close    *)
(* may already be queued.                                                  *)
(***************************************************************************)
ToldOnce == \A m \in Matches : stops[m] + (IF m \in completed THEN 1 ELSE 0) <= 1

(***************************************************************************)
(* The state of captures told last is that of the match open: a stop the   *)
(* writer finds is never told after the Simulation thread has moved to     *)
(* another match (capture_writer.h).                                       *)
(***************************************************************************)
StateOfOpenMatch ==
  lastTold = (IF openMatch = None THEN "idle"
           ELSE IF openMatch \in stopped THEN "stopped" ELSE "capturing")

(***************************************************************************)
(* The first loss is never replaced, and the health is one-way.            *)
(***************************************************************************)
FirstLossKept ==
  [][/\ loss # None => loss' = loss
     /\ health = "stopped" => health' = "stopped"
     /\ health = "degraded" => health' # "enabled"]_captureVars

(***************************************************************************)
(* A capture told completed has every record handed in in its file.  In    *)
(* optional mode it holds.                                                 *)
(***************************************************************************)
CompletedIsWhole == \A m \in completed : Len(written[m]) = given[m]
OptionalCompletedIsWhole == mode = "optional" => CompletedIsWhole

(***************************************************************************)
(* The captures, on both threads: files that are prefixes, the state of    *)
(* the match open, and how each match's capture ended told once and truly, *)
(* by StopLocked and CloseFile between them, whichever thread met the loss *)
(* (capture_writer.cpp).                                                   *)
(***************************************************************************)
CaptureInv ==
  CaptureTypeOK /\ FileIsPrefix /\ StateOfOpenMatch /\ ToldOnce /\ OptionalCompletedIsWhole

(***************************************************************************)
(* Finish returns, whatever was queued and lost: nothing is left that the  *)
(* writer would never take.                                                *)
(***************************************************************************)
FinishReturns == sim = "finish" ~> sim = "finished"
=============================================================================
