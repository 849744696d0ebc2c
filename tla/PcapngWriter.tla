---------------------------- MODULE PcapngWriter ----------------------------
(***************************************************************************)
(* The file of network messages a Development build may write (pcapng/     *)
(* file_writer.cpp): any thread reports a message, which is queued and     *)
(* never waited for; a thread of the writer's own writes the queue.  The   *)
(* file stops once, when it cannot be made or written or when the queue is *)
(* full, and a network capture that stops never stops the process.         *)
(*                                                                         *)
(* A message is a number, in the order the reports begin; how one is       *)
(* encoded (pcapng/pcapng.cpp) tells nothing the properties depend on.     *)
(***************************************************************************)
EXTENDS Naturals, Sequences, SequencesExt, FiniteSets

CONSTANTS
  Reporters,     \* the threads that send and receive
  QueueCapacity, \* FileWriterOptions::queue_capacity
  MaxMessages    \* bound: how many messages are reported

ASSUME PcapngAssumption ==
  Reporters # {} /\ IsFiniteSet(Reporters) /\ QueueCapacity \in Nat \ {0} /\ MaxMessages \in Nat

VARIABLES
  reporting,   \* [thread -> where its Report is, and its message]
  writer,      \* where the writer's thread is
  waiting,     \* queue
  batch,       \* batch, the writer's
  pcapng,      \* the messages written
  fileStopped, \* stopped
  closing,     \* closing: the FileWriter is being destroyed
  loggedStops, \* the reasons logged
  begun,       \* history: how many reports began
  taken        \* history: the messages queued, whether any was dropped, and how
               \* many were queued after one was

pcapngVars == <<reporting, writer, waiting, batch, pcapng, fileStopped, closing, loggedStops, begun, taken>>

NoReport == [at |-> "none", message |-> 0]

PcapngInit ==
  /\ reporting = [thread \in Reporters |-> NoReport]
  /\ writer = "starting" /\ waiting = <<>> /\ batch = <<>> /\ pcapng = <<>>
  /\ fileStopped = FALSE /\ closing = FALSE /\ loggedStops = <<>>
  /\ begun = 0 /\ taken = [all |-> <<>>, dropped |-> FALSE, after |-> 0]

-----------------------------------------------------------------------------
(* A thread that reports *)

\* Enqueue looks at stopped first, without the lock, and encodes.
Report(thread) ==
  /\ reporting[thread].at = "none" /\ ~closing /\ ~fileStopped /\ begun < MaxMessages
  /\ begun' = begun + 1
  /\ reporting' = [reporting EXCEPT ![thread] = [at |-> "encoded", message |-> begun']]
  /\ UNCHANGED <<writer, waiting, batch, pcapng, fileStopped, closing, loggedStops, taken>>

Full == Len(waiting) >= QueueCapacity

\* Under the lock: queued, or dropped for good.  The first to stop the file says
\* so once it has let the lock go.
Enqueue(thread) ==
  LET message == reporting[thread].message IN
  /\ reporting[thread].at = "encoded"
  /\ IF Full
     THEN /\ fileStopped' = TRUE
          /\ reporting' = [reporting EXCEPT ![thread].at = IF fileStopped THEN "none" ELSE "telling"]
          /\ taken' = [taken EXCEPT !.dropped = TRUE]
          /\ waiting' = waiting
     ELSE /\ waiting' = Append(waiting, message)
          /\ taken' = [taken EXCEPT !.all = Append(@, message),
                                    !.after = IF taken.dropped THEN @ + 1 ELSE @]
          /\ reporting' = [reporting EXCEPT ![thread].at = "none"]
          /\ UNCHANGED fileStopped
  /\ UNCHANGED <<writer, batch, pcapng, closing, loggedStops, begun>>

LogStopped(thread) ==
  /\ reporting[thread].at = "telling"
  /\ loggedStops' = Append(loggedStops, "queue_full")
  /\ reporting' = [reporting EXCEPT ![thread].at = "none"]
  /\ UNCHANGED <<writer, waiting, batch, pcapng, fileStopped, closing, begun, taken>>

-----------------------------------------------------------------------------
(* The writer's thread *)

\* Mutant: every stop is logged.
MutStopFile(reason) == fileStopped' = TRUE /\ loggedStops' = Append(loggedStops, reason)
\* Stop: the first alone is logged.
StopFile(reason) ==
  /\ fileStopped' = TRUE
  /\ loggedStops' = IF fileStopped THEN loggedStops ELSE Append(loggedStops, reason)

\* Run, as far as the headers.
WritesHeaders ==
  /\ writer = "starting"
  /\ \/ writer' = "waiting" /\ UNCHANGED <<fileStopped, loggedStops>>
     \/ \E reason \in {"create_failed", "write_failed"} : writer' = "failed" /\ StopFile(reason)
  /\ UNCHANGED <<reporting, waiting, batch, pcapng, closing, begun, taken>>

\* Woken with blocks to write, or to close with none.
TakesBatch ==
  /\ writer = "waiting" /\ (closing \/ waiting # <<>>)
  /\ IF waiting = <<>> THEN writer' = "done" /\ UNCHANGED <<batch, waiting>>
     ELSE writer' = "writing" /\ batch' = waiting /\ waiting' = <<>>
  /\ UNCHANGED <<reporting, pcapng, fileStopped, closing, loggedStops, begun, taken>>

\* WriteAll, a block at a time; the last is followed by the flush.
WriteAll ==
  /\ writer = "writing"
  /\ \/ /\ pcapng' = Append(pcapng, Head(batch)) /\ batch' = Tail(batch)
        /\ writer' = IF batch' = <<>> THEN "waiting" ELSE "writing"
        /\ UNCHANGED <<fileStopped, loggedStops>>
     \/ writer' = "failed" /\ StopFile("write_failed") /\ UNCHANGED <<pcapng, batch>>
  /\ UNCHANGED <<reporting, waiting, closing, begun, taken>>

\* ~Impl: nothing reports any more.
DestroysWriter ==
  /\ ~closing /\ \A thread \in Reporters : reporting[thread].at = "none"
  /\ closing' = TRUE
  /\ UNCHANGED <<reporting, writer, waiting, batch, pcapng, fileStopped, loggedStops, begun, taken>>

PcapngNext ==
  \/ \E thread \in Reporters : Report(thread) \/ Enqueue(thread) \/ LogStopped(thread)
  \/ WritesHeaders \/ TakesBatch \/ WriteAll \/ DestroysWriter

PcapngSpec == PcapngInit /\ [][PcapngNext]_pcapngVars

-----------------------------------------------------------------------------
(* Properties *)

\* What is queued is written, in its order, every message once, though the file
\* has stopped for want of room since; only a failed write loses any.
WritesWhatItTook ==
  /\ IsPrefix(pcapng, taken.all) /\ Len(waiting) <= QueueCapacity
  /\ writer # "failed" => pcapng \o batch \o waiting = taken.all
  /\ writer = "done" => pcapng = taken.all

\* The file stops once, and whoever stopped it says so, once.
StopsOnce ==
  /\ Len(loggedStops) <= 1
  /\ fileStopped <=> loggedStops # <<>> \/ \E thread \in Reporters : reporting[thread].at = "telling"

\* A message dropped is not the last for certain: a Report that saw the file
\* going before the drop may still find room once the writer has taken the
\* queue.  Those are all there are, one for each other thread at most.
FewAfterADrop == taken.after < Cardinality(Reporters)

\* "Stopped under the lock, so no later message is queued after one that was
\* dropped" (modules/pcapng/file_writer.cpp:101-102).  The lock does
\* not tell the Report that saw the file going before it was stopped.
NothingAfterADrop == taken.after = 0

PcapngInv == WritesWhatItTook /\ StopsOnce /\ FewAfterADrop
=============================================================================
