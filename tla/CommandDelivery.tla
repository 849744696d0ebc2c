--------------------------- MODULE CommandDelivery --------------------------
(***************************************************************************)
(* One player's commands, from the client's CommandStream                  *)
(* (harness/command_stream.cpp) over the Link to the server's CommandQueue *)
(* (host/command_queue.cpp) and the ticks they move the player in, and the *)
(* acknowledgements back, through matches that start and end.              *)
(*                                                                         *)
(* Commands and Authoritative States travel unreliably: each may be lost,  *)
(* repeated or overtaken, by one another and by the reliable stream that   *)
(* carries Match start and Match end.  A datagram once sent may so arrive  *)
(* at any time after, any number of times, or never.                       *)
(*                                                                         *)
(* Every command here moves and fires, so a tick that fires a command      *)
(* again, or moves on without one, shows.                                  *)
(***************************************************************************)
EXTENDS Naturals, Sequences, SequencesExt, Subsequences

CONSTANTS
  Capacity,    \* kMaxQueuedCommands
  Carried,     \* kMaxCommandsPerMessage: how many commands one message carries
  MaxHeld,     \* max_held_ticks_
  Malformed,   \* sequences of commands that are not finite or out of range
  MaxSequence, \* bound: how many commands the client makes
  MaxServerTicks, \* bound: how many ticks the server runs
  MaxPlayedMatches \* bound: how many matches start

ASSUME CommandAssumption ==
  /\ Capacity \in Nat \ {0} /\ Carried \in Nat \ {0} /\ MaxHeld \in Nat
  /\ Malformed \subseteq Nat
  /\ MaxSequence \in Nat /\ MaxServerTicks \in Nat /\ MaxPlayedMatches \in Nat

VARIABLES
  playedMatch, \* the match in progress, or the last one, counted from 1
  inMatch,   \* whether it is in progress
  serverTick, \* the last tick run
  queue,     \* the player's CommandQueue
  taking,    \* the rest of the datagram being taken in, with the mutex held
  toClient,  \* the reliable stream to the client: Match starts and Match ends
  commands,  \* datagrams of commands sent so far
  states,    \* datagrams of Authoritative State sent so far
  view,      \* the client's ServerView
  stream,    \* the client's CommandStream
  sentIn,    \* history: the match the client made each command in
  simulated, \* history: the commands the match in progress ran, in order
  firedTicks, \* history: how many of its ticks fired each command
  coasted,   \* history: how many ticks in a row moved without a new command
  dropped    \* history: commands overflowed, or no longer carried when sent

serverVars == <<playedMatch, inMatch, serverTick, queue, taking>>
linkVars == <<toClient, commands, states>>
clientVars == <<view, stream>>
historyVars == <<sentIn, simulated, firedTicks, coasted, dropped>>
vars == <<serverVars, linkVars, clientVars, historyVars>>

None == 0  \* no sequence: they start at 1
Sequence == 1..MaxSequence

FreshQueue == [queued |-> <<>>, last |-> None, held |-> 0,
               lastOffered |-> None, acknowledged |-> None]

(* What the client knows of a match it has just heard start. *)
FreshView(n) == [started |-> n, inMatch |-> TRUE, tick |-> 0, acknowledged |-> None]

Init ==
  /\ playedMatch = 0 /\ inMatch = FALSE /\ serverTick = 0
  /\ queue = FreshQueue /\ taking = <<>>
  /\ toClient = <<>> /\ commands = {} /\ states = {}
  /\ view = [FreshView(0) EXCEPT !.inMatch = FALSE]
  /\ stream = [startedMatch |-> 0, unacknowledged |-> <<>>, next |-> 1]
  /\ sentIn = [s \in Sequence |-> 0]
  /\ simulated = <<>> /\ firedTicks = [s \in Sequence |-> 0] /\ coasted = 0
  /\ dropped = {}

-----------------------------------------------------------------------------
(***************************************************************************)
(* The client.  CommandStream::Tick makes the next command and sends it    *)
(* with those not yet acknowledged, as many as one message carries.  A new *)
(* match starts over with none unacknowledged; sequences go on.            *)
(***************************************************************************)
Unacknowledged ==
  LET started == IF stream.startedMatch = view.started THEN stream.unacknowledged ELSE <<>>
      unheard == {i \in DOMAIN started : started[i] > view.acknowledged}
  IN  Append(Subsequence(started, unheard), stream.next)

(* link::Carried: the newest that one message carries. *)
Newest(s) == IF Len(s) > Carried THEN SubSeq(s, Len(s) - Carried + 1, Len(s)) ELSE s

ClientTick ==
  /\ view.inMatch
  /\ stream.next <= MaxSequence
  /\ LET sent == Newest(Unacknowledged) IN
     /\ stream' = [startedMatch |-> view.started, unacknowledged |-> sent,
                   next |-> stream.next + 1]
     /\ commands' = commands \cup {sent}
     /\ dropped' = dropped \cup (ToSet(Unacknowledged) \ ToSet(sent))
  /\ sentIn' = [sentIn EXCEPT ![stream.next] = view.started]
  /\ UNCHANGED <<serverVars, toClient, states, view, simulated, firedTicks, coasted>>

(* Inbox: Match start and Match end both forget the states held. *)
HearMatchStart ==
  /\ toClient # <<>> /\ Head(toClient) = "MatchStart"
  /\ view' = FreshView(view.started + 1)
  /\ toClient' = Tail(toClient)
  /\ UNCHANGED <<serverVars, commands, states, stream, historyVars>>

HearMatchEnd ==
  /\ toClient # <<>> /\ Head(toClient) = "MatchEnd"
  /\ view' = [FreshView(view.started) EXCEPT !.inMatch = FALSE]
  /\ toClient' = Tail(toClient)
  /\ UNCHANGED <<serverVars, commands, states, stream, historyVars>>

(* A state is kept if its bodies are of the match in progress, which are   *)
(* named anew each match, and it is newer than the one held.               *)
IsNews(state) == state.match = view.started /\ state.tick > view.tick

HearState ==
  /\ view.inMatch
  /\ \E state \in states :
       /\ IsNews(state)
       /\ view' = [view EXCEPT !.tick = state.tick, !.acknowledged = state.acknowledged]
  /\ UNCHANGED <<serverVars, linkVars, stream, historyVars>>

-----------------------------------------------------------------------------
(***************************************************************************)
(* The server takes in a datagram's commands one at a time, oldest first,  *)
(* while the player is in a match: CommandQueue::TryEnqueue of each, with  *)
(* the Host's mutex held until none is left.  Only a command newer than    *)
(* the last taken in, and well formed, is; when the queue is full its      *)
(* oldest goes.                                                            *)
(***************************************************************************)
(* Mutant: a command taken in before is taken in again. *)
MutValidAgain(q, s) == s >= q.lastOffered /\ s \notin Malformed

Valid(q, s) == s > q.lastOffered /\ s \notin Malformed

Kept(taken) == IF Len(taken) > Capacity THEN Tail(taken) ELSE taken

TryEnqueue(q, s) ==
  IF Valid(q, s)
  THEN [q EXCEPT !.lastOffered = s, !.queued = Kept(Append(@, s))]
  ELSE q

HandleCommands ==
  /\ inMatch
  /\ \E datagram \in IF taking = <<>> THEN commands ELSE {taking} :
       /\ queue' = TryEnqueue(queue, Head(datagram))
       /\ taking' = Tail(datagram)
  /\ dropped' = dropped \cup (ToSet(queue.queued) \ ToSet(queue'.queued))
  /\ UNCHANGED <<playedMatch, inMatch, serverTick, linkVars, clientVars, sentIn, simulated, firedTicks, coasted>>

(***************************************************************************)
(* CommandQueue::Next: the oldest command queued; else the last one, moved *)
(* on with for MaxHeld ticks and without its actions; else nothing.        *)
(***************************************************************************)
NextQueued ==
  LET s == Head(queue.queued) IN
  /\ queue.queued # <<>>
  /\ queue' = [queue EXCEPT !.queued = Tail(@), !.last = s, !.held = 0, !.acknowledged = s]
  /\ simulated' = Append(simulated, s)
  /\ firedTicks' = [firedTicks EXCEPT ![s] = @ + 1]
  /\ coasted' = 0

(* WithoutActions: nothing one-shot fires again. *)
WithoutActions(f) == f

TicksHeld == queue.held + 1

NextHeld ==
  /\ queue.queued = <<>> /\ queue.last # None
  /\ \/ /\ queue.held < MaxHeld
        /\ queue' = [queue EXCEPT !.held = TicksHeld]
        /\ coasted' = coasted + 1
     \/ /\ queue.held >= MaxHeld
        /\ coasted' = 0
        /\ UNCHANGED queue
  /\ firedTicks' = WithoutActions(firedTicks)
  /\ UNCHANGED simulated

NextIdle ==
  /\ queue.queued = <<>> /\ queue.last = None
  /\ UNCHANGED <<queue, simulated, firedTicks, coasted>>

(* Mutant: what was taken in is acknowledged, run or not. *)
MutAcknowledgementOffered(q) == q.lastOffered

Acknowledgement(q) == q.acknowledged

ServerTick ==
  /\ inMatch /\ taking = <<>>
  /\ serverTick < MaxServerTicks
  /\ serverTick' = serverTick + 1
  /\ NextQueued \/ NextHeld \/ NextIdle
  /\ states' = states \cup {[match |-> playedMatch, tick |-> serverTick',
                             acknowledged |-> Acknowledgement(queue')]}
  /\ UNCHANGED <<playedMatch, inMatch, taking, toClient, commands, clientVars, sentIn, dropped>>

(***************************************************************************)
(* A match starts its commands afresh once the client is Ready, so it has  *)
(* heard how the last one ended (Lobby); it may end at any time.           *)
(***************************************************************************)
ServerStartsMatch ==
  /\ ~inMatch
  /\ playedMatch < MaxPlayedMatches
  /\ toClient = <<>> /\ ~view.inMatch
  /\ inMatch' = TRUE
  /\ playedMatch' = playedMatch + 1
  /\ queue' = FreshQueue
  /\ toClient' = <<"MatchStart">>
  /\ simulated' = <<>> /\ firedTicks' = [s \in Sequence |-> 0] /\ coasted' = 0
  /\ UNCHANGED <<serverTick, taking, commands, states, clientVars, sentIn, dropped>>

ServerEndsMatch ==
  /\ inMatch /\ taking = <<>>
  /\ inMatch' = FALSE
  /\ toClient' = Append(toClient, "MatchEnd")
  /\ UNCHANGED <<playedMatch, serverTick, queue, taking, commands, states, clientVars, historyVars>>

Next ==
  \/ ClientTick \/ HearMatchStart \/ HearMatchEnd \/ HearState
  \/ HandleCommands \/ ServerTick \/ ServerStartsMatch \/ ServerEndsMatch

Spec == Init /\ [][Next]_vars

-----------------------------------------------------------------------------
TypeOK ==
  /\ playedMatch \in 0..MaxPlayedMatches /\ inMatch \in BOOLEAN /\ serverTick \in 0..MaxServerTicks
  /\ queue.queued \in Seq(Sequence) /\ Len(queue.queued) <= Capacity
  /\ queue.held \in 0..MaxHeld
  /\ \A datagram \in commands : Len(datagram) \in 1..Carried
  /\ view.acknowledged \in 0..MaxSequence

(***************************************************************************)
(* A match runs each command at most once and in the order they were made, *)
(* whatever datagrams were repeated, lost or overtaken: each tick's        *)
(* acknowledgement is of a later command, or the same.                     *)
(***************************************************************************)
SimulatedInOrder ==
  \A i, j \in DOMAIN simulated : i < j => simulated[i] < simulated[j]

(***************************************************************************)
(* What the client asked to happen once happens at most once in a match:   *)
(* neither a repeat nor a tick without a new command fires again           *)
(* (command_queue.h: held and idle ticks never repeat a one-shot action).  *)
(***************************************************************************)
FiredOnce == \A s \in Sequence : firedTicks[s] <= 1

(***************************************************************************)
(* A player whose client went silent moves on for at most MaxHeld ticks.   *)
(***************************************************************************)
CoastsBriefly == coasted <= MaxHeld

(***************************************************************************)
(* A command the client has stopped sending was run, or was given up: for  *)
(* a full queue, for newer ones in the message, or as malformed.  A late   *)
(* or overtaken acknowledgement never makes it forget one still owed.      *)
(***************************************************************************)
ForgottenMeansRun ==
  playedMatch = view.started /\ stream.startedMatch = view.started =>
    \A s \in 1..(stream.next - 1) :
      sentIn[s] = playedMatch /\ s \notin ToSet(stream.unacknowledged) =>
        s \in ToSet(simulated) \cup dropped \cup Malformed

(***************************************************************************)
(* What the queue makes of a player's datagrams (command_queue.cpp): each  *)
(* command once, in order, its one-shot actions once, held movement        *)
(* bounded, never more queued than its capacity, and none forgotten by its *)
(* client that is still owed.                                              *)
(***************************************************************************)
DeliveryInv ==
  TypeOK /\ SimulatedInOrder /\ FiredOnce /\ CoastsBriefly /\ ForgottenMeansRun

(***************************************************************************)
(* command_stream.cpp 57-58: "Sequences keep growing across matches, so    *)
(* nothing of the last one is mistaken for this one's."                    *)
(***************************************************************************)
NothingOfTheLastMatch == \A i \in DOMAIN simulated : sentIn[simulated[i]] = playedMatch
=============================================================================
