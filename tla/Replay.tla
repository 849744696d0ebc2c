-------------------------------- MODULE Replay --------------------------------
(***************************************************************************)
(* A Match as it is captured (host/host_match.cpp, host/capturer.cpp) and  *)
(* its capture run again (host/replay.cpp): the same bodies and Commands   *)
(* are to be handed to a fresh SimulationWorld, tick by tick.              *)
(*                                                                         *)
(* The World is deterministic, and that is all of it modelled here: on a   *)
(* tick it resolves what it resolved live if it was handed all that the    *)
(* live World was handed, and anything otherwise.  A Command is the offset *)
(* of the tick it was seen on.                                             *)
(***************************************************************************)
EXTENDS Integers, Sequences, FiniteSets, SequencesExt, FiniteSetsExt

CONSTANTS
  CapturedPlayers,   \* the Match's players, by their numbers in the capture
  SeenOffsets,       \* the ticks Commands name as seen, from the Match's first
  HeldTicks,         \* CommandQueue::max_held_ticks_
  LongestDelay,      \* kMaxShootersDelay, in ticks
  Kills,             \* bound: the Deaths a tick may resolve, <<victim, killer>>
  LastOffset         \* bound: the last tick a Match runs

ReplayAssumption ==
  /\ CapturedPlayers = 1 .. Cardinality(CapturedPlayers)
  /\ SeenOffsets \subseteq Int /\ {HeldTicks, LongestDelay, LastOffset} \subseteq Nat

VARIABLES
  stage,        \* "live", "captured" or "replaying"
  bodies,       \* Host::Impl::bodies: the players whose body is in the live World
  queues,       \* Player::commands: the live queues
  events,       \* capture::Capture::events
  torn,         \* capture::Capture::torn
  ran,          \* history: what the live World was handed and resolved, tick by tick
  replay,       \* Replay's players_, check_.reported_ and end
  reran,        \* history: what the Replay's World was handed and resolved
  diverged      \* history: the Divergences told

replayVars == <<stage, bodies, queues, events, torn, ran, replay, reran, diverged>>

Absent == <<>>   \* no Command, or no end
Event(k, kind, p) == [offset |-> k, kind |-> kind, of |-> p]

(* What a tick resolves: the Deaths, and whether Game policy ends the Match. *)
Draw == <<0>>
Ends == {Absent, Draw} \cup {<<p>> : p \in CapturedPlayers}
Resolutions == [deaths : {{}} \cup {{death} : death \in Kills}, end : Ends]

-----------------------------------------------------------------------------
(***************************************************************************)
(* CommandQueue: the next Command queued, or the last one held for a while *)
(* and then standing still.                                                *)
(***************************************************************************)
EmptyQueue == [queued |-> <<>>, last |-> Absent, held |-> 0]

Queued(q, command) == [q EXCEPT !.queued = Append(@, command)]

HowRun(q) ==
  IF q.queued # <<>> THEN "sent"
  ELSE IF q.last = Absent THEN "idle" ELSE IF q.held < HeldTicks THEN "held" ELSE "still"

NextCommand(q) == IF q.queued # <<>> THEN Head(q.queued) ELSE q.last

AfterNext(q) ==
  IF q.queued # <<>> THEN [queued |-> Tail(q.queued), last |-> Head(q.queued), held |-> 0]
  ELSE IF q.last # Absent /\ q.held < HeldTicks THEN [q EXCEPT !.held = @ + 1] ELSE q

(* A bullet is judged as many ticks ago as its Command's delay.            *)
Delay(now, seen) == Min({now - Min({seen, now - 1}), LongestDelay})

(* What the World is handed of the queue q on its tick now, a Command having seen the tick Seen. *)
Handed(q, now, Seen(_)) ==
  [how |-> HowRun(q),
   command |-> NextCommand(q),
   delay |-> IF q.queued = <<>> THEN 0 ELSE Delay(now, Seen(NextCommand(q)[1]))]

-----------------------------------------------------------------------------
ReplayInit ==
  /\ stage = "live"
  /\ bodies = CapturedPlayers
  /\ queues = [p \in CapturedPlayers |-> EmptyQueue]
  /\ events = <<>> /\ torn = FALSE
  /\ ran = <<>>
  /\ replay = [left |-> {}, queues |-> queues, reported |-> FALSE, ended |-> Absent]
  /\ reran = <<>> /\ diverged = <<>>

(***************************************************************************)
(* The live Match.  Before its tick, the bodies of those who left are      *)
(* taken out, each captured as a Leave on the tick; each Command taken     *)
(* fresh from a queue is captured, and so is each Death.                   *)
(***************************************************************************)
Possible(ticks, playing) ==
  {death \in Kills : death[1] \in playing /\ \A i \in DOMAIN ticks : death \notin ticks[i].resolved.deaths}

Captures(kind, k, who) == [i \in 1 .. Cardinality(who) |-> Event(k, kind, SetToSeq(who)[i])]

\* The World's clock ran long before the Match: its first tick is past the longest delay.
LiveTick(leavers, fresh, resolved) ==
  LET k == Len(ran)
      playing == bodies \ leavers
      fed == [p \in playing |-> IF fresh[p] = Absent THEN queues[p] ELSE Queued(queues[p], fresh[p])]
      sent == {<<p, fresh[p]>> : p \in {q \in playing : fresh[q] # Absent}}
      Live(seen) == seen
  IN
  /\ stage = "live" /\ k <= LastOffset
  /\ k = 0 => leavers = {}
  /\ playing # {}
  /\ k > 0 => ran[k].resolved.end = Absent
  /\ resolved.deaths \subseteq Possible(ran, playing)
  /\ bodies' = playing
  /\ queues' = [p \in CapturedPlayers |-> IF p \in playing THEN AfterNext(fed[p]) ELSE queues[p]]
  /\ events' = events \o Captures("leave", k, leavers)
                \o Captures("command", k, sent)
                \o Captures("death", k, resolved.deaths)
  /\ ran' = Append(ran, [handed |-> [p \in playing |-> Handed(fed[p], k, Live)], resolved |-> resolved])
  /\ UNCHANGED <<stage, torn, replay, reran, diverged>>

(***************************************************************************)
(* The Match has ended, by Game policy on its last tick, by the Host or by *)
(* its last players leaving: those gone by then left on the last tick, and *)
(* the capture ends.                                                       *)
(***************************************************************************)
TakeOutEndedMatch(leavers) ==
  LET k == Len(ran) - 1
      resolved == ran[Len(ran)].resolved
  IN
  /\ stage = "live" /\ ran # <<>>
  /\ stage' = "captured"
  /\ events' = events \o Captures("leave", k, leavers)
                \o <<Event(k, "end", IF resolved.end = Absent THEN Draw ELSE resolved.end)>>
  /\ UNCHANGED <<bodies, queues, torn, ran, replay, reran, diverged>>

(* The capture is read to be replayed: whole, or its first records if its writing stopped. *)
StartReplay ==
  /\ stage = "captured"
  /\ stage' = "replaying"
  /\ \/ UNCHANGED <<events, torn>>
     \/ /\ torn' = TRUE
        /\ \E n \in 0 .. Len(events) - 1 : events' = SubSeq(events, 1, n)
  /\ UNCHANGED <<bodies, queues, ran, replay, reran, diverged>>

-----------------------------------------------------------------------------
(***************************************************************************)
(* Replay::Step.                                                           *)
(***************************************************************************)
LastCaptured == IF events = <<>> THEN 0 ELSE events[Len(events)].offset

On(k) == {i \in DOMAIN events : events[i].offset = k}

(* Mutant: only the Leave right before the Match end is after its tick. *)
MutLeavesAfterItsTick(i) == i < Len(events) /\ events[i + 1].kind = "end"

(* The Leave at i is read as taken after its tick ran: something the tick  *)
(* ran came before it, or only Leaves come between it and the Match end.   *)
LeavesAfterItsTick(i) ==
  \/ \E j \in On(events[i].offset) : j < i /\ events[j].kind # "leave"
  \/ \E j \in On(events[i].offset) :
       j > i /\ events[j].kind = "end" /\ \A between \in i .. j - 1 : events[between].kind = "leave"

(* A Seen time moves onto the Replay's clock, whose first tick is 1; one   *)
(* before it is on tick 0.                                                 *)
FirstTick == 1
Moved(seen) == IF FirstTick + seen > 0 THEN FirstTick + seen ELSE 0

HandBefore(k) ==
  LET leaves == {i \in On(k) : events[i].kind = "leave" /\ ~LeavesAfterItsTick(i)}
      commands == {i \in On(k) : events[i].kind = "command"}
      Of(p) == {i \in commands : events[i].of[1] = p}
  IN [left |-> replay.left \cup {events[i].of : i \in leaves},
      queues |-> [p \in CapturedPlayers |->
                    IF Of(p) = {} THEN replay.queues[p]
                    ELSE Queued(replay.queues[p], events[CHOOSE i \in Of(p) : TRUE].of[2])]]

(* ReplayCheck: the first marker that differs, once.                       *)
CapturedDeaths(k) == {events[i].of : i \in {j \in On(k) : events[j].kind = "death"}}
EndEvents == {i \in DOMAIN events : events[i].kind = "end"}
CapturedEnd(k) == IF EndEvents \cap On(k) = {} THEN Absent ELSE events[Len(events)].of

Differs(k, resolved) ==
  IF CapturedDeaths(k) # resolved.deaths THEN {"death"}
  ELSE IF EndEvents # {} /\ CapturedEnd(k) # resolved.end THEN {"end"} ELSE {}

(* EndOf: the World's end, or on the capture's last tick the capture's.    *)
EndOf(k, resolved) ==
  IF resolved.end # Absent THEN resolved.end
  ELSE IF k < LastCaptured THEN Absent
  ELSE IF EndEvents = {} THEN Draw ELSE events[Len(events)].of

AsLive(handed) ==
  /\ Len(reran) < Len(ran)
  /\ handed = ran[Len(reran) + 1].handed
  /\ \A i \in DOMAIN reran : reran[i].handed = ran[i].handed

ReplayStep(resolved) ==
  LET k == Len(reran)
      before == HandBefore(k)
      playing == CapturedPlayers \ before.left
      handed == [p \in playing |-> Handed(before.queues[p], FirstTick + k, Moved)]
      differs == Differs(k, resolved)
  IN
  /\ stage = "replaying" /\ replay.ended = Absent
  /\ AsLive(handed) => resolved = ran[k + 1].resolved
  /\ resolved.deaths \subseteq Possible(reran, playing)
  /\ replay' = [left |-> before.left,
                queues |-> [p \in CapturedPlayers |->
                              IF p \in playing THEN AfterNext(before.queues[p]) ELSE before.queues[p]],
                reported |-> replay.reported \/ differs # {},
                ended |-> EndOf(k, resolved)]
  /\ reran' = Append(reran, [handed |-> handed, resolved |-> resolved])
  /\ diverged' = IF differs = {} \/ replay.reported THEN diverged
                 ELSE Append(diverged, [offset |-> k, markers |-> differs])
  /\ UNCHANGED <<stage, bodies, queues, events, torn, ran>>

ReplayNext ==
  \/ \E leavers \in SUBSET bodies, resolved \in Resolutions :
       \E fresh \in [bodies \ leavers -> {Absent} \cup {<<seen>> : seen \in SeenOffsets}] :
         LiveTick(leavers, fresh, resolved)
  \/ \E leavers \in SUBSET bodies : TakeOutEndedMatch(leavers)
  \/ StartReplay
  \/ \E resolved \in Resolutions : ReplayStep(resolved)

ReplaySpec == ReplayInit /\ [][ReplayNext]_replayVars

-----------------------------------------------------------------------------
(* A Leave before the last tick, of a tick with no Command and no Death.   *)
LeaveMisread ==
  LET n == Len(ran) IN
  /\ n > 1 /\ DOMAIN ran[n].handed # DOMAIN ran[n - 1].handed
  /\ ran[n].resolved.deaths = {}
  /\ \A p \in DOMAIN ran[n].handed : ran[n].handed[p].how # "sent"

(* The tick is known only in part, or its Leaves are misread. *)
Unsure(i) == i > LastCaptured /\ (torn \/ LeaveMisread)

(***************************************************************************)
(* A Replay hands its World, on every tick, the bodies and Commands that   *)
(* the live World was handed on it, held and idle ones included, each      *)
(* judged as long ago: on all ticks of a whole capture, and on all but the *)
(* last of one cut short (Replay::HandBefore, LeavesAfterItsTick).  It     *)
(* runs as many ticks, ends with the captured winner, and tells of one     *)
(* difference at most, on a tick that did resolve otherwise, or on the     *)
(* last if it is not Game policy that ended the Match.                     *)
(***************************************************************************)
ReplayedAsLive ==
  /\ \A i \in DOMAIN reran : Unsure(i) \/ reran[i].handed = ran[i].handed
  /\ replay.ended # Absent /\ ~torn => Len(reran) = Len(ran)
  /\ replay.ended # Absent /\ ~torn /\ ~LeaveMisread =>
       replay.ended = events[Len(events)].of
  /\ Len(diverged) <= 1
  /\ \A i \in DOMAIN diverged :
       LET n == diverged[i].offset + 1 IN
       \/ Unsure(n)
       \/ reran[n].resolved # ran[n].resolved
       \/ n = Len(ran) /\ ran[n].resolved.end = Absent /\ diverged[i].markers = {"end"}

-----------------------------------------------------------------------------
(***************************************************************************)
(* What the repository says and the code does not do.                      *)
(***************************************************************************)

(***************************************************************************)
(* docs/adr/0051-replay.md: "Before each tick, the bodies of the players   *)
(* whose Leave falls on it are taken out, as the live server took them     *)
(* out".                                                                   *)
(***************************************************************************)
LeftAsLive ==
  ~torn => \A i \in DOMAIN reran : DOMAIN reran[i].handed = DOMAIN ran[i].handed
=============================================================================
