----------------------------- MODULE Reenactment -----------------------------
(***************************************************************************)
(* A Captured player (harness/reenactment.cpp, ADR-0050): which of its     *)
(* Script's Commands goes out on each Tick of the Prediction thread, so    *)
(* that the server's queue hands each to the World on its captured offset, *)
(* when the Main/Render thread has the run leave, and the Deaths it tells  *)
(* against the captured ones.                                              *)
(*                                                                         *)
(* Ticks are counted as offsets from the Match's first.  A Command is its  *)
(* place in the Script, or 0 for a filler.  External: the network, Delay   *)
(* ticks each way, and the server, which hands the World one queued        *)
(* Command a tick.                                                         *)
(***************************************************************************)
EXTENDS Integers, Sequences, FiniteSets, SequencesExt

CONSTANTS
  Captures,          \* the captures a Script is read from (see ReadScript)
  Delay,             \* one way, in server ticks: RoundTripTicks is twice that
  HeldTicks,         \* command::HeldTicks
  MaxCommandsQueued, \* kMaxCommandsQueued
  Tells,             \* the Deaths the server may have told, as sequences of victims
  LastTick, MaxLost, \* bounds: the server's ticks, the datagrams lost
  MaxSent            \* bound: the Commands sent

ASSUME ReenactmentAssumption == {Delay, HeldTicks, MaxCommandsQueued, LastTick, MaxLost, MaxSent} \subseteq Nat

VARIABLES
  script,   \* script_
  pacer,    \* pacer_: next_, slot_, whether last_ is set, held_
  sent,     \* the Commands sent, by sequence (see SentCommand)
  now,      \* the server's tick
  flight,   \* datagrams on their way: the tick they arrive before, their newest
  arrived,  \* the newest Command the server's queue has taken
  handedAt, \* history: the tick each Command was handed to the World on
  acks,     \* what each tick's State acknowledged
  seen,     \* the newest State the client has taken, -1 before the first
  lost,     \* history: how many datagrams were lost
  run,      \* "playing", "leaving" once Check has said so, "ended"
  leftAt,   \* the tick the disconnect reaches the server before, LastTick + Delay + 2 for none
  pairs     \* what Outcome tells, once the run is over

reenactmentVars ==
  <<script, pacer, sent, now, flight, arrived, handedAt, acks, seen, lost, run, leftAt, pairs>>

Never == LastTick + Delay + 2
RoundTrip == 2 * Delay
NoOffset == -1

AtLeast(a, b) == IF a > b THEN a ELSE b

(***************************************************************************)
(* ReadScript: what of a capture, events in offset order, is the player's  *)
(* own, and everyone's Deaths.                                             *)
(***************************************************************************)
ReadScript(capture, player) ==
  LET Of(kind) == SelectSeq(capture, LAMBDA event : event.kind = kind)
      Own(kind) == SelectSeq(Of(kind), LAMBDA event : event.player = player)
      OffsetOf(events) == IF events = <<>> THEN NoOffset ELSE Last(events).offset
  IN [commands |-> [i \in DOMAIN Own("command") |-> Own("command")[i].offset],
      leave |-> OffsetOf(Own("leave")),
      deaths |-> [i \in DOMAIN Of("death") |-> Of("death")[i].player],
      end |-> OffsetOf(Of("end"))]

ReenactmentInit ==
  /\ script \in {ReadScript(capture, 1) : capture \in Captures}
  /\ pacer = [next |-> 1, slot |-> 0, last |-> FALSE, held |-> 0]
  /\ sent = <<>> /\ handedAt = <<>>
  /\ now = 0 /\ acks = <<0>>
  /\ flight = {} /\ arrived = 0
  /\ seen = -1
  /\ lost = 0
  /\ run = "playing" /\ leftAt = Never
  /\ pairs = <<>>

-----------------------------------------------------------------------------
(***************************************************************************)
(* The server's tick: what has arrived is queued, unless the player has    *)
(* left, and the next queued Command is handed to the World.               *)
(***************************************************************************)
Handed == Len(handedAt)

ServerTick ==
  /\ now < LastTick
  /\ now' = now + 1
  /\ arrived' = IF now' >= leftAt THEN Handed
                ELSE Max({arrived} \cup {datagram.newest : datagram \in {d \in flight : d.before <= now'}})
  /\ flight' = {datagram \in flight : datagram.before > now'}
  /\ handedAt' = IF arrived' > Handed THEN Append(handedAt, now') ELSE handedAt
  /\ acks' = Append(acks, Len(handedAt'))
  /\ UNCHANGED <<script, pacer, sent, seen, lost, run, leftAt, pairs>>

(* A State of any tick that may have arrived, older ones lost on the way. *)
StateArrives ==
  /\ run = "playing"
  /\ seen' \in (seen + 1)..(now - Delay)
  /\ UNCHANGED <<script, pacer, sent, now, flight, arrived, handedAt, acks, lost, run, leftAt, pairs>>

-----------------------------------------------------------------------------
\* Match start, sent on the Match's first tick, has arrived.
InMatch == now >= Delay

NewestTick == AtLeast(seen, 0)
Acknowledged == IF seen < 0 THEN 0 ELSE acks[seen + 1]

\* Mutant: a tick too late.
MutDueLater(newest, ahead) == newest + AtLeast(ahead, RoundTrip + 2)

DueTick(newest, ahead) == newest + AtLeast(ahead, RoundTrip + 1)

\* The Commands sent and not yet handed, the next included.
Ahead == Len(sent) + 1 - Acknowledged

CommandBeforeLeave(p) ==
  script.leave # NoOffset /\ p.next <= Len(script.commands) /\ script.commands[p.next] < script.leave

DoneBeforeLeave == script.leave # NoOffset /\ pacer.slot >= script.leave /\ ~CommandBeforeLeave(pacer)

(***************************************************************************)
(* Pacer::Next: nothing for a tick already sent for, nor at the Leave with *)
(* every Command before it gone; else the next captured Command, if due,   *)
(* or a filler, which moves as the last did for HeldTicks at most.         *)
(***************************************************************************)
SendsNone(due) ==
  due < pacer.slot \/ (script.leave # NoOffset /\ due >= script.leave /\ ~CommandBeforeLeave(pacer))

CapturedIsDue(due) == pacer.next <= Len(script.commands) /\ script.commands[pacer.next] <= due

SentCommand(due) ==
  [place |-> IF CapturedIsDue(due) THEN pacer.next ELSE 0, due |-> due, at |-> now,
   moves |-> CapturedIsDue(due) \/ (pacer.last /\ pacer.held < HeldTicks)]

PacerAfter(due) ==
  IF CapturedIsDue(due)
  THEN [next |-> pacer.next + 1, slot |-> due + 1, last |-> TRUE, held |-> 0]
  ELSE [pacer EXCEPT !.slot = due + 1, !.held = IF pacer.last /\ @ < HeldTicks THEN @ + 1 ELSE @]

(***************************************************************************)
(* NextCommand, and Session::Tick if it gives one: the datagram carries    *)
(* every Command not acknowledged.  Without one the Tick is skipped, and   *)
(* nothing is sent again either.                                           *)
(***************************************************************************)
NextCommand ==
  LET due == DueTick(NewestTick, Ahead) IN
  /\ run = "playing" /\ InMatch /\ Len(sent) < MaxSent
  /\ Ahead <= RoundTrip + 1 + MaxCommandsQueued
  /\ ~SendsNone(due)
  /\ sent' = Append(sent, SentCommand(due))
  /\ pacer' = PacerAfter(due)
  /\ \/ flight' = flight \cup {[before |-> now + Delay + 1, newest |-> Len(sent')]} /\ UNCHANGED lost
     \/ lost < MaxLost /\ lost' = lost + 1 /\ UNCHANGED flight
  /\ UNCHANGED <<script, now, arrived, handedAt, acks, seen, run, leftAt, pairs>>

(***************************************************************************)
(* Check, on the Main/Render thread: the capture's Match end has come, or  *)
(* the server's is in the view (over); or the Leave has, and every Command *)
(* sent is thought handed by the time a disconnect sent now arrives.       *)
(***************************************************************************)
EndHasCome == script.end # NoOffset /\ NewestTick >= script.end

AllHanded ==
  \/ Len(sent) <= Acknowledged
  \/ NewestTick + (Len(sent) - Acknowledged) + 1 < DueTick(NewestTick, 0)

LeaveHasCome == DoneBeforeLeave /\ AllHanded /\ DueTick(NewestTick, 0) >= script.leave

(***************************************************************************)
(* PairDeaths: each captured Death beside the first told of its victim not *)
(* taken by an earlier one, then those told that none took.                *)
(***************************************************************************)
FirstUntaken(told, taken, victim) ==
  LET fit == {i \in DOMAIN told : i \notin taken /\ told[i] = victim}
  IN IF fit = {} THEN 0 ELSE Min(fit)

PairDeaths(captured, told) ==
  LET matches[i \in 0..Len(captured)] ==
        IF i = 0 THEN <<>>
        ELSE Append(matches[i - 1], FirstUntaken(told, ToSet(matches[i - 1]), captured[i]))
      matched == matches[Len(captured)]
      untaken == SelectSeq([i \in DOMAIN told |-> i], LAMBDA i : i \notin ToSet(matched))
  IN [i \in DOMAIN captured |-> [captured |-> i, told |-> matched[i]]]
       \o [i \in DOMAIN untaken |-> [captured |-> 0, told |-> untaken[i]]]

Check ==
  /\ run = "playing" /\ InMatch
  /\ \E over \in BOOLEAN :
       \/ (over \/ EndHasCome) /\ run' = "ended" /\ UNCHANGED leftAt
       \/ ~over /\ ~EndHasCome /\ LeaveHasCome /\ run' = "leaving" /\ leftAt' = now + Delay + 1
  /\ \E told \in Tells : pairs' = [told |-> told, pairs |-> PairDeaths(script.deaths, told)]
  /\ UNCHANGED <<script, pacer, sent, now, flight, arrived, handedAt, acks, seen, lost>>

ReenactmentNext == ServerTick \/ StateArrives \/ NextCommand \/ Check

ReenactmentSpec == ReenactmentInit /\ [][ReenactmentNext]_reenactmentVars

-----------------------------------------------------------------------------
(***************************************************************************)
(* No captured Command is handed to the World before its offset, and a     *)
(* Command is handed no sooner than the tick it was sent for.  Captured    *)
(* Commands go once, in the Script's order, at most one for a tick.        *)
(***************************************************************************)
NeverEarly ==
  \A i \in DOMAIN handedAt :
    /\ handedAt[i] >= sent[i].due
    /\ sent[i].place # 0 => handedAt[i] >= script.commands[sent[i].place]

SentInOrder ==
  /\ LET captured == SelectSeq(sent, LAMBDA command : command.place # 0)
     IN \A i \in DOMAIN captured : captured[i].place = i
  /\ \A i \in 2..Len(sent) : sent[i - 1].due < sent[i].due

(* A filler takes no tick of a captured Command that could have gone, and none from the Leave on. *)
FillersYield ==
  \A i \in DOMAIN sent : sent[i].place = 0 =>
    /\ script.leave # NoOffset => sent[i].due < script.leave
    /\ \A later \in (i + 1)..Len(sent) :
         sent[later].place # 0 => script.commands[sent[later].place] > sent[i].due

(***************************************************************************)
(* What a run that lost nothing drops by leaving is only what it sent in   *)
(* the tick it leaves in: everything older is handed before the server     *)
(* learns, and nothing captured before the Leave has yet to be sent.       *)
(***************************************************************************)
LeavesBehindItsCommands ==
  run = "leaving" /\ lost = 0 =>
    /\ ~CommandBeforeLeave(pacer)
    /\ leftAt >= script.leave
    /\ now + 1 >= leftAt =>
         \A i \in DOMAIN sent : i > Handed => sent[i].at + Delay + 1 = leftAt

(* Every Death, captured or told, is in one pair, and only a Death no other took is alone. *)
DeathsArePaired ==
  pairs # <<>> =>
    LET told == pairs.told
        all == pairs.pairs
    IN /\ \A i \in DOMAIN script.deaths : Cardinality({p \in DOMAIN all : all[p].captured = i}) = 1
       /\ \A i \in DOMAIN told : Cardinality({p \in DOMAIN all : all[p].told = i}) = 1
       /\ \A p, q \in DOMAIN all :
            all[p].captured # 0 /\ all[q].told # 0 /\ script.deaths[all[p].captured] = told[all[q].told] =>
              all[p].told # 0 \/ all[q].captured # 0

(* What Reenactment.tla is checked for, whole. *)
ReenactInv ==
  NeverEarly /\ SentInOrder /\ FillersYield /\ LeavesBehindItsCommands /\ DeathsArePaired
=============================================================================
