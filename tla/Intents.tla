------------------------------- MODULE Intents -------------------------------
(***************************************************************************)
(* An Agent's Intents (harness/intent.cpp, ADR-0052): what each channel    *)
(* holds, set and cleared by whoever chooses them and carried out by the   *)
(* Prediction thread's NextCommand, each told once how it ended, after the *)
(* lock it was taken under is let go.                                      *)
(*                                                                         *)
(* An Intent is its number and its kind; directions, views and stances are *)
(* left out.  A MoveTo's distance is chosen each tick.  The Server view is *)
(* external and moves as a server's would.                                 *)
(***************************************************************************)
EXTENDS Naturals, Sequences, FiniteSets

CONSTANTS
  BurstTicks, ReleaseTicks, \* kBurstTicks, kReleaseTicks
  StuckTicks,               \* tick_rate_hz: a second of ticks without progress
  FarthestPoint,            \* bound: how far a point may be; 0 is within kArrivedM
  MaxIntents, MaxPlayed     \* bounds: Intents set, matches played

ASSUME IntentsAssumption ==
  /\ {BurstTicks, ReleaseTicks, StuckTicks} \subseteq Nat \ {0}
  /\ {FarthestPoint, MaxIntents, MaxPlayed} \subseteq Nat

VARIABLES
  held,      \* movement_, aim_, trigger_, raw_
  owed,      \* the endings each thread took under the lock and has yet to tell
  toldHow,   \* history: the endings told of each Intent, in order
  intentsSet, \* history: how many Intents have been set
  serverView, \* external: the newest Server view
  done       \* history: what each Intent has come to in Commands

intentVars == <<held, owed, toldHow, intentsSet, serverView, done>>

Channels == {"movement", "aim", "trigger", "raw"}
KindsOf == [movement |-> {"Move", "MoveTo"}, aim |-> {"Look", "AimAt"},
            trigger |-> {"HoldFire", "Reload", "FireBursts"}, raw |-> {"Raw", "RawReloading"}]
Nothing == [id |-> 0]

Held(id, kind) ==
  [id |-> id, kind |-> kind, nearest |-> FarthestPoint + 1, stuck |-> 0, match |-> 0, ticks |-> 0]

IntentsInit ==
  /\ held = [channel \in Channels |-> Nothing]
  /\ owed = [thread \in {"agent", "prediction"} |-> <<>>]
  /\ toldHow = [id \in 1..MaxIntents |-> <<>>]
  /\ intentsSet = 0
  /\ serverView = [match |-> 0, inMatch |-> FALSE, ownAlive |-> FALSE, dead |-> FALSE,
                   state |-> FALSE, there |-> FALSE, rounds |-> 1, reloading |-> FALSE]
  /\ done = [id \in 1..MaxIntents |-> [reloads |-> 0, aimedIn |-> {}, streak |-> 0]]

-----------------------------------------------------------------------------
\* EndInto: what emptying a channel adds to the endings to tell.
EndInto(channel, ending) ==
  IF held[channel] = Nothing THEN <<>> ELSE <<[id |-> held[channel].id, ending |-> ending]>>

(***************************************************************************)
(* Replace: the Raw and what the channel held end replaced.  SetRaw ends   *)
(* all four channels'.                                                     *)
(***************************************************************************)
Replace(channel, next) ==
  /\ owed.agent = <<>>
  /\ owed' = [owed EXCEPT !.agent =
       EndInto("raw", "kReplaced") \o
       (IF channel # "raw" THEN EndInto(channel, "kReplaced")
        ELSE EndInto("movement", "kReplaced") \o EndInto("aim", "kReplaced") \o EndInto("trigger", "kReplaced"))]
  /\ held' = [c \in Channels |-> IF c = channel THEN next
                                 ELSE IF "raw" \in {c, channel} THEN Nothing ELSE held[c]]

Set(channel, kind) ==
  /\ intentsSet < MaxIntents /\ kind \in KindsOf[channel]
  /\ intentsSet' = intentsSet + 1
  /\ Replace(channel, Held(intentsSet', kind))
  /\ UNCHANGED <<toldHow, serverView, done>>

Clear(channel) ==
  /\ channel # "raw" /\ Replace(channel, Nothing)
  /\ UNCHANGED <<toldHow, intentsSet, serverView, done>>

NotifyEnded(thread) ==
  /\ owed[thread] # <<>>
  /\ toldHow' = [toldHow EXCEPT ![Head(owed[thread]).id] = Append(@, Head(owed[thread]).ending)]
  /\ owed' = [owed EXCEPT ![thread] = Tail(@)]
  /\ UNCHANGED <<held, intentsSet, serverView, done>>

-----------------------------------------------------------------------------
\* What carrying a held Intent out comes to: what it is then, and its ending if any.
GoesOn(intent) == [held |-> intent, ending |-> "none"]
Stops(intent, ending) == [held |-> intent, ending |-> ending]

CarryMovement(intent, distance) ==
  LET nearer == distance < intent.nearest IN
  IF intent.kind = "Move" THEN GoesOn(intent)
  ELSE IF distance = 0 THEN Stops(intent, "kArrived")
  ELSE IF nearer THEN GoesOn([intent EXCEPT !.nearest = distance, !.stuck = 0])
  ELSE IF intent.stuck + 1 >= StuckTicks THEN Stops(intent, "kBlocked")
  ELSE GoesOn([intent EXCEPT !.stuck = @ + 1])

\* Mutant: the target of another match will do.
MutTargetGoneEver(intent) ==
  intent.match # 0 /\ (~serverView.inMatch \/ serverView.dead \/ (serverView.state /\ ~serverView.there))

\* Never before it has been carried out once.
TargetGone(intent) ==
  /\ intent.match # 0
  /\ \/ intent.match # serverView.match \/ ~serverView.inMatch \/ serverView.dead
     \/ serverView.state /\ ~serverView.there

CarryAim(intent) ==
  LET aimed == [intent EXCEPT !.match = IF @ = 0 THEN serverView.match ELSE @] IN
  IF intent.kind = "Look" THEN GoesOn(intent)
  ELSE IF TargetGone(aimed) THEN Stops(aimed, "kTargetGone") ELSE GoesOn(aimed)

EmptyMagazine == serverView.state /\ serverView.rounds = 0

CarryTrigger(intent) ==
  CASE intent.kind = "HoldFire" -> GoesOn(intent)
    [] intent.kind = "Reload" -> Stops(intent, "kDone")
    [] intent.kind = "FireBursts" ->
         GoesOn([intent EXCEPT !.ticks = IF EmptyMagazine THEN 0 ELSE (@ + 1) % (BurstTicks + ReleaseTicks)])

Fires(intent) ==
  \/ intent.kind = "HoldFire"
  \/ intent.kind = "FireBursts" /\ ~EmptyMagazine /\ intent.ticks < BurstTicks

Reloads(intent) ==
  \/ intent.kind \in {"Reload", "RawReloading"}
  \/ intent.kind = "FireBursts" /\ EmptyMagazine /\ ~serverView.reloading

\* Mutant: the Raw goes on reloading.
MutRawReloads(intent) == GoesOn(intent)

\* The raw Command's reload is sent once.
CarryRaw(intent) == GoesOn([intent EXCEPT !.kind = "Raw"])

Carry(channel, distance) ==
  CASE channel = "movement" -> CarryMovement(held.movement, distance)
    [] channel = "aim" -> CarryAim(held.aim)
    [] channel = "trigger" -> CarryTrigger(held.trigger)
    [] channel = "raw" -> CarryRaw(held.raw)

\* What the Command sent has of each Intent it carries out.
Came(intent) ==
  LET was == done[intent.id] IN
  [reloads |-> was.reloads + (IF Reloads(intent) /\ intent.kind # "FireBursts" THEN 1 ELSE 0),
   aimedIn |-> IF intent.kind = "AimAt" /\ CarryAim(intent).ending = "none"
               THEN was.aimedIn \cup {serverView.match} ELSE was.aimedIn,
   streak |-> IF intent.kind = "FireBursts" /\ Fires(intent) THEN was.streak + 1 ELSE 0]

(***************************************************************************)
(* NextCommand: the Raw alone, or each channel in turn, for a player alive *)
(* in a Match; otherwise the Intents wait, but for an AimAt whose target   *)
(* is gone.                                                                *)
(***************************************************************************)
CarryOut(distance) ==
  LET turns == IF held.raw # Nothing THEN {"raw"} ELSE {"movement", "aim", "trigger"}
      carried == {channel \in turns : held[channel] # Nothing}
      Ended(channel) == Carry(channel, distance).ending
      CarryChannel(channel) ==
        IF channel \in carried /\ Ended(channel) # "none" THEN EndInto(channel, Ended(channel)) ELSE <<>>
  IN /\ held' = [channel \in Channels |->
                   IF channel \notin carried THEN held[channel]
                   ELSE IF Ended(channel) = "none" THEN Carry(channel, distance).held ELSE Nothing]
     /\ owed' = [owed EXCEPT !.prediction = CarryChannel("movement") \o CarryChannel("aim") \o CarryChannel("trigger")]
     /\ done' = [id \in 1..MaxIntents |->
                   IF \E channel \in carried : held[channel].id = id
                   THEN Came(held[CHOOSE channel \in carried : held[channel].id = id]) ELSE done[id]]

EndAimIfTargetGone ==
  LET gone == held.aim # Nothing /\ held.aim.kind = "AimAt" /\ TargetGone(held.aim) IN
  /\ held' = [held EXCEPT !.aim = IF gone THEN Nothing ELSE @]
  /\ owed' = [owed EXCEPT !.prediction = IF gone THEN EndInto("aim", "kTargetGone") ELSE <<>>]
  /\ UNCHANGED done

ExecutorNextCommand(distance) ==
  /\ owed.prediction = <<>>
  /\ IF serverView.ownAlive THEN CarryOut(distance) ELSE EndAimIfTargetGone
  /\ UNCHANGED <<toldHow, intentsSet, serverView>>

-----------------------------------------------------------------------------
(***************************************************************************)
(* External: what the server says.  The target dies or leaves and is not   *)
(* back before the next match; a State is as old as it may be.             *)
(***************************************************************************)
MatchStarts ==
  /\ ~serverView.inMatch /\ serverView.match < MaxPlayed
  /\ serverView' = [match |-> serverView.match + 1, inMatch |-> TRUE, ownAlive |-> TRUE, dead |-> FALSE,
                    state |-> FALSE, there |-> TRUE, rounds |-> 1, reloading |-> FALSE]

StateIsTaken ==
  /\ serverView.inMatch
  /\ \E there \in BOOLEAN, rounds \in 0..1, reloading \in BOOLEAN :
       /\ there => serverView.there
       /\ reloading => rounds = 0
       /\ serverView' = [serverView EXCEPT !.state = TRUE, !.there = there, !.rounds = rounds,
                                           !.reloading = reloading]

SomeoneDies ==
  /\ serverView.inMatch
  /\ \/ serverView' = [serverView EXCEPT !.dead = TRUE]
     \/ serverView' = [serverView EXCEPT !.ownAlive = FALSE]

MatchEnds ==
  /\ serverView.inMatch
  /\ serverView' = [serverView EXCEPT !.inMatch = FALSE, !.ownAlive = FALSE, !.state = FALSE]

ServerSays == (MatchStarts \/ StateIsTaken \/ SomeoneDies \/ MatchEnds) /\ UNCHANGED <<held, owed, toldHow, intentsSet, done>>

IntentsNext ==
  \/ \E channel \in Channels :
       (\E kind \in KindsOf[channel] : Set(channel, kind)) \/ Clear(channel)
  \/ \E thread \in {"agent", "prediction"} : NotifyEnded(thread)
  \/ \E distance \in 0..FarthestPoint : ExecutorNextCommand(distance)
  \/ ServerSays

IntentsSpec == IntentsInit /\ [][IntentsNext]_intentVars

-----------------------------------------------------------------------------
(***************************************************************************)
(* Every Intent set is held, or its ending is still to be told, or was     *)
(* told, once, whatever the two threads do.                                *)
(***************************************************************************)
OwedIds(thread) == {owed[thread][i].id : i \in DOMAIN owed[thread]}
HeldIds == {held[channel].id : channel \in Channels} \ {0}

ToldOnceEach ==
  \A id \in 1..MaxIntents :
    LET places == (IF id \in HeldIds THEN 1 ELSE 0) + Len(toldHow[id])
                  + Cardinality({thread \in {"agent", "prediction"} : id \in OwedIds(thread)})
    IN places = IF id <= intentsSet THEN 1 ELSE 0

RawIsAlone == held.raw # Nothing => \A channel \in Channels \ {"raw"} : held[channel] = Nothing

(* A reload is a press: a Reload or a Raw presses it once, in one Command. *)
ReloadsOnce == \A id \in 1..MaxIntents : done[id].reloads <= 1

(* An AimAt is of one match, whoever the same entity is in the next. *)
AimsInOneMatch == \A id \in 1..MaxIntents : Cardinality(done[id].aimedIn) <= 1

(* FireBursts never holds the trigger longer than a Burst. *)
BurstsAreShort == \A id \in 1..MaxIntents : done[id].streak <= BurstTicks

IntentsInv == ToldOnceEach /\ RawIsAlone /\ ReloadsOnce /\ AimsInOneMatch /\ BurstsAreShort
=============================================================================
