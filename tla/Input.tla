-------------------------------- MODULE Input -------------------------------
(***************************************************************************)
(* What a player's keyboard and mouse do: the window's events, polled in   *)
(* batches by a client's Main/Render thread (client/client.cpp), shared    *)
(* out between the game and the Debug panels (debug/interaction.cpp), and  *)
(* held by Input until its Prediction thread samples them (input/          *)
(* input.cpp).                                                             *)
(*                                                                         *)
(* A batch is routed at once, handled at once under Input's mutex, and     *)
(* only then is what entering or leaving Debug interaction asks of Input   *)
(* done, under the mutex again: the Prediction thread may sample between.  *)
(* An event is <<"key", key, pressed>> or <<"move", position>>.  The       *)
(* cursor has one axis, and a whole turn is Turn of its steps.             *)
(***************************************************************************)
EXTENDS Integers, Sequences, SequencesExt

CONSTANTS
  BoundKeys,  \* the keys bound to a control that is held, and to reload
  Buttons,    \* the mouse's among them
  ReloadKey,  \* the one bound to reload
  Positions,  \* where the cursor may be
  Turn,       \* the steps of a whole turn
  MaxBatch    \* bound: the events of one poll

ToggleKey == "F1"
LeaveKey == "Escape"
DeviceKeys == BoundKeys \cup {ToggleKey, LeaveKey}

ASSUME InputAssumption ==
  /\ Buttons \subseteq BoundKeys /\ ReloadKey \in BoundKeys
  /\ BoundKeys \cap {ToggleKey, LeaveKey} = {}
  /\ Positions \subseteq Nat /\ {Turn, MaxBatch} \subseteq Nat \ {0}

VARIABLES
  device,      \* external: the keys down and where the cursor is
  turnTo,      \* what the Main/Render thread does next, after a batch
  routed,      \* Routing: [game, entered, left]
  interaction, \* DebugInteraction: in_, leave_release_owed_, panels_held_
  input,       \* Input: held_, last_cursor_, yaw_, cursor_captured_,
               \* reload_pressed_
  asIfOne,     \* history: Input, had each event been taken by itself, until
               \* mixed
  mixed        \* history: a batch had events of the game's after it had
               \* entered Debug interaction or left it by its leave key

inputVars == <<device, turnTo, routed, interaction, input, asIfOne, mixed>>

NoBaseline == -1
AtRest == [held |-> {}, last |-> NoBaseline, yaw |-> 0, captured |-> TRUE, reload |-> FALSE]
NotRouted == [game |-> <<>>, entered |-> FALSE, left |-> FALSE]

InputInit ==
  /\ device \in [down : {{}}, cursor : Positions]
  /\ turnTo = "admission" /\ routed = NotRouted
  /\ interaction = [in |-> FALSE, owed |-> FALSE, held |-> {}]
  /\ input = AtRest /\ asIfOne = AtRest /\ mixed = FALSE

-----------------------------------------------------------------------------
(* Input, under its mutex *)

\* Mutant: a key held when the cursor is released or captured stays held.
MutSetCursorCaptured(of, captured) ==
  [of EXCEPT !.captured = captured, !.reload = FALSE, !.last = NoBaseline]
SetCursorCaptured(of, captured) ==
  [of EXCEPT !.captured = captured, !.held = {}, !.reload = FALSE, !.last = NoBaseline]

\* Apply, of a key: with the cursor released a click only captures it.
ApplyKey(of, key, pressed) ==
  LET took == [of EXCEPT !.held = IF pressed THEN @ \cup {key} ELSE @ \ {key},
                         !.reload = @ \/ (pressed /\ key = ReloadKey)]
  IN CASE ~of.captured -> IF pressed /\ key \in Buttons THEN SetCursorCaptured(of, TRUE) ELSE of
       [] pressed /\ key = LeaveKey -> SetCursorCaptured(took, FALSE)
       [] OTHER -> took

\* Apply, of a move: the first one only says where the cursor starts.
ApplyMove(of, position) ==
  CASE ~of.captured -> of
    [] of.last = NoBaseline -> [of EXCEPT !.last = position]
    [] OTHER -> [of EXCEPT !.last = position, !.yaw = (@ - (position - of.last)) % Turn]

Apply(of, event) == IF event[1] = "key" THEN ApplyKey(of, event[2], event[3]) ELSE ApplyMove(of, event[2])
Handle(of, events) == FoldLeft(Apply, of, events)

\* LetGo: a reload pressed still reloads.
LetGo(of) == [of EXCEPT !.held = {}, !.last = NoBaseline]
ReleaseCursor(of) == SetCursorCaptured(of, FALSE)

\* Sample, the Prediction thread's, once it predicts.  What it reports is what
\* is held; a reload only once.
Sample ==
  /\ turnTo # "admission"
  /\ input' = [input EXCEPT !.reload = FALSE] /\ asIfOne' = [asIfOne EXCEPT !.reload = FALSE]
  /\ UNCHANGED <<device, turnTo, routed, interaction, mixed>>

-----------------------------------------------------------------------------
(* DebugInteraction *)

IsKey(event, key, pressed) == event = <<"key", key, pressed>>

LeaveInteraction(of) == [of EXCEPT !.in = FALSE, !.held = {}]

\* One event of a batch: so far is what the batch came to before it, [debug, to,
\* mixed].
RouteEvent(far, event) ==
  LET debug == far.debug
      panels == CASE event[1] = "move" -> debug
                  [] event[3] -> [debug EXCEPT !.held = @ \cup {event[2]}]
                  [] OTHER -> [debug EXCEPT !.held = @ \ {event[2]}]
  IN CASE IsKey(event, ToggleKey, TRUE) ->
            IF debug.in THEN [far EXCEPT !.debug = LeaveInteraction(debug)]
            ELSE [far EXCEPT !.debug.in = TRUE, !.to.entered = TRUE]
       [] debug.in /\ IsKey(event, LeaveKey, TRUE) ->
            [far EXCEPT !.debug = [LeaveInteraction(debug) EXCEPT !.owed = TRUE], !.to.left = TRUE]
       [] IsKey(event, ToggleKey, FALSE) -> far
       [] debug.owed /\ IsKey(event, LeaveKey, FALSE) -> [far EXCEPT !.debug.owed = FALSE]
       [] debug.in -> [far EXCEPT !.debug = panels]
       [] OTHER -> [far EXCEPT !.to.game = Append(@, event),
                               !.mixed = @ \/ far.to.entered \/ far.to.left]

Route(events) == FoldLeft(RouteEvent, [debug |-> interaction, to |-> NotRouted, mixed |-> mixed], events)

\* CursorLocked.
CursorLocked == ~interaction.in /\ input.captured

-----------------------------------------------------------------------------
(* The Main/Render thread *)

\* External: what the player does, in the order it does it.
RECURSIVE Happens(_, _)
Happens(to, events) ==
  IF events = <<>> THEN to
  ELSE LET event == events[1]
           then == CASE event[1] = "move" -> [to EXCEPT !.cursor = event[2]]
                     [] event[3] -> [to EXCEPT !.down = @ \cup {event[2]}]
                     [] OTHER -> [to EXCEPT !.down = @ \ {event[2]}]
       IN Happens(then, Tail(events))

DeviceEvents == ({"key"} \X DeviceKeys \X BOOLEAN) \cup ({"move"} \X Positions)

\* No key is pressed that is down, or let go of that is not.
Possible(events) ==
  \A i \in DOMAIN events :
    LET before == Happens(device, SubSeq(events, 1, i - 1)) IN
    events[i][1] = "key" => (events[i][3] <=> events[i][2] \notin before.down)

Batches == {events \in SeqOf(DeviceEvents, MaxBatch) : Possible(events)}

\* Before admission Input has every event: nothing is routed.
PollsBeforeAdmission ==
  /\ turnTo = "admission"
  /\ \E events \in Batches :
       /\ device' = Happens(device, events)
       /\ input' = Handle(input, events) /\ asIfOne' = Handle(asIfOne, events)
  /\ turnTo' \in {"admission", "poll"}
  /\ UNCHANGED <<routed, interaction, mixed>>

\* Each event of a batch as it would be taken in a batch of its own.
TakenAlone(far, event) ==
  LET went == RouteEvent([far.route EXCEPT !.to = NotRouted], event)
      handled == Handle(far.input, went.to.game)
      letGo == IF went.to.entered THEN LetGo(handled) ELSE handled
  IN [route |-> went, input |-> IF went.to.left THEN ReleaseCursor(letGo) ELSE letGo]

\* HandleWindowEvents, as far as Route.
PollsAndRoutes ==
  /\ turnTo = "poll"
  /\ \E events \in Batches :
       LET all == Route(events)
           alone == FoldLeft(TakenAlone, [route |-> [debug |-> interaction, to |-> NotRouted, mixed |-> FALSE],
                                          input |-> asIfOne], events)
       IN /\ device' = Happens(device, events)
          /\ routed' = all.to /\ interaction' = all.debug /\ mixed' = all.mixed
          /\ asIfOne' = IF all.mixed THEN AtRest ELSE alone.input
  /\ turnTo' = "handle"
  /\ UNCHANGED input

\* Its calls of Input, each under the mutex by itself, with what of the routing
\* the rest still ask for.
Asks(this, next, does, rest) ==
  /\ turnTo = this /\ turnTo' = next
  /\ input' = does /\ routed' = rest
  /\ UNCHANGED <<device, interaction, asIfOne, mixed>>

HandlesTheGames ==
  Asks("handle", "let go", Handle(input, routed.game), [routed EXCEPT !.game = <<>>])
LetsGo == Asks("let go", "release", IF routed.entered THEN LetGo(input) ELSE input,
               [routed EXCEPT !.entered = FALSE])
ReleasesTheCursor ==
  Asks("release", "poll", IF routed.left THEN ReleaseCursor(input) ELSE input, NotRouted)

InputNext ==
  \/ Sample \/ PollsBeforeAdmission \/ PollsAndRoutes
  \/ HandlesTheGames \/ LetsGo \/ ReleasesTheCursor

InputSpec == InputInit /\ [][InputNext]_inputVars

-----------------------------------------------------------------------------
(* Properties *)

BatchIsDone == turnTo \in {"admission", "poll"}

\* No control sticks: what Input or the panels hold is a key that is down,
\* wherever its release went, and with the cursor released, or the panels in
\* front, the game holds nothing.
NothingSticks ==
  BatchIsDone =>
    /\ input.held \cap BoundKeys \subseteq device.down
    /\ interaction.held \subseteq device.down
    /\ ~CursorLocked => input.held \cap BoundKeys = {}
    /\ ~interaction.in => interaction.held = {}

\* Routing batch by batch comes to what taking every event by itself does: no
\* press is missed, none is reported twice and the view turns by no move that is
\* the panels', unless a batch mixes the game's events with a change of mode.
TakenInOrder ==
  (BatchIsDone /\ ~mixed) =>
    /\ input.held = asIfOne.held /\ input.captured = asIfOne.captured
    /\ input.yaw = asIfOne.yaw /\ input.last = asIfOne.last
    /\ asIfOne.reload => input.reload

InputInv == NothingSticks /\ TakenInOrder
=============================================================================
