-------------------------------- MODULE Link --------------------------------
(***************************************************************************)
(* The Link: the engine's messages as the protocol carries them            *)
(* (link_messages.cpp, capture_records.cpp), what each end makes of a      *)
(* payload (link.cpp), and what a client counts of the Authoritative       *)
(* States it receives (AtomicStateTally).                                  *)
(*                                                                         *)
(* One behaviour either says one message and hears its payload, as it was  *)
(* encoded or with something of it changed on the way, or receives states  *)
(* and Match starts over a connection that loses, repeats and reorders the *)
(* states.  A message is its kind and its value; a value whose fields are  *)
(* the *Wire's own is carried over as it is.  A part, a refusal or a       *)
(* stance outside its enumeration is one memory has corrupted.             *)
(***************************************************************************)
EXTENDS Wire, FiniteSets

CONSTANTS
  LastCountedTick,     \* the last tick whose state a server sends, where states are counted
  StoryLength   \* how many states and Match starts a client takes in there

VARIABLES
  said,     \* the message said, with what is to be heard of it
  payload,  \* its payload on the way, or Refused
  whole,    \* whether it is still as it was encoded
  heard,    \* what each end, and a capture's reader, make of it
  step,     \* "saying", "sent", "heard", or "counting" where states are counted
  stateTally,    \* the client's AuthoritativeStateTally, with the newest tick it saw
  story     \* the ticks of the states taken in, a Match start being 0

exchangeVars == <<said, payload, whole, heard, step, stateTally, story>>

NoMessage == [kind |-> "nothing"]

-----------------------------------------------------------------------------
(* The engine's types on the wire.                                         *)
BodyPartWire == [head |-> 1, torso |-> 2, limb |-> 3, corrupted |-> 0]
JoinRefusalWire == [
  version_mismatch |-> 1, lobby_full |-> 2, unknown_character |-> 3, match_in_progress |-> 4,
  pack_mismatch |-> 5, replay_server |-> 6, unknown_capture |-> 7, not_a_replay_server |-> 8,
  reenactments_not_accepted |-> 9, corrupted |-> 0]
Named(names, number) == CHOOSE name \in DOMAIN names : names[name] = number

Flag(set, bit) == IF set THEN bit ELSE 0
IsSet(flags, bit) == (flags \div bit) % 2 = 1
Least(a, b) == IF a < b THEN a ELSE b

(* Its Seen time travels as its age before the message's newest, at most a *)
(* byte of it.                                                             *)
(* Mutant: the age is cast to a byte, not held to one.                     *)
MutSeenAge(seen, newest) == IF newest > seen THEN (newest - seen) % 256 ELSE 0
SeenAge(seen, newest) == Least(IF newest > seen THEN newest - seen ELSE 0, 255)

CommandToWire(command, seen_tick) == [
  direction |-> command.direction,
  yaw |-> command.yaw,
  pitch |-> command.pitch,
  seen_fraction |-> command.seen_fraction,
  flags |-> Flag(command.sprint, 1) + Flag(command.ads, 2) + Flag(command.fire, 4)
            + Flag(command.reload, 8),
  desired_stance |-> command.desired_stance,
  seen_age |-> SeenAge(command.seen_tick, seen_tick)]

CommandFromWire(wire, seen_tick) == [
  direction |-> wire.direction,
  sprint |-> IsSet(wire.flags, 1),
  desired_stance |-> wire.desired_stance,
  yaw |-> wire.yaw,
  pitch |-> wire.pitch,
  ads |-> IsSet(wire.flags, 2),
  fire |-> IsSet(wire.flags, 4),
  reload |-> IsSet(wire.flags, 8),
  seen_tick |-> seen_tick - Least(wire.seen_age, seen_tick),
  seen_fraction |-> wire.seen_fraction]

(* The newest commands, as many as one message holds.                      *)
CarriedOf(commands) ==
  SubSeq(commands, Len(commands) - Least(Len(commands), MaxCommandsPerMessage) + 1, Len(commands))

NewestSeen(commands) ==
  LET seen == {0} \cup {commands[i].command.seen_tick : i \in DOMAIN commands}
  IN CHOOSE tick \in seen : \A other \in seen : other <= tick

OneMessage(commands) == [
  commands |-> [i \in DOMAIN commands |->
                 [sequence |-> commands[i].sequence,
                  command |-> CommandToWire(commands[i].command, NewestSeen(commands))]],
  seen_tick |-> NewestSeen(commands)]

CommandsFromWire(wire) ==
  [i \in DOMAIN wire.commands |->
    [sequence |-> wire.commands[i].sequence,
     command |-> CommandFromWire(wire.commands[i].command, wire.seen_tick)]]

BodyStateToWire(body) == [
  position |-> body.position,
  velocity |-> body.velocity,
  stamina |-> body.stamina,
  flags |-> Flag(body.exhausted, 1) + Flag(body.grounded, 4),
  stance |-> body.stance,
  stride |-> body.stride,
  previous_stance |-> body.previous_stance,
  stance_progress |-> body.stance_progress]

BodyStateFromWire(wire) == [
  position |-> wire.position,
  velocity |-> wire.velocity,
  stance |-> wire.stance,
  stamina |-> wire.stamina,
  exhausted |-> IsSet(wire.flags, 1),
  grounded |-> IsSet(wire.flags, 4),
  stride |-> wire.stride,
  previous_stance |-> wire.previous_stance,
  stance_progress |-> wire.stance_progress]

(* ADS shares the body's flags.                                            *)
BodyToWire(body) == [
  entity |-> body.entity,
  body |-> [BodyStateToWire(body.body) EXCEPT !.flags = @ + Flag(body.ads, 2)],
  yaw |-> body.yaw,
  pitch |-> body.pitch]

BodyFromWire(wire) == [
  entity |-> wire.entity,
  body |-> BodyStateFromWire(wire.body),
  yaw |-> wire.yaw,
  pitch |-> wire.pitch,
  ads |-> IsSet(wire.body.flags, 2)]

ParametersToWire(parameters) == [
  stamina |-> parameters.stamina,
  rifle |-> parameters.rifle,
  ammo |-> [gravity |-> parameters.ammo.flight.gravity,
            max_range |-> parameters.ammo.flight.max_range,
            head_damage |-> parameters.ammo.damage.head,
            torso_damage |-> parameters.ammo.damage.torso,
            limb_damage |-> parameters.ammo.damage.limb],
  starting_health |-> parameters.starting_health,
  player_count |-> parameters.player_count]

ParametersFromWire(wire) == [
  stamina |-> wire.stamina,
  rifle |-> wire.rifle,
  ammo |-> [flight |-> [gravity |-> wire.ammo.gravity, max_range |-> wire.ammo.max_range],
            damage |-> [head |-> wire.ammo.head_damage, torso |-> wire.ammo.torso_damage,
                        limb |-> wire.ammo.limb_damage]],
  starting_health |-> wire.starting_health,
  player_count |-> wire.player_count]

FillRecipientFields(state) == [
  rifle |-> [cooldown |-> state.rifle.cooldown,
             reload_remaining |-> state.rifle.reload_remaining,
             recoil_pitch |-> state.rifle.recoil.pitch,
             recoil_yaw |-> state.rifle.recoil.yaw,
             rounds |-> state.rifle.rounds,
             burst_index |-> state.rifle.burst_index],
  health |-> state.health,
  acknowledged_sequence |-> state.acknowledged_sequence,
  queued_commands |-> state.queued_commands]

StateToWire(state) ==
  LET own == FillRecipientFields(state)
  IN [tick |-> state.tick,
      bodies |-> [i \in DOMAIN state.bodies |-> BodyToWire(state.bodies[i])],
      rifle |-> own.rifle,
      health |-> own.health,
      acknowledged_sequence |-> own.acknowledged_sequence,
      queued_commands |-> own.queued_commands]

StateFromWire(wire) == [
  tick |-> wire.tick,
  acknowledged_sequence |-> wire.acknowledged_sequence,
  bodies |-> [i \in DOMAIN wire.bodies |-> BodyFromWire(wire.bodies[i])],
  rifle |-> [cooldown |-> wire.rifle.cooldown,
             reload_remaining |-> wire.rifle.reload_remaining,
             recoil |-> [pitch |-> wire.rifle.recoil_pitch, yaw |-> wire.rifle.recoil_yaw],
             rounds |-> wire.rifle.rounds,
             burst_index |-> wire.rifle.burst_index],
  health |-> wire.health,
  queued_commands |-> wire.queued_commands]

(* A Draw has no winner, and goes as the nil session.                      *)
WinnerToWire(end) == [winner |-> IF end.winner = <<>> THEN Draw ELSE end.winner[1]]
WinnerFromWire(wire) == [winner |-> IF wire.winner = Draw THEN <<>> ELSE <<wire.winner>>]

(* The Shooter's delay, counted here in halves of 1/256 of a tick, goes as *)
(* whole ticks and a fraction; no target as the entity 0, which none is.   *)
TickHalves == 512
JudgementToWire(judgement) ==
  LET delay == IF judgement.shooters_delay < 0 THEN 0
               ELSE Least(judgement.shooters_delay, 255 * TickHalves)
  IN [shot_tick |-> judgement.shot_tick,
      entries |-> judgement.entries,
      point |-> judgement.point,
      target |-> IF judgement.target = <<>> THEN 0 ELSE judgement.target[1],
      delay_fraction |-> delay % TickHalves,
      delay_ticks |-> delay \div TickHalves,
      struck |-> judgement.struck,
      part |-> BodyPartWire[judgement.part],
      flags |-> Flag(judgement.entries_left_out, 1)]

JudgementFromWire(wire) == [
  shot_tick |-> wire.shot_tick,
  shooters_delay |-> TickHalves * wire.delay_ticks + wire.delay_fraction,
  struck |-> wire.struck,
  part |-> Named(BodyPartWire, wire.part),
  point |-> wire.point,
  target |-> IF wire.target = 0 THEN <<>> ELSE <<wire.target>>,
  entries |-> wire.entries,
  entries_left_out |-> IsSet(wire.flags, 1)]

(* A join that names a spawn is a Reenact request.                         *)
JoinToWire(request) ==
  IF request.spawn = <<>>
  THEN [type |-> 1,
        wire |-> [engine_version |-> request.engine_version, client_pack |-> request.client_pack,
                  character |-> request.character, run |-> request.run]]
  ELSE [type |-> 17, wire |-> [request EXCEPT !.spawn = request.spawn[1]]]

JoinFromWire(wire) == [
  engine_version |-> wire.engine_version, client_pack |-> wire.client_pack,
  character |-> wire.character, run |-> wire.run, spawn |-> <<>>]
ReenactFromWire(wire) == [wire EXCEPT !.spawn = <<wire.spawn>>]

(* The newest captures a list holds, those whose name a request could      *)
(* carry, in the order they were given.                                    *)
Carryable(listing) == listing.name.size <= MaxCaptureNameLength /\ IsUtf8(listing.name)
ListedOf(listings) ==
  LET carryable == SelectSeq(listings, Carryable)
  IN SubSeq(carryable, Len(carryable) - Least(Len(carryable), MaxReplayListings) + 1,
            Len(carryable))

-----------------------------------------------------------------------------
(* A message as the protocol's, and each end's as the engine's.            *)
ToWire(message) ==
  LET value == message.value
      As(type, wire) == [type |-> type, wire |-> wire]
  IN CASE message.kind = "join" -> JoinToWire(value)
       [] message.kind = "admission" ->
            As(2, [value EXCEPT !.parameters = ParametersToWire(value.parameters)])
       [] message.kind = "refusal" -> As(3, [reason |-> JoinRefusalWire[value]])
       [] message.kind = "commands" -> As(4, OneMessage(CarriedOf(value)))
       [] message.kind = "state" -> As(5, StateToWire(value))
       [] message.kind = "lobby" -> As(6, value)
       [] message.kind = "ready" -> As(7, value)
       [] message.kind = "match_start" -> As(8, value)
       [] message.kind = "match_end" -> As(9, WinnerToWire(value))
       [] message.kind = "shot" -> As(10, value)
       [] message.kind = "hit" -> As(11, [value EXCEPT !.part = BodyPartWire[value.part]])
       [] message.kind = "death" -> As(12, [value EXCEPT !.part = BodyPartWire[value.part]])
       [] message.kind = "list_request" -> As(13, [nothing |-> 0])
       [] message.kind = "replays" -> As(14, [replays |-> ListedOf(value)])
       [] message.kind = "replay_request" -> As(15, value)
       [] message.kind = "subscribe" -> As(18, value)
       [] message.kind = "judgement" -> As(19, JudgementToWire(value))

Says(kind, value) == [kind |-> kind, value |-> value]

ServerMessageFromWire(message) ==
  CASE message.type = 2 ->
         Says("admission",
              [message.wire EXCEPT !.parameters = ParametersFromWire(message.wire.parameters)])
    [] message.type = 3 -> Says("refusal", Named(JoinRefusalWire, message.wire.reason))
    [] message.type = 5 -> Says("state", StateFromWire(message.wire))
    [] message.type = 6 -> Says("lobby", message.wire)
    [] message.type = 8 -> Says("match_start", message.wire)
    [] message.type = 9 -> Says("match_end", WinnerFromWire(message.wire))
    [] message.type = 10 -> Says("shot", message.wire)
    [] message.type = 11 ->
         Says("hit", [message.wire EXCEPT !.part = Named(BodyPartWire, message.wire.part)])
    [] message.type = 12 ->
         Says("death", [message.wire EXCEPT !.part = Named(BodyPartWire, message.wire.part)])
    [] message.type = 14 -> Says("replays", message.wire.replays)
    [] message.type = 19 -> Says("judgement", JudgementFromWire(message.wire))
    [] OTHER -> NoMessage

ClientMessageFromWire(message) ==
  CASE message.type = 1 -> Says("join", JoinFromWire(message.wire))
    [] message.type = 4 -> Says("commands", CommandsFromWire(message.wire))
    [] message.type = 7 -> Says("ready", message.wire)
    [] message.type = 13 -> Says("list_request", message.wire)
    [] message.type = 15 -> Says("replay_request", message.wire)
    [] message.type = 17 -> Says("join", ReenactFromWire(message.wire))
    [] message.type = 18 -> Says("subscribe", message.wire)
    [] OTHER -> NoMessage

(* A capture's records: the Seen time of a Command is kept as an offset of *)
(* its own, so it goes as of age 0; a Draw's winner is the player 0.       *)
RecordToWire(record) ==
  LET value == record.value
  IN CASE record.kind = "header" -> [type |-> 1001, wire |-> value]
       [] record.kind = "captured_join" ->
            [type |-> 1002,
             wire |-> [spawn |-> value.spawn, offset |-> 0, session |-> value.session,
                       character |-> value.character, player |-> value.player]]
       [] record.kind = "captured_command" ->
            [type |-> 1003,
             wire |-> [value EXCEPT !.command = CommandToWire(@, @.seen_tick)]]
       [] record.kind = "captured_leave" -> [type |-> 1004, wire |-> value]
       [] record.kind = "captured_death" -> [type |-> 1005, wire |-> value]
       [] record.kind = "captured_end" ->
            [type |-> 1006,
             wire |-> [value EXCEPT !.winner = IF @ = <<>> THEN 0 ELSE @[1]]]

RecordFromWire(record) ==
  LET wire == record.wire
  IN CASE record.type = 1001 -> Says("header", wire)
       [] record.type = 1002 ->
            Says("captured_join", [spawn |-> wire.spawn, session |-> wire.session,
                                   character |-> wire.character, player |-> wire.player])
       [] record.type = 1003 ->
            Says("captured_command", [wire EXCEPT !.command = CommandFromWire(@, 0)])
       [] record.type = 1004 -> Says("captured_leave", wire)
       [] record.type = 1005 -> Says("captured_death", wire)
       [] record.type = 1006 ->
            Says("captured_end", [wire EXCEPT !.winner = IF @ = 0 THEN <<>> ELSE <<@>>])

RecordKinds == {"header", "captured_join", "captured_command", "captured_leave",
                "captured_death", "captured_end"}

EncodeToSend(message) ==
  IF message.kind \in RecordKinds THEN EncodeCaptureRecord(RecordToWire(message))
  ELSE Encode(ToWire(message))

(* Only a state is readdressed, and only its recipient's fields converted. *)
Readdressed(state, recipient) ==
  IF state.type = 5 THEN Readdress(state, FillRecipientFields(recipient)) ELSE Refused

(* What an end makes of a payload.                                         *)
TakenIn(decoded) == IF decoded = Refused THEN NoMessage ELSE ServerMessageFromWire(decoded)
ReadFrom(decoded) == IF decoded = Refused THEN NoMessage ELSE ClientMessageFromWire(decoded)
RecordOf(decoded) == IF decoded = Refused THEN NoMessage ELSE RecordFromWire(decoded)
Heard(decoded, record) ==
  [client |-> TakenIn(decoded), server |-> ReadFrom(decoded), record |-> RecordOf(record)]

-----------------------------------------------------------------------------
(* What is said.  Each message is said with every field told apart from    *)
(* the others, then with each number on a grid beyond it, between its      *)
(* steps or NaN, and with each other field at its bounds and past them.    *)
(* g gives a number for each grid.                                         *)
Grids == [position |-> PositionGrid, velocity |-> VelocityGrid, direction |-> DirectionGrid,
          angle |-> AngleGrid, stamina |-> StaminaGrid, fraction |-> FractionGrid]
PlainNumbers == [position |-> 6, velocity |-> 8, direction |-> 10, angle |-> 12, stamina |-> 14,
                 fraction |-> 16]
OddNumbersOf(grid) ==
  {FromSteps(grid.min), FromSteps(grid.min) - 3, FromSteps(grid.max), FromSteps(grid.max) + 1,
   FromSteps(grid.max) + 3, 0, 1, 3, -1, -3, NaN}
Numbers == {PlainNumbers} \cup
           {[PlainNumbers EXCEPT ![name] = number] :
              name \in DOMAIN Grids,
              number \in UNION {OddNumbersOf(Grids[grid]) : grid \in DOMAIN Grids}}
OnGrids(g) == [name \in DOMAIN Grids |-> Snap(g[name], Grids[name])]

AName == [size |-> 5, of |-> "text"]
AnotherName == [size |-> 6, of |-> "text"]
AVersion == [size |-> 7, of |-> "text"]
AHash == [size |-> HashSize, of |-> "binary"]
ARun == [size |-> UuidSize, of |-> "binary"]
ASession == [size |-> UuidSize, of |-> "text"]
Vec(x, y, z) == [x |-> x, y |-> y, z |-> z]

ACommand(g) == [
  direction |-> Vec(g.direction, 2, 4), sprint |-> TRUE, desired_stance |-> 2,
  yaw |-> g.angle, pitch |-> 2, ads |-> FALSE, fire |-> TRUE, reload |-> FALSE,
  seen_tick |-> 300, seen_fraction |-> g.fraction]
ABody(g) == [
  entity |-> 3,
  body |-> [position |-> Vec(g.position, 2, 4), velocity |-> Vec(g.velocity, 6, 8), stance |-> 1,
            stamina |-> g.stamina, exhausted |-> TRUE, grounded |-> FALSE, stride |-> 9,
            previous_stance |-> 2, stance_progress |-> 100],
  yaw |-> g.angle, pitch |-> 2, ads |-> TRUE]
AState(g) == [
  tick |-> 4, acknowledged_sequence |-> 5,
  bodies |-> <<ABody(g), [ABody(g) EXCEPT !.entity = 4]>>,
  rifle |-> [cooldown |-> 1, reload_remaining |-> 2, recoil |-> [pitch |-> g.angle, yaw |-> 2],
             rounds |-> 3, burst_index |-> 4],
  health |-> 6, queued_commands |-> 7]
AnEntry(g) == [
  players |-> <<[position |-> Vec(2, g.position, 4), entity |-> 3, yaw |-> g.angle,
                 stance |-> 1]>>,
  ticks_after_shot |-> 2]
SomeParameters == [
  stamina |-> [deplete_per_second |-> 1, regen_per_second |-> 2, forced_walk_below |-> 3],
  rifle |-> [rounds_per_minute |-> 1, muzzle_velocity |-> 2, reload_seconds |-> 3,
             recoil_recovery_per_second |-> 4, ads_recoil_scale |-> 5, ads_field_of_view |-> 6,
             recoil_pattern |-> <<[pitch |-> 7, yaw |-> 8]>>, magazine_capacity |-> 9],
  ammo |-> [flight |-> [gravity |-> 1, max_range |-> 2],
            damage |-> [head |-> 3, torso |-> 4, limb |-> 5]],
  starting_health |-> 6, player_count |-> 7]
AListing == [
  started_unix_ms |-> 1, characters |-> <<AName, AnotherName>>, name |-> AVersion, ticks |-> 2,
  tick_rate_hz |-> 3]

Said(kind, g) ==
  Says(kind,
    CASE kind = "join" -> [engine_version |-> AVersion, client_pack |-> AHash,
                           character |-> AName, run |-> ARun,
                           spawn |-> <<Vec(g.position, 2, 4)>>]
      [] kind = "admission" -> [session |-> ASession, tick_rate_hz |-> 9,
                                parameters |-> SomeParameters, character |-> AName]
      [] kind = "refusal" -> "lobby_full"
      [] kind = "commands" -> <<[sequence |-> 1, command |-> ACommand(g)],
                                [sequence |-> 2, command |-> [ACommand(g) EXCEPT !.seen_tick = 301,
                                                                                 !.ads = TRUE]]>>
      [] kind = "state" -> AState(g)
      [] kind = "lobby" -> [version |-> 1, roster |-> <<[session |-> ASession, character |-> AName],
                                                       [session |-> ARun, character |-> NoBytes]>>]
      [] kind = "ready" -> [version |-> 1]
      [] kind = "match_start" -> [players |-> <<[spawn |-> Vec(2, 4, g.position),
                                                session |-> ASession, entity |-> 3,
                                                character |-> AName]>>,
                                  first_tick |-> 4, match |-> ARun]
      [] kind = "match_end" -> [winner |-> <<ASession>>]
      [] kind = "shot" -> [tick |-> 1, origin |-> Vec(g.position, 2, 4), shooter |-> 3,
                           yaw |-> g.angle, pitch |-> 2]
      [] kind = "hit" -> [target |-> 1, damage |-> 3, part |-> "limb"]
      [] kind = "death" -> [victim |-> 1, killer |-> 2, yaw |-> g.angle, pitch |-> 2,
                            part |-> "head"]
      [] kind = "list_request" -> [nothing |-> 0]
      [] kind = "replays" -> <<AListing, [AListing EXCEPT !.name = AName]>>
      [] kind = "replay_request" -> [engine_version |-> AVersion, client_pack |-> AHash,
                                     capture |-> AName, run |-> ARun]
      [] kind = "subscribe" -> [flags |-> 1]
      [] kind = "judgement" -> [shot_tick |-> 1, shooters_delay |-> 3 * TickHalves + g.fraction,
                                struck |-> 3, part |-> "limb", point |-> Vec(2, g.position, 4),
                                target |-> <<5>>, entries |-> <<AnEntry(g)>>,
                                entries_left_out |-> TRUE]
      [] kind = "header" -> [server_pack |-> AHash, client_pack |-> NoHash,
                             engine_version |-> AVersion, started_unix_ms |-> 1, match |-> ARun,
                             tick_rate_hz |-> 2]
      [] kind = "captured_join" -> [spawn |-> Vec(g.position, 2, 4), session |-> ASession,
                                    character |-> AName, player |-> 1]
      [] kind = "captured_command" -> [command |-> [ACommand(g) EXCEPT !.seen_tick = 0],
                                       offset |-> 1, seen_offset |-> -2, player |-> 3]
      [] kind = "captured_leave" -> [offset |-> 1, player |-> 2]
      [] kind = "captured_death" -> [offset |-> 1, victim |-> 2, killer |-> 3]
      [] kind = "captured_end" -> [offset |-> 1, winner |-> <<2>>])

ServerKinds == {"admission", "refusal", "state", "lobby", "match_start", "match_end", "shot",
                "hit", "death", "replays", "judgement"}
ClientKinds == {"join", "commands", "ready", "list_request", "replay_request", "subscribe"}
Kinds == ServerKinds \cup ClientKinds \cup RecordKinds

(* A message and what is heard of it: a Shooter's delay short of a whole   *)
(* tick by less than half a step stays short of it.                        *)
Pair(said_, heard_) == [message |-> said_, as |-> heard_]
OnGridPairs ==
  {Pair(Said(kind, g), Said(kind, OnGrids(g))) :
     kind \in Kinds \ {"judgement"}, g \in Numbers}
  \cup {Pair(Said("judgement", g), Said("judgement", OnGrids(g))) :
          g \in {n \in Numbers : n.fraction \in 0..510}}

Plain(kind) == Said(kind, PlainNumbers)
With(kind, field, value) == [Plain(kind) EXCEPT !.value = [@ EXCEPT ![field] = value]]
Same(kind, field, values) ==
  {Pair(With(kind, field, value), With(kind, field, value)) : value \in values}
Unsayable(kind, field, values) == {Pair(With(kind, field, value), NoMessage) : value \in values}

Times(n, value) == [i \in 1..n |-> value]
BadTexts(max) == {TextOf(max + 1), [size |-> max, of |-> "binary"]}
Binary(size) == [size |-> size, of |-> "binary"]

BodyWith(field, value) == <<[ABody(PlainNumbers) EXCEPT !.body = [@ EXCEPT ![field] = value]]>>
CommandWith(field, value) ==
  <<[sequence |-> 1, command |-> [ACommand(PlainNumbers) EXCEPT ![field] = value]]>>
Sequenced(n, seen) ==
  [i \in 1..n |-> [sequence |-> i, command |-> [ACommand(PlainNumbers) EXCEPT !.seen_tick = seen[i]]]]
ListingWith(field, value) == [AListing EXCEPT ![field] = value]

FieldPairs ==
  UNION {
    Same("join", "spawn", {<<>>}),
    Same("join", "character", {NoBytes, TextOf(MaxCharacterNameLength)}),
    Unsayable("join", "character", BadTexts(MaxCharacterNameLength)),
    Unsayable("join", "engine_version", BadTexts(MaxEngineVersionLength)),
    Unsayable("replay_request", "engine_version", BadTexts(MaxEngineVersionLength)),
    Unsayable("replay_request", "capture", BadTexts(MaxCaptureNameLength)),
    Same("admission", "parameters",
         {[SomeParameters EXCEPT !.rifle.recoil_pattern = Times(n, [pitch |-> 0, yaw |-> 1])] :
            n \in {0, MaxRecoilKicks}}),
    Unsayable("admission", "parameters",
         {[SomeParameters EXCEPT !.rifle.recoil_pattern =
             Times(MaxRecoilKicks + 1, [pitch |-> 0, yaw |-> 1])]}),
    {Pair(Says("refusal", name), Says("refusal", name)) :
       name \in DOMAIN JoinRefusalWire \ {"corrupted"}},
    {Pair(Says("refusal", "corrupted"), NoMessage)},
    Same("state", "bodies",
         {BodyWith("stance", stance) : stance \in StanceNumbers}
         \cup {BodyWith("grounded", TRUE), BodyWith("exhausted", FALSE),
               BodyWith("stance_progress", 255), BodyWith("stance_progress", 0)}
         \cup {<<>>, Times(MaxPlayers, ABody(PlainNumbers))}),
    Unsayable("state", "bodies",
         {BodyWith("stance", 3), BodyWith("previous_stance", 4),
          Times(MaxPlayers + 1, ABody(PlainNumbers))}),
    Same("match_end", "winner", {<<>>}),
    Same("death", "part", {"head", "torso", "limb"}),
    Unsayable("death", "part", {"corrupted"}),
    Unsayable("hit", "part", {"corrupted"}),
    Same("subscribe", "flags", {0, 255}),
    Same("judgement", "target", {<<>>}),
    Same("judgement", "entries_left_out", {FALSE}),
    Same("judgement", "struck", StruckNumbers),
    Same("judgement", "entries",
         {Times(MaxShotJudgementEntries, AnEntry(PlainNumbers)),
          <<[players |-> <<>>, ticks_after_shot |-> 65535]>>}),
    Unsayable("judgement", "struck", {4}),
    Unsayable("judgement", "entries", {Times(MaxShotJudgementEntries + 1, AnEntry(PlainNumbers))}),
    {Pair(With("judgement", "shooters_delay", pair[1]), With("judgement", "shooters_delay", pair[2])) :
       pair \in {<<-1, 0>>, <<TickHalves - 1, TickHalves - 2>>, <<TickHalves, TickHalves>>,
                 <<300 * TickHalves, 255 * TickHalves>>}},
    Same("lobby", "roster", {Times(MaxPlayers, [session |-> NilUuid, character |-> AName])}),
    Unsayable("lobby", "roster",
         {Times(MaxPlayers + 1, [session |-> NilUuid, character |-> AName])}),
    Same("captured_end", "winner", {<<>>}),
    {Pair(Says("commands", CommandWith(field, value)), Says("commands", CommandWith(field, value))) :
       field \in {"sprint", "ads", "fire", "reload"}, value \in BOOLEAN},
    {Pair(Says("commands", CommandWith("desired_stance", 3)), NoMessage)},
    (* Ten commands, the newest eight of which travel, one of them of      *)
    (* a Seen time too far behind the newest to say.                       *)
    {Pair(Says("commands", Sequenced(10, [i \in 1..10 |-> IF i = 10 THEN 400 ELSE 100 + i])),
          Says("commands", SubSeq(Sequenced(10, [i \in 1..10 |-> IF i = 10 THEN 400 ELSE 145]),
                                  3, 10)))},
    {Pair(Says("commands", commands), Says("commands", commands)) :
       commands \in {<<>>, Sequenced(2, <<301, 300>>)}},
    (* Names no request could carry are left out, then the oldest.         *)
    {Pair(Says("replays", <<ListingWith("ticks", 7)>> \o Times(MaxReplayListings, AListing)
                          \o <<ListingWith("name", TextOf(MaxCaptureNameLength + 1)),
                               ListingWith("name", Binary(3))>>),
          Says("replays", Times(MaxReplayListings, AListing)))}}

Spoken == OnGridPairs \cup FieldPairs

-----------------------------------------------------------------------------
(* A payload changed on the way: another of its fields' values, one left   *)
(* out, one this build does not know, or another member's number.          *)
OddNumbers == {0, 1, 3, 4, 63, 64, 127, 128, 255, 256, 65535, 65536}
OddSigned == {0, 1, -1, -(2^15) - 1, 2^15, 256, 65536, 2^23, -(2^23) - 1}
OddBytes == {NoBytes, TextOf(15), Binary(16), TextOf(32), TextOf(33), TextOf(64), TextOf(65),
             Binary(32), Binary(4)}

ChangedField(field) ==
  CASE field.wire = "number" -> {[field EXCEPT !.value = number] : number \in OddNumbers}
    [] field.wire = "signed" -> {[field EXCEPT !.value = number] : number \in OddSigned}
    [] field.wire = "bytes" -> {[field EXCEPT !.value = bytes] : bytes \in OddBytes}
    [] OTHER -> {}
WithoutField(body, i) == SubSeq(body, 1, i - 1) \o SubSeq(body, i + 1, Len(body))
ChangedBody(body) ==
  UNION {{[body EXCEPT ![i] = field] : field \in ChangedField(body[i])} : i \in DOMAIN body}
  \cup {WithoutField(body, i) : i \in DOMAIN body}
  \cup {Append(body, [field |-> 99, wire |-> "number", value |-> 1])}
ChangedMessages(body, Changes(_)) ==
  UNION {{[body EXCEPT ![i] = [@ EXCEPT !.value = inner]] : inner \in Changes(body[i].value)} :
           i \in {j \in DOMAIN body : body[j].wire = "message"}}
TooMany(body) ==
  {body \o Times(256, body[i]) : i \in {j \in DOMAIN body : body[j].wire = "message"}}
Changed(body) ==
  ChangedBody(body) \cup ChangedMessages(body, ChangedBody) \cup TooMany(body)
Changes(bytes) ==
  {[bytes EXCEPT !.body = body] : body \in Changed(bytes.body)}
  \cup {[bytes EXCEPT !.type = type] : type \in {0, 16, 20, 1007}}

LinkInit ==
  /\ said = Pair(NoMessage, NoMessage) /\ payload = Refused /\ whole = TRUE /\ story = <<>>
  /\ heard = [client |-> NoMessage, server |-> NoMessage, record |-> NoMessage]
  /\ step \in {"saying", "counting"}
  /\ stateTally = [updates |-> 0, missing |-> 0, out_of_order |-> 0, newest |-> 0, seen |-> FALSE]

Say ==
  /\ step = "saying"
  /\ \E pair \in Spoken : said' = pair /\ payload' = EncodeToSend(pair.message)
  /\ step' = "sent"
  /\ UNCHANGED <<whole, heard, stateTally, story>>

(* Only messages as they are mostly said are changed.                      *)
Garble ==
  /\ step = "sent" /\ whole /\ payload # Refused
  /\ said.message = Plain(said.message.kind)
  /\ payload' \in Changes(payload)
  /\ whole' = FALSE
  /\ UNCHANGED <<said, heard, step, stateTally, story>>

HearPayload ==
  /\ step = "sent"
  /\ heard' = IF payload = Refused
              THEN [client |-> NoMessage, server |-> NoMessage, record |-> NoMessage]
              ELSE Heard(Decode(payload), DecodeCaptureRecord(payload))
  /\ step' = "heard"
  /\ UNCHANGED <<said, payload, whole, stateTally, story>>

(* A tick at or before the newest seen is out of order and leaves it; one  *)
(* further past it than the next adds the ticks between to the missing.    *)
CountTick(count, tick) ==
  IF count.seen /\ tick <= count.newest
  THEN [count EXCEPT !.out_of_order = @ + 1]
  ELSE [count EXCEPT !.missing = IF count.seen THEN @ + (tick - count.newest - 1) ELSE @,
                     !.newest = tick, !.seen = TRUE]

ForgetNewestTick(count) == [count EXCEPT !.seen = FALSE]

(* A state comes in, whatever the order states were sent in.               *)
TakeInState ==
  /\ step = "counting" /\ Len(story) < StoryLength
  /\ \E tick \in 1..LastCountedTick :
       /\ stateTally' = CountTick([stateTally EXCEPT !.updates = @ + 1], tick)
       /\ story' = Append(story, tick)
  /\ UNCHANGED <<said, payload, whole, heard, step>>

TakeInMatchStart ==
  /\ step = "counting" /\ Len(story) < StoryLength
  /\ stateTally' = ForgetNewestTick(stateTally)
  /\ story' = Append(story, 0)
  /\ UNCHANGED <<said, payload, whole, heard, step>>

LinkNext == Say \/ Garble \/ HearPayload \/ TakeInState \/ TakeInMatchStart

LinkSpec == LinkInit /\ [][LinkNext]_exchangeVars

-----------------------------------------------------------------------------
(* Properties.                                                             *)

(* What an untouched payload is heard as: one end hears the message, its   *)
(* numbers on their grids and its Seen times at most a byte apart, and no  *)
(* one hears it as anything else; what the protocol cannot carry is never  *)
(* sent (encoder.cpp, decoder.cpp, link_messages.cpp).                     *)
HeardAsSaid ==
  (step = "heard" /\ whole) =>
    heard = [client |-> IF said.message.kind \in ServerKinds THEN said.as ELSE NoMessage,
             server |-> IF said.message.kind \in ClientKinds THEN said.as ELSE NoMessage,
             record |-> IF said.message.kind \in RecordKinds THEN said.as ELSE NoMessage]

(* What each message decodes to is what the protocol lets one hold.        *)
WireOf == [
  type \in Types |->
    CASE type = 1 -> JoinRequestWire [] type = 2 -> JoinAcceptedWire
      [] type = 3 -> JoinRefusedWire [] type = 4 -> CommandsWire
      [] type = 5 -> AuthoritativeStateWire [] type = 6 -> LobbyWire
      [] type = 7 -> ReadyWire [] type = 8 -> MatchStartWire
      [] type = 9 -> MatchEndWire [] type = 10 -> ShotWire
      [] type = 11 -> HitConfirmationWire [] type = 12 -> DeathWire
      [] type = 13 -> ReplayListRequestWire [] type = 14 -> ReplayListWire
      [] type = 15 -> ReplayRequestWire [] type = 17 -> ReenactRequestWire
      [] type = 18 -> DebugSubscribeWire [] type = 19 -> ShotJudgementWire]
RecordWireOf == [
  type \in RecordTypes |->
    CASE type = 1001 -> CaptureHeaderWire [] type = 1002 -> CapturedJoinWire
      [] type = 1003 -> CapturedCommandWire [] type = 1004 -> CapturedLeaveWire
      [] type = 1005 -> CapturedDeathWire [] type = 1006 -> CapturedMatchEndWire]

(* Whatever comes in, a peer admits only what a sender could have said:    *)
(* each field is what its message lets it be, and the message, said again, *)
(* is carried and decodes to itself (Inbound checks all that Outbound      *)
(* does).                                                                  *)
AdmitsOnlyTheSayable ==
  (step = "heard" /\ payload # Refused) =>
    /\ \A message \in {Decode(payload)} \ {Refused} :
         /\ message.wire \in WireOf[message.type]
         /\ \E again \in {Encode(message)} : again # Refused /\ Decode(again) = message
    /\ \A record \in {DecodeCaptureRecord(payload)} \ {Refused} :
         /\ record.wire \in RecordWireOf[record.type]
         /\ \E again \in {EncodeCaptureRecord(record)} :
              again # Refused /\ DecodeCaptureRecord(again) = record

(* A state readdressed is the payload its new recipient would have been    *)
(* encoded, and nothing but a state is readdressed (Readdress).            *)
OtherRecipient == [
  AState(PlainNumbers) EXCEPT !.acknowledged_sequence = 0, !.queued_commands = 255,
    !.rifle = [@ EXCEPT !.rounds = 0, !.burst_index = 9, !.recoil = [pitch |-> 1, yaw |-> NaN]],
    !.health = 0]
ReaddressedIsAddressed ==
  (step = "sent" /\ whole /\ payload # Refused) =>
    Readdressed(payload, OtherRecipient) =
      IF said.message.kind = "state"
      THEN EncodeToSend(Says("state", [OtherRecipient EXCEPT !.tick = said.message.value.tick,
                                                             !.bodies = said.message.value.bodies]))
      ELSE Refused

(* The tally against the story: within each run of states since a Match    *)
(* start, the missing are the ticks between its first and its newest that  *)
(* had not come when a later one did, and those out of order the states    *)
(* that came at or after their tick's turn (AtomicStateTally).             *)
StatesOf == {i \in DOMAIN story : story[i] # 0}
StartOf(i) == Cardinality({j \in 1..i : story[j] = 0})
Before(i) == {j \in StatesOf : j < i /\ StartOf(j) = StartOf(i)}
Late(i) == \E j \in Before(i) : story[j] >= story[i]
TallyTellsTheStory ==
  /\ stateTally.updates = Cardinality(StatesOf)
  /\ stateTally.out_of_order = Cardinality({i \in StatesOf : Late(i)})
  /\ stateTally.missing =
       Cardinality({<<start, tick>> \in (0..StoryLength) \X (1..LastCountedTick) :
         \E i, j \in StatesOf :
           /\ i < j /\ StartOf(i) = start /\ StartOf(j) = start
           /\ Before(i) = {}
           /\ story[i] < tick /\ tick < story[j]
           /\ \A k \in StatesOf :
                StartOf(k) = start /\ story[k] = tick => Late(k)})

(* The Link's invariant: all of the above.                                 *)
LinkInv == HeardAsSaid /\ AdmitsOnlyTheSayable /\ ReaddressedIsAddressed /\ TallyTellsTheStory
=============================================================================
