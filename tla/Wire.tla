-------------------------------- MODULE Wire --------------------------------
(***************************************************************************)
(* The Networking Protocol's codec (protocol.h, encoder.cpp, decoder.cpp): *)
(* what each message holds, how its fields are written under the schema's  *)
(* field numbers, and how the other side reads them back.  Writing and     *)
(* reading are two definitions for every message, as they are two          *)
(* functions in the code, so that they can disagree.                       *)
(*                                                                         *)
(* A payload is the number of its envelope's member and that member's      *)
(* fields in field-number order, each a number, signed or not, a float, a  *)
(* string of bytes or a message of its own; a field that holds its default *)
(* is not written, and one that is absent reads as it.  A string of bytes  *)
(* is its size and whether it is text, no UTF-8, or zeros.                 *)
(* A coordinate or an angle is counted in halves of its grid's step, the   *)
(* only fraction rounding tells apart (a tie); NaN is a number no grid     *)
(* reaches.  Which error refuses a message is left out: it is refused.     *)
(***************************************************************************)
EXTENDS Integers, Sequences

(* The largest list, string or number each field may hold.                 *)
MaxPlayers == 8
MaxRecoilKicks == 64
MaxShotJudgementEntries == 16
MaxCommandsPerMessage == 8
MaxReplayListings == 255
MaxEngineVersionLength == 32
MaxCharacterNameLength == 64
MaxCaptureNameLength == 64
HashSize == 32
UuidSize == 16

Byte == 0..255
Short == 0..65535
StanceNumbers == 0..2
BodyPartNumbers == 1..3
JoinRefusalNumbers == 1..9
StruckNumbers == 0..3

-----------------------------------------------------------------------------
(* The grids (grid.h).                                                     *)
NaN == -(2^30)
PositionGrid == [min |-> -(2^23), max |-> 2^23 - 1]
VelocityGrid == [min |-> -(2^15), max |-> 2^15 - 1]
DirectionGrid == VelocityGrid
AngleGrid == PositionGrid
StaminaGrid == [min |-> 0, max |-> 2^16 - 1]
FractionGrid == [min |-> 0, max |-> 2^8 - 1]

(* The nearest count of steps, ties to even, held within the grid.         *)
ToSteps(value, grid) ==
  LET below == value \div 2
      nearest == IF value % 2 = 1 /\ below % 2 = 1 THEN below + 1 ELSE below
  IN IF value = NaN THEN 0
     ELSE IF nearest < grid.min THEN grid.min
     ELSE IF nearest > grid.max THEN grid.max ELSE nearest

FromSteps(count) == 2 * count

Snap(value, grid) == FromSteps(ToSteps(value, grid))
SnapVec(v, grid) == [axis \in {"x", "y", "z"} |-> Snap(v[axis], grid)]

-----------------------------------------------------------------------------
(* Strings of bytes.                                                       *)
NoBytes == [size |-> 0, of |-> "text"]
TextOf(size) == [size |-> size, of |-> "text"]
Zeros(size) == [size |-> size, of |-> "zeros"]
NilUuid == Zeros(UuidSize)
NoHash == Zeros(HashSize)
IsUtf8(bytes) == bytes.of # "binary"
Draw == NilUuid

Bytes == [size : Nat, of : {"text", "binary", "zeros"}]
Hash == [size : {HashSize}, of : {"text", "binary", "zeros"}]
Uuid == [size : {UuidSize}, of : {"text", "binary", "zeros"}]
Vec3 == [x : Int, y : Int, z : Int]

-----------------------------------------------------------------------------
(* Outbound: a field as it is written, whether the protocol can carry it,  *)
(* and whether it is written at all.                                       *)
Part(n, wire, value, carried, written) ==
  [field |-> n, wire |-> wire, value |-> value, carried |-> carried, written |-> written]

OutNumber(n, value) == Part(n, "number", value, TRUE, value # 0)
OutFloat(n, value) == Part(n, "float", value, TRUE, value # 0)
OutBytes(n, bytes) == Part(n, "bytes", bytes, TRUE, bytes.size > 0)
OutSigned(n, value) == Part(n, "signed", value, TRUE, value # 0)
OutSteps(n, value, grid) == OutSigned(n, ToSteps(value, grid))
OutVec(n, v, grid) ==
  <<OutSteps(n, v.x, grid), OutSteps(n + 1, v.y, grid), OutSteps(n + 2, v.z, grid)>>

(* A number of an enumeration.                                             *)
OutEnum(n, value, numbers) == [OutNumber(n, value) EXCEPT !.carried = value \in numbers]

(* Several small fields in one number: carried if each is what it may be.  *)
OutBits(n, bits, carried) == [OutNumber(n, bits) EXCEPT !.carried = carried]

Text(n, text, max) ==
  [OutBytes(n, text) EXCEPT !.carried = text.size <= max /\ IsUtf8(text)]

(* The fields that reach the payload.                                      *)
Serialize(parts) ==
  LET written == SelectSeq(parts, LAMBDA p : p.written)
  IN [i \in DOMAIN written |->
        [field |-> written[i].field, wire |-> written[i].wire, value |-> written[i].value]]

AllCarried(parts) == \A i \in DOMAIN parts : parts[i].carried

OutMessage(n, parts) == Part(n, "message", Serialize(parts), AllCarried(parts), TRUE)

(* A list at most max long, each element a message; a longer one is        *)
(* refused without a look at its elements.                                 *)
OutList(n, list, max, Write(_)) ==
  IF Len(list) <= max
  THEN [i \in DOMAIN list |-> OutMessage(n, Write(list[i]))]
  ELSE <<Part(n, "message", <<>>, FALSE, FALSE)>>

OutTexts(n, list, most, max) ==
  IF Len(list) <= most
  THEN [i \in DOMAIN list |-> [Text(n, list[i], max) EXCEPT !.written = TRUE]]
  ELSE <<Part(n, "bytes", NoBytes, FALSE, FALSE)>>

-----------------------------------------------------------------------------
(* Inbound: what a field reads as, and whether a valid message holds it.   *)
In(value, valid) == [value |-> value, valid |-> valid]

FieldsOf(body, n) == SelectSeq(body, LAMBDA f : f.field = n)

(* The last occurrence of a field counts.                                  *)
ValueOf(body, n, default) ==
  LET fields == FieldsOf(body, n) IN IF fields = <<>> THEN default ELSE fields[Len(fields)].value

InNumber(body, n) == In(ValueOf(body, n, 0), TRUE)
InNarrow(body, n, width) == In(ValueOf(body, n, 0), ValueOf(body, n, 0) \in width)
InByte(body, n) == InNarrow(body, n, Byte)

InSteps(body, n, grid) ==
  LET count == ValueOf(body, n, 0) IN In(FromSteps(count), count \in grid.min..grid.max)

InVec(body, n, grid) ==
  LET axes == <<InSteps(body, n, grid), InSteps(body, n + 1, grid), InSteps(body, n + 2, grid)>>
  IN In([x |-> axes[1].value, y |-> axes[2].value, z |-> axes[3].value],
        \A i \in 1..3 : axes[i].valid)

InEnum(number, numbers) == In(number, number \in numbers)

(* Bits of which only those below limit, a power of two, may be set.       *)
InBits(body, n, limit) == InNarrow(body, n, 0..(limit - 1))

InText(text, max) == In(text, text.size <= max /\ IsUtf8(text))
InTextField(body, n, max) == InText(ValueOf(body, n, NoBytes), max)

(* A hash or a UUID: none is the zero one.                                 *)
InSized(body, n, size) ==
  LET bytes == ValueOf(body, n, NoBytes)
  IN IF bytes.size = 0 THEN In(Zeros(size), TRUE) ELSE In(bytes, bytes.size = size)
InHash(body, n) == InSized(body, n, HashSize)
InUuid(body, n) == InSized(body, n, UuidSize)

ReadList(body, n, max, Read(_)) ==
  LET fields == FieldsOf(body, n)
      read == [i \in DOMAIN fields |-> Read(fields[i].value)]
  IN In([i \in DOMAIN read |-> read[i].value],
        Len(fields) <= max /\ \A i \in DOMAIN read : read[i].valid)

(* A message's fields read, the message is valid if each of them is.       *)
Whole(fields) ==
  In([name \in DOMAIN fields |-> fields[name].value],
     \A name \in DOMAIN fields : fields[name].valid)

-----------------------------------------------------------------------------
(* What each message holds (protocol.h).  A float that travels as it is is *)
(* any number; one on a grid is on it once it has travelled.               *)
BodyStateWire == [
  position : Vec3, velocity : Vec3, stamina : Int, flags : Byte, stance : StanceNumbers,
  stride : Byte, previous_stance : StanceNumbers, stance_progress : Byte]
CommandWire == [
  direction : Vec3, yaw : Int, pitch : Int, seen_fraction : Int, flags : Byte,
  desired_stance : StanceNumbers, seen_age : Byte]
StaminaWire == [deplete_per_second : Int, regen_per_second : Int, forced_walk_below : Int]
RecoilKickWire == [pitch : Int, yaw : Int]
RifleWire == [
  rounds_per_minute : Int, muzzle_velocity : Int, reload_seconds : Int,
  recoil_recovery_per_second : Int, ads_recoil_scale : Int, ads_field_of_view : Int,
  recoil_pattern : Seq(RecoilKickWire), magazine_capacity : Byte]
AmmoWire == [
  gravity : Int, max_range : Int, head_damage : Int, torso_damage : Int, limb_damage : Int]
ParametersWire == [
  stamina : StaminaWire, rifle : RifleWire, ammo : AmmoWire, starting_health : Int,
  player_count : Byte]
JoinRequestWire == [engine_version : Bytes, client_pack : Hash, character : Bytes, run : Uuid]
ReenactRequestWire == [
  engine_version : Bytes, client_pack : Hash, character : Bytes, spawn : Vec3, run : Uuid]
EntityStateWire == [entity : Nat, body : BodyStateWire, yaw : Int, pitch : Int]
JoinAcceptedWire == [
  session : Uuid, tick_rate_hz : Byte, parameters : ParametersWire, character : Bytes]
JoinRefusedWire == [reason : JoinRefusalNumbers]
WeaponStateWire == [
  cooldown : Int, reload_remaining : Int, recoil_pitch : Int, recoil_yaw : Int, rounds : Byte,
  burst_index : Byte]
SequencedCommandWire == [sequence : Nat, command : CommandWire]
CommandsWire == [commands : Seq(SequencedCommandWire), seen_tick : Nat]
AuthoritativeStateWire == [
  tick : Nat, bodies : Seq(EntityStateWire), rifle : WeaponStateWire, health : Int,
  acknowledged_sequence : Nat, queued_commands : Byte]
RosterEntryWire == [session : Uuid, character : Bytes]
LobbyWire == [version : Nat, roster : Seq(RosterEntryWire)]
ReadyWire == [version : Nat]
MatchPlayerWire == [spawn : Vec3, session : Uuid, entity : Nat, character : Bytes]
MatchStartWire == [players : Seq(MatchPlayerWire), first_tick : Nat, match : Uuid]
MatchEndWire == [winner : Uuid]
ShotWire == [tick : Nat, origin : Vec3, shooter : Nat, yaw : Int, pitch : Int]
HitConfirmationWire == [target : Nat, damage : Int, part : BodyPartNumbers]
DeathWire == [victim : Nat, killer : Nat, yaw : Int, pitch : Int, part : BodyPartNumbers]
ReplayListRequestWire == [nothing : {0}]
ReplayListingWire == [
  started_unix_ms : Int, characters : Seq(Bytes), name : Bytes, ticks : Nat, tick_rate_hz : Byte]
ReplayListWire == [replays : Seq(ReplayListingWire)]
ReplayRequestWire == [engine_version : Bytes, client_pack : Hash, capture : Bytes, run : Uuid]
DebugSubscribeWire == [flags : Byte]
JudgedPlayerWire == [position : Vec3, entity : Nat, yaw : Int, stance : StanceNumbers]
ShotJudgementEntryWire == [players : Seq(JudgedPlayerWire), ticks_after_shot : Short]
ShotJudgementWire == [
  shot_tick : Nat, entries : Seq(ShotJudgementEntryWire), point : Vec3, target : Nat,
  delay_fraction : Int, delay_ticks : Byte, struck : StruckNumbers, part : BodyPartNumbers,
  flags : 0..1]
CaptureHeaderWire == [
  server_pack : Hash, client_pack : Hash, engine_version : Bytes, started_unix_ms : Int,
  match : Uuid, tick_rate_hz : Byte]
CapturedJoinWire == [
  spawn : Vec3, offset : Nat, session : Uuid, character : Bytes, player : Byte]
CapturedCommandWire == [command : CommandWire, offset : Nat, seen_offset : Int, player : Byte]
CapturedLeaveWire == [offset : Nat, player : Byte]
CapturedDeathWire == [offset : Nat, victim : Byte, killer : Byte]
CapturedMatchEndWire == [offset : Nat, winner : Byte]

-----------------------------------------------------------------------------
(* How the pieces of a message are written (encoder.cpp).                  *)
CommandFlags == 16  \* flags and stance share one number: the stance is above the four flags
WriteCommand(wire) ==
  OutVec(2, wire.direction, DirectionGrid) \o <<
    OutSteps(5, wire.yaw, AngleGrid),
    OutSteps(6, wire.pitch, AngleGrid),
    OutBits(7, wire.flags + CommandFlags * wire.desired_stance,
            wire.flags < CommandFlags /\ wire.desired_stance \in StanceNumbers),
    OutNumber(8, wire.seen_age),
    OutSteps(9, wire.seen_fraction, FractionGrid)>>

WriteSequenced(wire) == <<OutNumber(1, wire.sequence)>> \o WriteCommand(wire.command)

BodyFlags == 8
WriteBody(wire) ==
  <<OutNumber(1, wire.entity)>>
  \o OutVec(2, wire.body.position, PositionGrid)
  \o OutVec(5, wire.body.velocity, VelocityGrid)
  \o <<
    OutBits(8, wire.body.stance + 4 * wire.body.flags + 32 * wire.body.previous_stance,
            /\ wire.body.stance \in StanceNumbers
            /\ wire.body.flags < BodyFlags
            /\ wire.body.previous_stance \in StanceNumbers),
    OutSteps(9, wire.body.stamina, StaminaGrid),
    OutSteps(10, wire.yaw, AngleGrid),
    OutSteps(11, wire.pitch, AngleGrid),
    OutNumber(12, wire.body.stride),
    OutNumber(13, 255 - wire.body.stance_progress)>>

(* What every recipient of a tick is told alike, and what is its own.      *)
WriteShared(wire) == <<OutNumber(1, wire.tick)>> \o OutList(2, wire.bodies, MaxPlayers, WriteBody)
WriteOwn(wire) == <<
  OutNumber(3, wire.acknowledged_sequence),
  OutNumber(4, wire.queued_commands),
  OutNumber(5, wire.rifle.rounds),
  OutFloat(6, wire.rifle.cooldown),
  OutFloat(7, wire.rifle.reload_remaining),
  OutNumber(8, wire.rifle.burst_index),
  OutSteps(9, wire.rifle.recoil_pitch, AngleGrid),
  OutSteps(10, wire.rifle.recoil_yaw, AngleGrid),
  OutFloat(11, wire.health)>>

WriteKick(wire) == <<OutFloat(1, wire.pitch), OutFloat(2, wire.yaw)>>
WriteParameters(wire) == <<
  OutMessage(1, <<OutFloat(1, wire.stamina.deplete_per_second),
                  OutFloat(2, wire.stamina.regen_per_second),
                  OutFloat(3, wire.stamina.forced_walk_below)>>),
  OutMessage(2, <<OutFloat(1, wire.rifle.rounds_per_minute),
                  OutFloat(2, wire.rifle.muzzle_velocity),
                  OutFloat(3, wire.rifle.reload_seconds),
                  OutFloat(4, wire.rifle.recoil_recovery_per_second),
                  OutFloat(5, wire.rifle.ads_recoil_scale),
                  OutFloat(6, wire.rifle.ads_field_of_view)>>
                \o OutList(7, wire.rifle.recoil_pattern, MaxRecoilKicks, WriteKick)
                \o <<OutNumber(8, wire.rifle.magazine_capacity)>>),
  OutMessage(3, <<OutFloat(1, wire.ammo.gravity),
                  OutFloat(2, wire.ammo.max_range),
                  OutFloat(3, wire.ammo.head_damage),
                  OutFloat(4, wire.ammo.torso_damage),
                  OutFloat(5, wire.ammo.limb_damage)>>),
  OutFloat(4, wire.starting_health),
  OutNumber(5, wire.player_count)>>

WriteMatchPlayer(wire) ==
  <<OutNumber(2, wire.entity), Text(3, wire.character, MaxCharacterNameLength)>>
  \o OutVec(4, wire.spawn, PositionGrid) \o <<OutBytes(7, wire.session)>>

WriteListing(wire) == <<
  Text(1, wire.name, MaxCaptureNameLength),
  OutSigned(2, wire.started_unix_ms),
  OutNumber(3, wire.ticks),
  OutNumber(4, wire.tick_rate_hz)>>
  \o OutTexts(5, wire.characters, MaxPlayers, MaxCharacterNameLength)

WriteRosterEntry(wire) ==
  <<Text(2, wire.character, MaxCharacterNameLength), OutBytes(3, wire.session)>>

WriteJudged(wire) ==
  <<OutNumber(1, wire.entity)>> \o OutVec(2, wire.position, PositionGrid)
  \o <<OutEnum(5, wire.stance, StanceNumbers), OutSteps(6, wire.yaw, AngleGrid)>>
WriteEntry(wire) ==
  <<OutNumber(1, wire.ticks_after_shot)>> \o OutList(2, wire.players, MaxPlayers, WriteJudged)

(* A bit of a Judgement's flags above the one it has is refused.           *)
JudgementFlags == 2
WriteJudgement(wire) == <<
  OutNumber(1, wire.shot_tick),
  OutNumber(2, wire.delay_ticks),
  OutSteps(3, wire.delay_fraction, FractionGrid),
  OutBits(4, wire.struck + 4 * wire.part + 16 * wire.flags,
          /\ wire.struck \in StruckNumbers
          /\ wire.part \in BodyPartNumbers
          /\ wire.flags < JudgementFlags)>>
  \o OutVec(5, wire.point, PositionGrid) \o <<OutNumber(8, wire.target)>>
  \o OutList(9, wire.entries, MaxShotJudgementEntries, WriteEntry)

-----------------------------------------------------------------------------
(* Each message's fields (Encoder, one overload per message).              *)
EncodeJoinRequest(wire) == <<
  Text(1, wire.engine_version, MaxEngineVersionLength),
  OutBytes(2, wire.client_pack),
  Text(3, wire.character, MaxCharacterNameLength),
  OutBytes(4, wire.run)>>

EncodeJoinAccepted(wire) == <<
  OutNumber(2, wire.tick_rate_hz),
  OutMessage(3, WriteParameters(wire.parameters)),
  Text(4, wire.character, MaxCharacterNameLength),
  OutBytes(5, wire.session)>>

EncodeJoinRefused(wire) == <<OutEnum(1, wire.reason, JoinRefusalNumbers)>>

EncodeCommands(wire) ==
  OutList(1, wire.commands, MaxCommandsPerMessage, WriteSequenced)
  \o <<OutNumber(2, wire.seen_tick)>>

EncodeAuthoritativeState(wire) == WriteShared(wire) \o WriteOwn(wire)

EncodeLobby(wire) ==
  <<OutNumber(1, wire.version)>> \o OutList(2, wire.roster, MaxPlayers, WriteRosterEntry)

EncodeReady(wire) == <<OutNumber(1, wire.version)>>

EncodeMatchStart(wire) ==
  OutList(1, wire.players, MaxPlayers, WriteMatchPlayer)
  \o <<OutNumber(2, wire.first_tick), OutBytes(3, wire.match)>>

EncodeMatchEnd(wire) == <<OutBytes(2, wire.winner)>>

EncodeShot(wire) ==
  <<OutNumber(1, wire.tick), OutNumber(2, wire.shooter)>> \o OutVec(3, wire.origin, PositionGrid)
  \o <<OutSteps(6, wire.yaw, AngleGrid), OutSteps(7, wire.pitch, AngleGrid)>>

EncodeHitConfirmation(wire) == <<
  OutNumber(1, wire.target), OutEnum(2, wire.part, BodyPartNumbers), OutFloat(3, wire.damage)>>

EncodeDeath(wire) == <<
  OutNumber(1, wire.victim),
  OutNumber(2, wire.killer),
  OutEnum(3, wire.part, BodyPartNumbers),
  OutSteps(4, wire.yaw, AngleGrid),
  OutSteps(5, wire.pitch, AngleGrid)>>

EncodeReplayList(wire) == OutList(1, wire.replays, MaxReplayListings, WriteListing)

EncodeReplayRequest(wire) == <<
  Text(1, wire.engine_version, MaxEngineVersionLength),
  OutBytes(2, wire.client_pack),
  Text(3, wire.capture, MaxCaptureNameLength),
  OutBytes(4, wire.run)>>

EncodeReenactRequest(wire) == <<
  Text(1, wire.engine_version, MaxEngineVersionLength),
  OutBytes(2, wire.client_pack),
  Text(3, wire.character, MaxCharacterNameLength)>>
  \o OutVec(4, wire.spawn, PositionGrid) \o <<OutBytes(7, wire.run)>>

(* A capture's records (RecordEncoder).                                    *)
EncodeHeader(wire) == <<
  OutBytes(1, wire.server_pack),
  OutBytes(2, wire.client_pack),
  Text(3, wire.engine_version, MaxEngineVersionLength),
  OutSigned(4, wire.started_unix_ms),
  OutNumber(5, wire.tick_rate_hz),
  OutBytes(6, wire.match)>>

EncodeCapturedJoin(wire) == <<
  OutNumber(1, wire.offset),
  OutNumber(2, wire.player),
  Text(4, wire.character, MaxCharacterNameLength)>>
  \o OutVec(5, wire.spawn, PositionGrid) \o <<OutBytes(8, wire.session)>>

EncodeCapturedCommand(wire) == <<
  OutNumber(1, wire.offset),
  OutNumber(2, wire.player),
  OutSigned(3, wire.seen_offset),
  OutMessage(4, WriteCommand(wire.command))>>

EncodeCapturedLeave(wire) == <<OutNumber(1, wire.offset), OutNumber(2, wire.player)>>
EncodeCapturedDeath(wire) == <<
  OutNumber(1, wire.offset), OutNumber(2, wire.victim), OutNumber(3, wire.killer)>>
EncodeCapturedMatchEnd(wire) == <<OutNumber(1, wire.offset), OutNumber(2, wire.winner)>>

-----------------------------------------------------------------------------
(* How each piece is read back (decoder.cpp).                              *)
ReadCommand(body) ==
  LET bits == InBits(body, 7, 64)
  IN Whole([direction |-> InVec(body, 2, DirectionGrid),
            yaw |-> InSteps(body, 5, AngleGrid),
            pitch |-> InSteps(body, 6, AngleGrid),
            seen_fraction |-> InSteps(body, 9, FractionGrid),
            flags |-> In(bits.value % CommandFlags, bits.valid),
            desired_stance |-> InEnum(bits.value \div CommandFlags, StanceNumbers),
            seen_age |-> InByte(body, 8)])

ReadSequencedCommand(body) ==
  Whole([sequence |-> InNumber(body, 1), command |-> ReadCommand(body)])

ReadEntityState(body) ==
  LET bits == InBits(body, 8, 128)
      to_go == InByte(body, 13)
  IN Whole([entity |-> InNumber(body, 1),
            body |-> Whole([position |-> InVec(body, 2, PositionGrid),
                            velocity |-> InVec(body, 5, VelocityGrid),
                            stamina |-> InSteps(body, 9, StaminaGrid),
                            flags |-> In((bits.value \div 4) % BodyFlags, bits.valid),
                            stance |-> InEnum(bits.value % 4, StanceNumbers),
                            stride |-> InByte(body, 12),
                            previous_stance |-> InEnum(bits.value \div 32, StanceNumbers),
                            stance_progress |-> In(255 - to_go.value, to_go.valid)]),
            yaw |-> InSteps(body, 10, AngleGrid),
            pitch |-> InSteps(body, 11, AngleGrid)])

ReadJoinRequest(body) ==
  Whole([engine_version |-> InTextField(body, 1, MaxEngineVersionLength),
         client_pack |-> InHash(body, 2),
         character |-> InTextField(body, 3, MaxCharacterNameLength),
         run |-> InUuid(body, 4)])

ReadReenactRequest(body) ==
  Whole([engine_version |-> InTextField(body, 1, MaxEngineVersionLength),
         client_pack |-> InHash(body, 2),
         character |-> InTextField(body, 3, MaxCharacterNameLength),
         spawn |-> InVec(body, 4, PositionGrid),
         run |-> InUuid(body, 7)])

ReadKick(body) == Whole([pitch |-> InNumber(body, 1), yaw |-> InNumber(body, 2)])

ReadRifle(body) ==
  Whole([rounds_per_minute |-> InNumber(body, 1),
         muzzle_velocity |-> InNumber(body, 2),
         reload_seconds |-> InNumber(body, 3),
         recoil_recovery_per_second |-> InNumber(body, 4),
         ads_recoil_scale |-> InNumber(body, 5),
         ads_field_of_view |-> InNumber(body, 6),
         recoil_pattern |-> ReadList(body, 7, MaxRecoilKicks, ReadKick),
         magazine_capacity |-> InByte(body, 8)])

ReadParameters(body) ==
  LET stamina == ValueOf(body, 1, <<>>)
      ammo == ValueOf(body, 3, <<>>)
  IN Whole([stamina |-> Whole([deplete_per_second |-> InNumber(stamina, 1),
                               regen_per_second |-> InNumber(stamina, 2),
                               forced_walk_below |-> InNumber(stamina, 3)]),
            rifle |-> ReadRifle(ValueOf(body, 2, <<>>)),
            ammo |-> Whole([gravity |-> InNumber(ammo, 1),
                            max_range |-> InNumber(ammo, 2),
                            head_damage |-> InNumber(ammo, 3),
                            torso_damage |-> InNumber(ammo, 4),
                            limb_damage |-> InNumber(ammo, 5)]),
            starting_health |-> InNumber(body, 4),
            player_count |-> InByte(body, 5)])

ReadJoinAccepted(body) ==
  Whole([session |-> InUuid(body, 5),
         tick_rate_hz |-> InByte(body, 2),
         parameters |-> ReadParameters(ValueOf(body, 3, <<>>)),
         character |-> InTextField(body, 4, MaxCharacterNameLength)])

ReadJoinRefused(body) == Whole([reason |-> InEnum(ValueOf(body, 1, 0), JoinRefusalNumbers)])

ReadCommands(body) ==
  Whole([commands |-> ReadList(body, 1, MaxCommandsPerMessage, ReadSequencedCommand),
         seen_tick |-> InNumber(body, 2)])

ReadAuthoritativeState(body) ==
  Whole([tick |-> InNumber(body, 1),
         bodies |-> ReadList(body, 2, MaxPlayers, ReadEntityState),
         rifle |-> Whole([cooldown |-> InNumber(body, 6),
                          reload_remaining |-> InNumber(body, 7),
                          recoil_pitch |-> InSteps(body, 9, AngleGrid),
                          recoil_yaw |-> InSteps(body, 10, AngleGrid),
                          rounds |-> InByte(body, 5),
                          burst_index |-> InByte(body, 8)]),
         health |-> InNumber(body, 11),
         acknowledged_sequence |-> InNumber(body, 3),
         queued_commands |-> InByte(body, 4)])

ReadRosterEntry(body) ==
  Whole([session |-> InUuid(body, 3), character |-> InTextField(body, 2, MaxCharacterNameLength)])
ReadLobby(body) ==
  Whole([version |-> InNumber(body, 1), roster |-> ReadList(body, 2, MaxPlayers, ReadRosterEntry)])

ReadMatchPlayer(body) ==
  Whole([spawn |-> InVec(body, 4, PositionGrid),
         session |-> InUuid(body, 7),
         entity |-> InNumber(body, 2),
         character |-> InTextField(body, 3, MaxCharacterNameLength)])
ReadMatchStart(body) ==
  Whole([players |-> ReadList(body, 1, MaxPlayers, ReadMatchPlayer),
         first_tick |-> InNumber(body, 2),
         match |-> InUuid(body, 3)])

ReadShot(body) ==
  Whole([tick |-> InNumber(body, 1),
         origin |-> InVec(body, 3, PositionGrid),
         shooter |-> InNumber(body, 2),
         yaw |-> InSteps(body, 6, AngleGrid),
         pitch |-> InSteps(body, 7, AngleGrid)])

ReadHitConfirmation(body) ==
  Whole([target |-> InNumber(body, 1),
         damage |-> InNumber(body, 3),
         part |-> InEnum(ValueOf(body, 2, 0), BodyPartNumbers)])

ReadDeath(body) ==
  Whole([victim |-> InNumber(body, 1),
         killer |-> InNumber(body, 2),
         yaw |-> InSteps(body, 4, AngleGrid),
         pitch |-> InSteps(body, 5, AngleGrid),
         part |-> InEnum(ValueOf(body, 3, 0), BodyPartNumbers)])

ReadReplayListing(body) ==
  Whole([started_unix_ms |-> InNumber(body, 2),
         characters |-> ReadList(body, 5, MaxPlayers,
                                 LAMBDA text : InText(text, MaxCharacterNameLength)),
         name |-> InTextField(body, 1, MaxCaptureNameLength),
         ticks |-> InNumber(body, 3),
         tick_rate_hz |-> InByte(body, 4)])
ReadReplayList(body) == Whole([replays |-> ReadList(body, 1, MaxReplayListings, ReadReplayListing)])

ReadReplayRequest(body) ==
  Whole([engine_version |-> InTextField(body, 1, MaxEngineVersionLength),
         client_pack |-> InHash(body, 2),
         capture |-> InTextField(body, 3, MaxCaptureNameLength),
         run |-> InUuid(body, 4)])

ReadJudgedPlayer(body) ==
  LET bits == InBits(body, 5, 4)
  IN Whole([position |-> InVec(body, 2, PositionGrid),
            entity |-> InNumber(body, 1),
            yaw |-> InSteps(body, 6, AngleGrid),
            stance |-> InEnum(bits.value, StanceNumbers)])
ReadJudgementEntry(body) ==
  Whole([players |-> ReadList(body, 2, MaxPlayers, ReadJudgedPlayer),
         ticks_after_shot |-> InNarrow(body, 1, Short)])
ReadShotJudgement(body) ==
  LET bits == InBits(body, 4, 32)
  IN Whole([shot_tick |-> InNumber(body, 1),
            entries |-> ReadList(body, 9, MaxShotJudgementEntries, ReadJudgementEntry),
            point |-> InVec(body, 5, PositionGrid),
            target |-> InNumber(body, 8),
            delay_fraction |-> InSteps(body, 3, FractionGrid),
            delay_ticks |-> InByte(body, 2),
            struck |-> In(bits.value % 4, bits.valid),
            part |-> InEnum((bits.value \div 4) % 4, BodyPartNumbers),
            flags |-> In(bits.value \div 16, bits.valid)])

ReadCaptureHeader(body) ==
  Whole([server_pack |-> InHash(body, 1),
         client_pack |-> InHash(body, 2),
         engine_version |-> InTextField(body, 3, MaxEngineVersionLength),
         started_unix_ms |-> InNumber(body, 4),
         match |-> InUuid(body, 6),
         tick_rate_hz |-> InByte(body, 5)])
ReadCapturedJoin(body) ==
  Whole([spawn |-> InVec(body, 5, PositionGrid),
         offset |-> InNumber(body, 1),
         session |-> InUuid(body, 8),
         character |-> InTextField(body, 4, MaxCharacterNameLength),
         player |-> InByte(body, 2)])
ReadCapturedCommand(body) ==
  Whole([command |-> ReadCommand(ValueOf(body, 4, <<>>)),
         offset |-> InNumber(body, 1),
         seen_offset |-> InNumber(body, 3),
         player |-> InByte(body, 2)])

-----------------------------------------------------------------------------
(* The envelope.  A message or a record is its member's number and what it *)
(* holds; no member of one envelope is one of the other's.                 *)
Types == (1..15) \cup (17..19)
RecordTypes == 1001..1006

Parts(type, wire) ==
  CASE type = 1 -> EncodeJoinRequest(wire)
    [] type = 2 -> EncodeJoinAccepted(wire)
    [] type = 3 -> EncodeJoinRefused(wire)
    [] type = 4 -> EncodeCommands(wire)
    [] type = 5 -> EncodeAuthoritativeState(wire)
    [] type = 6 -> EncodeLobby(wire)
    [] type = 7 -> EncodeReady(wire)
    [] type = 8 -> EncodeMatchStart(wire)
    [] type = 9 -> EncodeMatchEnd(wire)
    [] type = 10 -> EncodeShot(wire)
    [] type = 11 -> EncodeHitConfirmation(wire)
    [] type = 12 -> EncodeDeath(wire)
    [] type = 13 -> <<>>
    [] type = 14 -> EncodeReplayList(wire)
    [] type = 15 -> EncodeReplayRequest(wire)
    [] type = 17 -> EncodeReenactRequest(wire)
    [] type = 18 -> <<OutNumber(1, wire.flags)>>
    [] type = 19 -> WriteJudgement(wire)

RecordParts(type, wire) ==
  CASE type = 1001 -> EncodeHeader(wire)
    [] type = 1002 -> EncodeCapturedJoin(wire)
    [] type = 1003 -> EncodeCapturedCommand(wire)
    [] type = 1004 -> EncodeCapturedLeave(wire)
    [] type = 1005 -> EncodeCapturedDeath(wire)
    [] type = 1006 -> EncodeCapturedMatchEnd(wire)

Refused == [type |-> 0]
Payload(type, parts) ==
  IF AllCarried(parts) THEN [type |-> type, body |-> Serialize(parts)] ELSE Refused

Encode(message) == Payload(message.type, Parts(message.type, message.wire))
EncodeCaptureRecord(record) == Payload(record.type, RecordParts(record.type, record.wire))

ReadBody(type, body) ==
  CASE type = 1 -> ReadJoinRequest(body)
    [] type = 2 -> ReadJoinAccepted(body)
    [] type = 3 -> ReadJoinRefused(body)
    [] type = 4 -> ReadCommands(body)
    [] type = 5 -> ReadAuthoritativeState(body)
    [] type = 6 -> ReadLobby(body)
    [] type = 7 -> Whole([version |-> InNumber(body, 1)])
    [] type = 8 -> ReadMatchStart(body)
    [] type = 9 -> Whole([winner |-> InUuid(body, 2)])
    [] type = 10 -> ReadShot(body)
    [] type = 11 -> ReadHitConfirmation(body)
    [] type = 12 -> ReadDeath(body)
    [] type = 13 -> In([nothing |-> 0], TRUE)
    [] type = 14 -> ReadReplayList(body)
    [] type = 15 -> ReadReplayRequest(body)
    [] type = 17 -> ReadReenactRequest(body)
    [] type = 18 -> Whole([flags |-> InByte(body, 1)])
    [] type = 19 -> ReadShotJudgement(body)

ReadRecord(type, body) ==
  CASE type = 1001 -> ReadCaptureHeader(body)
    [] type = 1002 -> ReadCapturedJoin(body)
    [] type = 1003 -> ReadCapturedCommand(body)
    [] type = 1004 -> Whole([offset |-> InNumber(body, 1), player |-> InByte(body, 2)])
    [] type = 1005 -> Whole([offset |-> InNumber(body, 1), victim |-> InByte(body, 2),
                             killer |-> InByte(body, 3)])
    [] type = 1006 -> Whole([offset |-> InNumber(body, 1), winner |-> InByte(body, 2)])

Admitted(type, read) == IF read.valid THEN [type |-> type, wire |-> read.value] ELSE Refused

Decode(payload) ==
  IF payload.type \in Types THEN Admitted(payload.type, ReadBody(payload.type, payload.body))
  ELSE Refused
DecodeCaptureRecord(payload) ==
  IF payload.type \in RecordTypes
  THEN Admitted(payload.type, ReadRecord(payload.type, payload.body))
  ELSE Refused

(* An Authoritative State's shared fields: all that come before the first  *)
(* of its recipient's own, none of which one of the shared may follow.     *)
LastSharedField == 2
SharedFieldsOf(payload) ==
  LET shared == SelectSeq(payload.body, LAMBDA f : f.field <= LastSharedField)
  IN IF payload.type = 5 /\ SubSeq(payload.body, 1, Len(shared)) = shared
     THEN [shared |-> TRUE, body |-> shared]
     ELSE [shared |-> FALSE]

Readdress(payload, recipient) ==
  LET shared == SharedFieldsOf(payload)
  IN IF shared.shared
     THEN [payload EXCEPT !.body = shared.body \o Serialize(WriteOwn(recipient))]
     ELSE Refused
=============================================================================
