------------------------------ MODULE Content -------------------------------
(***************************************************************************)
(* What a server and a client load of the two packs cooked together        *)
(* (scenario/content.cpp, client/client_content.cpp, client_scene_loader,  *)
(* client_character_loader, physics/map.cpp, animation/clips.cpp,          *)
(* audio/cues.cpp) up to the worlds they build of it                       *)
(* (host/simulation_mapping.cpp, the client's constructor).                *)
(*                                                                         *)
(* What a pack does not resolve is an empty sequence.  A Skeleton's Joints *)
(* have names of their own, and parents before children: the cook writes   *)
(* no other, the decoder reads none with a later parent.                   *)
(***************************************************************************)
EXTENDS Parameters

CONSTANTS
  Packs,     \* the pairs of packs
  Cooked(_), \* what the cook put in a pair
  PlaysAs,   \* the character this player asks to play
  Cues       \* kCues, in catalogue order

VARIABLES
  pack,      \* the pair of packs both sides were given
  server,    \* where LoadServerContent and the Host's worlds are, what they read
  client     \* where LoadClientContent is, what it refused, whom it has drawn

contentVars == <<pack, server, client>>

Stances == <<"standing", "crouching", "prone">>
BodyParts == <<"head", "torso", "limb">>
There == Cooked(pack)
Character(name) == There.characters[name]
Listed == IF There.list = <<>> THEN <<>> ELSE There.list[1]

LoadingInit ==
  /\ server = [at |-> "collision", refused |-> Fine, characters |-> 0, kicks |-> 0]
  /\ client = [at |-> "eye", refused |-> Fine, drawn |-> {}]
ContentInit == pack \in Packs /\ LoadingInit

Resolved(found, what) == IF found THEN Fine ELSE what

-----------------------------------------------------------------------------
(* The map (physics/map.cpp).                                              *)
ResolveScene == Resolved(There.scene # <<>>, <<"scene">>)
Nodes == IF There.scene = <<>> THEN <<>> ELSE There.scene[1]
ValidateCollisionMesh(mesh) == mesh # "empty"

LoadCollision ==
  LET Collider(node) ==
        CASE node.collider = "none" -> Fine
          [] node.collider = "missing" -> <<"collider", "unresolved", node.name>>
          [] ~ValidateCollisionMesh(node.collider) -> <<"collider", "invalid", node.name>>
          [] OTHER -> Fine
  IN FirstOf(<<ResolveScene>> \o [i \in DOMAIN Nodes |-> Collider(Nodes[i])]
             \o <<Resolved(\E i \in DOMAIN Nodes : Nodes[i].collider # "none", <<"no collision">>)>>)

LoadSpawnPoints ==
  FirstOf(<<ResolveScene, Resolved(\E i \in DOMAIN Nodes : Nodes[i].spawn, <<"no spawn points">>)>>)

\* A world takes every mesh the map loaded that PhysX can cook.
AddCollision ==
  FirstOf([i \in DOMAIN Nodes |-> Resolved(Nodes[i].collider # "uncookable", <<"world", "collision", Nodes[i].name>>)])

-----------------------------------------------------------------------------
(* A character's Clips (animation/clips.cpp), on its Skeleton.             *)
NamesOf(skeleton) == {skeleton[i].name : i \in DOMAIN skeleton}
IndexOf(skeleton, name) == CHOOSE i \in DOMAIN skeleton : skeleton[i].name = name

LoadSkeleton(animated) ==
  CASE animated.archive # "skeleton" -> <<"animation skeleton", animated.archive>>
    [] animated.joints = <<>> -> <<"animation skeleton", "no joint">>
    [] OTHER -> Fine

JointsOf(animated, skeleton) ==
  FirstOf([i \in DOMAIN animated.joints |->
             Resolved(animated.joints[i] \in NamesOf(skeleton), <<"animation skeleton", "unknown joint", animated.joints[i]>>)]
          \o <<Resolved(Len(animated.joints) = Len(skeleton), <<"animation skeleton", "joint count">>)>>)

LoadClip(character, role, optional) ==
  LET clip == character.clips[role] IN
  CASE clip.archive = "missing" /\ optional -> Fine
    [] clip.archive # "animation" -> <<"clip", clip.archive>> \o role
    [] clip.tracks # Len(character.animated.joints) -> <<"clip", "track count">> \o role
    [] OTHER -> Fine

Sideways == <<"left", "right">>
Diagonals == <<"forward_left", "forward_right", "backward_left", "backward_right">>
Aims == <<"aim_down", "aim_center", "aim_up", "ads">>
StanceRoles(stance) ==
  <<"idle", "forward", "backward">> \o Sideways \o Diagonals
    \o (IF stance = "standing" THEN <<"sprint">> ELSE <<>>) \o Aims
Optional(stance, clip) ==
  clip \in Elements(Diagonals) \/ (stance = "prone" /\ clip \in Elements(Sideways))

LoadStance(character, stance) ==
  FirstOf([i \in DOMAIN StanceRoles(stance) |->
    LET clip == StanceRoles(stance)[i] IN LoadClip(character, <<stance, clip>>, Optional(stance, clip))])

\* Of a hand: its elbow, and its shoulder.
ParentOf(skeleton, joint) == skeleton[joint].parent
\* Mutant: an elbow is arm enough.
MutHasAnArm(skeleton, hand) == ParentOf(skeleton, hand) # 0
HasAnArm(skeleton, hand) ==
  LET elbow == ParentOf(skeleton, hand) IN elbow # 0 /\ ParentOf(skeleton, elbow) # 0
ShoulderOf(skeleton, hand) == ParentOf(skeleton, ParentOf(skeleton, hand))

LoadWeaponSocket(socket, skeleton) ==
  LET Hand(side) == IndexOf(skeleton, socket[1][side]) IN
  CASE socket = <<>> -> <<"weapon socket", "missing">>
    [] socket[1].right \notin NamesOf(skeleton) -> <<"weapon socket", "unknown right hand">>
    [] socket[1].left \notin NamesOf(skeleton) -> <<"weapon socket", "unknown left hand">>
    [] ~HasAnArm(skeleton, Hand("left")) -> <<"weapon socket", "left hand has no arm">>
    [] ~HasAnArm(skeleton, Hand("right")) -> <<"weapon socket", "right hand has no arm">>
    [] OTHER -> Fine

LoadClips(character) ==
  FirstOf(<<LoadSkeleton(character.animated), JointsOf(character.animated, character.skeleton)>>
          \o [i \in DOMAIN Stances |-> LoadStance(character, Stances[i])]
          \o <<LoadClip(character, <<"air">>, FALSE),
               Resolved(character.transitions, <<"stance transitions", "missing">>),
               LoadWeaponSocket(character.socket, character.skeleton)>>)

-----------------------------------------------------------------------------
(* What the server runs on (scenario/content.cpp).                         *)
FirstMissingBodyPart(hitboxes) ==
  FirstOf([i \in DOMAIN BodyParts |->
    Resolved(\E box \in hitboxes : box.part = BodyParts[i], <<"no hitbox for", BodyParts[i]>>)])

BindHitboxes(skeleton, hitboxes) ==
  Resolved(\A box \in hitboxes : box.joint \in NamesOf(skeleton), <<"a hitbox names no joint">>)

Refuses(name, refusal) == IF refusal = Fine THEN Fine ELSE <<"character", name>> \o refusal

\* ReadCharacters, for one of them.
ReadCharacter(name) ==
  LET character == Character(name) IN
  Refuses(name, FirstOf(<<Resolved(character.hitboxes # {}, <<"hitbox">>), FirstMissingBodyPart(character.hitboxes),
                          Resolved(character.skeleton # <<>>, <<"skeleton">>),
                          BindHitboxes(character.skeleton, character.hitboxes),
                          Resolved(character.eye, <<"eye">>), LoadClips(character)>>))

\* Each of the character's Hitboxes, a mesh of whole triangles.
ToSimulation(name) ==
  Refuses(name, Resolved(\A box \in Character(name).hitboxes : ValidateCollisionMesh(box.mesh), <<"hitbox rejected">>))

ServerReads(step, refusal, next) ==
  /\ server.at = step
  /\ server' = IF refusal = Fine THEN [server EXCEPT !.at = next]
               ELSE [server EXCEPT !.at = "refused", !.refused = refusal]
  /\ UNCHANGED <<pack, client>>

ReadCollision == ServerReads("collision", LoadCollision, "spawn points")
ReadSpawnPoints == ServerReads("spawn points", LoadSpawnPoints, "character list")
ReadCharacterList ==
  ServerReads("character list", Resolved(There.list # <<>>, <<"character list">>),
              IF Listed = <<>> THEN "rifle" ELSE "characters")

ReadNextCharacter ==
  LET refusal == ReadCharacter(Listed[server.characters + 1])
      read == server.characters + 1
  IN /\ server.at = "characters"
     /\ server' = IF refusal # Fine THEN [server EXCEPT !.at = "refused", !.refused = refusal]
                  ELSE [server EXCEPT !.characters = read,
                                      !.at = IF read = Len(Listed) THEN "rifle" ELSE "characters"]
     /\ UNCHANGED <<pack, client>>

ReadRifle == ServerReads("rifle", Resolved(There.rifle, <<"rifle">>), "client pack")
ReadClientPack == ServerReads("client pack", Resolved(There.clientPack, <<"names no client pack">>), "parameters")

\* Lua tells the length of the recoil pattern each time it is asked for it.
ReadParameters ==
  /\ server.at = "parameters"
  /\ \E asked \in Askings(RecoilPattern(There.script)) :
       LET refusal == LoadParameters(There.script, asked) IN
       server' = CASE refusal = Fine -> [server EXCEPT !.at = "policy", !.kicks = Turns(asked)]
                   [] refusal = Aborted -> [server EXCEPT !.at = "aborted"]
                   [] OTHER -> [server EXCEPT !.at = "refused", !.refused = <<"parameters">> \o refusal]
  /\ UNCHANGED <<pack, client>>

ReadPolicy == ServerReads("policy", Resolved(There.rules, <<"rules">>), "world")

\* The Host's world takes the map in, then its characters are made ready to be hit.
BuildSimulation ==
  ServerReads("world", FirstOf(<<AddCollision>> \o [i \in DOMAIN Listed |-> ToSimulation(Listed[i])]), "serving")

-----------------------------------------------------------------------------
(* What the client runs on (client/client_content.cpp).                    *)
LoadCharacterEye(name) == Refuses(name, Resolved(Character(name).eye, <<"eye">>))
LoadCharacterMesh(name) ==
  Refuses(name, FirstOf(<<Resolved(name \in Elements(Listed), <<"unknown character">>),
                          Resolved(Character(name).mesh, <<"mesh">>)>>))

\* LoadRenderScene: the nodes that have a mesh, each with its colour.
LoadScene ==
  LET Drawn(node) ==
        CASE node.mesh = "none" -> Fine
          [] node.mesh = "missing" -> <<"mesh", node.name>>
          [] node.color = "malformed" -> <<"color", node.name>>
          [] OTHER -> Fine
  IN FirstOf(<<ResolveScene>> \o [i \in DOMAIN Nodes |-> Drawn(Nodes[i])])

LoadCueSounds ==
  LET Sound(cue) ==
        FirstOf(<<Resolved(There.sounds[cue] # <<>>, <<"sound", cue>>)>>
                \o [variant \in DOMAIN There.sounds[cue] |->
                      Resolved(There.sounds[cue][variant], <<"sound", cue, "variant", Index(variant)>>)])
  IN FirstOf([i \in DOMAIN Cues |-> Sound(Cues[i])])

\* A client loads alone; here, after the server, which changes nothing for either.
ClientReads(step, refusal, next) ==
  /\ client.at = step /\ server.at \in {"serving", "refused", "aborted"}
  /\ client' = IF refusal = Fine THEN [client EXCEPT !.at = next]
               ELSE [client EXCEPT !.at = "refused", !.refused = refusal]
  /\ UNCHANGED <<pack, server>>

ReadEye == ClientReads("eye", LoadCharacterEye(PlaysAs), "scene")
ReadScene == ClientReads("scene", LoadScene, "loader")
CharacterLoaderFor == ClientReads("loader", Resolved(There.list # <<>>, <<"character list">>), "map")
LoadMap == ClientReads("map", LoadCollision, "cue sounds")
ReadCueSounds == ClientReads("cue sounds", LoadCueSounds, "skeleton")
ReadSkeleton ==
  ClientReads("skeleton", Refuses(PlaysAs, Resolved(Character(PlaysAs).skeleton # <<>>, <<"skeleton">>)), "clips")
ReadClips == ClientReads("clips", Refuses(PlaysAs, LoadClips(Character(PlaysAs))), "rifle")
LoadRifle == ClientReads("rifle", Resolved(There.rifle, <<"rifle">>), "worlds")
BuildWorlds == ClientReads("worlds", AddCollision, "running")

\* GetReadyForLobby, for a character another player brings: the server admits
\* players with listed characters only.  Its Debug hitboxes never refuse it.
LoadOther ==
  /\ client.at = "running" /\ server.at = "serving"
  /\ \E name \in Elements(Listed) \ client.drawn :
       LET refusal == FirstOf(<<LoadCharacterMesh(name), LoadCharacterEye(name)>>) IN
       client' = IF refusal = Fine THEN [client EXCEPT !.drawn = @ \cup {name}]
                 ELSE [client EXCEPT !.at = "failed", !.refused = refusal]
  /\ UNCHANGED <<pack, server>>

ContentNext ==
  \/ ReadCollision \/ ReadSpawnPoints \/ ReadCharacterList \/ ReadNextCharacter \/ ReadRifle \/ ReadClientPack
  \/ ReadParameters \/ ReadPolicy \/ BuildSimulation
  \/ ReadEye \/ ReadScene \/ CharacterLoaderFor \/ LoadMap \/ ReadCueSounds \/ ReadSkeleton \/ ReadClips
  \/ LoadRifle \/ BuildWorlds \/ LoadOther

ContentSpec == ContentInit /\ [][ContentNext]_contentVars

-----------------------------------------------------------------------------
(* What a Match later takes for granted of a character: a body part wherever *)
(* it may be hit (HitboxRays indexes the posed Joints unchecked), a Clip in *)
(* every required role with a track for each Joint, and arms to hold the   *)
(* rifle with (ShoulderOf goes up two parents unchecked).                  *)
Playable(name) ==
  LET character == Character(name)
      joints == NamesOf(character.skeleton)
      Plays(role) == character.clips[role].archive = "animation"
                     /\ character.clips[role].tracks = Cardinality(joints)
      Shoulder(hand) == ShoulderOf(character.skeleton, IndexOf(character.skeleton, hand))
  IN /\ {box.part : box \in character.hitboxes} = Elements(BodyParts)
     /\ \A box \in character.hitboxes : box.joint \in joints /\ box.mesh = "solid"
     /\ Elements(character.animated.joints) = joints /\ joints # {}
     /\ \A role \in DOMAIN character.clips :
          Plays(role) \/ (character.clips[role].archive = "missing" /\ role[2] \in Elements(Diagonals \o Sideways)
                          /\ (role[2] \in Elements(Sideways) => role[1] = "prone"))
     /\ \A hand \in {character.socket[1].right, character.socket[1].left} :
          Shoulder(hand) \in DOMAIN character.skeleton
     /\ character.eye /\ character.transitions

\* What the simulation divides by, counts with or indexes by, of the Parameters.
Runnable(script, kicks) ==
  LET value == ParametersOf(script, kicks).value
      pattern == Entries(RecoilPattern(script))
  IN /\ \A path \in DOMAIN value : value[path] # NotFinite /\ value[path] >= 0
     /\ \A path \in {<<"player_count">>, <<"rifle", "magazine_capacity">>} : value[path] \in {2 * n : n \in 1..MaxCount}
     /\ value[<<"player_count">>] \div 2 <= MaxPlayers
     /\ \A key \in {"rounds_per_minute", "muzzle_velocity", "ads_field_of_view", "zero_range"} :
          value[<<"rifle", key>>] > 0
     /\ kicks <= MaxRecoilKicks /\ kicks <= Cardinality(pattern)
     /\ Len(RecoilPattern(script)) = 2 => kicks = Cardinality(pattern)
     /\ \A i \in 1..kicks : \E entry \in pattern : entry[1] = <<"number", 2 * i>> /\ entry[2][1] = "table"

\* The key a refusal of the Parameters names is really as the refusal says.
KnownAt(path) ==
  CASE path = <<>> -> RootKeys
    [] path = <<"stamina">> -> StaminaKeys
    [] path = <<"rifle">> -> RifleKeys
    [] path = <<"ammo">> -> AmmoKeys
    [] path = <<"ammo", "damage">> -> DamageKeys
    [] OTHER -> KickKeys
Truthful(script, refusal) ==
  LET path == Tail(refusal)
      KeyOf(name) == IF \E i \in 1..MaxRecoilKicks + 1 : name = Index(i)
                     THEN <<"number", 2 * CHOOSE i \in 1..MaxRecoilKicks + 1 : name = Index(i)>> ELSE Name(name)
      table == FoldLeft(LAMBDA value, name : At(value, KeyOf(name)), script, Front(path))
      value == At(table, KeyOf(Last(path)))
  IN CASE refusal[1] = "kScriptError" -> script[1] = "error"
       [] refusal[1] = "kNotATable" -> script[1] \notin {"error", "table"}
       [] refusal[1] = "kUnknownKey" ->
            Last(path) \in {KeyName(key) : key \in KeysOf(table)} \ Elements(KnownAt(Front(path)))
       [] refusal[1] = "kMissingKey" -> value[1] = "nil"
       [] refusal[1] = "kWrongType" ->
            value[1] # "number" \/ Last(path) \in {"stamina", "rifle", "ammo", "damage"} \/ value[2] % 2 # 0
       [] refusal[1] = "kOutOfRange" ->
            value[1] = "table" \/ value[2] <= 0 \/ value[2] >= 2 \/ value[2] = NotFinite

\* What only one side reads, and what both do.
OnlyTheClients == {"mesh", "color", "sound"}
OfItsHitboxes == {"hitbox", "no hitbox for", "a hitbox names no joint", "hitbox rejected"}
ReadByBoth(refusal) ==
  \/ refusal[1] \in {"scene", "collider", "no collision", "character list", "rifle", "world"}
  \/ refusal[1] = "character" /\ refusal[2] = PlaysAs /\ refusal[3] \notin OfItsHitboxes

\* A server serves only what its Matches can be played on, and a refusal of its
\* Parameters names the key at fault (content.h:72-85, parameters.h); no script
\* ends its process while they are read but by a __len that raises.  A client
\* that plays a listed character refuses what the server does of what both read,
\* and beyond that only meshes, colours and sounds (client_content.cpp:71-74,
\* 130-132): whoever is let in can predict the Match.
ContentInv ==
  /\ server.at = "serving" =>
       /\ \A name \in Elements(Listed) : Playable(name)
       /\ Runnable(There.script, server.kicks)
       /\ \E i \in DOMAIN Nodes : Nodes[i].spawn
       /\ There.rifle /\ There.clientPack /\ There.rules
  /\ server.at = "refused" /\ server.refused[1] = "parameters" => Truthful(There.script, Tail(server.refused))
  /\ server.at = "aborted" => LenRaises \in Lengths(RecoilPattern(There.script))
  /\ client.at \in {"refused", "failed", "running"} /\ PlaysAs \in Elements(Listed) =>
       /\ server.at = "serving" /\ client.at = "refused" => client.refused[1] \in OnlyTheClients
       /\ server.at = "serving" /\ client.at = "failed" => client.refused[3] = "mesh"
       /\ client.at = "running" /\ server.at = "refused" => ~ReadByBoth(server.refused)
=============================================================================
