------------------------------ MODULE MCAgents ------------------------------
(***************************************************************************)
(* Who plays, and with what, checked one part at a time: the clients of a  *)
(* crowded Lobby (Lobby), the Intents of an Agent (Intents), a Captured    *)
(* player played again (Reenactment), what both sides load of their packs  *)
(* (Content), how a player's body moves and is posed on both sides         *)
(* (Movement), and what a client leaves of its Runs (RunFiles).  The parts *)
(* share no variable: a behaviour is one of the part it starts as.         *)
(***************************************************************************)
EXTENDS MCLobby, Intents, Reenactment, Content, Movement, RunFiles

VARIABLE part

Event(kind, offset, player) == [kind |-> kind, offset |-> offset, player |-> player]

\* Commands due too soon to be in time and a gap of fillers, the first of which
\* still move; a Leave with the third Command late into it; another's Commands
\* and Leave between; Deaths after the Leave.
SomeCaptures ==
  {<<Event("command", 2, 1), Event("command", 3, 2), Event("command", 6, 1), Event("leave", 7, 1),
     Event("death", 7, 1), Event("end", 8, 0)>>,
   <<Event("command", 0, 1), Event("command", 1, 1), Event("command", 3, 1), Event("leave", 4, 1),
     Event("leave", 4, 2), Event("death", 4, 1), Event("death", 4, 2)>>,
   <<Event("command", 2, 1), Event("command", 3, 1), Event("death", 3, 2), Event("end", 4, 0)>>}

\* Twice the same victim; in another order, with one the capture lacks.
SomeTells == {<<2, 2>>, <<2, 1, 3>>}

-----------------------------------------------------------------------------
(***************************************************************************)
(* The packs Content is checked on: a pair cooked as it should be, and     *)
(* pairs with the faults below in one part or two of it.                   *)
(***************************************************************************)
AllCues == <<"gunshot", "hit_marker">>
TableOf(entries) == <<"table", entries>>
Number(key, n) == <<Name(key), <<"number", n>>>>
Kick(i) == <<<<"number", 2 * i>>, TableOf({Number("pitch", 1), Number("yaw", -1)})>>

\* A table's entries with one put in another's place, or beside the rest.
With(entries, entry) == {e \in entries : e[1] # entry[1]} \cup {entry}
Without(entries, key) == {e \in entries : e[1] # Name(key)}

\* What may be wrong with a table, and with a number.
TableFaults(entries, key) ==
  <<Without(entries, key), With(entries, <<Name(key), <<"string", "four">>>>), With(entries, Number("unheard_of", 2)),
    With(entries, <<<<"boolean">>, <<"nil">>>>)>>
Numbers == <<NotFinite, -1, 0, 2, 3, 7, 512>>
NumberFaults(entries, key) == [i \in DOMAIN Numbers |-> With(entries, Number(key, Numbers[i]))]

\* Each part of the script as it should be, then with each of its faults.
GoodCounts == {Number("player_count", 4), Number("starting_health", 1)}
AllCounts ==
  <<GoodCounts>> \o TableFaults(GoodCounts, "player_count") \o NumberFaults(GoodCounts, "player_count")
    \o NumberFaults(GoodCounts, "starting_health")

GoodStamina == {Number("deplete_per_second", 1), Number("regen_per_second", 0), Number("forced_walk_below", 1)}
AllStaminas ==
  <<GoodStamina>> \o TableFaults(GoodStamina, "regen_per_second") \o NumberFaults(GoodStamina, "forced_walk_below")

GoodRifle ==
  {Number("magazine_capacity", 510), Number("rounds_per_minute", 1200), Number("muzzle_velocity", 1801),
   Number("reload_seconds", 5), Number("recoil_recovery_per_second", 0), Number("ads_recoil_scale", 2),
   Number("ads_field_of_view", 6), Number("zero_range", 200)}
AllRifles ==
  <<GoodRifle>> \o TableFaults(GoodRifle, "zero_range") \o NumberFaults(GoodRifle, "magazine_capacity")
    \o NumberFaults(GoodRifle, "ads_field_of_view") \o NumberFaults(GoodRifle, "ads_recoil_scale")
    \o NumberFaults(GoodRifle, "rounds_per_minute")

PlainPatterns ==
  <<{Kick(1), Kick(2)}, {}, {Kick(1)}, {Kick(2)}, {Kick(1), Kick(3)}, {Kick(1), Kick(2), Kick(3)},
    {Kick(1), <<Name("first"), <<"nil">>>>}, {Kick(1), <<<<"number", 3>>, <<"nil">>>>},
    {Kick(1), <<<<"number", 4>>, <<"boolean">>>>},
    {Kick(1), <<<<"number", 4>>, TableOf({Number("pitch", 1)})>>},
    {Kick(1), <<<<"number", 4>>, TableOf({Number("pitch", NotFinite), Number("yaw", 0)})>>},
    {Kick(1), <<<<"number", 4>>, TableOf({Number("pitch", 1), Number("yaw", 0), Number("roll", 0)})>>}>>

\* And patterns whose __len answers as it likes.
WithLen(entries, answers) == <<"table", entries, answers>>
AllPatterns ==
  [i \in DOMAIN PlainPatterns |-> TableOf(PlainPatterns[i])]
    \o <<WithLen({Kick(1), Kick(2)}, {0, 2}), WithLen({Kick(1)}, {1, 2}), WithLen({Kick(1)}, {1, LenRaises}),
         WithLen({}, {0, 1, LenRaises}), WithLen({Kick(1), Kick(2), Kick(3)}, {2, 3})>>

GoodDamage == {Number("head", 200), Number("torso", 0), Number("limb", 25)}
WithDamage(damage) == {Number("gravity", 0), Number("max_range", 600), <<Name("damage"), damage>>}
GoodAmmo == WithDamage(TableOf(GoodDamage))
DamageFaults == TableFaults(GoodDamage, "limb") \o NumberFaults(GoodDamage, "head")
AllAmmo ==
  <<GoodAmmo, WithDamage(<<"number", 2>>), Without(GoodAmmo, "damage")>> \o NumberFaults(GoodAmmo, "max_range")
    \o [i \in DOMAIN DamageFaults |-> WithDamage(TableOf(DamageFaults[i]))]

AllAnswers == <<<<"table">>, <<"error">>, <<"nil">>, <<"boolean">>>>
ScriptOf(counts, stamina, rifle, pattern, ammo) ==
  TableOf(counts \cup {<<Name("stamina"), TableOf(stamina)>>, <<Name("ammo"), TableOf(ammo)>>,
                       <<Name("rifle"), TableOf(rifle \cup {<<Name("recoil_pattern"), pattern>>})>>})

-----------------------------------------------------------------------------
(* A character of five Joints, a head among them, each hand at an arm's    *)
(* end; the scene has a wall that is drawn and met, and a Spawn point.     *)
Joint(name, parent) == [name |-> name, parent |-> parent]
Bones == <<Joint("root", 0), Joint("elbow_l", 1), Joint("hand_l", 2), Joint("elbow_r", 1), Joint("hand_r", 4)>>
Hitbox(where, joint, mesh) == [part |-> where, joint |-> joint, mesh |-> mesh]
GoodHitboxes == {Hitbox("head", "root", "solid"), Hitbox("torso", "root", "solid"), Hitbox("limb", "hand_l", "solid")}
AllRoles ==
  {<<"air">>} \cup UNION {{<<stance, clip>> : clip \in Elements(StanceRoles(stance))} : stance \in Elements(Stances)}
GoodClip == [archive |-> "animation", tracks |-> 5]
NoClip == [archive |-> "missing", tracks |-> 0]
Soldier ==
  [eye |-> TRUE, mesh |-> TRUE, hitboxes |-> GoodHitboxes, skeleton |-> Bones, transitions |-> TRUE,
   animated |-> [archive |-> "skeleton", joints |-> <<"root", "elbow_r", "hand_r", "elbow_l", "hand_l">>],
   clips |-> [role \in AllRoles |->
                IF role \in {<<"prone", "left">>, <<"crouching", "backward_left">>} THEN NoClip ELSE GoodClip],
   socket |-> <<[right |-> "hand_r", left |-> "hand_l"]>>]

Hitboxes ==
  <<{}, {box \in GoodHitboxes : box.part # "limb"}, {box \in GoodHitboxes : box.part # "head"},
    GoodHitboxes \cup {Hitbox("limb", "tail", "solid")}, GoodHitboxes \cup {Hitbox("head", "root", "empty")}>>
Skeletons ==
  <<<<>>, SubSeq(Bones, 1, 4), [Bones EXCEPT ![5].parent = 1], [Bones EXCEPT ![3].parent = 0],
    [Bones EXCEPT ![5].name = "claw_r"], Append(Bones, Joint("tail", 1))>>
Sockets ==
  <<<<>>, <<[right |-> "hand_r", left |-> "elbow_l"]>>, <<[right |-> "root", left |-> "hand_l"]>>,
    <<[right |-> "hand_r", left |-> "fin"]>>, <<[right |-> "fin", left |-> "hand_l"]>>>>
SomeRoles == <<<<"air">>, <<"standing", "left">>, <<"prone", "right">>, <<"standing", "sprint">>,
           <<"crouching", "forward_right">>, <<"prone", "ads">>>>
ClipFault(clip) == [i \in DOMAIN SomeRoles |-> [Soldier EXCEPT !.clips[SomeRoles[i]] = clip]]

AllCharacters ==
  <<Soldier, [Soldier EXCEPT !.eye = FALSE], [Soldier EXCEPT !.mesh = FALSE], [Soldier EXCEPT !.transitions = FALSE],
    [Soldier EXCEPT !.animated.archive = "missing"], [Soldier EXCEPT !.animated.archive = "other"],
    [Soldier EXCEPT !.animated.joints = <<>>], [Soldier EXCEPT !.animated.joints = Tail(@)],
    [Soldier EXCEPT !.animated.joints[1] = "tail"]>>
    \o [i \in DOMAIN Hitboxes |-> [Soldier EXCEPT !.hitboxes = Hitboxes[i]]]
    \o [i \in DOMAIN Skeletons |-> [Soldier EXCEPT !.skeleton = Skeletons[i]]]
    \o [i \in DOMAIN Sockets |-> [Soldier EXCEPT !.socket = Sockets[i]]]
    \o ClipFault(NoClip) \o ClipFault([GoodClip EXCEPT !.archive = "corrupt"])
    \o ClipFault([GoodClip EXCEPT !.tracks = 4])

Wall == [name |-> "wall", collider |-> "solid", mesh |-> "wall", color |-> "none", spawn |-> FALSE]
Spawn == [name |-> "spawn", collider |-> "none", mesh |-> "none", color |-> "malformed", spawn |-> TRUE]
Scenes ==
  <<<<>>, <<<<>>>>, <<<<Spawn>>>>, <<<<Wall>>>>, <<<<Spawn, [Wall EXCEPT !.collider = "missing"]>>>>,
    <<<<Spawn, [Wall EXCEPT !.collider = "empty"]>>>>, <<<<Spawn, [Wall EXCEPT !.collider = "uncookable"]>>>>,
    <<<<[Wall EXCEPT !.mesh = "missing"], Spawn>>>>, <<<<[Wall EXCEPT !.color = "malformed"], Spawn>>>>>>

Good ==
  [scene |-> <<<<Wall, Spawn>>>>, list |-> <<<<"soldier", "medic">>>>, rifle |-> TRUE, clientPack |-> TRUE,
   rules |-> TRUE, sounds |-> [cue \in Elements(AllCues) |-> <<TRUE, TRUE>>], characters |-> <<>>, script |-> <<>>]
AllScenarios ==
  <<Good, [Good EXCEPT !.rifle = FALSE], [Good EXCEPT !.clientPack = FALSE], [Good EXCEPT !.rules = FALSE],
    [Good EXCEPT !.list = <<>>], [Good EXCEPT !.list = <<<<>>>>], [Good EXCEPT !.list = <<<<"medic">>>>],
    [Good EXCEPT !.sounds["hit_marker"] = <<>>], [Good EXCEPT !.sounds["hit_marker"] = <<TRUE, FALSE>>]>>
    \o [i \in DOMAIN Scenes |-> [Good EXCEPT !.scene = Scenes[i]]]

-----------------------------------------------------------------------------
(* A pair of packs by which fault each part has, 1 being none.             *)
Parts == <<Len(AllScenarios), Len(AllCharacters), Len(AllCharacters),
           Len(AllCounts), Len(AllStaminas), Len(AllRifles), Len(AllPatterns), Len(AllAmmo), Len(AllAnswers)>>
NoFault == <<1, 1, 1, 1, 1, 1, 1, 1, 1>>
AllPacks ==
  UNION {{[NoFault EXCEPT ![i] = m, ![j] = n] : m \in 1..Parts[i], n \in 1..Parts[j]} :
           <<i, j>> \in {<<1, 2>>, <<1, 3>>, <<2, 3>>, <<4, 5>>, <<4, 6>>, <<6, 7>>, <<5, 8>>, <<8, 9>>}}
CookedWith(faults) ==
  [AllScenarios[faults[1]] EXCEPT
     !.characters = [soldier |-> AllCharacters[faults[2]], medic |-> AllCharacters[faults[3]]],
     !.script = IF faults[9] # 1 THEN AllAnswers[faults[9]]
                ELSE ScriptOf(AllCounts[faults[4]], AllStaminas[faults[5]], AllRifles[faults[6]],
                              AllPatterns[faults[7]], AllAmmo[faults[8]])]

\* The key names this model has, as std::string orders them.
AllNames == <<"ads_field_of_view", "ads_recoil_scale", "ammo", "first", "roll", "unheard_of">>

-----------------------------------------------------------------------------
(***************************************************************************)
(* A corridor to move along: a platform with a ledge three deep, a passage *)
(* to crouch through and one to crawl through; and the Clips of a          *)
(* Character that has the optional ones standing only.                     *)
(***************************************************************************)
MCFloor == [column \in 0 .. 6 |-> IF column = 0 THEN 3 ELSE 0]
MCCeiling == [column \in 0 .. 6 |-> CASE column = 5 -> 2 [] column = 6 -> 1 [] OTHER -> 9]
MCHeight == [standing |-> 3, crouching |-> 2, prone |-> 1]

MCDurations ==
  [pair \in {{"standing", "crouching"}, {"standing", "prone"}, {"crouching", "prone"}} |->
     IF pair = {"standing", "crouching"} THEN 4 ELSE 5]

Locomotion(stride, duration, contacts) == [stride |-> stride, duration |-> duration, contacts |-> contacts]
Static == Locomotion(0, 1, <<>>)

\* Each stance's poses, and what moves it behind, beside and ahead.
Common ==
  [role \in {"idle", "aim_down", "aim_center", "aim_up", "ads"} |-> Static]
    @@ [forward |-> Locomotion(3, 3, <<0, 4>>), backward |-> Locomotion(4, 4, <<6, 1>>)]

MCClips ==
  [standing |-> [left |-> Locomotion(3, 3, <<1, 6>>), right |-> Locomotion(3, 3, <<2, 5>>),
                 forward_right |-> Locomotion(4, 2, <<0, 3>>), sprint |-> Locomotion(4, 2, <<7, 2>>)] @@ Common,
   crouching |-> [left |-> Locomotion(4, 4, <<1, 6>>), right |-> Locomotion(4, 4, <<3, 0>>)] @@ Common,
   prone |-> Common]

Press(go, sprint, stance, yaw, pitch, ads) ==
  [go |-> go, sprint |-> sprint, stance |-> stance, yaw |-> yaw, pitch |-> pitch, ads |-> ads]

MCPresses ==
  {Press(1, FALSE, "standing", 2, 0, FALSE), Press(1, TRUE, "standing", -1, 1, TRUE),
   Press(1, TRUE, "standing", 0, 0, FALSE), Press(-1, FALSE, "standing", 3, -2, TRUE),
   Press(1, FALSE, "crouching", 2, -1, FALSE), Press(1, FALSE, "prone", 1, 2, TRUE)}

-----------------------------------------------------------------------------
\* A part that does not run starts as it may in one way only.
AgentsInit ==
  /\ part \in {"lobby", "intents", "reenactment", "content", "movement", "run files"}
  /\ Init /\ IntentsInit /\ ReenactmentInit /\ MovementInit /\ RunFilesInit
  /\ part # "reenactment" => script.end = 4
  /\ part # "movement" => simulated.body.position.x = 0
  /\ IF part = "content" THEN ContentInit ELSE pack = NoFault /\ LoadingInit

bodyAndRunsVars == <<movementVars, runFilesVars>>

AgentsNext ==
  /\ UNCHANGED part
  /\ \/ part = "lobby" /\ Next /\ UNCHANGED <<intentVars, reenactmentVars, contentVars, bodyAndRunsVars>>
     \/ part = "intents" /\ IntentsNext /\ UNCHANGED <<vars, reenactmentVars, contentVars, bodyAndRunsVars>>
     \/ part = "reenactment" /\ ReenactmentNext /\ UNCHANGED <<vars, intentVars, contentVars, bodyAndRunsVars>>
     \/ part = "content" /\ ContentNext /\ UNCHANGED <<vars, intentVars, reenactmentVars, bodyAndRunsVars>>
     \/ /\ UNCHANGED <<vars, intentVars, reenactmentVars, contentVars>>
        /\ \/ part = "movement" /\ MovementNext /\ UNCHANGED runFilesVars
           \/ part = "run files" /\ RunFilesNext /\ UNCHANGED movementVars

AgentsSpec ==
  AgentsInit /\ [][AgentsNext]_<<part, vars, intentVars, reenactmentVars, contentVars, bodyAndRunsVars>>
=============================================================================
