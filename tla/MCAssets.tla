------------------------------ MODULE MCAssets ------------------------------
(***************************************************************************)
(* The assets that are cooked and the packs that are written, good and     *)
(* bad, and packs alone as a specification.                                *)
(***************************************************************************)
EXTENDS Pack

One == <<0, 0, 128, 63>>
AHalf == <<0, 0, 0, 63>>
Two == <<0, 0, 0, 64>>
Zero == <<0, 0, 0, 0>>
MinusOne == <<0, 0, 128, 191>>
Infinite == <<0, 0, 128, 127>>
Floats == {One, AHalf, Two, Zero, MinusOne, Infinite}

Here == <<One, AHalf, Zero>>
Turned == <<Zero, AHalf, Zero, One>>
Frame == [translation |-> Here, rotation |-> Turned]
Elsewhere == [Frame EXCEPT !.translation = <<One, One, One>>]
RestPose == [translation |-> Here, rotation |-> Turned, scale |-> <<One, One, Two>>]

(* Up to one byte more than MaxPathLength.                                 *)
Texts == {<<>>, <<97>>, <<97, 98>>, <<97, 98, 99>>, <<97, 98, 99, 100>>}

Meshes == {[points |-> [i \in 1..n |-> Here], indices |-> indices] :
             n \in 0..3, indices \in {<<>>, <<0, 1, 0>>, <<1, 2>>, <<0, 1, 2, 0, 0, 0>>}}

Joint(parent) == [name |-> <<97>>, parent |-> parent, transform |-> RestPose]
Skeletons == UNION {[1..n -> {Joint(-1), Joint(0), Joint(1)}] : n \in 0..2}
             \cup {<<Joint(-1), Joint(0), Joint(0)>>}

Node(parent, mesh, hitbox, isSpawnPoint, properties) ==
  [name |-> <<97>>, parent |-> parent, transform |-> RestPose,
   paths |-> <<mesh, <<>>, hitbox, <<>>>>, is_spawn_point |-> isSpawnPoint,
   properties |-> properties]
Root == Node(-1, <<>>, <<>>, FALSE, <<>>)
Property == <<<<97>>, <<98>>>>
Scenes ==
  {<<Node(parent, mesh, hitbox, isSpawnPoint, properties)>> :
     parent \in {-1, 0}, mesh \in {<<>>, <<<<98>>>>}, hitbox \in {<<>>, <<<<99>>>>},
     isSpawnPoint \in BOOLEAN, properties \in {<<>>, <<Property>>, <<Property, Property>>}}
  \cup {<<Root, [Root EXCEPT !.parent = parent]>> : parent \in {-1, 0, 1}}
  \cup {<<Root, Root, Root>>}

Contacts == {<<>>} \cup {<<[foot |-> 0, ratio |-> ratio], [foot |-> 1, ratio |-> One]>> : ratio \in Floats}
Samples == {[i \in 1..n |-> i] : n \in {0, 2, 3, 4, 5}}
Textures ==
  {Ktx2Identifier \o Word(format) : format \in {139, 140, 146}}
  \cup {Ktx2Identifier, Ktx2Identifier \o Word(141) \o <<9>>, Ktx2Identifier \o Word(141) \o <<9, 9>>}

SomeAssets ==
  ("mesh" :> Meshes)
  @@ ("scene" :> Scenes)
  @@ ("texture" :> Textures)
  @@ ("spawn point" :> {Frame})
  @@ ("hitbox" :> [part : {0, 2}, joint : Texts, mesh : {m \in Meshes : Len(m.points) = 2}])
  @@ ("skeleton" :> Skeletons)
  @@ ("animation skeleton" :> Texts)
  @@ ("clip" :> [stride : Floats, contacts : Contacts, archive : {<<>>, <<7, 7>>, <<7, 7, 7>>}])
  @@ ("stance transitions" :> [1..3 -> {One, AHalf, Zero, MinusOne}])
  @@ ("eye" :> {Here})
  @@ ("rifle" :> {<<Frame, Frame, Elsewhere, Frame>>})
  @@ ("weapon socket" :> [right : Texts, frame : {Frame}, left : Texts])
  @@ ("script" :> Texts)
  @@ ("characters" :> UNION {[1..n -> Texts] : n \in 0..2} \cup {<<<<>>, <<>>, <<>>>>})
  @@ ("audio" :> [rate : {48}, bits : {8, 16, 24, 32, 12}, samples : Samples])
  @@ ("cue sound" :> [gain : Floats, variants : {<<>>, <<<<97>>>>, <<<<97>>, <<98>>>>,
                       <<<<97>>, <<98>>, <<99>>>>, <<<<97, 98, 99, 100>>>>}])

-----------------------------------------------------------------------------
AHitbox(path, region) ==
  [type |-> "hitbox", path |-> path,
   data |-> Encode("hitbox", [part |-> region, joint |-> <<>>, mesh |-> [points |-> <<>>, indices |-> <<>>]]).blob]
AScript(path, data) == [type |-> "script", path |-> path, data |-> data]
APack(entries) == [entries |-> entries, client_pack |-> <<>>, key |-> "ours"]

(* Hitboxes "c/2", "c/1" out of order; a pack under another key; a corrupt *)
(* blob; none; two of one path; too long a path, too many, too large.      *)
SomePacks == {
  [APack(<<AHitbox(<<99, 47, 50>>, 0), AScript(<<99>>, <<1>>), AHitbox(<<99, 47, 49>>, 1)>>)
     EXCEPT !.client_pack = <<7>>],
  [APack(<<AScript(<<98>>, <<2, 3>>)>>) EXCEPT !.key = "theirs"],
  APack(<<AScript(<<98>>, <<1, 2, 3>>), [type |-> "eye", path |-> <<>>, data |-> <<>>]>>),
  APack(<<>>),
  APack(<<AScript(<<98>>, <<>>), AScript(<<98>>, <<>>)>>),
  APack(<<AScript(<<1, 2, 3, 4>>, <<>>)>>),
  APack([i \in 1..4 |-> AScript(<<i>>, <<>>)]),
  APack(<<AScript(<<1>>, [i \in 1..100 |-> 1])>>)}

-----------------------------------------------------------------------------
OneAsset == "eye" :> {Here}
OnePack == {APack(<<AScript(<<98>>, <<2, 3>>)>>)}

PacksAlone == BlobsInit /\ PackInit /\ [][PackNext /\ UNCHANGED blobVars]_<<packVars, blobVars>>
=============================================================================
