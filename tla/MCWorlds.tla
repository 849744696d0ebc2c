----------------------------- MODULE MCWorlds ------------------------------
(***************************************************************************)
(* What becomes of a World's ticks, checked one part at a time: a tick of  *)
(* the live World (Simulation), a captured Match run again (Replay), the   *)
(* server that runs such Replays for viewers (ReplayServer), the directory *)
(* that keeps captures (CaptureDirectory), the packs a World's content     *)
(* comes from, blob by blob (Blobs) and whole (Pack), the commands a       *)
(* client sends until a tick runs them (CommandDelivery), what it shows of *)
(* the World's states (ClientView), the rules a World plays by (Scripts),  *)
(* and the file a Match is captured in (CaptureFile).  The parts share no  *)
(* variable: a behaviour is one of the part it starts as, the others as    *)
(* they may start.                                                         *)
(***************************************************************************)
EXTENDS Simulation, Replay, ReplayServer, CaptureDirectory, MCAssets, CommandDelivery, ClientView, Scripts,
  CaptureFile

CONSTANTS p1, p2

VARIABLE part

\* A head shot kills at once, two limb shots do.
DamageOfParts == [where \in {"head", "limb"} |-> IF where = "head" THEN 2 ELSE 1]

Seen == {-1}
OneKill == {<<2, 1>>}

\* An empty directory, and one of two captures and a file that is none.
SomeDirectories ==
  {<<>>} \cup {[name \in -2..0 |-> [size |-> size, capture |-> name # -1]] : size \in 1..2}

-----------------------------------------------------------------------------
(* Scripts *)

Number(n) == <<"number", 2 * n>>
String(s) == <<"string", s>>
LuaRecord(entries) == <<"table", {<<String(entry[1]), entry[2]>> : entry \in entries}>>
LuaList(objects) == <<"table", {<<Number(i), objects[i]>> : i \in DOMAIN objects}>>
PlacedAt(session, point) == LuaRecord({<<"session", String(session)>>, <<"spawn_point", point>>})

\* Answers to either hook, right and wrong in every way they are read by.
SomeObjects ==
  {<<"nil">>, <<"function">>, Number(1), <<"boolean", TRUE>>, LuaList(<<>>), LuaList(<<LuaList(<<Number(1)>>)>>),
   LuaRecord({<<"draw", <<"boolean", TRUE>>>>}), LuaRecord({<<"draw", <<"boolean", FALSE>>>>}),
   LuaRecord({<<"winner", String("a")>>, <<"draw", <<"boolean", TRUE>>>>}),
   <<"table", {<<String("winner"), String("a")>>, <<Number(1), Number(1)>>}>>,
   <<"table", {<<<<"boolean", TRUE>>, Number(1)>>}>>, <<"table", {<<Number(2), Number(1)>>}>>}
  \cup {LuaRecord({<<"winner", winner>>}) : winner \in {String("a"), String("b"), String(NoSession), Number(1)}}
  \cup {LuaList(<<PlacedAt("a", point)>>) : point \in {Number(0), Number(2), Number(3), <<"number", 3>>, String("a")}}
  \cup {LuaList(<<PlacedAt("b", Number(point)), PlacedAt("a", Number(1))>>) : point \in 1..2}
  \cup {LuaList(<<PlacedAt("a", Number(2)), PlacedAt("a", Number(1))>>),
        LuaList(<<PlacedAt(NoSession, Number(2)), PlacedAt(NoSession, Number(1))>>),
        LuaList(<<LuaRecord({<<"session", String("a")>>})>>)}

SomeRosters == {<<"a">>, <<"a", "b">>, <<NoSession, NoSession>>}

-----------------------------------------------------------------------------
(* CaptureFile *)

\* Joins and events of two players and of one there is not, in any order; the
\* header again; a record too long for a frame.
Written(kind, offset, named, winner) ==
  [kind |-> kind, offset |-> offset, players |-> named, winner |-> winner]
AnyRecords ==
  {Written("join", offset, <<player>>, 0) : offset \in 0..1, player \in 0..2}
  \cup {Written("command", offset, <<player>>, 0) : offset \in 0..2, player \in 0..2}
  \cup {Written("death", 1, named, 0) : named \in {<<1, 2>>, <<2, 0>>}}
  \cup {Written("end", offset, <<>>, winner) : offset \in 1..2, winner \in 0..2}
  \cup {Header, Written("long", 0, <<>>, 0)}
PayloadSizes(record) ==
  IF record.kind = "long" THEN 3 ELSE IF record.kind \in {"command", "death"} THEN 2 ELSE 1

-----------------------------------------------------------------------------
\* A part that does not run starts as it may in one way only.
WorldsInit ==
  /\ ReplayAssumption /\ FileAssumption
  /\ part \in {"world", "replay", "server", "directory", "blobs", "pack", "commands", "view", "scripts",
              "capture file"}
  /\ WorldInit /\ ReplayInit /\ ReplayServerInit /\ DirectoryInit
  /\ BlobsInit /\ PackInit /\ Init /\ ViewInit /\ ScriptsInit /\ CaptureFileInit
  /\ part # "directory" => files = <<>> /\ limits = [files |-> NoLimit, bytes |-> NoLimit]
  /\ part # "blobs" => cooked.type = "eye"
  /\ part # "capture file" => file = CaptureHeader(<<NumberByte(FormatVersion)>>)

worldsVars == <<worldVars, replayVars, replayServerVars, directoryVars>>
assetVars == <<blobVars, packVars>>
matchVars == <<vars, viewVars, scriptVars, fileVars>>

WorldsNext ==
  \/ /\ UNCHANGED <<part, assetVars, matchVars>>
     /\ \/ part = "world" /\ WorldNext /\ UNCHANGED <<replayVars, replayServerVars, directoryVars>>
        \/ part = "replay" /\ ReplayNext /\ UNCHANGED <<worldVars, replayServerVars, directoryVars>>
        \/ part = "server" /\ ReplayServerNext /\ UNCHANGED <<worldVars, replayVars, directoryVars>>
        \/ part = "directory" /\ DirectoryNext /\ UNCHANGED <<worldVars, replayVars, replayServerVars>>
  \/ /\ UNCHANGED <<part, worldsVars, matchVars>>
     /\ \/ part = "blobs" /\ BlobsNext /\ UNCHANGED packVars
        \/ part = "pack" /\ PackNext /\ UNCHANGED blobVars
  \/ /\ UNCHANGED <<part, worldsVars, assetVars>>
     /\ \/ part = "commands" /\ Next /\ UNCHANGED <<viewVars, scriptVars, fileVars>>
        \/ part = "view" /\ ViewNext /\ UNCHANGED <<vars, scriptVars, fileVars>>
        \/ part = "scripts" /\ ScriptsNext /\ UNCHANGED <<vars, viewVars, fileVars>>
        \/ part = "capture file" /\ CaptureFileNext /\ UNCHANGED <<vars, viewVars, scriptVars>>

WorldsSpec == WorldsInit /\ [][WorldsNext]_<<part, worldsVars, assetVars, matchVars>>
=============================================================================
