-------------------------- MODULE MCServerProcess ---------------------------
(***************************************************************************)
(* The two processes, checked one part at a time.  Their threads: the      *)
(* server's from start to stop (ServerRuntime, with Supervisor), the one   *)
(* that writes its captures (CaptureWriter), those its peers' connections  *)
(* are known to (Connections), and a client's own (ClientSession).  And    *)
(* what comes from without: the settings they are started with (Settings), *)
(* the player's keyboard and mouse (Input).  The parts share no variable:  *)
(* a behaviour is one of the part it starts as, and each part's fairness   *)
(* is its own.                                                             *)
(***************************************************************************)
EXTENDS ServerRuntime, CaptureWriter, Connections, ClientSession, Settings, Input

VARIABLE part

threadVars == <<vars, captureVars, connectionsVars, sessionVars>>

-----------------------------------------------------------------------------
(* Settings *)

\* The file that says what texts says at every path, with one fault at a section.
RECURSIVE Section(_, _, _)
Section(texts, prefix, fault) ==
  LET under == {path \in DOMAIN texts : IsStrictPrefix(prefix, path)}
      names == FoldSet(LAMBDA name, rest : Append(rest, name), <<>>, {path[Len(prefix) + 1] : path \in under})
      entries == [i \in DOMAIN names |->
        LET path == Append(prefix, names[i]) IN
        <<names[i], IF path \in under THEN <<"scalar", texts[path]>> ELSE Section(texts, path, fault)>>]
  IN IF fault[1] # prefix THEN <<"map", entries>>
     ELSE CASE fault[2] = "twice" -> <<"map", entries \o <<entries[1]>>>>
            [] fault[2] = "entry" -> <<"map", Append(entries, fault[3])>>
            [] OTHER -> <<fault[2]>>

NoFault == <<<<"nowhere">>, "whole">>
Good(side) ==
  <<"base_dir">> :> "." @@ <<"content", "pack">> :> "p" @@ <<"content", "public_key">> :> "k"
  @@ (IF side = "server" THEN <<"simulation", "tick_rate_hz">> :> "60"
      ELSE <<"player", "character">> :> "c")

Sayings(side) ==
  {<<"base_dir">>, <<"content", "pack">>} \X {""}
  \cup {<<"logging", "level">>} \X {"info", "loud"}
  \cup {<<"debug", "network", "pcapng">>} \X {"", "d"}
  \cup IF side = "server"
       THEN {TickRate, MetricsPort, MaxViewers} \X {"", "0", "255", "256", "65536"}
            \cup {MaxMib} \X {"0", "1"} \cup {Capture, ReplayCaptures} \X {"", "d"}
            \cup {CaptureMode} \X {"strict", "", "both"}
            \cup {<<"debug", "reenactments">>, <<"debug", "physics_recording">>} \X {"true", "maybe"}
       ELSE {Sensitivity} \X {"0", "1"} \cup {<<"debug", "hud">>} \X {"false", "maybe"}
            \cup {KeysSection \o <<c>> : c \in {"fire", "sprint", "jump"}}
                 \X {"W", "Space", "F1", "Escape", "Any"}

Edited(good, sayings) ==
  [path \in DOMAIN good \cup {s[1] : s \in sayings} |->
     IF \E s \in sayings : s[1] = path THEN (CHOOSE s \in sayings : s[1] = path)[2] ELSE good[path]]

FileFaults ==
  {<<prefix, "entry", entry>> : prefix \in {<<>>, <<"content">>},
     entry \in {<<NotAString, <<"scalar", "x">>>>, <<DottedName, <<"scalar", "x">>>>, <<"packs", <<"scalar", "x">>>>,
                <<"logging", <<"null">>>>, <<"logging", <<"scalar", "info">>>>, <<"logging", <<"map", <<>>>>>>,
                <<"logging", <<"map", <<<<"level", <<"sequence">>>>>>>>>>}}
  \cup {<<prefix, kind>> : prefix \in {<<>>, <<"content">>}, kind \in {"twice", "null", "scalar", "sequence"}}

Documents(side) ==
  {Section(Edited(Good(side), {a, b}), <<>>, NoFault) : a, b \in Sayings(side)}
  \cup {Section(Good(side), <<>>, fault) : fault \in FileFaults}
  \cup {Section([p \in DOMAIN Good(side) \ {q} |-> Good(side)[p]], <<>>, NoFault) : q \in DOMAIN Good(side)}

\* The command lines that give some of the options, each with one of its values.
OptionValues ==
  "help" :> {""} @@ "version" :> {""} @@ "bogus" :> {""} @@ "config" :> {"", "f"} @@ "replays" :> {""}
  @@ "replay" :> {"", "r"} @@ "reenact" :> {"", "c"} @@ "player" :> {"0", "1", "256", "x"}
CommandLines ==
  UNION {{line \in [options -> UNION {OptionValues[o] : o \in options}] :
            \A o \in options : line[o] \in OptionValues[o]}
         : options \in {o \in SUBSET DOMAIN OptionValues : Cardinality(o) <= 3}}

\* Every file with no option, and every command line with a file that will do.
NoLaunch == [side |-> "server", line |-> <<>>, root |-> <<"null">>, tools |-> FALSE]
SomeLaunches ==
  {NoLaunch} \cup UNION {[side : {side}, line : {<<>>}, root : Documents(side), tools : BOOLEAN]
         \cup [side : {side}, line : CommandLines, root : {Section(Good(side), <<>>, NoFault)}, tools : {TRUE}]
         : side \in {"server", "client"}}
SomeNumbers == "0" :> 0 @@ "1" :> 1 @@ "60" :> 60 @@ "255" :> 255 @@ "256" :> 256 @@ "65536" :> 65536
SomeKeymap == "move_forward" :> "W" @@ "fire" :> "MouseLeft" @@ "sprint" :> "LeftShift"

-----------------------------------------------------------------------------
InRuntime(A) == part = "runtime" /\ A
InCapture(A) == part = "capture" /\ A
InPeers(A) == part = "peers" /\ A
InSession(A) == part = "session" /\ A

\* What any client may say.
AllKinds == {"Join", "Commands", "Odd"}

\* A part that does not run starts as it may in one way only.
ProcessInit ==
  /\ part \in {"runtime", "capture", "peers", "session", "settings", "input"}
  /\ Init /\ CaptureInit /\ ConnectionsInit /\ SessionInit /\ SettingsInit /\ InputInit
  /\ part # "capture" => mode = "strict"
  /\ part # "peers" => purge
  /\ part # "session" => role = "player"
  /\ part # "settings" => launched = NoLaunch /\ directory.writable
  /\ part # "input" => device.cursor = 0

ProcessNext ==
  \/ /\ UNCHANGED <<part, settingsVars, inputVars>>
     /\ \/ InRuntime(Next) /\ UNCHANGED <<captureVars, connectionsVars, sessionVars>>
        \/ InCapture(CaptureNext) /\ UNCHANGED <<vars, connectionsVars, sessionVars>>
        \/ InPeers(ConnectionsNext) /\ UNCHANGED <<vars, captureVars, sessionVars>>
        \/ InSession(SessionNext) /\ UNCHANGED <<vars, captureVars, connectionsVars>>
  \/ part = "settings" /\ SettingsNext /\ UNCHANGED <<part, threadVars, inputVars>>
  \/ part = "input" /\ InputNext /\ UNCHANGED <<part, threadVars, settingsVars>>

ProcessSpec ==
  /\ ProcessInit /\ [][ProcessNext]_<<part, threadVars, settingsVars, inputVars>>
  /\ WF_vars(InRuntime(RunStep)) /\ WF_vars(InRuntime(NetworkStep))
  /\ WF_vars(InRuntime(SimulationStep))
  /\ \A w \in Workers : WF_vars(InRuntime(Recording(w)))
  /\ WF_captureVars(InCapture(CapturingStep)) /\ WF_captureVars(InCapture(WriterStep))
  /\ WF_connectionsVars(InPeers(RoundStep)) /\ WF_connectionsVars(InPeers(SimulationCloses))
  /\ SF_connectionsVars(InPeers(StartRound /\ now' # now))
  /\ WF_sessionVars(InSession(NetworkThread)) /\ WF_sessionVars(InSession(PredictionThread))
  /\ WF_sessionVars(InSession(RenderThread))
=============================================================================
