------------------------------ MODULE Settings ------------------------------
(***************************************************************************)
(* What a process is started with: its command line (config/               *)
(* command_line.cpp), its YAML file flattened into dotted paths            *)
(* (config/config.cpp), and what either side makes of them                 *)
(* (config/server_config.cpp, config/client_config.cpp), in the order it   *)
(* does, for one of the last things read creates a directory.              *)
(*                                                                         *)
(* A path is a sequence of names.  A YAML node is <<"scalar", text>>,      *)
(* <<"null">>, <<"sequence">> or <<"map", entries>>, entries a sequence of *)
(* <<name, node>>; a key that is no plain string, or that has a dot in it, *)
(* is a name of its own.  Texts are few: NumberOf says which are numbers,  *)
(* and whatever is not "" is a path.                                       *)
(***************************************************************************)
EXTENDS Naturals, Sequences, SequencesExt, FiniteSetsExt

CONSTANTS
  Launches,       \* how a process may be launched: its side, "server" or
                  \* "client", its command line, the root of its file, and
                  \* whether the build has AUGUSTA_DEBUG_TOOLS
  NumberOf,       \* [text -> its number], for those that are whole numbers
  Controls,       \* input::Control
  Keys,           \* the names window::Key knows
  DefaultKeymap   \* input::kDefaultKeymap

NotAString == "not a string"
DottedName == "content.pack"
ReservedKeys == {"Escape", "F1"}

ASSUME SettingsAssumption ==
  /\ \A launch \in Launches : launch.side \in {"server", "client"}
  /\ DefaultKeymap \in [Controls -> Keys \ ReservedKeys]
  /\ \A a, b \in Controls : DefaultKeymap[a] = DefaultKeymap[b] => a = b

VARIABLES
  launched,  \* one of Launches: [side, line, root, tools]
  reading,   \* how far the process has read
  values,    \* ConfigValues: [path -> text]
  config,    \* the ServerConfig or ClientConfig read so far: [path -> text]
  wrong,     \* the error's subject: a path, an option, or none
  directory  \* whether the pcapng's directory was created, and can be written

settingsVars == <<launched, reading, values, config, wrong, directory>>

SettingsInit ==
  /\ launched \in Launches
  /\ reading = "arguments" /\ values = <<>> /\ config = <<>> /\ wrong = <<>>
  /\ directory \in [made : {FALSE}, writable : BOOLEAN]

RefuseFor(subject) == reading' = "refused" /\ wrong' = subject

-----------------------------------------------------------------------------
(* The command line: [option -> its value] of those given, "" for one that  *)
(* takes none.                                                             *)

HasOption(option) == option \in DOMAIN launched.line

\* Anything Boost does not know is an error, before all else.
KnownOptions ==
  {"help", "version", "config"}
  \cup (IF launched.side = "client" THEN {"replays", "replay", "reenact", "player"} ELSE {})

ParseCommandLine ==
  /\ reading = "arguments"
  /\ CASE ~(DOMAIN launched.line \subseteq KnownOptions) -> RefuseFor(<<"arguments">>)
       [] HasOption("help") \/ HasOption("version") -> reading' = "told" /\ wrong' = wrong
       [] HasOption("config") /\ launched.line["config"] = "" -> RefuseFor(<<"config">>)
       [] OTHER -> reading' = "run" /\ wrong' = wrong
  /\ UNCHANGED <<launched, values, config, directory>>

\* What a run of augustac is for.  augustad's is always the same.
ReadClientRun ==
  /\ reading = "run"
  /\ CASE HasOption("replay") /\ HasOption("replays") -> RefuseFor(<<"replay">>)
       [] HasOption("replay") /\ launched.line["replay"] = "" -> RefuseFor(<<"replay">>)
       [] OTHER -> reading' = "file" /\ wrong' = wrong
  /\ UNCHANGED <<launched, values, config, directory>>

\* After the config, and only if the run is not for a list of Replays.
ReadReenactArguments ==
  LET player == launched.line["player"] IN
  /\ reading = "reenactment"
  /\ CASE ~HasOption("reenact") /\ ~HasOption("player") -> reading' = "started" /\ wrong' = wrong
       [] ~(HasOption("reenact") /\ HasOption("player")) -> RefuseFor(<<"reenact">>)
       [] HasOption("replay") \/ HasOption("replays") -> RefuseFor(<<"reenact">>)
       [] launched.line["reenact"] = "" -> RefuseFor(<<"reenact">>)
       [] player \notin DOMAIN NumberOf -> RefuseFor(<<"reenact">>)
       [] NumberOf[player] \notin 1..255 -> RefuseFor(<<"reenact">>)
       [] OTHER -> reading' = "started" /\ wrong' = wrong
  /\ UNCHANGED <<launched, values, config, directory>>

-----------------------------------------------------------------------------
(* The schema and the file *)

ServerKeys ==
  {<<"base_dir">>, <<"content", "pack">>, <<"content", "public_key">>,
   <<"simulation", "tick_rate_hz">>, <<"simulation", "capture">>, <<"simulation", "capture_mode">>,
   <<"simulation", "capture_retention", "max_files">>, <<"simulation", "capture_retention", "max_mib">>,
   <<"network", "listen_address">>, <<"logging", "level">>, <<"metrics", "port">>,
   <<"replay", "captures">>, <<"replay", "max_viewers">>}
ServerFlags ==
  <<<<"debug", "reenactments">>, <<"debug", "shot_judgements">>, <<"debug", "physics_recording">>>>

ClientKeys ==
  {<<"base_dir">>, <<"content", "pack">>, <<"content", "public_key">>, <<"player", "character">>,
   <<"network", "server_address">>, <<"logging", "level">>, <<"input", "mouse_sensitivity">>}
ClientFlags ==
  <<<<"debug", "hud">>, <<"debug", "profiling", "panel">>, <<"debug", "network", "panel">>,
    <<"debug", "physics", "panel">>, <<"debug", "physics", "collision">>,
    <<"debug", "physics", "server_bodies">>, <<"debug", "physics", "hitboxes">>,
    <<"debug", "physics", "shot_judgements">>, <<"debug", "physics_recording">>>>

NetworkPcapng == <<"debug", "network", "pcapng">>
KeysSection == <<"input", "keys">>

Flags == IF launched.side = "server" THEN ServerFlags ELSE ClientFlags
SchemaKeys ==
  (IF launched.side = "server" THEN ServerKeys ELSE ClientKeys)
  \cup (IF launched.tools THEN ToSet(Flags) \cup {NetworkPcapng} ELSE {})
OpenSections == IF launched.side = "server" THEN {} ELSE {KeysSection}

IsSection(path) ==
  \/ \E section \in OpenSections : IsPrefix(path, section)
  \/ \E key \in SchemaKeys : IsStrictPrefix(path, key)
InOpenSection(path) == Front(path) \in OpenSections

\* An error at path, or the values read up to the end of entries.
Bad(path) == [wrong |-> path, values |-> <<>>]

\* Flatten: entry after entry, up to the first that is wrong.
RECURSIVE Flatten(_, _, _, _)
Flatten(entries, section, seen, read) ==
  IF entries = <<>> THEN [wrong |-> <<>>, values |-> read]
  ELSE LET name == entries[1][1]
           node == entries[1][2]
           path == Append(section, name)
           after(result) == Flatten(Tail(entries), section, seen \cup {name}, result)
           nested == Flatten(node[2], path, {}, read)
       IN CASE name \in {NotAString, DottedName} -> Bad(path)
            [] name \in seen -> Bad(path)
            [] IsSection(path) -> CASE node[1] = "null" -> after(read)
                                    [] node[1] # "map" -> Bad(path)
                                    [] nested.wrong # <<>> -> nested
                                    [] OTHER -> after(nested.values)
            [] path \notin SchemaKeys /\ ~InOpenSection(path) -> Bad(path)
            [] node[1] # "scalar" -> Bad(path)
            [] OTHER -> after([p \in DOMAIN read \cup {path} |-> IF p = path THEN node[2] ELSE read[p]])

\* LoadConfigFile as far as ReadConfigValues.  A file that cannot be opened, or
\* is no YAML mapping, has no root.
ReadConfigValues ==
  LET root == launched.root
      flat == Flatten(root[2], <<>>, {}, <<>>) IN
  /\ reading = "file"
  /\ IF root[1] # "map" THEN RefuseFor(<<"file">>) /\ values' = values
     ELSE IF flat.wrong # <<>> THEN RefuseFor(flat.wrong) /\ values' = values
     ELSE reading' = "fields" /\ wrong' = wrong /\ values' = flat.values
  /\ UNCHANGED <<launched, config, directory>>

-----------------------------------------------------------------------------
(* Reading one key: whether what the file says of it, or leaves out, will do *)

IsGiven(key) == key \in DOMAIN values

RequireString(key) == IsGiven(key) /\ values[key] # ""
RequirePath(key) == RequireString(key)
RequireWholeNumber(key, min, max) ==
  /\ RequireString(key) /\ values[key] \in DOMAIN NumberOf
  /\ NumberOf[values[key]] \in min..max
\* Any number above zero; those of NumberOf do.
RequirePositiveNumber(key) ==
  RequireString(key) /\ values[key] \in DOMAIN NumberOf /\ NumberOf[values[key]] > 0

Optional(key, fits) == IsGiven(key) => fits
OptionalFlag(key) == Optional(key, values[key] \in {"true", "false"})
OptionalLogLevel(key) == Optional(key, values[key] \in {"trace", "debug", "info", "warn", "error", "critical"})
OptionalStrict(key) == Optional(key, values[key] \in {"optional", "strict"})

\* A step that reads keys in their order, up to the first that does not fit.
ReadInOrder(keys, Fits(_), next) ==
  LET misfits == {i \in DOMAIN keys : ~Fits(keys[i])} IN
  IF misfits # {} THEN RefuseFor(keys[Min(misfits)]) ELSE reading' = next /\ wrong' = wrong

\* What keys are given in config, those the file leaves out not among them.
TakeValues(keys) ==
  [key \in DOMAIN config \cup {k \in keys : IsGiven(k)} |->
     IF IsGiven(key) THEN values[key] ELSE config[key]]

-----------------------------------------------------------------------------
(* The server's *)

Capture == <<"simulation", "capture">>
CaptureMode == <<"simulation", "capture_mode">>
MaxFiles == <<"simulation", "capture_retention", "max_files">>
MaxMib == <<"simulation", "capture_retention", "max_mib">>
ReplayCaptures == <<"replay", "captures">>
MaxViewers == <<"replay", "max_viewers">>
TickRate == <<"simulation", "tick_rate_hz">>
MetricsPort == <<"metrics", "port">>
LogLevel == <<"logging", "level">>

ServerReads ==
  <<<<"base_dir">>, <<"content", "pack">>, <<"content", "public_key">>, TickRate, LogLevel, Capture,
    CaptureMode, MaxFiles, MaxMib, MetricsPort>>

\* kMaxCaptureLimit is above every number of the model.
ServerFits(key) ==
  CASE key = TickRate -> RequireWholeNumber(key, 1, 255)
    [] key = LogLevel -> OptionalLogLevel(key)
    [] key = Capture -> Optional(key, RequirePath(key))
    [] key = CaptureMode -> OptionalStrict(key)
    [] key \in {MaxFiles, MaxMib} -> Optional(key, RequireWholeNumber(key, 1, 2 ^ 30))
    [] key = MetricsPort -> Optional(key, RequireWholeNumber(key, 1, 65535))
    [] OTHER -> RequirePath(key)

ServerConfigFrom ==
  /\ launched.side = "server" /\ reading = "fields"
  /\ ReadInOrder(ServerReads, ServerFits, "replay")
  /\ config' = IF reading' = "replay" THEN TakeValues(ServerKeys \ {ReplayCaptures, MaxViewers}) ELSE config
  /\ UNCHANGED <<launched, values, directory>>

\* What a replay server may not set: it runs no Match.
OfAMatch ==
  <<Capture, CaptureMode, MaxFiles, MaxMib, <<"debug", "reenactments">>, <<"debug", "shot_judgements">>>>

ReadReplay ==
  LET NotSet(key) == ~IsGiven(key)
      ReplayFits(key) == CASE key = ReplayCaptures -> Optional(key, RequirePath(key))
                           [] key = MaxViewers -> /\ IsGiven(key) => IsGiven(ReplayCaptures)
                                                  /\ Optional(key, RequireWholeNumber(key, 1, 255))
                           [] OTHER -> IsGiven(ReplayCaptures) => NotSet(key)
  IN /\ reading = "replay"
     /\ ReadInOrder(<<ReplayCaptures>> \o OfAMatch \o <<MaxViewers>>, ReplayFits,
                    IF launched.tools THEN "debug" ELSE "started")
     /\ config' = IF reading' # "refused" THEN TakeValues({ReplayCaptures, MaxViewers}) ELSE config
     /\ UNCHANGED <<launched, values, directory>>

-----------------------------------------------------------------------------
(* The client's *)

\* A client that lists Replays is done with its config.
AfterConfig == IF launched.side = "client" /\ ~HasOption("replays") THEN "reenactment" ELSE "started"

Sensitivity == <<"input", "mouse_sensitivity">>
ClientReads == <<<<"base_dir">>, <<"content", "pack">>, <<"content", "public_key">>,
                 <<"player", "character">>, LogLevel, Sensitivity>>

ClientFits(key) ==
  CASE key = LogLevel -> OptionalLogLevel(key)
    [] key = Sensitivity -> Optional(key, RequirePositiveNumber(key))
    [] OTHER -> RequireString(key)

\* input.keys, over the defaults: [control -> key].
Bindings == {path \in DOMAIN values : IsStrictPrefix(KeysSection, path)}
Keymap == [control \in Controls |->
             LET path == Append(KeysSection, control) IN
             IF IsGiven(path) THEN values[path] ELSE DefaultKeymap[control]]

\* Mutant: a binding is compared with the file's others and no default.
MutParseKeymap ==
  LET Unfit(path) == Last(path) \notin Controls \/ values[path] \notin Keys \ ReservedKeys
      Shared(path) == \E other \in Bindings \ {path} : values[other] = values[path]
  IN IF \E path \in Bindings : Unfit(path)
     THEN {path \in Bindings : Unfit(path)} ELSE {path \in Bindings : Shared(path)}

\* A binding that names no control, no key or a reserved one; then one that
\* shares its key.
ParseKeymap ==
  LET Unfit(path) == Last(path) \notin Controls \/ values[path] \notin Keys \ ReservedKeys
      Shared(path) == \E control \in Controls \ {Last(path)} : Keymap[control] = values[path]
  IN IF \E path \in Bindings : Unfit(path)
     THEN {path \in Bindings : Unfit(path)} ELSE {path \in Bindings : Shared(path)}

ClientConfigFrom ==
  /\ launched.side = "client" /\ reading = "fields"
  /\ IF \E i \in DOMAIN ClientReads : ~ClientFits(ClientReads[i])
     THEN ReadInOrder(ClientReads, ClientFits, "fields")
     ELSE IF ParseKeymap # {} THEN \E path \in ParseKeymap : RefuseFor(path)
     ELSE reading' = (IF launched.tools THEN "debug" ELSE AfterConfig) /\ wrong' = wrong
  /\ config' = IF reading' # "refused" THEN TakeValues(ClientKeys \cup Bindings) ELSE config
  /\ UNCHANGED <<launched, values, directory>>

-----------------------------------------------------------------------------
(* The debug section, last: ReadDebug, ParseDebugConfig *)

ReadDebug ==
  /\ reading = "debug"
  /\ ReadInOrder(Flags, OptionalFlag, "directory")
  /\ config' = IF reading' = "directory" THEN TakeValues(ToSet(Flags)) ELSE config
  /\ UNCHANGED <<launched, values, directory>>

OptionalWritableDirectory ==
  /\ reading = "directory"
  /\ IF ~IsGiven(NetworkPcapng)
     THEN reading' = AfterConfig /\ UNCHANGED <<wrong, config, directory>>
     ELSE IF ~RequirePath(NetworkPcapng)
     THEN RefuseFor(NetworkPcapng) /\ UNCHANGED <<config, directory>>
     ELSE /\ directory' = [directory EXCEPT !.made = TRUE]
          /\ IF directory.writable
             THEN reading' = AfterConfig /\ wrong' = wrong /\ config' = TakeValues({NetworkPcapng})
             ELSE RefuseFor(NetworkPcapng) /\ config' = config
  /\ UNCHANGED <<launched, values>>

SettingsNext ==
  \/ ParseCommandLine \/ ReadClientRun \/ ReadReenactArguments \/ ReadConfigValues
  \/ ServerConfigFrom \/ ReadReplay \/ ClientConfigFrom \/ ReadDebug \/ OptionalWritableDirectory

SettingsSpec == SettingsInit /\ [][SettingsNext]_settingsVars

-----------------------------------------------------------------------------
(* Properties *)

\* Every <<path, node>> of a file, three sections deep.
EntriesOf(node) == IF node[1] = "map" THEN ToSet(node[2]) ELSE {}
Under(places) == UNION {{<<Append(place[1], e[1]), e[2]>> : e \in EntriesOf(place[2])} : place \in places}
Nodes == LET one == Under({<<<<>>, launched.root>>}) IN
         one \cup Under(one) \cup Under(Under(one))

WellFormed ==
  /\ launched.root[1] = "map"
  /\ \A place \in Nodes \cup {<<<<>>, launched.root>>} :
       LET node == place[2] IN
       /\ node[1] = "map" => \A i, j \in DOMAIN node[2] : node[2][i][1] = node[2][j][1] => i = j
       /\ place[1] # <<>> =>
            /\ Last(place[1]) \notin {NotAString, DottedName}
            /\ CASE node[1] = "scalar" -> place[1] \in SchemaKeys \/ InOpenSection(place[1])
                 [] node[1] = "sequence" -> FALSE
                 [] OTHER -> IsSection(place[1])

Scalars == {place \in Nodes : place[2][1] = "scalar"}

\* A file is read whole or refused: a key that is misspelt, twice, in the wrong
\* section or of the wrong kind never falls back to a default in silence.
FileIsReadWhole ==
  /\ reading \in {"fields", "replay", "debug", "directory"} =>
       /\ WellFormed /\ DOMAIN values = {place[1] : place \in Scalars}
       /\ \A place \in Scalars : values[place[1]] = place[2][2]
  /\ reading = "refused" /\ values = <<>> /\ wrong \notin {<<"arguments">>, <<"config">>, <<"replay">>} => ~WellFormed

ConfigIsRead == reading \in {"reenactment", "started"}

\* What a process starts with is what its file says, all of it, and holds
\* together: no replay server has a Match's settings, no two controls a key, no
\* control a reserved one, and every number is in its range.
ConfigHoldsTogether ==
  ConfigIsRead =>
    /\ config = values
    /\ {<<"base_dir">>, <<"content", "pack">>, <<"content", "public_key">>} \subseteq DOMAIN config
    /\ launched.side = "server" =>
         /\ ReplayCaptures \in DOMAIN config => ToSet(OfAMatch) \cap DOMAIN config = {}
         /\ MaxViewers \in DOMAIN config => ReplayCaptures \in DOMAIN config
         /\ NumberOf[config[TickRate]] \in 1..255
         /\ \A key \in {MaxFiles, MaxMib, MetricsPort, MaxViewers} \cap DOMAIN config :
              NumberOf[config[key]] \in 1..(IF key = MaxViewers THEN 255 ELSE 65535)
    /\ launched.side = "client" =>
         /\ \A control \in Controls : Keymap[control] \in Keys \ ReservedKeys
         /\ \A a, b \in Controls : Keymap[a] = Keymap[b] => a = b
    /\ ~launched.tools => \A key \in DOMAIN config : key[1] # "debug"

\* A config refused for anything but its directory has created none.
RefusedCreatesNothing ==
  /\ directory.made /\ reading = "refused" => wrong \in {NetworkPcapng, <<"reenact">>}
  /\ directory.made => WellFormed /\ launched.tools

\* A run watches a Replay or plays a captured player again, never both, and
\* plays one only if it was told which.
OneRunOfAKind ==
  reading = "started" =>
    /\ ~HasOption("help") /\ ~HasOption("version")
    /\ HasOption("replay") => ~HasOption("replays") /\ ~HasOption("reenact") /\ ~HasOption("player")
    /\ ~HasOption("replays") => (HasOption("reenact") <=> HasOption("player"))

SettingsInv == FileIsReadWhole /\ ConfigHoldsTogether /\ RefusedCreatesNothing /\ OneRunOfAKind
=============================================================================
