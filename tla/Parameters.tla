----------------------------- MODULE Parameters -----------------------------
(***************************************************************************)
(* The Parameters a server runs on: the table its script answers, read key *)
(* by key (scenario/parameters_loader.cpp), and the rules either side      *)
(* judges the values by (gameplay/parameters.cpp).                         *)
(*                                                                         *)
(* A Lua value is <<"nil">>, <<"string", s>>, <<"boolean">>,               *)
(* <<"number", n>>, n in halves, or <<"table", entries>>, entries a set of *)
(* <<key, value>>; a key is <<"string", s>>, <<"number", n>> or            *)
(* <<"boolean">>.  A table whose metatable has a __len has beside its      *)
(* entries the set of what that may answer.  NotFinite stands for every    *)
(* infinity and NaN.                                                       *)
(***************************************************************************)
EXTENDS Integers, SequencesExt, FiniteSetsExt

CONSTANTS
  NamesInOrder,     \* the key names, in the order std::string has them
  MaxPlayers,       \* limits::kMaxPlayers
  MaxRecoilKicks    \* limits::kMaxRecoilKicks

NotFinite == 1000000
AlmostPi == 6      \* the greatest half below pi
MaxCount == 255

-----------------------------------------------------------------------------
(* What a read comes to: nothing wrong, or the error's code and key path.  *)
Fine == <<>>
Refused(code, path) == <<code>> \o path
FirstOf(reads) ==
  LET wrong == {i \in DOMAIN reads : reads[i] # Fine}
  IN IF wrong = {} THEN Fine ELSE reads[Min(wrong)]

-----------------------------------------------------------------------------
(* Tables.  A read of what is no table finds nothing there: the read before *)
(* it has already refused.                                                 *)
Name(s) == <<"string", s>>
Entries(value) == IF value[1] = "table" THEN value[2] ELSE {}
At(table, key) ==
  IF \E entry \in Entries(table) : entry[1] = key
  THEN (CHOOSE entry \in Entries(table) : entry[1] = key)[2] ELSE <<"nil">>
KeysOf(table) == {entry[1] : entry \in Entries(table)}

RootKeys == <<"player_count", "stamina", "rifle", "ammo", "starting_health">>
StaminaKeys == <<"deplete_per_second", "regen_per_second", "forced_walk_below">>
FiringKeys == <<"rounds_per_minute", "muzzle_velocity", "reload_seconds", "recoil_recovery_per_second">>
AimingKeys == <<"ads_recoil_scale", "ads_field_of_view", "zero_range">>
RifleKeys == <<"magazine_capacity">> \o FiringKeys \o <<"recoil_pattern">> \o AimingKeys
KickKeys == <<"pitch", "yaw">>
FlightKeys == <<"gravity", "max_range">>
AmmoKeys == FlightKeys \o <<"damage">>
DamageKeys == <<"head", "torso", "limb">>

Elements(names) == {names[i] : i \in DOMAIN names}

\* A key that is no string is named for its type, which comes before every name.
KeyName(key) == IF key[1] = "string" THEN key[2] ELSE "<" \o key[1] \o " key>"
Rank(name) == IF name \in Elements(NamesInOrder)
              THEN CHOOSE i \in DOMAIN NamesInOrder : NamesInOrder[i] = name ELSE 0

FirstUnknownKey(table, path, known) ==
  LET unknown == {KeyName(key) : key \in {k \in KeysOf(table) : k \notin {Name(s) : s \in Elements(known)}}}
  IN IF unknown = {} THEN Fine
     ELSE Refused("kUnknownKey",
                  Append(path, CHOOSE name \in unknown : \A other \in unknown : Rank(name) <= Rank(other)))

ReadNumber(table, path, key) ==
  LET value == At(table, Name(key)) IN
  CASE value[1] = "nil" -> Refused("kMissingKey", Append(path, key))
    [] value[1] # "number" -> Refused("kWrongType", Append(path, key))
    [] OTHER -> Fine

ReadCount(table, path, key) ==
  LET read == ReadNumber(table, path, key)
      n == At(table, Name(key))[2]
  IN CASE read # Fine -> read
       [] n = NotFinite \/ n < 0 \/ n > 2 * MaxCount -> Refused("kOutOfRange", Append(path, key))
       [] n % 2 # 0 -> Refused("kWrongType", Append(path, key))
       [] OTHER -> Fine

ReadTable(table, path, key, known) ==
  LET value == At(table, Name(key)) IN
  CASE value[1] = "nil" -> Refused("kMissingKey", Append(path, key))
    [] value[1] # "table" -> Refused("kWrongType", Append(path, key))
    [] OTHER -> FirstUnknownKey(value, Append(path, key), known)

ReadFloats(table, path, keys) == FirstOf([i \in DOMAIN keys |-> ReadNumber(table, path, keys[i])])

ReadStamina(root) ==
  FirstOf(<<ReadTable(root, <<>>, "stamina", StaminaKeys),
            ReadFloats(At(root, Name("stamina")), <<"stamina">>, StaminaKeys)>>)

\* External: Lua's length of a table that has holes may be any of its borders.
Borders(table) ==
  LET at(n) == <<"number", 2 * n>> \in KeysOf(table)
  IN {n \in 0..Cardinality(KeysOf(table)) + 2 : (n = 0 \/ at(n)) /\ ~at(n + 1)}

\* External: what size() comes to, each time it is asked.  It follows a __len,
\* which may answer otherwise the next time, or raise an error.
LenRaises == -1
Lengths(table) == IF Len(table) = 3 THEN table[3] ELSE Borders(table)

\* The lengths the loading is told: IsList's first, then one a turn of the loop
\* over a list, which has nothing at the turn past its last.
Askings(table) == [0..Cardinality(KeysOf(table)) + 1 -> Lengths(table)]

\* How many turns the loop makes, and whether an error ends it.  No protected
\* call is under way, so it ends the process too.
Turns(asked) ==
  LET over == {i \in DOMAIN asked \ {0} : asked[i] < i} IN IF over = {} THEN Max(DOMAIN asked) ELSE Min(over) - 1
LoopRaises(asked) == Turns(asked) + 1 \in DOMAIN asked /\ asked[Turns(asked) + 1] = LenRaises
Aborted == <<"aborted">>

IsList(table, length) ==
  /\ Cardinality(KeysOf(table)) = length
  /\ \A key \in KeysOf(table) : key[1] = "number" /\ key[2] \in {2 * i : i \in 1..length}

Index(i) == "[" \o ToString(i) \o "]"
RecoilPattern(root) == At(At(root, Name("rifle")), Name("recoil_pattern"))
ReadKick(kick, path) ==
  IF kick[1] # "table" THEN Refused("kWrongType", path)
  ELSE FirstOf(<<FirstUnknownKey(kick, path, KickKeys), ReadFloats(kick, path, KickKeys)>>)
ReadRecoilPattern(root, asked) ==
  LET pattern == RecoilPattern(root)
      path    == <<"rifle", "recoil_pattern">>
  IN CASE pattern[1] = "nil" -> Refused("kMissingKey", path)
       [] pattern[1] = "table" /\ asked[0] = LenRaises -> Aborted
       [] pattern[1] # "table" \/ ~IsList(pattern, asked[0]) -> Refused("kWrongType", path)
       [] OTHER ->
            FirstOf([i \in 1..Turns(asked) |-> ReadKick(At(pattern, <<"number", 2 * i>>), Append(path, Index(i)))]
                    \o <<IF LoopRaises(asked) THEN Aborted ELSE Fine>>)

ReadRifleKeys(root, asked) ==
  LET rifle == At(root, Name("rifle"))
      path  == <<"rifle">>
  IN FirstOf(<<ReadTable(root, <<>>, "rifle", RifleKeys), ReadCount(rifle, path, "magazine_capacity"),
               ReadFloats(rifle, path, FiringKeys), ReadRecoilPattern(root, asked),
               ReadFloats(rifle, path, AimingKeys)>>)

ReadAmmo(root) ==
  LET ammo == At(root, Name("ammo")) IN
  FirstOf(<<ReadTable(root, <<>>, "ammo", AmmoKeys), ReadFloats(ammo, <<"ammo">>, FlightKeys),
            ReadTable(ammo, <<"ammo">>, "damage", DamageKeys),
            ReadFloats(At(ammo, Name("damage")), <<"ammo", "damage">>, DamageKeys)>>)

-----------------------------------------------------------------------------
(* The values: of a key at its path, and the pattern's kicks.              *)
ValueAt(root, path) == FoldLeft(LAMBDA table, key : At(table, Name(key)), root, path)[2]
\* Each value and the range it is judged by, in the order of Validate, the recoil
\* pattern's between the two lists.
RulesUpToZeroRange ==
  <<<<<<"player_count">>, "players">>,
    <<<<"stamina", "deplete_per_second">>, "at least 0">>, <<<<"stamina", "regen_per_second">>, "at least 0">>,
    <<<<"stamina", "forced_walk_below">>, "below 1">>,
    <<<<"rifle", "rounds_per_minute">>, "above 0">>, <<<<"rifle", "muzzle_velocity">>, "above 0">>,
    <<<<"rifle", "reload_seconds">>, "at least 0">>,
    <<<<"rifle", "recoil_recovery_per_second">>, "at least 0">>,
    <<<<"rifle", "ads_recoil_scale">>, "at most 1">>, <<<<"rifle", "ads_field_of_view">>, "below pi">>,
    <<<<"rifle", "zero_range">>, "above 0">>>>
RulesFromTheMagazine ==
  <<<<<<"rifle", "magazine_capacity">>, "at least 1">>,
    <<<<"ammo", "gravity">>, "at least 0">>, <<<<"ammo", "max_range">>, "above 0">>,
    <<<<"ammo", "damage", "head">>, "at least 0">>, <<<<"ammo", "damage", "torso">>, "at least 0">>,
    <<<<"ammo", "damage", "limb">>, "at least 0">>, <<<<"starting_health">>, "above 0">>>>
Rules == RulesUpToZeroRange \o RulesFromTheMagazine

ParametersOf(root, kicks) ==
  [value |-> [path \in {rule[1] : rule \in Elements(Rules)} |-> ValueAt(root, path)],
   kicks |-> [i \in 1..kicks |->
     LET kick == At(RecoilPattern(root), <<"number", 2 * i>>)
     IN [axis \in Elements(KickKeys) |-> At(kick, Name(axis))[2]]]]

InRange(range, n) ==
  /\ n # NotFinite
  /\ CASE range = "players" -> n >= 2 /\ n <= 2 * MaxPlayers
       [] range = "at least 0" -> n >= 0
       [] range = "above 0" -> n > 0
       [] range = "below 1" -> n >= 0 /\ n < 2
       [] range = "at most 1" -> n > 0 /\ n <= 2
       [] range = "below pi" -> n > 0 /\ n <= AlmostPi
       [] range = "at least 1" -> n >= 2

\* The first value the simulation cannot run on, in the order they are judged.
Validate(parameters) ==
  LET Judge(rules) ==
        [i \in DOMAIN rules |->
           IF InRange(rules[i][2], parameters.value[rules[i][1]]) THEN Fine
           ELSE Refused("kOutOfRange", rules[i][1])]
      pattern ==
        IF Len(parameters.kicks) <= MaxRecoilKicks
           /\ \A i \in DOMAIN parameters.kicks :
                \A axis \in Elements(KickKeys) : parameters.kicks[i][axis] # NotFinite
        THEN Fine ELSE Refused("kOutOfRange", <<"rifle", "recoil_pattern">>)
  IN FirstOf(Judge(RulesUpToZeroRange) \o <<pattern>> \o Judge(RulesFromTheMagazine))

\* What the script answered, or <<"error">>: what is wrong with it, asked being
\* the lengths its recoil pattern is said to have.
LoadParameters(answer, asked) ==
  LET read == FirstOf(<<FirstUnknownKey(answer, <<>>, RootKeys), ReadCount(answer, <<>>, "player_count"),
                        ReadStamina(answer), ReadRifleKeys(answer, asked), ReadAmmo(answer),
                        ReadNumber(answer, <<>>, "starting_health")>>)
  IN CASE answer[1] = "error" -> Refused("kScriptError", <<>>)
       [] answer[1] # "table" -> Refused("kNotATable", <<>>)
       [] read # Fine -> read
       [] OTHER -> Validate(ParametersOf(answer, Turns(asked)))
=============================================================================
