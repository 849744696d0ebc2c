------------------------------ MODULE Scripts -------------------------------
(***************************************************************************)
(* A scenario's Game policy: the rules script in its Lua sandbox           *)
(* (scripting/sandbox/lua_sandbox.cpp, scripting/scripting.cpp), what its  *)
(* hooks may decide (policy/policy.cpp, policy/answers.cpp), how it comes  *)
(* from the pack (policy/policy_loader.cpp), and what a SimulationWorld    *)
(* takes from it (simulation/policy_bridge.cpp, and the calls of           *)
(* simulation/simulation.cpp).                                             *)
(*                                                                         *)
(* A script runs an instruction at a time and does what it likes: it may   *)
(* allocate, define or undo its hooks, raise an error, never return, or    *)
(* return anything Lua can hold.  Two limits bound it.  The instruction    *)
(* limit is a count that is armed and runs down, whoever's Lua runs, and   *)
(* starts over as it stops a run; the memory limit is held or lifted by    *)
(* scopes, for outside a protected call a refused allocation is no error   *)
(* of the script's but the end of the process.  Memory is counted in       *)
(* blocks.                                                                 *)
(*                                                                         *)
(* A Lua object is a tuple that begins with its type: <<"nil">>,           *)
(* <<"boolean", b>>, <<"number", h>> in halves, so that one may be whole   *)
(* or not, <<"string", s>>, <<"function">>, <<"table", entries>> with      *)
(* entries a set of <<key, object>>.  A Session ID is a string.            *)
(***************************************************************************)
EXTENDS Integers, Sequences, SequencesExt, FiniteSetsExt

CONSTANTS
  LoadLimit,    \* kLoadInstructionLimit
  HookLimit,    \* kHookInstructionLimit
  ViewCost,     \* instructions freeze runs as a view is built
  MemoryLimit,  \* kMemoryLimit, in blocks
  MaxDepth,     \* kMaxDepth
  MaxViews,     \* bound: no hook is called with so many views held
  MaxClosings,  \* bound: the __close handlers run as an error is raised
  SpawnPoints,  \* how many Spawn points the Map has, 0 for none
  Rosters,      \* the Session IDs a Match may start with, in their order
  Objects       \* what hooks may return

ASSUME ScriptsAssumption ==
  /\ {LoadLimit, HookLimit, MemoryLimit, MaxDepth} \subseteq Nat \ {0}
  /\ ViewCost \in 1..HookLimit - 1 /\ {SpawnPoints, MaxViews, MaxClosings} \subseteq Nat

VARIABLES
  doing,    \* where the thread that runs the policy is
  sandbox,  \* the Lua state: its MemoryBudget and scopes, the views of inUse,
            \* its count and what is left of it, its globals
  calling,  \* the call under way: the hook, how it ended so far, what it returned,
            \* its instructions, its stops, the handlers run since it failed
  answered, \* what became of the last call, until the next
  roster,   \* [entity -> [session, alive]]: the players in the world
  bridge,   \* PolicyBridge::match_ended_
  spawned,  \* the Spawn points StartMatch gave, from 0, until the next
  endings   \* history: the Match ends this Match's policy decided

scriptVars == <<doing, sandbox, calling, answered, roster, bridge, spawned, endings>>

NoSession == "nil session"
Hooks == {"on_tick", "assign_spawns"}
NoCall == [hook |-> "none", how |-> "none", objects |-> <<>>, ran |-> 0, stops |-> 0, closings |-> 0]
NotCalled == [call |-> [hook |-> "none", how |-> "none", objects |-> <<>>], alive |-> {}, decided |-> <<"none">>]

ScriptsInit ==
  /\ doing = "starting"
  /\ sandbox = [limited |-> TRUE, saved |-> <<>>, inUse |-> 0, views |-> 0, count |-> 0, left |-> 0,
                globals |-> [hook \in Hooks |-> "nil"]]
  /\ calling = NoCall /\ answered = NotCalled
  /\ roster = <<>> /\ bridge = FALSE /\ spawned = <<>> /\ endings = <<>>

policyVars == <<roster, bridge, spawned, endings>>

-----------------------------------------------------------------------------
(* The sandbox *)

\* Mutant: a count already running is left to run.
MutLimitInstructions(box, instructions) ==
  IF box.left = 0 THEN [box EXCEPT !.count = instructions, !.left = instructions] ELSE box
LimitInstructions(box, instructions) == [box EXCEPT !.count = instructions, !.left = instructions]

\* MemoryLimitScope, entered and left.
EnterScope(box, limited) ==
  [box EXCEPT !.saved = Append(@, box.limited), !.limited = limited]
LeaveScope(box) == [box EXCEPT !.limited = Last(box.saved), !.saved = Front(@)]

\* AllocateWithinTheLimit: whether a block more is refused.
AllocateRefused(box) == box.limited /\ box.inUse >= MemoryLimit

\* The script's own run, of its top level or of a hook.
ScriptRuns == doing \in {"loading", "running"}

\* What ends a run of the script, as call says: it returned or an error was
\* raised.
RunEndsBy(call, box) ==
  /\ calling' = call
  /\ IF doing = "loading"
     THEN doing' = (IF call.how = "returned" THEN "idle" ELSE "refused") /\ sandbox' = box
     ELSE doing' = "reading" /\ sandbox' = LeaveScope(box)

\* An error ends the run.  External: as Lua unwinds, every variable still to be
\* closed has its __close handler run first; a handler's own error takes the
\* place of the one it was run for, and none makes the run a success.
RaisesError(call, box) ==
  \/ RunEndsBy(call, box)
  \/ /\ call.closings < MaxClosings
     /\ calling' = [call EXCEPT !.closings = @ + 1]
     /\ sandbox' = box /\ doing' = doing

\* StopAtTheInstructionLimit raises once the count has run down, and no script
\* can catch it; the count starts over by itself, and so for the handlers.
StopAtTheInstructionLimit ==
  /\ ScriptRuns /\ sandbox.left = 1
  /\ RaisesError([calling EXCEPT !.how = "stopped", !.stops = @ + 1], [sandbox EXCEPT !.left = sandbox.count])
  /\ UNCHANGED <<answered, policyVars>>

\* One instruction that does effect to the sandbox.
Executes(effect) ==
  /\ ScriptRuns /\ sandbox.left > 1
  /\ sandbox' = [effect EXCEPT !.left = @ - 1]
  /\ calling' = [calling EXCEPT !.ran = @ + 1]
  /\ UNCHANGED <<doing, answered, policyVars>>

Instruction == Executes(sandbox)
DefinesGlobal == \E hook \in Hooks, kind \in {"nil", "function", "other"} :
  Executes([sandbox EXCEPT !.globals[hook] = kind])
Allocates == ~AllocateRefused(sandbox) /\ Executes([sandbox EXCEPT !.inUse = @ + 1])

\* External: Lua's collector frees a block that nothing holds, of the script's
\* or a view it kept, never the view of the call under way.
Collects ==
  /\ doing \in {"loading", "building", "running", "reading"}
  /\ \E view \in 0..1 :
       /\ sandbox.views - view >= (IF calling.ran > 0 /\ doing # "loading" THEN 1 ELSE 0)
       /\ view = 0 => sandbox.inUse > sandbox.views
       /\ sandbox' = [sandbox EXCEPT !.inUse = @ - 1, !.views = @ - view]
  /\ UNCHANGED <<doing, calling, answered, policyVars>>

\* An error of the script's own, a refused block, or what the sandbox leaves
\* out: a global that is not there, a metatable that holds __gc.  A handler that
\* returns leaves the error it was run for.
Raises ==
  /\ ScriptRuns /\ sandbox.left > 1
  /\ \E how \in {"raised", calling.how} \ {"none"} : RaisesError([calling EXCEPT !.how = how], sandbox)
  /\ UNCHANGED <<answered, policyVars>>

ScriptReturns ==
  /\ ScriptRuns /\ sandbox.left > 1 /\ calling.how = "none"
  /\ \E objects \in {<<>>} \cup {<<object>> : object \in Objects} \cup {<<<<"nil">>, <<"nil">>>>} :
       RunEndsBy([calling EXCEPT !.how = "returned", !.objects = IF doing = "loading" THEN <<>> ELSE objects], sandbox)
  /\ UNCHANGED <<answered, policyVars>>

-----------------------------------------------------------------------------
(* LoadPolicy, at startup: the sandbox is made and freeze compiled in it    *)
(* before the count is armed.                                              *)

LoadPolicy ==
  /\ doing = "starting"
  /\ \E resolved \in {"not found", "unreadable", "text"} :
       doing' = CASE resolved = "not found" -> "idle"
                  [] resolved = "unreadable" -> "refused"
                  [] OTHER -> "loading"
  /\ sandbox' = IF doing' = "loading" THEN LimitInstructions(sandbox, LoadLimit) ELSE sandbox
  /\ UNCHANGED <<calling, answered, policyVars>>

\* Script::Call as far as the lookup.
Call(hook) ==
  LET box == EnterScope(sandbox, FALSE) IN
  /\ sandbox.views < MaxViews
  /\ answered' = NotCalled
  /\ sandbox' = box
  /\ calling' = [NoCall EXCEPT !.hook = hook,
                             !.how = CASE box.globals[hook] = "function" -> "none"
                                       [] box.globals[hook] = "other" -> "no function"
                                       [] OTHER -> "returned"]
  /\ doing' = IF box.globals[hook] = "function" THEN "building" ELSE "reading"

\* ToLua: a block for the view, outside a protected call, and freeze run on it,
\* which would hand the hook an error for a view if the count ran out.
ToLua(box) ==
  /\ doing' = CASE AllocateRefused(box) -> "aborted"
                [] box.left <= ViewCost -> "viewless"
                [] OTHER -> "running"
  /\ sandbox' = IF doing' = "running"
                THEN EnterScope([box EXCEPT !.inUse = @ + 1, !.views = @ + 1, !.left = @ - ViewCost], TRUE)
                ELSE box

\* The count armed, the view built, and the hook called under both limits.
RunHook ==
  /\ doing = "building"
  /\ ToLua(LimitInstructions(sandbox, HookLimit))
  /\ calling' = [calling EXCEPT !.ran = ViewCost]
  /\ UNCHANGED <<answered, policyVars>>

-----------------------------------------------------------------------------
(* What a hook may decide *)

NotPlainData == <<"not plain data">>

Entry(entries, key) == (CHOOSE entry \in entries : entry[1] = key)[2]

\* A table keyed by strings is a record, one keyed 1 to n a list.
RECURSIVE ToValue(_, _)
TableToValue(entries, depth) ==
  LET keys == {entry[1] : entry \in entries}
      named == {key[2] : key \in {k \in keys : k[1] = "string"}}
      record == [name \in named |-> ToValue(Entry(entries, <<"string", name>>), depth + 1)]
      places == {<<"number", 2 * i>> : i \in 1..Cardinality(entries)}
      list == [i \in 1..Cardinality(entries) |-> ToValue(Entry(entries, <<"number", 2 * i>>), depth + 1)]
  IN CASE depth >= MaxDepth -> NotPlainData
       [] named # {} -> IF (\E key \in keys : key[1] # "string")
                           \/ \E name \in named : record[name] = NotPlainData
                        THEN NotPlainData ELSE <<"record", record>>
       [] OTHER -> IF keys # places \/ \E i \in DOMAIN list : list[i] = NotPlainData
                   THEN NotPlainData ELSE <<"list", list>>

ToValue(object, depth) ==
  CASE object[1] = "table" -> TableToValue(object[2], depth)
    [] object[1] = "function" -> NotPlainData
    [] OTHER -> object

\* What Script::Call returns: a value, or an error of its own.
CallResult ==
  CASE calling.how # "returned" \/ Len(calling.objects) > 1 -> NotPlainData
    [] calling.objects = <<>> -> <<"nil">>
    [] OTHER -> ToValue(calling.objects[1], 0)

RefusedAnswer == <<"refused">>
NoAction == <<"none">>
MatchEnd(winner) == <<"end", winner>>

IsRecordOf(value, names) == value[1] = "record" /\ DOMAIN value[2] = names

ReadTickAction(value, aliveSessions) ==
  LET winners == {session \in aliveSessions \ {NoSession} : value[2]["winner"] = <<"string", session>>} IN
  CASE value = <<"nil">> -> NoAction
    [] IsRecordOf(value, {"draw"}) ->
         IF value[2]["draw"] = <<"boolean", TRUE>> THEN MatchEnd(NoSession) ELSE RefusedAnswer
    [] IsRecordOf(value, {"winner"}) ->
         IF winners = {} THEN RefusedAnswer ELSE MatchEnd(CHOOSE session \in winners : TRUE)
    [] OTHER -> RefusedAnswer

\* The first player a session names, or 0.
PlayerNamed(session, players) ==
  LET named == {i \in DOMAIN players : session = <<"string", players[i]>>} IN
  IF named = {} THEN 0 ELSE Min(named)

WholeNumberUpTo(value, max) ==
  value[1] = "number" /\ value[2] \in {2 * n : n \in 1..max}

\* One entry for every player, in any order; anything else places no one.
ReadSpawnAssignment(value, players, points) ==
  LET list == value[2]
      who(n) == PlayerNamed(list[n][2]["session"], players)
      place(n) == list[n][2]["spawn_point"]
  IN IF /\ value[1] = "list"
        /\ \A n \in DOMAIN list : /\ IsRecordOf(list[n], {"session", "spawn_point"})
                                  /\ who(n) # 0 /\ WholeNumberUpTo(place(n), points)
        /\ \A n, m \in DOMAIN list : who(n) = who(m) => n = m
        /\ {who(n) : n \in DOMAIN list} = DOMAIN players
     THEN [player \in DOMAIN players |->
             LET entry == CHOOSE n \in DOMAIN list : who(n) = player
             IN place(entry)[2] \div 2 - 1]
     ELSE <<>>

InOrderSpawns(players, points) == [i \in 1..players |-> (i - 1) % points]

-----------------------------------------------------------------------------
(* What the World takes from it *)

AliveSessions == {roster[entity].session : entity \in {e \in DOMAIN roster : roster[e].alive}}

\* A Map without Spawn points has the origin for one.
Points == IF SpawnPoints = 0 THEN 1 ELSE SpawnPoints

\* World::StartMatch: EndMatch, and then the players placed.
WorldStartMatch ==
  /\ doing = "idle"
  /\ \E sessions \in Rosters :
       roster' = [i \in DOMAIN sessions |-> [session |-> sessions[i], alive |-> TRUE]]
  /\ bridge' = FALSE /\ spawned' = <<>> /\ endings' = <<>>
  /\ Call("assign_spawns")

\* World::OnScriptsBehaviours.
RunsScripts ==
  /\ doing = "idle" /\ roster # <<>> /\ ~bridge
  /\ Call("on_tick")
  /\ UNCHANGED policyVars

\* Damage and departures, between one call and the next.
LosesPlayer ==
  /\ doing = "idle" /\ spawned # <<>>
  /\ \E entity \in DOMAIN roster :
       \/ roster[entity].alive /\ roster' = [roster EXCEPT ![entity].alive = FALSE]
       \/ roster' = [e \in DOMAIN roster \ {entity} |-> roster[e]]
  /\ UNCHANGED <<doing, sandbox, calling, answered, bridge, spawned, endings>>

\* World::EndMatch, of the host's or of the last player's.
WorldEndMatch ==
  /\ doing = "idle" /\ roster # <<>>
  /\ roster' = <<>> /\ bridge' = FALSE /\ endings' = <<>> /\ spawned' = <<>> /\ answered' = NotCalled
  /\ UNCHANGED <<doing, sandbox, calling>>

\* What there is to tell of the call once it is over.
Outcome == [hook |-> calling.hook, how |-> calling.how, objects |-> calling.objects]

PlayersInOrder == [i \in DOMAIN roster |-> roster[i].session]

OnTick ==
  LET action == ReadTickAction(CallResult, AliveSessions) IN
  /\ bridge' = (bridge \/ action[1] = "end")
  /\ endings' = IF action[1] = "end" THEN Append(endings, action[2]) ELSE endings
  /\ answered' = [call |-> Outcome, alive |-> AliveSessions, decided |-> action]
  /\ UNCHANGED <<roster, spawned>>

\* Nothing decided, nil or a refusal, is the players in order.
AssignSpawns ==
  LET assignment == ReadSpawnAssignment(CallResult, PlayersInOrder, Points) IN
  /\ spawned' = IF assignment = <<>> THEN InOrderSpawns(Len(PlayersInOrder), Points) ELSE assignment
  /\ answered' = [call |-> Outcome, alive |-> AliveSessions, decided |-> <<"none">>]
  /\ UNCHANGED <<roster, bridge, endings>>

\* The answer is read, with the limit lifted still, and taken.  The view is let
\* go of, but the hook may have kept it: it stays until Lua collects it.
ReadAnswer ==
  /\ doing = "reading"
  /\ doing' = IF AllocateRefused(sandbox) THEN "aborted" ELSE "idle"
  /\ sandbox' = LeaveScope(sandbox)
  /\ calling' = NoCall
  /\ IF calling.hook = "on_tick" THEN OnTick ELSE AssignSpawns

ScriptsNext ==
  \/ LoadPolicy \/ StopAtTheInstructionLimit \/ Instruction \/ DefinesGlobal \/ Allocates \/ Collects
  \/ Raises \/ ScriptReturns \/ RunHook \/ WorldStartMatch \/ RunsScripts \/ LosesPlayer
  \/ WorldEndMatch \/ ReadAnswer

ScriptsSpec == ScriptsInit /\ [][ScriptsNext]_scriptVars

-----------------------------------------------------------------------------
(* Properties *)

\* A script never runs but under the memory limit, the engine never works of
\* its own but with it lifted, so that a script that holds all it may costs it
\* its own call and never the process; what a call changed of the limits it puts
\* back; and what the state holds past the limit is views the engine built.
ScriptsAreBounded ==
  /\ doing \notin {"aborted", "viewless"}
  /\ ScriptRuns => sandbox.limited
  /\ doing \in {"building", "reading"} => ~sandbox.limited
  /\ doing \in {"idle", "starting"} => sandbox.limited /\ sandbox.saved = <<>>
  /\ sandbox.inUse - sandbox.views <= MemoryLimit

\* Every call is given its instructions whole: none is stopped for what an
\* earlier one ran, and one that returned ran within them.  A call that is
\* stopped may run on, but only to close its variables, and through as many
\* counts as it is stopped at.
StoppedAtTheLimit ==
  LET limit == (IF calling.hook = "none" THEN LoadLimit ELSE HookLimit) - 1
  IN /\ calling.ran \in calling.stops * limit .. (calling.stops + 1) * limit
     /\ calling.how \in {"none", "returned"} => calling.stops = 0 /\ calling.closings = 0
     /\ calling.how = "stopped" => calling.stops > 0 /\ (calling.closings = 0 => calling.ran = limit)

\* How a hook says a Match ends.
EndsBy(session) ==
  <<<<"table", {IF session = NoSession
                THEN <<<<"string", "draw">>, <<"boolean", TRUE>>>>
                ELSE <<<<"string", "winner">>, <<"string", session>>>>}>>>>

\* on_tick ends a Match only by an answer that says so and nothing else, for a
\* winner alive in it, and whatever goes wrong in the hook decides nothing.
TickDecidesWhatItMay ==
  LET call == answered.call IN
  call.hook = "on_tick" =>
    /\ \A session \in answered.alive \cup {NoSession} :
         answered.decided = MatchEnd(session) <=> call.how = "returned" /\ call.objects = EndsBy(session)
    /\ answered.decided = NoAction <=> call.how = "returned" /\ call.objects \in {<<>>, <<<<"nil">>>>}
    /\ answered.decided[1] = "end" => answered.decided[2] \in answered.alive \cup {NoSession}

\* The entries of an assign_spawns answer in some order.
Places(order, places) ==
  <<<<"table", {<<<<"number", 2 * i>>,
                  <<"table", {<<<<"string", "session">>, <<"string", roster[order[i]].session>>>>,
                              <<<<"string", "spawn_point">>, <<"number", 2 * places[order[i]] + 2>>>>}>>>>
                : i \in DOMAIN order}>>>>

\* Every player of a Match is given a Spawn point there is, the one the rules
\* say if they place everyone once, and the next in order otherwise.
EveryoneIsPlaced ==
  (doing = "idle" /\ answered.call.hook = "assign_spawns" /\ DOMAIN roster = DOMAIN spawned) =>
    LET entities == DOMAIN spawned
        orders == {order \in [entities -> entities] : \A i, j \in entities : order[i] = order[j] => i = j}
        distinct == \A i, j \in entities : roster[i].session = roster[j].session => i = j
        Said(places) == distinct /\ \E order \in orders : answered.call.objects = Places(order, places)
    IN /\ \A entity \in entities : spawned[entity] \in 0..Points - 1
       /\ \/ Said(spawned)
          \/ /\ spawned = InOrderSpawns(Cardinality(entities), Points)
             /\ ~\E places \in [entities -> 0..Points - 1] : Said(places)

\* A Match is ended by its policy once at most, and the next is not ended by it.
EndedOnce == Len(endings) <= 1 /\ (bridge <=> endings # <<>>)

PolicyInv ==
  ScriptsAreBounded /\ StoppedAtTheLimit /\ TickDecidesWhatItMay /\ EveryoneIsPlaced /\ EndedOnce
=============================================================================
