------------------------------ MODULE Simulation ------------------------------
(***************************************************************************)
(* SimulationWorld (src/src/modules/simulation, with the rifle and the     *)
(* ballistics of src/src/modules/gameplay): one tick of it runs the chained *)
(* phases in order, and a Match is started, left and ended between ticks.  *)
(*                                                                         *)
(* Positions, angles and clips are abstracted to the tick a pose was posed *)
(* on: what a property can tell apart is WHICH tick's pose of a player a   *)
(* bullet is judged against.  Whether a segment crosses a hitbox, the Map  *)
(* or nothing is a choice.  Times are halves of a tick, so that a Shooter's *)
(* delay falls between two ticks as it does in the code.                   *)
(***************************************************************************)
EXTENDS Integers, Sequences, FiniteSets, SequencesExt, FiniteSetsExt

CONSTANTS Players,          \* the EntityIds a Match may have
          Half,             \* time units to a tick: 2, a tick's two halves
          MaxDelay,         \* kMaxShootersDelay, in halves of a tick
          Magazine,         \* weapon::Rifle::magazine_capacity
          FirePeriod,       \* seconds between rounds, in halves of a tick
          ReloadTime,       \* weapon::Rifle::reload_seconds, in halves of a tick
          StartingHealth,   \* Parameters::starting_health
          Damage,           \* Parameters::ammo.damage: [part -> damage]
          MaxFlightSteps,   \* ballistics::MaxFlightSteps
          MaxTicks, MaxMatches     \* bounds of the instance

ASSUME SimulationAssumption ==
  /\ Half = 2 /\ MaxDelay \in Nat /\ MaxDelay >= Half
  /\ {Magazine, FirePeriod, ReloadTime, StartingHealth, MaxFlightSteps} \subseteq Nat \ {0}
  /\ \A part \in DOMAIN Damage : Damage[part] \in Nat \ {0}
  /\ IsFiniteSet(Players) /\ {MaxTicks, MaxMatches} \subseteq Nat

Parts == DOMAIN Damage

(***************************************************************************)
(* State.  A player in the world is a record; a dead one stays, without a  *)
(* body, until the Match ends or it leaves.                                *)
(***************************************************************************)
VARIABLES tick, phase,
          players,      \* [players in the world -> Slot, with its components]
          bullets,      \* the Bullet entities
          flights,      \* ballistics::World::bullets_: [handle -> steps flown]
          nextHandle,   \* ballistics::World::next_handle_
          matchEnded,   \* PolicyBridge::match_ended_
          posed,        \* HitboxPosing: the posed hitboxes of the tick
          toFly,        \* handles BallisticsSystem has yet to visit this tick
          playerHits,   \* World::Impl::player_hits
          committed,    \* State, as the tick has filled it so far
          match,        \* ghost: which Match the world is in, 0 before the first
          startedOn,    \* ghost: the tick it started after
          fired         \* ghost: [player -> ticks of this life it fired on]

worldVars == <<tick, phase, players, bullets, flights, nextHandle, matchEnded, posed,
          toFly, playerHits, committed, match, startedOn, fired>>

Clock == Half * tick

\* The points of a tick where its phases hand over what they left (Phase): no system
\* runs at HitDetection, and CommandIngestion, Movement and WeaponHandling share
\* nothing a property could see between them.
Phases == {"idle", "posing", "ballistics", "scripts", "commit"}

\* weapon::State, without its recoil and the burst it follows, which are angles.
Rifles == [cooldown : -Half .. FirePeriod, reload : 0 .. ReloadTime,
           rounds : 0 .. Magazine]

\* weapon::State, of a rifle just loaded.
Loaded == [cooldown |-> 0, reload |-> 0, rounds |-> Magazine]

\* How many ticks of poses a player's history keeps: ceil(kMaxShootersDelay * rate).
HitboxHistoryTicks == (MaxDelay + Half - 1) \div Half

\* PoseHistory: a ring of the ticks posed, from its oldest slot.
EmptyHistory == [roots |-> [s \in 0 .. HitboxHistoryTicks - 1 |-> 0],
                 oldest |-> 0, size |-> 0, newest |-> 0]

SlotOf(h, count) == (h.oldest + count) % HitboxHistoryTicks

\* Mutant: a full ring's oldest pose is replaced, and stays its oldest slot.
MutRecordStays(h, t) ==
  IF h.size < HitboxHistoryTicks
    THEN [h EXCEPT !.roots[SlotOf(h, h.size)] = t, !.size = @ + 1, !.newest = t]
    ELSE [h EXCEPT !.roots[h.oldest] = t, !.newest = t]

\* PoseHistory::Record.
Record(h, t) ==
  IF h.size < HitboxHistoryTicks
    THEN [h EXCEPT !.roots[SlotOf(h, h.size)] = t, !.size = @ + 1, !.newest = t]
    ELSE [h EXCEPT !.roots[h.oldest] = t, !.oldest = SlotOf(h, 1), !.newest = t]

\* PoseHistory::At: the two poses time falls between, and how far between them.
At(h, time) ==
  LET newest  == Half * h.newest
      oldest  == newest - Half * (h.size - 1)
      held    == IF time < oldest THEN oldest ELSE IF time > newest THEN newest ELSE time
      earlier == held \div Half - oldest \div Half
      later   == IF earlier + 1 <= h.size - 1 THEN earlier + 1 ELSE h.size - 1
  IN  [from |-> h.roots[SlotOf(h, earlier)], to |-> h.roots[SlotOf(h, later)],
       fraction |-> held % Half]

Histories == [roots : [0 .. HitboxHistoryTicks - 1 -> 0 .. MaxTicks],
              oldest : 0 .. HitboxHistoryTicks - 1, size : 0 .. HitboxHistoryTicks,
              newest : 0 .. MaxTicks]

\* One player in the world: its Slot and its entity's Body, Health, Rifle (with the
\* delay of the round it fired this tick, 0 for none) and HitboxHistory components.
Slots == [alive : BOOLEAN, health : 0 .. StartingHealth, rifle : Rifles,
          shot : 0 .. MaxDelay, history : Histories]

\* The Bullet component; firedOn and match are ghosts.
Bullets == [handle : Nat, shooter : Players, delay : Half .. MaxDelay,
            firedOn : 1 .. MaxTicks, match : 1 .. MaxMatches]

\* Hit, with the pose it was judged against and its bullet's delay as ghosts.
Hits == [shooter : Players, target : Players, health : 0 .. StartingHealth,
         zero : BOOLEAN, delay : Half .. MaxDelay,
         pose : [from : 1 .. MaxTicks, to : 1 .. MaxTicks, fraction : 0 .. Half - 1]]

\* Death.
Deaths == [victim : Players, killer : Players]

\* State and TickResult: what one tick committed and the action the rules took, less
\* where rounds struck the Map and bullets are, which are positions only shown.
States == [shots : SUBSET Players, alive : SUBSET Players, deaths : SUBSET Deaths,
           hits : SUBSET Hits, action : {"none", "match_end"}]

\* ShootersDelay: from the Seen time to now, a tick at least and the cap at most.
ShootersDelay(seen) ==
  LET held == IF seen < Clock - Half THEN seen ELSE Clock - Half
  IN  IF Clock - held < MaxDelay THEN Clock - held ELSE MaxDelay

NewPlayer == [alive |-> TRUE, health |-> StartingHealth, rifle |-> Loaded,
              shot |-> 0, history |-> EmptyHistory]

NothingCommitted == [shots |-> {}, alive |-> {}, deaths |-> {}, hits |-> {},
                     action |-> "none"]

\* Mutant: the dead take part in the tick.
MutLivingAll == DOMAIN players

Living == {p \in DOMAIN players : players[p].alive}

WorldInit ==
  /\ tick = 0 /\ phase = "idle"
  /\ players = [p \in {} |-> NewPlayer]
  /\ bullets = {} /\ flights = [h \in {} |-> 0] /\ nextHandle = 0
  /\ matchEnded = FALSE
  /\ posed = {} /\ toFly = {} /\ playerHits = <<>> /\ committed = NothingCommitted
  /\ match = 0 /\ startedOn = 0 /\ fired = [p \in Players |-> <<>>]

-----------------------------------------------------------------------------
(* Between ticks: the Match starts, a player leaves, the Match ends. *)

\* Mutant: the bullets of the Match fly on.
MutEndMatchKeepsBullets ==
  /\ phase = "idle" /\ match > 0
  /\ players' = [p \in {} |-> NewPlayer]
  /\ flights' = [h \in {} |-> 0] /\ nextHandle' = 0
  /\ matchEnded' = FALSE
  /\ UNCHANGED <<tick, phase, bullets, posed, toFly, playerHits, committed, match, startedOn, fired>>

\* World::EndMatch: everyone is removed, and so is every bullet and its flight.
EndMatch ==
  /\ phase = "idle" /\ match > 0
  /\ players' = [p \in {} |-> NewPlayer]
  /\ bullets' = {} /\ flights' = [h \in {} |-> 0] /\ nextHandle' = 0
  /\ matchEnded' = FALSE
  /\ UNCHANGED <<tick, phase, posed, toFly, playerHits, committed, match, startedOn, fired>>

\* World::StartMatch: an end of whatever Match there was, then every entrant
\* added as AddPlayer adds it.  Spawn points place bodies, which are abstracted.
StartMatch(entrants) ==
  /\ phase = "idle" /\ match < MaxMatches
  /\ players' = [p \in entrants |-> NewPlayer]
  /\ bullets' = {} /\ flights' = [h \in {} |-> 0] /\ nextHandle' = 0
  /\ matchEnded' = FALSE
  /\ match' = match + 1 /\ startedOn' = tick /\ fired' = [p \in Players |-> <<>>]
  /\ UNCHANGED <<tick, phase, posed, toFly, playerHits, committed>>

\* World::RemovePlayer of one who is in the world; its bullets fly on.
RemovePlayer(p) ==
  /\ phase = "idle" /\ p \in DOMAIN players
  /\ players' = [q \in DOMAIN players \ {p} |-> players[q]]
  /\ UNCHANGED <<tick, phase, bullets, flights, nextHandle, matchEnded, posed, toFly,
                 playerHits, committed, match, startedOn, fired>>

-----------------------------------------------------------------------------
(* A tick. *)

\* The commands one player's tick may run: none of it, or a trigger or a reload,
\* reporting a Seen time (what a client says: as old or as new as it likes).
Commands == [fire : BOOLEAN, reload : BOOLEAN, seen : {0, Clock}]

\* Mutant: a rifle keeps all the time it has been ready for.
MutStepKeepsTime(rifle, command) ==
  LET trigger == command.fire /\ rifle.rounds > 0
      fires   == trigger /\ rifle.cooldown <= 0
  IN  [fired |-> fires,
       rifle |-> [rifle EXCEPT !.cooldown = @ + (IF fires THEN FirePeriod ELSE 0) - Half,
                               !.rounds = @ - (IF fires THEN 1 ELSE 0)]]

\* weapon::Step, of a tick of Half units: the rifle after it.
Step(rifle, command) ==
  LET starts    == command.reload /\ rifle.reload <= 0 /\ rifle.rounds < Magazine
      reloading == starts \/ rifle.reload > 0
      trigger   == command.fire /\ rifle.rounds > 0 /\ ~reloading
      fires     == trigger /\ rifle.cooldown <= 0
      cooled    == rifle.cooldown + (IF fires THEN FirePeriod ELSE 0) - Half
      least     == IF trigger THEN -Half ELSE 0
      left      == (IF starts THEN ReloadTime ELSE rifle.reload) - Half
  IN  [fired |-> fires,
       rifle |->
         [cooldown |-> IF cooled > least THEN cooled ELSE least,
          reload   |-> IF reloading /\ left > 0 THEN left ELSE 0,
          rounds   |-> IF reloading /\ left <= 0 THEN Magazine
                       ELSE rifle.rounds - (IF fires THEN 1 ELSE 0)]]

\* World::Tick up to Posing: outputs cleared, commands taken, and CommandIngestion,
\* Movement and WeaponHandling, the last of living players only.  A living player
\* with no command runs the empty one.  0 is no round fired, else the round's delay.
BeginTick(commands) ==
  /\ phase = "idle" /\ tick < MaxTicks
  /\ tick' = tick + 1
  /\ committed' = NothingCommitted
  /\ LET result(p)  == Step(players[p].rifle, commands[p])
         delay(p)   == ShootersDelay(commands[p].seen)'
     IN  /\ players' = [p \in DOMAIN players |->
                          IF p \in Living
                            THEN [players[p] EXCEPT
                                    !.rifle = result(p).rifle,
                                    !.shot = IF result(p).fired THEN delay(p) ELSE 0]
                            ELSE players[p]]
         /\ fired' = [p \in Players |-> IF p \in Living /\ result(p).fired
                                          THEN Append(fired[p], tick + 1) ELSE fired[p]]
  /\ phase' = "posing"
  /\ UNCHANGED <<bullets, flights, nextHandle, matchEnded, posed, toFly, playerHits, match, startedOn>>

\* Posing: each living player whose rifle fired announces its Shot; with its barrel
\* clear it puts a bullet in flight, with its barrel in the Map (blocked) it does not.
Posing(blocked) ==
  /\ phase = "posing"
  /\ LET shooters == {p \in Living : players[p].shot > 0}
         clear    == SetToSeq(shooters \ blocked)
         flying   == {[handle |-> nextHandle + i - 1, shooter |-> clear[i],
                       delay |-> players[clear[i]].shot, firedOn |-> tick, match |-> match] :
                        i \in DOMAIN clear}
         handles  == {b.handle : b \in flying}
     IN  /\ blocked \subseteq shooters
         /\ bullets' = bullets \cup flying
         /\ flights' = [h \in DOMAIN flights \cup handles |->
                          IF h \in handles THEN 0 ELSE flights[h]]
         /\ nextHandle' = nextHandle + Len(clear)
         /\ toFly' = {b.handle : b \in bullets} \cup handles
         /\ committed' = [committed EXCEPT !.shots = shooters]
  /\ phase' = "ballistics"
  /\ UNCHANGED <<tick, players, matchEnded, posed, playerHits, match, startedOn, fired>>

\* The players a bullet may strike: the living, its own shooter never.
Targets(b) == Living \ {b.shooter}

\* A target's pose for a bullet judged at time: its history's, or with none kept
\* yet, the one this tick posed.
PoseFor(p, time) ==
  IF players[p].history.size = 0 THEN [from |-> tick, to |-> tick, fraction |-> 0]
  ELSE At(players[p].history, time)

\* HitboxPosing::Consider: target's hitboxes, posed anew only when no bullet of the
\* tick was judged at this moment.
Consider(target, time) ==
  IF \E hitbox \in posed : hitbox.target = target /\ hitbox.time = time THEN {}
  ELSE {[target |-> target, part |-> part, time |-> time, pose |-> PoseFor(target, time)] :
          part \in Parts}

\* HitboxesFor: the posed hitboxes with those of the targets its segment reaches.
HitboxesFor(b, reached) == posed \cup UNION {Consider(p, Clock - b.delay) : p \in reached}

\* Ballistics, of one bullet: the players its segment reaches are posed for it, and
\* it strikes one of their hitboxes (by its Surface, one of the posed ones) or
\* the Map, flies on, or expires.
Ballistics(b) ==
  /\ phase = "ballistics" /\ b.handle \in toFly
  /\ \E reached \in SUBSET Targets(b) :
       LET hitboxes == HitboxesFor(b, reached)
           ends == /\ bullets' = bullets \ {b}
                   /\ flights' = [h \in DOMAIN flights \ {b.handle} |-> flights[h]]
       IN  /\ posed' = hitboxes
           /\ \/ \* struck a hitbox
                 /\ ends
                 /\ \E struck \in hitboxes :
                      /\ struck.target \in reached /\ struck.time = Clock - b.delay
                      /\ playerHits' = Append(playerHits,
                           [shooter |-> b.shooter, target |-> struck.target,
                            part |-> struck.part, pose |-> struck.pose, delay |-> b.delay])
              \/ \* struck the Map, or past its range or its last step
                 /\ ends /\ UNCHANGED playerHits
              \/ \* in flight
                 /\ flights[b.handle] + 1 < MaxFlightSteps
                 /\ flights' = [flights EXCEPT ![b.handle] = @ + 1]
                 /\ UNCHANGED <<bullets, playerHits>>
  /\ toFly' = toFly \ {b.handle}
  /\ UNCHANGED <<tick, phase, players, nextHandle, matchEnded, committed, match, startedOn, fired>>

\* Every player's health, with as many of the tick's hits taken off it in the order
\* they struck (OnDamage's loop).
HealthLeft ==
  LET left[n \in 0 .. Len(playerHits)] ==
        IF n = 0 THEN [p \in DOMAIN players |-> players[p].health]
        ELSE [left[n - 1] EXCEPT ![playerHits[n].target] =
                IF @ > Damage[playerHits[n].part] THEN @ - Damage[playerHits[n].part] ELSE 0]
  IN  left

\* Whether the nth hit is the one that took its target's health to zero.
ReachedZero(n) ==
  /\ HealthLeft[n - 1][playerHits[n].target] > 0
  /\ HealthLeft[n][playerHits[n].target] = 0

\* The Hit the nth records, and the Deaths of those it killed (Kill).
HitOf(n) == [shooter |-> playerHits[n].shooter, target |-> playerHits[n].target,
             health |-> HealthLeft[n][playerHits[n].target], zero |-> ReachedZero(n),
             pose |-> playerHits[n].pose, delay |-> playerHits[n].delay]
Killed == {[victim |-> playerHits[n].target, killer |-> playerHits[n].shooter] :
             n \in {i \in DOMAIN playerHits : ReachedZero(i)}}

\* Damage, of every player: its hits in the order they struck; a player killed loses
\* its body, and with it its part in every later phase.  The tick's posings and hits
\* are read by no later phase, so they are cleared here for the next tick to find.
OnDamage ==
  /\ phase = "ballistics" /\ toFly = {}
  /\ players' = [p \in DOMAIN players |->
                   [players[p] EXCEPT !.health = HealthLeft[Len(playerHits)][p],
                                      !.alive = @ /\ ~\E death \in Killed : death.victim = p]]
  /\ committed' = [committed EXCEPT !.hits = {HitOf(n) : n \in DOMAIN playerHits},
                                    !.deaths = Killed]
  /\ playerHits' = <<>> /\ posed' = {}
  /\ phase' = "scripts"
  /\ UNCHANGED <<tick, bullets, flights, nextHandle, matchEnded, toFly, match, startedOn, fired>>

\* Scripts/Behaviours: the rules' on_tick, while the world has a Match they have not
\* ended.  A call that fails or answers nothing decides nothing.
OnScriptsBehaviours ==
  /\ phase = "scripts"
  /\ \/ /\ players # <<>> /\ ~matchEnded
        /\ committed' = [committed EXCEPT !.action = "match_end"] /\ matchEnded' = TRUE
     \/ UNCHANGED <<committed, matchEnded>>
  /\ phase' = "commit"
  /\ UNCHANGED <<tick, players, bullets, flights, nextHandle, posed, toFly, playerHits,
                 match, startedOn, fired>>

\* Commit: the living are packaged into the State, and their poses kept.
Commit ==
  /\ phase = "commit"
  /\ committed' = [committed EXCEPT !.alive = Living]
  /\ players' = [p \in DOMAIN players |->
                   IF p \in Living THEN [players[p] EXCEPT !.history = Record(@, tick)]
                   ELSE players[p]]
  /\ phase' = "idle"
  /\ UNCHANGED <<tick, bullets, flights, nextHandle, matchEnded, posed, toFly, playerHits,
                 match, startedOn, fired>>

WorldNext ==
  \/ \E entrants \in SUBSET Players \ {{}} : StartMatch(entrants)
  \/ EndMatch
  \/ \E p \in Players : RemovePlayer(p)
  \/ \E commands \in [Living -> Commands] : BeginTick(commands)
  \/ \E blocked \in SUBSET Players : Posing(blocked)
  \/ \E b \in bullets : Ballistics(b)
  \/ OnDamage
  \/ OnScriptsBehaviours
  \/ Commit

WorldSpec == WorldInit /\ [][WorldNext]_worldVars

-----------------------------------------------------------------------------
(* What must hold. *)

WorldTypeOK ==
  /\ tick \in 0 .. MaxTicks /\ match \in 0 .. MaxMatches
  /\ phase \in Phases
  /\ \E everyone \in SUBSET Players : players \in [everyone -> Slots]
  /\ bullets \subseteq Bullets /\ toFly \subseteq DOMAIN flights
  /\ committed \in States

\* PlanUpdates: what a player of the Match is told of its own health once the tick
\* is committed, 0 when the State holds no body of its.
OwnHealth(p) == IF p \in committed.alive THEN players[p].health ELSE 0

\* A player is in the State exactly while it has health; whoever this tick's deaths
\* name died of one hit of theirs, once, and is not in the State the tick commits; every
\* player is told its own health as Damage left it, the dead included.
TheDeadAreOut ==
  /\ \A p \in DOMAIN players : players[p].alive <=> players[p].health > 0
  /\ \A d, e \in committed.deaths : d.victim = e.victim => d = e
  /\ \A d \in committed.deaths :
       \E h \in committed.hits : h.zero /\ h.target = d.victim /\ h.shooter = d.killer
  /\ committed.alive \cap {d.victim : d \in committed.deaths} = {}
  /\ phase = "idle" /\ startedOn < tick =>
       \A p \in DOMAIN players : OwnHealth(p) = players[p].health

\* Every Bullet entity has the flight its handle names in the ballistics World, which
\* throws for any other, no two share one, and none outlives its Match: EndMatch
\* resets the handles, so a bullet left behind would fly another's flight.  After a
\* tick no player has as many in flight as a flight has steps.
BulletsHaveFlights ==
  /\ {b.handle : b \in bullets} = DOMAIN flights
  /\ \A b, c \in bullets : b.handle = c.handle => b = c
  /\ \A b \in bullets : b.match = match
  /\ phase = "scripts" => \A p \in Players :
       Cardinality({b \in bullets : b.shooter = p}) < MaxFlightSteps

\* SimulationWorld's books: the type invariant, that the dead are out of everything,
\* and that bullets and flights agree.
SimulationInv == WorldTypeOK /\ TheDeadAreOut /\ BulletsHaveFlights

\* The pose of the very moment a delay names, or of the first tick of the Match when
\* that is before it; only on that first tick the tick's own.
SeenPose(delay) ==
  LET first == startedOn + 1
      held  == IF Clock - delay < Half * first THEN Half * first ELSE Clock - delay
      from  == held \div Half
  IN  IF tick = first THEN [from |-> tick, to |-> tick, fraction |-> 0]
      ELSE [from |-> from, to |-> IF from < tick - 1 THEN from + 1 ELSE from,
            fraction |-> held % Half]

\* A hit is judged against its target as it was when the shooter saw it: the pose of
\* the moment its Shooter's delay names.  (The ring of poses must never have dropped
\* a tick a delay within the cap still asks for.)
JudgedWhereSeen ==
  phase = "scripts" => \A h \in committed.hits : h.pose = SeenPose(h.delay)

\* Whatever a player does with its trigger, no two of its rounds are nearer than its
\* rate of fire has them, less the one tick a held trigger may carry over.
NeverFasterThanItsRate ==
  \A p \in Players : \A i, j \in DOMAIN fired[p] :
    i < j => (j - i) * FirePeriod <= (fired[p][j] - fired[p][i] + 1) * Half

\* Once dead, a player stays dead for the Match, fires nothing and is struck no more;
\* once the rules have ended the Match, they end it no second time.
FinalForTheMatch ==
  [][match' = match =>
       /\ \A p \in DOMAIN players \cap DOMAIN players' :
            ~players[p].alive =>
              /\ ~players'[p].alive /\ fired'[p] = fired[p]
              /\ \A h \in committed'.hits \ committed.hits : h.target # p
       /\ matchEnded /\ committed'.action = "match_end" =>
            committed.action = "match_end"]_worldVars

=============================================================================
