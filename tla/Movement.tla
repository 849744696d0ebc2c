------------------------------ MODULE Movement ------------------------------
(***************************************************************************)
(* A body's Movement on both sides (physics/physics.cpp and                *)
(* movement_rules.cpp, with animation::PacingOf): a tick changes its       *)
(* stance where there is headroom, spends or regains its stamina, lets it  *)
(* fall, moves it through the map and advances its Stride and the change   *)
(* of stance under way.  The server steps what it has of the player's      *)
(* Commands; the client steps every one, and puts its body back at the     *)
(* server's, with the fall it had itself predicted there, once the two     *)
(* differ (SetState, Restore, prediction.cpp's Start and Reconciliation).  *)
(*                                                                         *)
(* The map is a corridor of columns, each with a floor and a ceiling;      *)
(* lengths, speeds and stamina are whole numbers, so a body is always on   *)
(* the grids the wire sends it on.  PhysX is external: its controller      *)
(* moves over the ground, stops at a wall, then falls or rests.            *)
(***************************************************************************)
EXTENDS Posing

CONSTANTS
  Floor, Ceiling,  \* the corridor's, by column from 0
  Spawns,          \* the columns of its Spawn points
  Height,          \* StanceHeight of each stance
  WalkSpeed, SprintSpeed, CrouchSpeed, ProneSpeed, Fall,  \* of a tick
  FullStamina, Depletes, Regains, ForcedWalkBelow,        \* StaminaConfig
  Durations,       \* each two stances' transition duration, in ticks
  Presses,         \* the MovementInputs and views a Command may hold
  MaxUnanswered,   \* kMaxHistory
  MaxTicks, MaxLostCommands, MaxLives  \* bounds of the instance

MovementAssumption ==
  /\ DOMAIN Height = DOMAIN Clips
  /\ \A column \in DOMAIN Floor : Floor[column] + Height["prone"] <= Ceiling[column]
  /\ MaxUnanswered \in Nat \ {0}

ASSUME MovementAssumption

VARIABLES
  simulated,   \* the simulation's body: its state, its fall, its controller's height
  ownBody,   \* the prediction's
  posed,    \* what the server's Posing phase made of the body, and of what
  running,  \* the Command the server has the player hold
  unanswered,  \* History: the Commands stepped that no answer has reached
  agreed,   \* whether nothing the two bodies follow from has differed since the last answer
  ticks, lostCommands, lives

movementVars == <<simulated, ownBody, posed, running, unanswered, agreed, ticks, lostCommands, lives>>

(***************************************************************************)
(* PhysX's controller, external.  A step over the ground ends before a     *)
(* column whose floor is higher or whose ceiling is too low; then it falls *)
(* until it is on the floor.  One body to a World: the server's holds every*)
(* player's controller and a client's its own alone, so that what one body *)
(* does to another, on the server only (physics.cpp:385, where the filters *)
(* are the default ones), is not in what the two agree on here.            *)
(***************************************************************************)
Enters(column, y, height) ==
  column \in DOMAIN Floor /\ Floor[column] <= y /\ y + height <= Ceiling[column]

Reached(position, height, along) ==
  LET way == IF along < 0 THEN -1 ELSE 1
      far == IF along < 0 THEN -along ELSE along
      free == {n \in 0 .. far : \A i \in 1 .. n : Enters(position.x + way * i, position.y, height)}
  IN  position.x + way * (CHOOSE n \in free : n + 1 \notin free)

ControllerMove(position, height, along, down) ==
  LET x == Reached(position, height, along)
  IN  [position |-> [x |-> x, y |-> Max({position.y + down, Floor[x]})],
       grounded |-> position.y + down <= Floor[x]]

Overlaps(position, height) == position.y + height > Ceiling[position.x]

(***************************************************************************)
(* movement_rules.cpp, and World's own decisions.                          *)
(***************************************************************************)
Rounded(a, b) == (2 * a + b) \div (2 * b)

ResolveStamina(sprint, standingAndMoving, body) ==
  LET sprinting == sprint /\ standingAndMoving /\ ~body.exhausted
      stamina == IF sprinting THEN Max({0, body.stamina - Depletes})
                 ELSE Min({FullStamina, body.stamina + Regains})
  IN  [sprinting |-> sprinting,
       stamina |-> stamina,
       exhausted |-> IF body.exhausted THEN stamina <= ForcedWalkBelow ELSE stamina <= 0]

ResolveSpeed(stance, sprinting) ==
  CASE stance = "standing" -> IF sprinting THEN SprintSpeed ELSE WalkSpeed
    [] stance = "crouching" -> CrouchSpeed
    [] stance = "prone" -> ProneSpeed

AdvanceStride(stride, along, strideLength) ==
  IF strideLength > 0
  THEN (stride + Rounded((IF along < 0 THEN -along ELSE along) * StrideSteps, strideLength)) % StrideSteps
  ELSE stride

TransitionDuration(from, to) == IF from = to THEN 0 ELSE Durations[{from, to}]

AdvanceStanceProgress(progress, duration) ==
  IF duration > 0 THEN Min({progress + Rounded(ProgressSteps, duration), ProgressSteps}) ELSE ProgressSteps

CanChangeStance(world, target) ==
  Height[target] <= Height[world.body.stance] \/ ~Overlaps(world.body.position, Height[target])

\* Mutant: back to the stance a change left, the change starts over.
MutChangeStance(world, target) ==
  IF target # world.body.stance /\ CanChangeStance(world, target)
  THEN [world EXCEPT !.height = Height[target],
                     !.body.progress = 0,
                     !.body.previous = world.body.stance,
                     !.body.stance = target]
  ELSE world

ChangeStance(world, target) ==
  IF target # world.body.stance /\ CanChangeStance(world, target)
  THEN [world EXCEPT !.height = Height[target],
                     !.body.progress = IF target = world.body.previous
                                       THEN ProgressSteps - world.body.progress ELSE 0,
                     !.body.previous = world.body.stance,
                     !.body.stance = target]
  ELSE world

(***************************************************************************)
(* World: a body made, stepped, teleported and put back.                   *)
(***************************************************************************)
NewBody(position) ==
  [position |-> position, velocity |-> [x |-> 0, y |-> 0], stance |-> "standing", previous |-> "standing",
   progress |-> ProgressSteps, stamina |-> FullStamina, exhausted |-> FALSE, stride |-> 0,
   grounded |-> FALSE]

SpawnPoints == {[x |-> column, y |-> Floor[column]] : column \in Spawns}

CreateBody(position) == [body |-> NewBody(position), fall |-> 0, height |-> Height["standing"]]

\* The controller takes a stance's height only where the stance changes.
PutAt(world, body, fall) ==
  [body |-> body, fall |-> fall,
   height |-> IF body.stance # world.body.stance THEN Height[body.stance] ELSE world.height]

SetState(world, body) == PutAt(world, body, 0)
Restore(world, body, fall) == PutAt(world, body, fall)

\* The body after a step, once where it came to and what breath it has are known.
Arrived(body, stamina, moved, strideLength) ==
  LET by == [x |-> moved.position.x - body.position.x, y |-> moved.position.y - body.position.y]
  IN  [body EXCEPT !.position = moved.position,
                   !.velocity = by,
                   !.progress = AdvanceStanceProgress(@, TransitionDuration(body.previous, body.stance)),
                   !.stamina = stamina.stamina,
                   !.exhausted = stamina.exhausted,
                   !.stride = AdvanceStride(@, by.x, strideLength),
                   !.grounded = moved.grounded]

StepFrom(stood, stamina, fall, go, strideLength) ==
  [stood EXCEPT !.fall = fall,
     !.body = Arrived(@, stamina,
                ControllerMove(@.position, stood.height, go * ResolveSpeed(@.stance, stamina.sprinting), fall),
                strideLength)]

StepAs(stood, press, strideLength) ==
  StepFrom(stood,
           ResolveStamina(press.sprint, stood.body.stance = "standing" /\ press.go # 0, stood.body),
           (IF stood.body.grounded THEN 0 ELSE stood.fall) - Fall, press.go, strideLength)

Step(world, press, strideLength) == StepAs(ChangeStance(world, press.stance), press, strideLength)

\* OnMovement and Move: paced by the Clips at the last tick's stance and velocity.
Moved(world, press) == Step(world, press, PacingOf(world.body, press.yaw))

(***************************************************************************)
(* Reconciliation: the answer to an unanswered Command, where it differs   *)
(* from what was predicted after it, is restored and the later Commands    *)
(* stepped again.                                                          *)
(***************************************************************************)
StrideDistance(a, b) ==
  LET ahead == (a - b + StrideSteps) % StrideSteps IN Min({ahead, StrideSteps - ahead})

\* All but the velocity.
BodyNeedsCorrection(authoritative, predicted) ==
  \/ StrideDistance(authoritative.stride, predicted.stride) > 1
  \/ \E field \in {"position", "stance", "previous", "progress", "stamina", "exhausted", "grounded"} :
       authoritative[field] # predicted[field]

Entry(press, world, answer) == [press |-> press, body |-> world.body, fall |-> world.fall, answer |-> answer]

EntryReplayed(done, entry, next) ==
  [world |-> next, entries |-> Append(done, Entry(entry.press, next, entry.answer))]

Replayed(world, entries) ==
  FoldSeq(LAMBDA entry, done : EntryReplayed(done.entries, entry, Moved(done.world, entry.press)),
          [world |-> world, entries |-> <<>>], entries)

\* What the client holds once the k-th unanswered Command is answered; none is at 0.
Reconciled(k) ==
  LET rest == SubSeq(unanswered, k + 1, Len(unanswered)) IN
  IF k > 0 /\ BodyNeedsCorrection(unanswered[k].answer.body, unanswered[k].body)
  THEN Replayed(Restore(ownBody, unanswered[k].answer.body, unanswered[k].fall), rest)
  ELSE [world |-> ownBody, entries |-> rest]

\* Nothing that the next Step follows from differs.
Alike(a, b) == a.body = b.body /\ (a.fall = b.fall \/ a.body.grounded)

\* From the answer on, the server ran what the client did.
AgreedAfter(k) ==
  LET entry == unanswered[k]
      corrected == BodyNeedsCorrection(entry.answer.body, entry.body)
      held == [body |-> IF corrected THEN entry.answer.body ELSE entry.body, fall |-> entry.fall]
  IN  /\ Alike(held, entry.answer)
      /\ \A i \in k + 1 .. Len(unanswered) : unanswered[i].answer.ran = unanswered[i].press

\* The Posing phase, with the input it poses the body of.
Posed(body, press) ==
  LET input == [body |-> body, yaw |-> press.yaw, pitch |-> press.pitch, ads |-> press.ads]
  IN  [pose |-> Pose(input), input |-> input]

\* Without a Command for a tick: its last one again, or no movement (OnCommandIngestion).
Coasts(press) == {press, [press EXCEPT !.go = 0, !.sprint = FALSE]}

Newest(entries) == SubSeq(entries, Len(entries) - Min({Len(entries), MaxUnanswered}) + 1, Len(entries))

\* A tick of both sides, which an answer may reach the client in.
MovementTick ==
  /\ ticks < MaxTicks
  /\ \E k \in 0 .. Len(unanswered) :
       \E reconciled \in {Reconciled(k)}, agreeing \in {IF k = 0 THEN agreed ELSE AgreedAfter(k)} :
         \E press \in Presses :
           \E ran \in {press} \cup (IF lostCommands < MaxLostCommands THEN Coasts(running) ELSE {}) :
             /\ ownBody' = Moved(reconciled.world, press)
             /\ simulated' = Moved(simulated, ran)
             /\ posed' = Posed(simulated'.body, ran)
             /\ running' = ran
             /\ unanswered' = Newest(Append(reconciled.entries, Entry(press, ownBody',
                  [body |-> simulated'.body, fall |-> simulated'.fall, ran |-> ran])))
             /\ agreed' = (agreeing /\ ran = press)
             /\ lostCommands' = IF ran = press THEN lostCommands ELSE lostCommands + 1
  /\ ticks' = ticks + 1
  /\ UNCHANGED lives

Still == [go |-> 0, sprint |-> FALSE, stance |-> "standing", yaw |-> 0, pitch |-> 0, ads |-> FALSE]

\* A new Match, both sides at one of its Spawn points: the server makes a body,
\* the client teleports the one it has.
Respawn ==
  /\ lives < MaxLives
  /\ ticks > 0
  /\ \E spawn \in SpawnPoints :
       /\ simulated' = CreateBody(spawn)
       /\ ownBody' = SetState(ownBody, NewBody(spawn))
       /\ posed' = Posed(NewBody(spawn), Still)
  /\ running' = Still
  /\ unanswered' = <<>>
  /\ agreed' = TRUE
  /\ lives' = lives + 1
  /\ UNCHANGED <<ticks, lostCommands>>

MovementInit ==
  /\ \E spawn \in SpawnPoints :
       /\ simulated = CreateBody(spawn)
       /\ ownBody = CreateBody(spawn)
       /\ posed = Posed(NewBody(spawn), Still)
  /\ running = Still
  /\ unanswered = <<>>
  /\ agreed = TRUE
  /\ ticks = 0 /\ lostCommands = 0 /\ lives = 1

MovementNext == MovementTick \/ Respawn

(***************************************************************************)
(* Properties                                                              *)
(***************************************************************************)
Fits(world) ==
  LET body == world.body IN
  /\ world.height = Height[body.stance]
  /\ body.position.y >= Floor[body.position.x]
  /\ ~Overlaps(body.position, world.height)
  /\ body.stamina \in 0 .. FullStamina

\* How much of a pose a stance is.
Share(body, stance) ==
  CASE body.previous = body.stance \/ body.progress = ProgressSteps ->
         IF stance = body.stance THEN ProgressSteps ELSE 0
    [] stance = body.stance -> body.progress
    [] stance = body.previous -> ProgressSteps - body.progress
    [] OTHER -> 0

\* Unless a change is left for a third stance, no stance's share of the pose
\* jumps; no body out of breath goes faster than it walks; and a fall starts
\* over from the ground.
FollowsFrom(before, after) ==
  /\ ~(ChangeUnderWay(before) /\ after.stance \notin {before.stance, before.previous}) =>
       \A stance \in DOMAIN Clips :
         LET jump == Share(after, stance) - Share(before, stance)
             duration == TransitionDuration(after.previous, after.stance)
         IN  jump # 0 => Max({jump, -jump}) <= Rounded(ProgressSteps, duration)
  /\ after.velocity.x \notin -WalkSpeed .. WalkSpeed =>
       after.stance = "standing" /\ ~before.exhausted /\ before.stamina > 0
  /\ before.grounded => after.velocity.y >= -Fall

(***************************************************************************)
(* A body moves alike wherever it is stepped, and as its pose shows it:    *)
(* once the client has the server's body and fall and the server runs its  *)
(* Commands, their bodies are the same, whatever either was before, lying  *)
(* under a table or respawned from there included; a controller is as      *)
(* tall as its body's stance and is never put where it does not fit; no    *)
(* pose jumps over a change of stance taken back; and every pose is a      *)
(* whole of the Character's own Clips, the feet landing together           *)
(* (World::Step, SetState and Restore; Poser::Pose).                       *)
(***************************************************************************)
BodyInv ==
  /\ agreed => Alike(ownBody, simulated)
  /\ Fits(simulated) /\ Fits(ownBody)
  /\ \A i \in 1 .. Len(unanswered) - 1 :
       /\ FollowsFrom(unanswered[i].answer.body, unanswered[i + 1].answer.body)
       /\ FollowsFrom(unanswered[i].body, unanswered[i + 1].body)
  /\ PosedTruly(posed.pose, posed.input)
=============================================================================
