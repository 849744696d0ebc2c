------------------------------- MODULE Posing -------------------------------
(***************************************************************************)
(* Which Clips make a body's pose, and how much of it each makes           *)
(* (animation/locomotion.cpp, animation/pose.cpp): a stance's blend space  *)
(* at a velocity, each Clip sampled where the Stride puts it, the stance a *)
(* change left blended into the one it is to, the air Clip in place of     *)
(* both, the Aim offset and the ADS grip on top.  Both sides pose a body   *)
(* with it, and pace its Movement by it.                                   *)
(*                                                                         *)
(* Angles are eighths of a turn from ahead towards the right, a Clip is    *)
(* the role it is loaded under, a ratio of its duration a share of Ratios. *)
(* A weight is a number of shares of the blend's whole, so that weights    *)
(* that are fractions in the code add up exactly.  The transforms          *)
(* themselves, and the arm HoldRifle bends, are left out.                  *)
(***************************************************************************)
EXTENDS Integers, Sequences, SequencesExt, FiniteSetsExt

CONSTANTS
  Clips,          \* each stance's: its roles, each with a Clip
  StrideSteps,    \* kStrideSteps
  ProgressSteps,  \* kStanceProgressSteps
  Ratios,         \* the places of a Clip a Foot contact is told at
  AirSpeed,       \* kAirVerticalSpeed
  MaxPitch,       \* kMaxLookPitch
  MaxSpeed        \* the fastest a body moves

\* Every stance has these (StanceClips), and Foot contacts are of a Clip.
PosingAssumption ==
  /\ \A stance \in DOMAIN Clips :
       {"idle", "forward", "backward", "aim_down", "aim_center", "aim_up", "ads"}
         \subseteq DOMAIN Clips[stance]
  /\ {ProgressSteps, Ratios, AirSpeed, MaxPitch} \subseteq Nat \ {0}
  /\ StrideSteps \in Nat \ {0} /\ StrideSteps % 2 = 0

ASSUME PosingAssumption

(***************************************************************************)
(* The blend space.  A body's velocity in its own space is an angle and a  *)
(* speed: right behind is at 4 or at -4, as atan2 tells a zero's sign.     *)
(***************************************************************************)
Directions ==
  <<<<"backward", -4>>, <<"backward_left", -3>>, <<"left", -2>>, <<"forward_left", -1>>,
    <<"forward", 0>>, <<"forward_right", 1>>, <<"right", 2>>, <<"backward_right", 3>>>>

DirectionsOf(clips) == SelectSeq(Directions, LAMBDA d : d[1] \in DOMAIN clips)

SpeedOf(clip) == IF clip.duration > 0 THEN clip.stride \div clip.duration ELSE 0

Shares(weights, whole) ==
  [weights |-> SelectSeq(weights, LAMBDA each : each[2] > 0), whole |-> whole]

\* The two directions either side of an angle, the last one's neighbour
\* backward again.
Below(around, angle) ==
  LET at == {i \in 1 .. Len(around) - 1 : around[i][2] <= angle /\ angle < around[i + 1][2]}
  IN  IF at = {} THEN Len(around) ELSE CHOOSE i \in at : TRUE

Above(around, i) == IF i = Len(around) THEN <<around[1][1], 4>> ELSE around[i + 1]

\* The Clips below and above the angle, toward shares of span towards the one
\* above; speeds are span times themselves.
Blended(below, above, span, toward, clipSpeed, speed, sprint) ==
  LET ahead(role, weight) == IF role = "forward" THEN weight ELSE 0
      forward == ahead(below, span - toward) + ahead(above, toward)
      over == Min({speed, sprint}) - clipSpeed
      rest == sprint - clipSpeed
  IN  CASE speed = 0 -> Shares(<<<<"idle", 1>>>>, 1)
        [] speed # 0 /\ clipSpeed > 0 /\ speed < clipSpeed ->
             Shares(<<<<"idle", span * (clipSpeed - speed)>>, <<below, (span - toward) * speed>>,
                      <<above, toward * speed>>>>, span * clipSpeed)
        [] speed > clipSpeed /\ sprint > clipSpeed /\ forward > 0 ->
             Shares(<<<<below, (span - toward) * rest - ahead(below, forward * over)>>,
                      <<above, toward * rest - ahead(above, forward * over)>>,
                      <<"sprint", forward * over>>>>, span * rest)
        [] OTHER -> Shares(<<<<below, span - toward>>, <<above, toward>>>>, span)

BlendBetween(clips, local, below, above) ==
  LET span == above[2] - below[2]
      toward == local.angle - below[2]
  IN  Blended(below[1], above[1], span, toward,
              (span - toward) * SpeedOf(clips[below[1]]) + toward * SpeedOf(clips[above[1]]),
              span * local.speed,
              IF "sprint" \in DOMAIN clips THEN span * SpeedOf(clips["sprint"]) ELSE 0)

BlendFrom(clips, local, around, i) == BlendBetween(clips, local, around[i], Above(around, i))

Blend(clips, local) ==
  LET around == DirectionsOf(clips) IN BlendFrom(clips, local, around, Below(around, local.angle))

Locals == [angle : -4 .. 4, speed : 0 .. MaxSpeed]

BlendSpace == [stance \in DOMAIN Clips, local \in Locals |-> Blend(Clips[stance], local)]

StrideOf(clips, moving) ==
  LET weighted == FoldSeq(LAMBDA each, sum : sum + each[2] * clips[each[1]].stride, 0, moving)
      weight == FoldSeq(LAMBDA each, sum : sum + each[2], 0, moving)
  IN  IF weight > 0 THEN weighted \div weight ELSE clips["forward"].stride

\* A stride length is rounded down where the Clips' share is no whole number.
StrideLength ==
  [stance \in DOMAIN Clips, local \in Locals |->
     StrideOf(Clips[stance],
       SelectSeq(BlendSpace[stance, local].weights, LAMBDA each : Clips[stance][each[1]].stride > 0))]

\* Velocities are along a line, ahead at yaw 0.
LocalVelocity(velocity, yaw) ==
  [speed |-> IF velocity < 0 THEN -velocity ELSE velocity,
   angle |-> (((IF velocity < 0 THEN 4 ELSE 0) - yaw + 3) % 8) - 3]

(***************************************************************************)
(* A Clip's place at a Stride, in shares of Ratios * StrideSteps: half a   *)
(* cycle from the left foot's contact to the right's, half back.           *)
(***************************************************************************)
HasContacts(clip) == clip.contacts # <<>>

RatioAt(clip, stride) ==
  LET toRight == (clip.contacts[2] - clip.contacts[1] + Ratios) % Ratios
      fromLeft == IF 2 * stride < StrideSteps
                  THEN 2 * stride * toRight
                  ELSE StrideSteps * toRight + (2 * stride - StrideSteps) * (Ratios - toRight)
  IN  IF HasContacts(clip)
      THEN (StrideSteps * clip.contacts[1] + fromLeft) % (Ratios * StrideSteps)
      ELSE 0

Clamped(low, n, high) == Max({low, Min({n, high})})

\* In shares of twice AirSpeed.
AirRatio(verticalSpeed) == Clamped(0, AirSpeed - verticalSpeed, 2 * AirSpeed)

(***************************************************************************)
(* A stance posed: its blend, the slots its samples are kept in, and what  *)
(* the Aim offset and the ADS grip add.                                    *)
(***************************************************************************)
MaxBlendedClips == 4

AddAim(stance, pitch, ads) ==
  LET toward == Min({IF pitch < 0 THEN -pitch ELSE pitch, MaxPitch})
  IN  (IF toward = 0 THEN <<>> ELSE <<<<IF pitch < 0 THEN "aim_down" ELSE "aim_up", toward>>>>)
        \o (IF ads THEN <<<<"ads", MaxPitch>>>> ELSE <<>>)

Sampled(stance, blend, input, index) ==
  [stance |-> stance,
   whole |-> blend.whole,
   layers |-> [i \in 1 .. Len(blend.weights) |->
                 [role |-> blend.weights[i][1],
                  weight |-> blend.weights[i][2],
                  slot |-> index * MaxBlendedClips + i,
                  ratio |-> RatioAt(Clips[stance][blend.weights[i][1]], input.body.stride)]],
   aim |-> AddAim(stance, input.pitch, input.ads)]

BlendStance(stance, input, index) ==
  Sampled(stance, BlendSpace[stance, LocalVelocity(input.body.velocity.x, input.yaw)], input, index)

PoseInTheAir(input) ==
  [stance |-> input.body.stance,
   whole |-> 1,
   layers |-> <<[role |-> "air", weight |-> 1, slot |-> 1,
                 ratio |-> AirRatio(input.body.velocity.y)]>>,
   aim |-> AddAim(input.body.stance, input.pitch, input.ads)]

ChangeUnderWay(body) == body.previous # body.stance /\ body.progress < ProgressSteps

\* The stances blended, each with its share of ProgressSteps.
PoseStances(input) ==
  LET body == input.body IN
  CASE ~body.grounded -> <<[posed |-> PoseInTheAir(input), weight |-> ProgressSteps]>>
    [] body.grounded /\ ~ChangeUnderWay(body) ->
         <<[posed |-> BlendStance(body.stance, input, 0), weight |-> ProgressSteps]>>
    [] OTHER ->
         <<[posed |-> BlendStance(body.stance, input, 0), weight |-> body.progress],
           [posed |-> BlendStance(body.previous, input, 1), weight |-> ProgressSteps - body.progress]>>

\* The root follows the body; how low it is, its stances' Clips.
Pose(input) ==
  [root |-> [position |-> input.body.position, yaw |-> input.yaw, stance |-> input.body.stance],
   stances |-> PoseStances(input)]

PacingOf(body, yaw) == StrideLength[body.stance, LocalVelocity(body.velocity.x, yaw)]

(***************************************************************************)
(* What a pose is made of, whatever the body did: every layer is of a Clip *)
(* its Character has, its weights make a whole, no two samples share a     *)
(* slot; the Clips blended land the same foot together, and together move  *)
(* never faster than the body they are the pose of (PoseStances).          *)
(***************************************************************************)
Total(layers) == FoldSeq(LAMBDA each, sum : sum + each.weight, 0, layers)

InStep(clip, ratio, stride) ==
  LET at == (ratio - StrideSteps * clip.contacts[1] + Ratios * StrideSteps) % (Ratios * StrideSteps)
      right == StrideSteps * ((clip.contacts[2] - clip.contacts[1] + Ratios) % Ratios)
  IN  /\ 2 * stride < StrideSteps <=> at < right
      /\ stride = 0 => at = 0
      /\ 2 * stride = StrideSteps => at = right

MakesAPose(posed, input) ==
  LET clips == Clips[posed.stance]
      speed == LocalVelocity(input.body.velocity.x, input.yaw).speed
      moves == FoldSeq(LAMBDA each, sum : sum + each.weight * SpeedOf(clips[each.role]), 0, posed.layers)
      flying == posed.layers[1].role = "air"
  IN  /\ Len(posed.layers) \in 1 .. MaxBlendedClips
      /\ Total(posed.layers) = posed.whole
      /\ \A each \in ToSet(posed.aim) : each[2] \in 1 .. MaxPitch /\ each[1] \in DOMAIN clips
      /\ ~flying =>
           /\ \A layer \in ToSet(posed.layers) :
                /\ layer.role \in DOMAIN clips
                /\ HasContacts(clips[layer.role]) =>
                     InStep(clips[layer.role], layer.ratio, input.body.stride)
           /\ moves <= speed * posed.whole
           /\ "idle" \in {layer.role : layer \in ToSet(posed.layers)} => moves = speed * posed.whole

PosedTruly(pose, input) ==
  LET slots == FlattenSeq([i \in 1 .. Len(pose.stances) |->
                            [j \in 1 .. Len(pose.stances[i].posed.layers) |->
                               pose.stances[i].posed.layers[j].slot]])
  IN  /\ IsInjective(slots)
      /\ Total(pose.stances) = ProgressSteps
      /\ \A each \in ToSet(pose.stances) : MakesAPose(each.posed, input)
      /\ \A i \in 1 .. Len(pose.stances) :
           pose.stances[i].posed.layers[1].role = "air" <=> ~input.body.grounded
=============================================================================
