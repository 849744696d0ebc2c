---------------------------- MODULE WorldsProofs ----------------------------
(***************************************************************************)
(* Proofs about what becomes of a World's ticks: a tick of the live World  *)
(* (Simulation.tla), the two threads of the server that runs captured      *)
(* Matches again for viewers (ReplayServer.tla), and the directory that    *)
(* keeps captures (CaptureDirectory.tla).                                  *)
(***************************************************************************)
EXTENDS Simulation, ReplayServer, CaptureDirectory, Subsequences

-----------------------------------------------------------------------------
(***************************************************************************)
(* A tick of the World: types.                                             *)
(***************************************************************************)
Poses == [from : 1 .. MaxTicks, to : 1 .. MaxTicks, fraction : 0 .. Half - 1]
Struck == [shooter : Players, target : Players, part : Parts, pose : Poses, delay : Half .. MaxDelay]

WorldTypes ==
  /\ tick \in 0 .. MaxTicks /\ match \in 0 .. MaxMatches /\ startedOn \in 0 .. tick
  /\ phase \in Phases
  /\ DOMAIN players \subseteq Players /\ players \in [DOMAIN players -> Slots]
  /\ bullets \subseteq Bullets
  /\ flights \in [DOMAIN flights -> Nat] /\ nextHandle \in Nat
  /\ playerHits \in Seq(Struck)
  /\ committed \in States
  /\ fired \in [Players -> Seq(Nat)]

(***************************************************************************)
(* What a phase leaves the next, and a tick the next one: nothing posed,   *)
(* struck or yet to fly.                                                   *)
(***************************************************************************)
PhasesOK ==
  /\ phase # "ballistics" => posed = {} /\ playerHits = <<>> /\ toFly = {}
  /\ phase # "idle" => startedOn < tick
  /\ DOMAIN players # {} => match > 0
  /\ phase \in {"posing", "ballistics"} => committed.hits = {} /\ committed.deaths = {}
  /\ phase # "idle" => committed.alive = {}
  /\ \A p \in DOMAIN players : players[p].shot = 0 \/ players[p].shot >= Half

(***************************************************************************)
(* The history of a player alive is of the last ticks posed, as many as    *)
(* the Match had or the ring holds, in order from its oldest slot.         *)
(***************************************************************************)
LastPosed == IF phase = "idle" THEN tick ELSE tick - 1

Kept(began, newest) == IF newest - began < HitboxHistoryTicks THEN newest - began ELSE HitboxHistoryTicks

HistoryOK(h, began, newest) ==
  /\ h.size = Kept(began, newest)
  /\ h.size > 0 => h.newest = newest
  /\ \A count \in 0 .. h.size - 1 : h.roots[SlotOf(h, count)] = newest - h.size + 1 + count

HistoriesOK == \A p \in DOMAIN players : players[p].alive => HistoryOK(players[p].history, startedOn, LastPosed)

(***************************************************************************)
(* Whoever is posed for a bullet or struck is alive, and judged where seen.*)
(***************************************************************************)
StruckOK ==
  /\ \A hitbox \in posed :
       /\ hitbox.target \in Living /\ hitbox.part \in Parts
       /\ hitbox.pose = PoseFor(hitbox.target, hitbox.time)
  /\ \A i \in DOMAIN playerHits :
       playerHits[i].target \in Living /\ playerHits[i].pose = SeenPose(playerHits[i].delay)

(***************************************************************************)
(* Whom the tick's deaths name has no health left, and whom its State      *)
(* leaves out none either.                                                 *)
(***************************************************************************)
DeathsOK ==
  /\ phase \in {"scripts", "commit"} =>
       \A d \in committed.deaths : d.victim \in DOMAIN players /\ players[d.victim].health = 0
  /\ phase = "idle" /\ startedOn < tick => Living \subseteq committed.alive

(***************************************************************************)
(* A flight has as many steps as ticks since its round was fired, and a    *)
(* player fires one round a tick at most.                                  *)
(***************************************************************************)
FlightsOK ==
  /\ \A handle \in DOMAIN flights : handle < nextHandle /\ flights[handle] < MaxFlightSteps
  /\ toFly \subseteq DOMAIN flights
  /\ \A b \in bullets :
       /\ b.firedOn <= tick /\ (phase = "posing" => b.firedOn < tick)
       /\ flights[b.handle] =
            tick - b.firedOn + (IF phase = "posing" \/ b.handle \in toFly THEN 0 ELSE 1)
  /\ \A b, c \in bullets : b.shooter = c.shooter /\ b.firedOn = c.firedOn => b = c
  /\ {b.handle : b \in bullets} = DOMAIN flights
  /\ \A b, c \in bullets : b.handle = c.handle => b = c
  /\ \A b \in bullets : b.match = match

(***************************************************************************)
(* A rifle's cooldown is at least what its rounds so far have earned it.   *)
(***************************************************************************)
CooldownOK ==
  \A p \in Living : \A i \in DOMAIN fired[p] :
    (Len(fired[p]) - i + 1) * FirePeriod <= players[p].rifle.cooldown + (tick - fired[p][i] + 2) * Half

WorldIInv ==
  WorldTypes /\ PhasesOK /\ HistoriesOK /\ StruckOK /\ DeathsOK /\ TheDeadAreOut /\ FlightsOK
  /\ CooldownOK /\ NeverFasterThanItsRate /\ JudgedWhereSeen

-----------------------------------------------------------------------------
(***************************************************************************)
(* Numbers.                                                                *)
(***************************************************************************)
LEMMA ConstantsOK ==
  /\ Half = 2 /\ MaxDelay \in Nat /\ MaxDelay >= 2
  /\ Magazine \in Nat /\ Magazine > 0 /\ FirePeriod \in Nat /\ FirePeriod > 0
  /\ ReloadTime \in Nat /\ ReloadTime > 0 /\ StartingHealth \in Nat /\ StartingHealth > 0
  /\ MaxFlightSteps \in Nat /\ MaxFlightSteps > 0
  /\ MaxTicks \in Nat /\ MaxMatches \in Nat
  /\ IsFiniteSet(Players) /\ \A part \in Parts : Damage[part] \in Nat /\ Damage[part] > 0
BY SimulationAssumption DEF SimulationAssumption, Parts

LEMMA RingOK ==
  HitboxHistoryTicks \in Nat /\ HitboxHistoryTicks > 0 /\ 2 * HitboxHistoryTicks >= MaxDelay
BY ConstantsOK DEF HitboxHistoryTicks

(* Nothing is on a ring's turn but one slot past its last.                 *)
LEMMA Wraps ==
  ASSUME NEW n \in Nat, n > 0, NEW i \in 0 .. 2 * n - 1
  PROVE  i % n = IF i < n THEN i ELSE i - n
<1>1. CASE i < n
  BY <1>1
<1>2. CASE i >= n
  <2>1. i - n \in 0 .. n - 1
    BY <1>2
  <2>2. i = 1 * n + (i - n)
    OBVIOUS
  <2>3. QED
    BY <1>2, <2>1, <2>2
<1>3. QED
  BY <1>1, <1>2

-----------------------------------------------------------------------------
(***************************************************************************)
(* The ring of poses.                                                      *)
(***************************************************************************)
LEMMA SlotIs ==
  ASSUME NEW h \in Histories, NEW count \in 0 .. HitboxHistoryTicks
  PROVE  /\ SlotOf(h, count) \in 0 .. HitboxHistoryTicks - 1
         /\ SlotOf(h, count) = IF h.oldest + count < HitboxHistoryTicks THEN h.oldest + count
                               ELSE h.oldest + count - HitboxHistoryTicks
<1>1. h.oldest \in 0 .. HitboxHistoryTicks - 1
  BY DEF Histories
<1>. DEFINE n == HitboxHistoryTicks
            i == h.oldest + count
<1>2. n \in Nat /\ n > 0 /\ i \in 0 .. 2 * n - 1
  BY <1>1, RingOK
<1>3. i % n = IF i < n THEN i ELSE i - n
  <2>. HIDE DEF i, n
  <2>. QED
    BY <1>2, Wraps
<1>4. QED
  BY <1>1, <1>2, <1>3 DEF SlotOf

-----------------------------------------------------------------------------
(***************************************************************************)
(* Damage.                                                                 *)
(***************************************************************************)
Healths == [DOMAIN players -> 0 .. StartingHealth]
HealthsNow == [p \in DOMAIN players |-> players[p].health]
Less(left, n) ==
  [left EXCEPT ![playerHits[n].target] =
     IF @ > Damage[playerHits[n].part] THEN @ - Damage[playerHits[n].part] ELSE 0]

HitsAreOfPlayers == \A i \in DOMAIN playerHits : playerHits[i].target \in DOMAIN players

LEMMA LessIsHealth ==
  ASSUME NEW left \in Healths, NEW n \in DOMAIN playerHits, WorldTypes, HitsAreOfPlayers
  PROVE  /\ Less(left, n) \in Healths
         /\ \A p \in DOMAIN players :
              /\ Less(left, n)[p] <= left[p]
              /\ p # playerHits[n].target => Less(left, n)[p] = left[p]
<1>. DEFINE t == playerHits[n].target
            d == Damage[playerHits[n].part]
            less == IF left[t] > d THEN left[t] - d ELSE 0
<1>1. t \in DOMAIN players /\ d \in Nat
  <2>1. playerHits[n] \in Struck
    BY DEF WorldTypes
  <2>2. playerHits[n].part \in Parts
    BY <2>1 DEF Struck
  <2>3. QED
    BY <2>2, ConstantsOK DEF HitsAreOfPlayers
<1>2. \A p \in DOMAIN players : left[p] \in 0 .. StartingHealth
  BY DEF Healths
<1>3. less \in 0 .. StartingHealth /\ less <= left[t]
  <2>. HIDE DEF d, t
  <2>. QED
    BY <1>1, <1>2, ConstantsOK
<1>4. Less(left, n) = [left EXCEPT ![t] = less]
  BY DEF Less
<1>5. DOMAIN left = DOMAIN players
  BY DEF Healths
<1>. HIDE DEF less, t
<1>6. QED
  BY <1>1, <1>2, <1>3, <1>4, <1>5, ConstantsOK DEF Healths, t

LEMMA HealthLeftIs ==
  ASSUME WorldTypes, HitsAreOfPlayers
  PROVE  /\ HealthLeft \in [0 .. Len(playerHits) -> Healths]
         /\ HealthLeft[0] = HealthsNow
         /\ \A n \in DOMAIN playerHits : HealthLeft[n] = Less(HealthLeft[n - 1], n)
<1>. DEFINE step == [i \in Nat |-> [left \in Healths |->
                       IF i \in DOMAIN playerHits THEN Less(left, i) ELSE left]]
            N == Len(playerHits)
            Is(f) == f = [n \in 0 .. N |-> IF n = 0 THEN HealthsNow ELSE Less(f[n - 1], n)]
<1>1. N \in Nat /\ DOMAIN playerHits = 1 .. N
  BY DEF WorldTypes
<1>2. HealthsNow \in Healths
  <2>1. \A p \in DOMAIN players : players[p].health \in 0 .. StartingHealth
    BY DEF WorldTypes, Slots
  <2>2. QED
    BY <2>1 DEF HealthsNow, Healths
<1>3. step \in [Nat -> [Healths -> Healths]]
  <2>1. \A i \in DOMAIN playerHits, left \in Healths : Less(left, i) \in Healths
    BY LessIsHealth
  <2>2. QED
    BY <2>1
<1>4. PICK f \in [0 .. N -> Healths] : Counts(f, HealthsNow, step, N)
  <2>. HIDE DEF step, N
  <2>. QED
    BY <1>1, <1>2, <1>3, CountedTo, Zenon
<1>5. ASSUME NEW n \in 0 .. N PROVE f[n] = IF n = 0 THEN HealthsNow ELSE Less(f[n - 1], n)
  <2>. HIDE DEF N
  <2>1. f[n] = IF n = 0 THEN HealthsNow ELSE step[n][f[n - 1]]
    <3>. HIDE DEF step
    <3>. QED
      BY <1>4, Zenon DEF Counts
  <2>2. CASE n # 0
    <3>1. n \in DOMAIN playerHits /\ n \in Nat /\ n - 1 \in 0 .. N
      BY <1>1, <2>2
    <3>2. f[n - 1] \in Healths
      BY <3>1
    <3>3. step[n][f[n - 1]] = Less(f[n - 1], n)
      BY <3>1, <3>2
    <3>4. QED
      BY <2>1, <2>2, <3>3
  <2>3. QED
    BY <2>1, <2>2
<1>6. Is(f)
  <2>. HIDE DEF N, step
  <2>1. DOMAIN f = 0 .. N
    OBVIOUS
  <2>2. QED
    BY <1>5, <2>1
<1>7. HealthLeft = CHOOSE g : Is(g)
  BY Zenon DEF HealthLeft, HealthsNow, Less
<1>8. Is(HealthLeft)
  <2>. HIDE DEF Is
  <2>. QED
    BY <1>6, <1>7, Zenon
<1>. DEFINE Apart == {n \in 0 .. N : HealthLeft[n] # f[n]}
<1>9. HealthLeft = f
  <2>1. SUFFICES ASSUME Apart # {} PROVE FALSE
    <3>. HIDE DEF N, step
    <3>1. DOMAIN HealthLeft = 0 .. N /\ DOMAIN f = 0 .. N
      BY <1>8, Zenon
    <3>2. f = [n \in 0 .. N |-> f[n]] /\ HealthLeft = [n \in 0 .. N |-> HealthLeft[n]]
      BY <1>8, Zenon
    <3>3. (\A n \in 0 .. N : HealthLeft[n] = f[n]) => HealthLeft = f
      <4>. HIDE DEF Is
      <4>1. ASSUME \A n \in 0 .. N : HealthLeft[n] = f[n]
            PROVE  [n \in 0 .. N |-> HealthLeft[n]] = [n \in 0 .. N |-> f[n]]
        BY <4>1
      <4>2. QED
        BY <3>2, <4>1
    <3>4. QED
      BY <3>3
  <2>. HIDE DEF N, step
  <2>2. Apart \subseteq Nat /\ Apart \subseteq 0 .. N
    BY <1>1
  <2>3. PICK n \in Apart : \A k \in Apart : n <= k
    <3>. HIDE DEF Apart
    <3>. QED
      BY <2>1, <2>2, LeastNat
  <2>4. n \in 0 .. N /\ HealthLeft[n] # f[n]
    OBVIOUS
  <2>5. HealthLeft[n] = IF n = 0 THEN HealthsNow ELSE Less(HealthLeft[n - 1], n)
    BY <1>8, <2>4, Zenon
  <2>6. n # 0 => n - 1 \in 0 .. N /\ ~(n <= n - 1)
    BY <1>1, <2>4
  <2>7. n # 0 => HealthLeft[n - 1] = f[n - 1]
    BY <2>3, <2>6
  <2>8. QED
    BY <1>5, <2>4, <2>5, <2>7
<1>10. QED
  <2>. HIDE DEF N, step
  <2>1. \A n \in DOMAIN playerHits : n \in 0 .. N /\ n # 0
    BY <1>1
  <2>2. 0 \in 0 .. N
    BY <1>1
  <2>3. HealthLeft \in [0 .. N -> Healths] /\ HealthLeft[0] = HealthsNow
    BY <1>5, <1>9, <2>2
  <2>4. \A n \in DOMAIN playerHits : HealthLeft[n] = Less(HealthLeft[n - 1], n)
    BY <1>5, <1>9, <2>1
  <2>5. QED
    BY <2>3, <2>4 DEF N

(* What is taken off a health is never given back.                         *)
LEMMA HealthOnlyFalls ==
  ASSUME WorldTypes, HitsAreOfPlayers, NEW p \in DOMAIN players,
         NEW m \in 0 .. Len(playerHits), NEW n \in 0 .. Len(playerHits), m <= n
  PROVE  HealthLeft[n][p] <= HealthLeft[m][p] /\ HealthLeft[n][p] \in Nat /\ HealthLeft[m][p] \in Nat
<1>. DEFINE N == Len(playerHits)
            Risen == {k \in m .. N : ~(HealthLeft[k][p] <= HealthLeft[m][p])}
<1>1. N \in Nat /\ DOMAIN playerHits = 1 .. N
  BY DEF WorldTypes
<1>2. \A k \in 0 .. N : HealthLeft[k][p] \in Nat
  <2>1. HealthLeft \in [0 .. N -> Healths]
    BY HealthLeftIs
  <2>2. \A left \in Healths : left[p] \in Nat
    BY ConstantsOK DEF Healths
  <2>. HIDE DEF N
  <2>3. QED
    BY <2>1, <2>2
<1>3. SUFFICES ASSUME Risen # {} PROVE FALSE
  <2>. HIDE DEF N
  <2>1. n \in m .. N /\ m \in 0 .. N /\ n \in 0 .. N
    BY <1>1 DEF N
  <2>2. QED
    BY <1>2, <2>1
<1>. HIDE DEF N
<1>4. Risen \subseteq Nat /\ \A k \in Risen : k \in m .. N /\ ~(HealthLeft[k][p] <= HealthLeft[m][p])
  BY <1>1
<1>5. PICK k \in Risen : \A l \in Risen : k <= l
  <2>. HIDE DEF Risen
  <2>. QED
    BY <1>3, <1>4, LeastNat
<1>6. k \in m .. N /\ k \in 0 .. N /\ m \in 0 .. N
  BY <1>1, <1>4 DEF N
<1>7. k # m
  BY <1>2, <1>4, <1>6
<1>8. k - 1 \in m .. N /\ k - 1 \in 0 .. N /\ k \in DOMAIN playerHits /\ ~(k <= k - 1)
  BY <1>1, <1>6, <1>7
<1>9. HealthLeft[k - 1][p] <= HealthLeft[m][p]
  BY <1>5, <1>8
<1>10. HealthLeft[k][p] <= HealthLeft[k - 1][p]
  <2>1. HealthLeft[k] = Less(HealthLeft[k - 1], k) /\ HealthLeft[k - 1] \in Healths
    BY <1>8, HealthLeftIs DEF N
  <2>2. QED
    BY <1>8, <2>1, LessIsHealth
<1>11. QED
  BY <1>2, <1>4, <1>6, <1>8, <1>9, <1>10

(* A player dies of one hit, the one that took its health to zero.         *)
LEMMA DiesOnce ==
  ASSUME WorldTypes, HitsAreOfPlayers, NEW m \in DOMAIN playerHits, NEW n \in DOMAIN playerHits,
         ReachedZero(m), ReachedZero(n), playerHits[m].target = playerHits[n].target
  PROVE  m = n
<1>. DEFINE t == playerHits[m].target
<1>1. t \in DOMAIN players
  BY DEF HitsAreOfPlayers
<1>2. \A i \in DOMAIN playerHits : i \in Nat /\ i \in 0 .. Len(playerHits) /\ i - 1 \in 0 .. Len(playerHits)
  BY DEF WorldTypes
<1>3. ASSUME NEW i \in DOMAIN playerHits, NEW j \in DOMAIN playerHits, i < j, ReachedZero(i), ReachedZero(j),
             playerHits[i].target = t, playerHits[j].target = t
      PROVE  FALSE
  <2>1. i <= j - 1 /\ i \in 0 .. Len(playerHits) /\ j - 1 \in 0 .. Len(playerHits)
    BY <1>2, <1>3
  <2>2. HealthLeft[j - 1][t] <= HealthLeft[i][t] /\ HealthLeft[j - 1][t] \in Nat
    BY <1>1, <2>1, HealthOnlyFalls
  <2>3. HealthLeft[i][t] = 0 /\ HealthLeft[j - 1][t] > 0
    BY <1>3 DEF ReachedZero
  <2>4. QED
    BY <2>2, <2>3
<1>4. m < n \/ n < m \/ m = n
  BY <1>2
<1>5. QED
  BY <1>3, <1>4

LEMMA DiesOfAHit ==
  ASSUME WorldTypes, HitsAreOfPlayers, NEW p \in DOMAIN players
  PROVE  /\ HealthLeft[Len(playerHits)][p] \in 0 .. players[p].health
         /\ (\E d \in Killed : d.victim = p) <=>
              players[p].health > 0 /\ HealthLeft[Len(playerHits)][p] = 0
<1>. DEFINE N == Len(playerHits)
            Gone == {k \in 0 .. N : HealthLeft[k][p] = 0}
<1>1. N \in Nat /\ DOMAIN playerHits = 1 .. N /\ 0 \in 0 .. N /\ N \in 0 .. N
  BY DEF WorldTypes
<1>2. HealthLeft[0][p] = players[p].health
  BY HealthLeftIs DEF HealthsNow
<1>3. HealthLeft[N][p] \in 0 .. players[p].health
  <2>. HIDE DEF N
  <2>1. HealthLeft[N][p] <= HealthLeft[0][p] /\ HealthLeft[N][p] \in Nat /\ HealthLeft[0][p] \in Nat
    BY <1>1, HealthOnlyFalls DEF N
  <2>2. QED
    BY <1>2, <2>1
<1>4. ASSUME NEW d \in Killed, d.victim = p
      PROVE  players[p].health > 0 /\ HealthLeft[N][p] = 0
  <2>1. PICK n \in DOMAIN playerHits : ReachedZero(n) /\ d = [victim |-> playerHits[n].target, killer |-> playerHits[n].shooter]
    BY DEF Killed
  <2>2. playerHits[n].target = p
    BY <1>4, <2>1
  <2>. HIDE DEF N
  <2>3. n - 1 \in 0 .. N /\ n \in 0 .. N /\ 0 <= n - 1 /\ n <= N
    BY <1>1
  <2>4. HealthLeft[N][p] <= HealthLeft[n][p] /\ HealthLeft[N][p] \in Nat
    BY <1>1, <2>3, HealthOnlyFalls DEF N
  <2>5. HealthLeft[n - 1][p] <= HealthLeft[0][p] /\ HealthLeft[n - 1][p] \in Nat /\ HealthLeft[0][p] \in Nat
    BY <1>1, <2>3, HealthOnlyFalls DEF N
  <2>6. HealthLeft[n - 1][p] > 0 /\ HealthLeft[n][p] = 0
    BY <2>1, <2>2 DEF ReachedZero
  <2>7. QED
    BY <1>2, <2>4, <2>5, <2>6
<1>5. ASSUME players[p].health > 0, HealthLeft[N][p] = 0
      PROVE  \E d \in Killed : d.victim = p
  <2>. HIDE DEF N
  <2>1. Gone \subseteq Nat /\ Gone # {}
    BY <1>1, <1>5
  <2>2. PICK k \in Gone : \A l \in Gone : k <= l
    <3>. HIDE DEF Gone
    <3>. QED
      BY <2>1, LeastNat
  <2>3. k # 0
    BY <1>2, <1>5
  <2>4. k \in DOMAIN playerHits /\ k - 1 \in 0 .. N /\ ~(k <= k - 1)
    BY <1>1, <2>3
  <2>5. HealthLeft[k - 1][p] # 0 /\ HealthLeft[k][p] = 0
    BY <2>2, <2>4
  <2>6. HealthLeft[k] = Less(HealthLeft[k - 1], k) /\ HealthLeft[k - 1] \in Healths
    BY <2>4, HealthLeftIs DEF N
  <2>7. playerHits[k].target = p
    BY <2>4, <2>5, <2>6, LessIsHealth
  <2>8. HealthLeft[k - 1][p] > 0
    BY <2>5, <2>6, ConstantsOK DEF Healths
  <2>9. ReachedZero(k)
    BY <2>5, <2>7, <2>8 DEF ReachedZero
  <2>10. [victim |-> playerHits[k].target, killer |-> playerHits[k].shooter] \in Killed
    BY <2>4, <2>9 DEF Killed
  <2>11. QED
    BY <2>7, <2>10
<1>6. QED
  BY <1>3, <1>4, <1>5

-----------------------------------------------------------------------------
(***************************************************************************)
(* Between ticks.                                                          *)
(***************************************************************************)
LEMMA NothingPosedOrStruck ==
  ASSUME posed = {}, playerHits = <<>> PROVE StruckOK
BY DEF StruckOK

LEMMA WorldStarts == WorldInit => WorldIInv
<1>1. SUFFICES ASSUME WorldInit PROVE WorldIInv
  OBVIOUS
<1>. DEFINE nobody == [p \in {} |-> NewPlayer]
            none == [h \in {} |-> 0]
<1>2. players = nobody /\ flights = none /\ DOMAIN players = {} /\ DOMAIN flights = {}
  BY <1>1 DEF WorldInit
<1>3. NothingCommitted \in States
  BY DEF NothingCommitted, States
<1>4. WorldTypes
  BY <1>1, <1>2, <1>3, ConstantsOK DEF WorldInit, WorldTypes, Phases
<1>5. PhasesOK
  BY <1>1, <1>2 DEF WorldInit, PhasesOK
<1>6. HistoriesOK
  BY <1>2 DEF HistoriesOK
<1>7. StruckOK
  BY <1>1, NothingPosedOrStruck DEF WorldInit
<1>8. Living = {}
  BY <1>2 DEF Living
<1>9. DeathsOK /\ TheDeadAreOut
  BY <1>1, <1>2, <1>8 DEF WorldInit, DeathsOK, TheDeadAreOut, NothingCommitted
<1>10. FlightsOK
  BY <1>1, <1>2 DEF WorldInit, FlightsOK
<1>11. \A p \in Players : fired[p] = <<>>
  BY <1>1 DEF WorldInit
<1>12. CooldownOK /\ NeverFasterThanItsRate
  BY <1>8, <1>11 DEF CooldownOK, NeverFasterThanItsRate
<1>13. JudgedWhereSeen
  BY <1>1 DEF WorldInit, JudgedWhereSeen
<1>14. QED
  BY <1>4, <1>5, <1>6, <1>7, <1>9, <1>10, <1>12, <1>13 DEF WorldIInv

LEMMA EndMatchStep ==
  ASSUME WorldIInv, EndMatch PROVE WorldIInv'
<1>1. DOMAIN players' = {} /\ DOMAIN flights' = {} /\ bullets' = {} /\ nextHandle' = 0
  BY DEF EndMatch
<1>2. UNCHANGED <<tick, phase, posed, toFly, playerHits, committed, match, startedOn, fired>> /\ phase = "idle"
  BY DEF EndMatch
<1>3. WorldTypes'
  <2>1. players' \in [DOMAIN players' -> Slots] /\ flights' \in [DOMAIN flights' -> Nat]
    BY DEF EndMatch
  <2>2. QED
    BY <1>1, <1>2, <2>1 DEF WorldIInv, WorldTypes
<1>4. PhasesOK'
  BY <1>1, <1>2 DEF WorldIInv, PhasesOK
<1>5. HistoriesOK'
  BY <1>1 DEF HistoriesOK
<1>6. posed' = {} /\ playerHits' = <<>> /\ toFly' = {}
  BY <1>2 DEF WorldIInv, PhasesOK
<1>7. StruckOK'
  BY <1>6 DEF StruckOK
<1>8. Living' = {}
  BY <1>1 DEF Living
<1>9. DeathsOK' /\ TheDeadAreOut'
  BY <1>1, <1>2, <1>8 DEF WorldIInv, DeathsOK, TheDeadAreOut
<1>10. FlightsOK'
  BY <1>1, <1>6 DEF FlightsOK
<1>11. CooldownOK' /\ NeverFasterThanItsRate'
  BY <1>2, <1>8 DEF WorldIInv, CooldownOK, NeverFasterThanItsRate
<1>12. JudgedWhereSeen'
  BY <1>2 DEF JudgedWhereSeen
<1>13. QED
  BY <1>3, <1>4, <1>5, <1>7, <1>9, <1>10, <1>11, <1>12 DEF WorldIInv

LEMMA NewHistory ==
  ASSUME NEW began \in Nat PROVE HistoryOK(EmptyHistory, began, began)
BY RingOK DEF EmptyHistory, HistoryOK, Kept

LEMMA NewPlayerIsSlot == NewPlayer \in Slots
<1>1. EmptyHistory \in Histories
  BY ConstantsOK, RingOK DEF EmptyHistory, Histories
<1>2. Loaded \in Rifles
  BY ConstantsOK DEF Loaded, Rifles
<1>3. QED
  BY <1>1, <1>2, ConstantsOK DEF NewPlayer, Slots

LEMMA StartMatchStep ==
  ASSUME WorldIInv, NEW entrants \in SUBSET Players, StartMatch(entrants) PROVE WorldIInv'
<1>1. /\ DOMAIN players' = entrants /\ \A p \in entrants : players'[p] = NewPlayer
      /\ DOMAIN flights' = {} /\ bullets' = {} /\ nextHandle' = 0
      /\ match' = match + 1 /\ match < MaxMatches /\ startedOn' = tick /\ \A p \in Players : fired'[p] = <<>>
  BY DEF StartMatch
<1>2. UNCHANGED <<tick, phase, posed, toFly, playerHits, committed>> /\ phase = "idle"
  BY DEF StartMatch
<1>3. tick \in Nat /\ match \in Nat
  BY DEF WorldIInv, WorldTypes
<1>4. WorldTypes'
  <2>1. players' \in [DOMAIN players' -> Slots] /\ flights' \in [DOMAIN flights' -> Nat]
    BY NewPlayerIsSlot DEF StartMatch
  <2>2. fired' \in [Players -> Seq(Nat)]
    BY DEF StartMatch
  <2>3. match' \in 0 .. MaxMatches
    BY <1>1, ConstantsOK DEF WorldIInv, WorldTypes
  <2>4. QED
    BY <1>1, <1>2, <1>3, <2>1, <2>2, <2>3 DEF WorldIInv, WorldTypes
<1>5. PhasesOK'
  <2>1. NewPlayer.shot = 0
    BY DEF NewPlayer
  <2>2. QED
    BY <1>1, <1>2, <1>3, <2>1 DEF WorldIInv, PhasesOK
<1>6. HistoriesOK'
  <2>1. LastPosed' = startedOn' /\ startedOn' \in Nat
    BY <1>1, <1>2, <1>3 DEF LastPosed
  <2>2. HistoryOK(EmptyHistory, startedOn', LastPosed')
    BY <2>1, NewHistory
  <2>3. NewPlayer.history = EmptyHistory
    BY DEF NewPlayer
  <2>4. QED
    BY <1>1, <2>2, <2>3 DEF HistoriesOK
<1>7. posed' = {} /\ playerHits' = <<>> /\ toFly' = {}
  BY <1>2 DEF WorldIInv, PhasesOK
<1>8. StruckOK'
  BY <1>7 DEF StruckOK
<1>9. DeathsOK' /\ TheDeadAreOut'
  <2>1. \A p \in DOMAIN players' : players'[p].alive /\ players'[p].health > 0
    BY <1>1, ConstantsOK DEF NewPlayer
  <2>2. ~(startedOn' < tick')
    BY <1>1, <1>2, <1>3
  <2>3. QED
    BY <1>2, <2>1, <2>2 DEF WorldIInv, DeathsOK, TheDeadAreOut
<1>10. FlightsOK'
  BY <1>1, <1>7 DEF FlightsOK
<1>11. CooldownOK' /\ NeverFasterThanItsRate'
  <2>1. Living' \subseteq Players
    BY <1>1 DEF Living
  <2>2. QED
    BY <1>1, <2>1 DEF CooldownOK, NeverFasterThanItsRate
<1>12. JudgedWhereSeen'
  BY <1>2 DEF JudgedWhereSeen
<1>13. QED
  BY <1>4, <1>5, <1>6, <1>8, <1>9, <1>10, <1>11, <1>12 DEF WorldIInv

LEMMA RemovePlayerStep ==
  ASSUME WorldIInv, NEW p \in Players, RemovePlayer(p) PROVE WorldIInv'
<1>1. /\ DOMAIN players' = DOMAIN players \ {p} /\ \A q \in DOMAIN players' : players'[q] = players[q]
      /\ phase = "idle"
  BY DEF RemovePlayer
<1>2. UNCHANGED <<tick, phase, bullets, flights, nextHandle, posed, toFly, playerHits, committed, match, startedOn, fired>>
  BY DEF RemovePlayer
<1>3. WorldTypes'
  <2>1. players' \in [DOMAIN players' -> Slots]
    BY <1>1 DEF WorldIInv, WorldTypes, RemovePlayer
  <2>2. QED
    BY <1>1, <1>2, <2>1 DEF WorldIInv, WorldTypes
<1>4. PhasesOK'
  BY <1>1, <1>2 DEF WorldIInv, PhasesOK
<1>5. HistoriesOK'
  BY <1>1, <1>2 DEF WorldIInv, HistoriesOK, LastPosed
<1>6. posed' = {} /\ playerHits' = <<>>
  BY <1>1, <1>2 DEF WorldIInv, PhasesOK
<1>7. StruckOK'
  BY <1>6 DEF StruckOK
<1>8. Living' \subseteq Living
  BY <1>1 DEF Living
<1>9. DeathsOK' /\ TheDeadAreOut'
  BY <1>1, <1>2, <1>8 DEF WorldIInv, DeathsOK, TheDeadAreOut, OwnHealth
<1>10. FlightsOK'
  BY <1>2 DEF WorldIInv, FlightsOK
<1>11. CooldownOK' /\ NeverFasterThanItsRate'
  BY <1>1, <1>2, <1>8 DEF WorldIInv, CooldownOK, NeverFasterThanItsRate, Living
<1>12. JudgedWhereSeen'
  BY <1>1, <1>2 DEF JudgedWhereSeen
<1>13. QED
  BY <1>3, <1>4, <1>5, <1>7, <1>9, <1>10, <1>11, <1>12 DEF WorldIInv

-----------------------------------------------------------------------------
(***************************************************************************)
(* A tick begins: rifles.                                                  *)
(***************************************************************************)
Triggers == [fire : BOOLEAN, reload : BOOLEAN]

LEMMA StepIsRifle ==
  ASSUME NEW rifle \in Rifles, NEW command, command.fire \in BOOLEAN, command.reload \in BOOLEAN
  PROVE  LET stepped == Step(rifle, command)
         IN  /\ stepped.rifle \in Rifles
             /\ stepped.rifle.cooldown \in Int
             /\ stepped.fired => /\ rifle.cooldown <= 0
                                 /\ stepped.rifle.cooldown >= rifle.cooldown + FirePeriod - Half
             /\ ~stepped.fired => stepped.rifle.cooldown >= rifle.cooldown - Half
<1>. DEFINE starts    == command.reload /\ rifle.reload <= 0 /\ rifle.rounds < Magazine
            reloading == starts \/ rifle.reload > 0
            trigger   == command.fire /\ rifle.rounds > 0 /\ ~reloading
            fires     == trigger /\ rifle.cooldown <= 0
            cooled    == rifle.cooldown + (IF fires THEN FirePeriod ELSE 0) - Half
            least     == IF trigger THEN -Half ELSE 0
            left      == (IF starts THEN ReloadTime ELSE rifle.reload) - Half
            cooldown  == IF cooled > least THEN cooled ELSE least
            reload    == IF reloading /\ left > 0 THEN left ELSE 0
            rounds    == IF reloading /\ left <= 0 THEN Magazine
                         ELSE rifle.rounds - (IF fires THEN 1 ELSE 0)
<1>1. Step(rifle, command) =
        [fired |-> fires, rifle |-> [cooldown |-> cooldown, reload |-> reload, rounds |-> rounds]]
  BY DEF Step
<1>2. rifle.cooldown \in -Half .. FirePeriod /\ rifle.reload \in 0 .. ReloadTime /\ rifle.rounds \in 0 .. Magazine
  BY DEF Rifles
<1>3. cooled \in Int /\ (fires => cooled <= FirePeriod) /\ (~fires => cooled <= FirePeriod)
  BY <1>2, ConstantsOK
<1>4. cooldown \in -Half .. FirePeriod /\ cooldown >= cooled
  <2>1. least \in {-2, 0}
    BY ConstantsOK
  <2>. HIDE DEF cooled, least, fires
  <2>2. QED
    BY <1>3, <2>1, ConstantsOK
<1>5. reload \in 0 .. ReloadTime
  BY <1>2, ConstantsOK
<1>6. rounds \in 0 .. Magazine
  BY <1>2, ConstantsOK
<1>7. fires => rifle.cooldown <= 0 /\ cooldown >= rifle.cooldown + FirePeriod - Half
  <2>1. fires => cooled = rifle.cooldown + FirePeriod - Half
    OBVIOUS
  <2>. HIDE DEF cooled, cooldown, trigger
  <2>2. QED
    BY <1>4, <2>1
<1>8. ~fires => cooldown >= rifle.cooldown - Half
  <2>1. ~fires => cooled = rifle.cooldown - Half
    BY <1>2, ConstantsOK
  <2>. HIDE DEF cooled, cooldown, fires
  <2>2. QED
    BY <1>4, <2>1
<1>. HIDE DEF fires, cooldown, reload, rounds
<1>9. [cooldown |-> cooldown, reload |-> reload, rounds |-> rounds] \in Rifles
  BY <1>4, <1>5, <1>6 DEF Rifles
<1>10. cooldown \in Int
  BY <1>4, ConstantsOK
<1>11. QED
  BY <1>1, <1>7, <1>8, <1>9, <1>10

LEMMA BeginTickIs ==
  ASSUME NEW commands, BeginTick(commands)
  PROVE  /\ phase = "idle" /\ phase' = "posing" /\ tick < MaxTicks /\ tick' = tick + 1
         /\ committed' = NothingCommitted
         /\ UNCHANGED <<bullets, flights, nextHandle, matchEnded, posed, toFly, playerHits, match, startedOn>>
         /\ DOMAIN players' = DOMAIN players
         /\ \A p \in DOMAIN players \ Living : players'[p] = players[p]
         /\ \A p \in Players \ Living : fired'[p] = fired[p]
         /\ DOMAIN fired' = Players
BY DEF BeginTick

LEMMA TickIsNumber == WorldIInv => tick \in Nat
BY DEF WorldIInv, WorldTypes

(* What a round fired does to a rate, and a tick without one.              *)
LEMMA OneRoundMore ==
  ASSUME NEW n \in Nat, NEW i \in 1 .. n, NEW period \in Nat, NEW was \in Int, NEW now \in Int,
         NEW since \in Int, (n - i + 1) * period <= was + since * 2, now >= was + period - 2
  PROVE  (n + 1 - i + 1) * period <= now + (since + 1) * 2
<1>1. (n + 1 - i + 1) * period = (n - i + 1) * period + period
  <2>1. \A k \in Int : (k + 1) * period = k * period + period
    OBVIOUS
  <2>2. n - i + 1 \in Int /\ n + 1 - i + 1 = (n - i + 1) + 1
    OBVIOUS
  <2>3. QED
    BY <2>1, <2>2
<1>2. (n - i + 1) * period \in Int
  OBVIOUS
<1>. DEFINE x == (n - i + 1) * period
<1>. HIDE DEF x
<1>3. x + period <= now + (since + 1) * 2
  BY <1>2 DEF x
<1>4. QED
  BY <1>1, <1>3 DEF x

(***************************************************************************)
(* What a tick begun makes of one player: its rifle stepped, the delay of  *)
(* the round it fired, and that round among those of its life.             *)
(***************************************************************************)
LEMMA BegunPlayer ==
  ASSUME WorldIInv, NEW commands \in [Living -> Commands], BeginTick(commands), NEW p \in Living
  PROVE  LET stepped == Step(players[p].rifle, commands[p])
         IN  /\ p \in DOMAIN players /\ p \in Players
             /\ players[p].rifle \in Rifles /\ stepped.rifle \in Rifles
             /\ players[p].rifle.cooldown \in Int /\ stepped.rifle.cooldown \in Int
             /\ players'[p].rifle = stepped.rifle
             /\ players'[p] \in Slots /\ (players'[p].shot = 0 \/ players'[p].shot >= Half)
             /\ players'[p].alive = players[p].alive /\ players'[p].health = players[p].health
             /\ players'[p].history = players[p].history
             /\ fired'[p] = IF stepped.fired THEN Append(fired[p], tick + 1) ELSE fired[p]
             /\ stepped.fired => /\ players[p].rifle.cooldown <= 0
                                 /\ stepped.rifle.cooldown >= players[p].rifle.cooldown + FirePeriod - Half
             /\ ~stepped.fired => stepped.rifle.cooldown >= players[p].rifle.cooldown - Half
<1>. DEFINE stepped == Step(players[p].rifle, commands[p])
            delay == ShootersDelay(commands[p].seen)'
<1>1. p \in DOMAIN players /\ p \in Players /\ players[p] \in Slots
  BY DEF Living, WorldIInv, WorldTypes
<1>2. players[p].rifle \in Rifles
  BY <1>1 DEF Slots
<1>3. commands[p].fire \in BOOLEAN /\ commands[p].reload \in BOOLEAN /\ commands[p].seen \in {0, Clock}
  BY DEF Commands
<1>4. /\ stepped.rifle \in Rifles /\ stepped.rifle.cooldown \in Int
      /\ stepped.fired => /\ players[p].rifle.cooldown <= 0
                          /\ stepped.rifle.cooldown >= players[p].rifle.cooldown + FirePeriod - Half
      /\ ~stepped.fired => stepped.rifle.cooldown >= players[p].rifle.cooldown - Half
  BY <1>2, <1>3, StepIsRifle
<1>5. players[p].rifle.cooldown \in Int
  BY <1>2, ConstantsOK DEF Rifles
<1>6. delay \in Half .. MaxDelay
  <2>1. tick \in Nat /\ tick' = tick + 1
    BY TickIsNumber, BeginTickIs
  <2>2. Clock' = 2 * tick + 2 /\ Clock = 2 * tick
    BY <2>1, ConstantsOK DEF Clock
  <2>3. commands[p].seen \in Int
    BY <1>3, <2>1, <2>2
  <2>4. delay = LET held == IF commands[p].seen < Clock' - Half THEN commands[p].seen ELSE Clock' - Half
                IN  IF Clock' - held < MaxDelay THEN Clock' - held ELSE MaxDelay
    BY DEF ShootersDelay
  <2>. HIDE DEF delay
  <2>5. QED
    BY <2>1, <2>2, <2>3, <2>4, ConstantsOK
<1>7. players'[p] = [players[p] EXCEPT !.rifle = stepped.rifle, !.shot = IF stepped.fired THEN delay ELSE 0]
  BY <1>1 DEF BeginTick
<1>8. fired'[p] = IF stepped.fired THEN Append(fired[p], tick + 1) ELSE fired[p]
  BY <1>1 DEF BeginTick
<1>9. (IF stepped.fired THEN delay ELSE 0) \in 0 .. MaxDelay
  BY <1>6, ConstantsOK
<1>. HIDE DEF stepped, delay
<1>10. players'[p] \in Slots
  BY <1>1, <1>4, <1>7, <1>9 DEF Slots
<1>11. /\ players'[p].rifle = stepped.rifle
       /\ players'[p].shot = IF stepped.fired THEN delay ELSE 0
       /\ players'[p].alive = players[p].alive /\ players'[p].health = players[p].health
       /\ players'[p].history = players[p].history
  BY <1>1, <1>7 DEF Slots
<1>12. players'[p].shot = 0 \/ players'[p].shot >= Half
  BY <1>6, <1>11, ConstantsOK
<1>13. QED
  BY <1>1, <1>2, <1>4, <1>5, <1>8, <1>10, <1>11, <1>12 DEF stepped

LEMMA BegunRates ==
  ASSUME WorldIInv, NEW commands \in [Living -> Commands], BeginTick(commands), NEW p \in Living
  PROVE  /\ fired'[p] \in Seq(Nat)
         /\ \A i \in DOMAIN fired'[p] :
              (Len(fired'[p]) - i + 1) * FirePeriod
                <= players'[p].rifle.cooldown + (tick' - fired'[p][i] + 2) * Half
         /\ \A i, j \in DOMAIN fired'[p] :
              i < j => (j - i) * FirePeriod <= (fired'[p][j] - fired'[p][i] + 1) * Half
<1>. DEFINE rounds == fired[p]
            n == Len(rounds)
            was == players[p].rifle.cooldown
            now == players'[p].rifle.cooldown
            fires == Step(players[p].rifle, commands[p]).fired
<1>1. /\ p \in Players /\ was \in Int /\ now \in Int
      /\ fired'[p] = IF fires THEN Append(rounds, tick + 1) ELSE rounds
      /\ fires => was <= 0 /\ now >= was + FirePeriod - 2
      /\ ~fires => now >= was - 2
      /\ was >= -2
  <2>1. \A rifle \in Rifles : rifle.cooldown >= -2
    BY ConstantsOK DEF Rifles
  <2>2. QED
    BY <2>1, BegunPlayer, ConstantsOK
<1>2. tick \in Nat /\ tick' = tick + 1 /\ rounds \in Seq(Nat) /\ n \in Nat /\ DOMAIN rounds = 1 .. n
  <2>1. rounds \in Seq(Nat)
    BY <1>1 DEF WorldIInv, WorldTypes
  <2>2. QED
    BY <2>1, TickIsNumber, BeginTickIs
<1>3. \A i \in 1 .. n : rounds[i] \in Nat
  BY <1>2
<1>4. \A i \in 1 .. n : (n - i + 1) * FirePeriod <= was + (tick - rounds[i] + 2) * 2
  BY <1>2, ConstantsOK DEF WorldIInv, CooldownOK
<1>5. \A i, j \in 1 .. n : i < j => (j - i) * FirePeriod <= (rounds[j] - rounds[i] + 1) * 2
  BY <1>1, <1>2, ConstantsOK DEF WorldIInv, NeverFasterThanItsRate
<1>. HIDE DEF rounds, n, was, now, fires
<1>6. CASE ~fires
  <2>1. fired'[p] = rounds
    BY <1>1, <1>6
  <2>2. ASSUME NEW i \in 1 .. n
        PROVE  (n - i + 1) * FirePeriod <= now + (tick' - rounds[i] + 2) * 2
    <3>. DEFINE x == (n - i + 1) * FirePeriod
    <3>1. x \in Int /\ x <= was + (tick - rounds[i] + 2) * 2
      BY <1>2, <1>4, ConstantsOK
    <3>. HIDE DEF x
    <3>2. x <= now + (tick' - rounds[i] + 2) * 2
      <4>1. rounds[i] \in Nat /\ now \in Int /\ was \in Int /\ now >= was - 2
        BY <1>1, <1>3, <1>6
      <4>2. tick \in Nat /\ tick' = tick + 1
        BY <1>2
      <4>3. QED
        BY <3>1, <4>1, <4>2
    <3>3. QED
      BY <3>2 DEF x
  <2>3. Half = 2
    BY ConstantsOK
  <2>4. QED
    BY <1>2, <1>5, <2>1, <2>2, <2>3 DEF n, now
<1>7. CASE fires
  <2>1. /\ fired'[p] = Append(rounds, tick + 1) /\ fired'[p] \in Seq(Nat) /\ Len(fired'[p]) = n + 1
        /\ \A i \in 1 .. n : fired'[p][i] = rounds[i]
        /\ fired'[p][n + 1] = tick + 1
    BY <1>1, <1>2, <1>7 DEF n
  <2>2. DOMAIN fired'[p] = 1 .. n + 1
    BY <2>1
  <2>3. ASSUME NEW i \in 1 .. n
        PROVE  /\ (n + 1 - i + 1) * FirePeriod <= now + (tick' - rounds[i] + 2) * 2
               /\ (n + 1 - i) * FirePeriod <= (tick + 1 - rounds[i] + 1) * 2
    <3>. DEFINE since == tick - rounds[i] + 2
    <3>1. since \in Int /\ (n - i + 1) * FirePeriod <= was + since * 2
      BY <1>2, <1>3, <1>4
    <3>2. tick' - rounds[i] + 2 = since + 1 /\ tick + 1 - rounds[i] + 1 = since
      BY <1>2, <1>3
    <3>. HIDE DEF since
    <3>3. (n + 1 - i + 1) * FirePeriod <= now + (since + 1) * 2
      BY <1>1, <1>2, <1>7, <3>1, ConstantsOK, OneRoundMore
    <3>4. n + 1 - i = n - i + 1 /\ (n - i + 1) * FirePeriod \in Int
      BY <1>2, ConstantsOK
    <3>5. (n - i + 1) * FirePeriod <= since * 2
      BY <1>1, <1>7, <3>1, <3>4
    <3>6. QED
      BY <3>2, <3>3, <3>4, <3>5
  <2>4. (n + 1 - (n + 1) + 1) * FirePeriod <= now + (tick' - (tick + 1) + 2) * 2
    <3>1. n + 1 - (n + 1) + 1 = 1 /\ 1 * FirePeriod = FirePeriod /\ tick' - (tick + 1) + 2 = 2
      BY <1>2, ConstantsOK
    <3>2. QED
      BY <1>1, <1>7, <3>1, ConstantsOK
  <2>5. \A i \in 1 .. n + 1 : i \in 1 .. n \/ i = n + 1
    BY <1>2
  <2>6. Half = 2
    BY ConstantsOK
  <2>7. ASSUME NEW i \in 1 .. n + 1
        PROVE  (n + 1 - i + 1) * FirePeriod <= now + (tick' - fired'[p][i] + 2) * 2
    <3>1. CASE i \in 1 .. n
      BY <2>1, <2>3, <3>1
    <3>2. CASE i = n + 1
      BY <2>1, <2>4, <3>2
    <3>3. QED
      BY <2>5, <3>1, <3>2
  <2>8. ASSUME NEW i \in DOMAIN fired'[p], NEW j \in DOMAIN fired'[p], i < j
        PROVE  (j - i) * FirePeriod <= (fired'[p][j] - fired'[p][i] + 1) * 2
    <3>1. i \in 1 .. n
      BY <1>2, <2>2, <2>8
    <3>2. CASE j \in 1 .. n
      BY <1>5, <2>1, <2>8, <3>1, <3>2
    <3>3. CASE j = n + 1
      <4>1. (n + 1 - i) * FirePeriod <= (tick + 1 - rounds[i] + 1) * 2
        BY <2>3, <3>1
      <4>. DEFINE later == fired'[p][j]
                  earlier == fired'[p][i]
      <4>2. later = tick + 1 /\ earlier = rounds[i]
        BY <2>1, <3>1, <3>3
      <4>. DEFINE earned == (j - i) * FirePeriod
      <4>3. earned <= (tick + 1 - rounds[i] + 1) * 2 /\ earned \in Int
        <5>1. j - i \in Int /\ FirePeriod \in Int
          BY <1>2, <3>1, <3>3, ConstantsOK
        <5>2. earned \in Int
          BY <5>1
        <5>3. earned = (n + 1 - i) * FirePeriod
          <6>. DEFINE apart == j - i
                      span == n + 1 - i
          <6>1. apart = span
            BY <1>2, <3>1, <3>3
          <6>. HIDE DEF apart, span
          <6>2. apart * FirePeriod = span * FirePeriod
            BY <6>1
          <6>3. QED
            BY <6>2 DEF apart, span
        <5>. HIDE DEF earned
        <5>4. earned <= (tick + 1 - rounds[i] + 1) * 2
          BY <4>1, <5>3, Zenon
        <5>5. QED
          BY <5>2, <5>4
      <4>. HIDE DEF earned, later, earlier
      <4>4. later \in Int /\ earlier \in Int /\ tick \in Int /\ rounds[i] \in Int
        BY <1>2, <1>3, <3>1, <4>2
      <4>. HIDE DEF later, earlier
      <4>5. earned <= (later - earlier + 1) * 2
        BY <4>2, <4>3, <4>4
      <4>6. QED
        BY <4>5 DEF earned, later, earlier
    <3>4. QED
      BY <2>2, <2>5, <3>2, <3>3
  <2>9. ASSUME NEW i \in DOMAIN fired'[p]
        PROVE  (Len(fired'[p]) - i + 1) * FirePeriod <= now + (tick' - fired'[p][i] + 2) * Half
    <3>1. i \in 1 .. n + 1
      BY <2>2
    <3>. DEFINE earned == (n + 1 - i + 1) * FirePeriod
    <3>2. earned <= now + (tick' - fired'[p][i] + 2) * 2
      BY <2>7, <3>1
    <3>3. (Len(fired'[p]) - i + 1) * FirePeriod = earned
      BY <1>2, <2>1, <3>1
    <3>. HIDE DEF earned
    <3>4. QED
      BY <2>6, <3>2, <3>3
  <2>10. \A i, j \in DOMAIN fired'[p] :
           i < j => (j - i) * FirePeriod <= (fired'[p][j] - fired'[p][i] + 1) * Half
    BY <2>6, <2>8, Zenon
  <2>11. QED
    BY <2>1, <2>9, <2>10, Zenon DEF now
<1>8. QED
  BY <1>6, <1>7

LEMMA BeginTickStep ==
  ASSUME WorldIInv, NEW commands \in [Living -> Commands], BeginTick(commands)
  PROVE  WorldIInv'
<1>. USE TickIsNumber, BeginTickIs
<1>1. tick \in Nat /\ startedOn \in 0 .. tick /\ tick < MaxTicks
  BY DEF WorldIInv, WorldTypes
<1>2. ASSUME NEW p \in DOMAIN players
      PROVE  /\ players'[p] \in Slots /\ (players'[p].shot = 0 \/ players'[p].shot >= Half)
             /\ players'[p].alive = players[p].alive /\ players'[p].health = players[p].health
             /\ players'[p].history = players[p].history
  <2>1. CASE p \in Living
    BY <2>1, BegunPlayer
  <2>2. CASE p \notin Living
    BY <2>2 DEF WorldIInv, WorldTypes, PhasesOK
  <2>3. QED
    BY <2>1, <2>2
<1>3. Living' = Living
  BY <1>2 DEF Living
<1>4. WorldTypes'
  <2>1. players' \in [DOMAIN players' -> Slots]
    <3>1. players' = [p \in DOMAIN players |-> players'[p]]
      BY DEF BeginTick
    <3>2. QED
      BY SMTT(30), <1>2, <3>1
  <2>2. fired' \in [Players -> Seq(Nat)]
    <3>1. fired' = [p \in Players |-> fired'[p]]
      BY DEF BeginTick
    <3>2. ASSUME NEW p \in Players PROVE fired'[p] \in Seq(Nat)
      BY BegunRates DEF WorldIInv, WorldTypes
    <3>3. QED
      BY SMTT(30), <3>1, <3>2
  <2>3. NothingCommitted \in States
    BY DEF NothingCommitted, States
  <2>4. tick' \in 0 .. MaxTicks /\ startedOn' \in 0 .. tick' /\ phase' \in Phases
    BY <1>1, ConstantsOK DEF Phases
  <2>5. QED
    BY <2>1, <2>2, <2>3, <2>4 DEF WorldIInv, WorldTypes
<1>5. PhasesOK'
  <2>1. NothingCommitted.hits = {} /\ NothingCommitted.deaths = {} /\ NothingCommitted.alive = {}
    BY DEF NothingCommitted
  <2>2. posed = {} /\ playerHits = <<>> /\ toFly = {}
    BY DEF WorldIInv, PhasesOK
  <2>3. startedOn' < tick'
    BY <1>1
  <2>4. QED
    BY <1>2, <2>1, <2>2, <2>3 DEF WorldIInv, PhasesOK
<1>6. HistoriesOK'
  <2>1. LastPosed' = LastPosed
    BY <1>1 DEF LastPosed
  <2>2. QED
    BY <1>2, <2>1 DEF WorldIInv, HistoriesOK
<1>7. StruckOK'
  <2>1. posed' = {} /\ playerHits' = <<>>
    BY DEF WorldIInv, PhasesOK
  <2>2. QED
    BY <2>1 DEF StruckOK
<1>8. DeathsOK'
  BY DEF DeathsOK
<1>9. TheDeadAreOut'
  <2>1. \A p \in DOMAIN players : players[p].alive <=> players[p].health > 0
    BY DEF WorldIInv, TheDeadAreOut
  <2>2. committed'.deaths = {}
    BY DEF NothingCommitted
  <2>3. QED
    BY <1>2, <2>1, <2>2 DEF TheDeadAreOut
<1>10. FlightsOK'
  <2>1. toFly = {} /\ phase = "idle"
    BY DEF WorldIInv, PhasesOK
  <2>2. ASSUME NEW b \in bullets
        PROVE  /\ b.firedOn <= tick' /\ b.firedOn < tick'
               /\ flights[b.handle] = tick' - b.firedOn + 0
    <3>1. b.firedOn <= tick /\ flights[b.handle] = tick - b.firedOn + 1
      BY <2>1 DEF WorldIInv, FlightsOK
    <3>2. b.firedOn \in Int
      BY ConstantsOK DEF WorldIInv, WorldTypes, Bullets
    <3>3. QED
      BY <1>1, <3>1, <3>2
  <2>3. QED
    BY <2>1, <2>2 DEF WorldIInv, FlightsOK
<1>11. CooldownOK'
  BY <1>3, BegunRates DEF CooldownOK
<1>12. NeverFasterThanItsRate'
  <2>1. ASSUME NEW p \in Players
        PROVE  \A i, j \in DOMAIN fired'[p] :
                 i < j => (j - i) * FirePeriod <= (fired'[p][j] - fired'[p][i] + 1) * Half
    <3>1. CASE p \in Living
      BY <3>1, BegunRates
    <3>2. CASE p \notin Living
      <4>1. fired'[p] = fired[p]
        BY <3>2
      <4>2. QED
        BY <4>1 DEF WorldIInv, NeverFasterThanItsRate
    <3>3. QED
      BY <3>1, <3>2
  <2>2. QED
    BY <2>1, Zenon DEF NeverFasterThanItsRate
<1>13. JudgedWhereSeen'
  BY DEF JudgedWhereSeen
<1>14. QED
  BY <1>4, <1>5, <1>6, <1>7, <1>8, <1>9, <1>10, <1>11, <1>12, <1>13 DEF WorldIInv

-----------------------------------------------------------------------------
(***************************************************************************)
(* Posing: a round of each shooter at most is put in flight, under handles *)
(* no flight has had.                                                      *)
(***************************************************************************)
LEMMA SetInOrder ==
  ASSUME NEW S, IsFiniteSet(S)
  PROVE  /\ Cardinality(S) \in Nat
         /\ SetToSeq(S) \in [1 .. Cardinality(S) -> S]
         /\ Len(SetToSeq(S)) = Cardinality(S)
         /\ \A i, j \in 1 .. Cardinality(S) : SetToSeq(S)[i] = SetToSeq(S)[j] => i = j
<1>. DEFINE n == Cardinality(S)
            P(f) == IsInjective(f)
            s == SetToSeq(S)
<1>1. n \in Nat /\ ExistsBijection(1 .. n, S)
  BY FS_CardinalityType
<1>2. \E f \in [1 .. n -> S] : IsInjective(f)
  BY <1>1 DEF ExistsBijection, Bijection, Injection, IsInjective
<1>3. s = CHOOSE f \in [1 .. n -> S] : P(f)
  BY DEF SetToSeq
<1>4. s \in [1 .. n -> S] /\ P(s)
  <2>. HIDE DEF n, P, s
  <2>1. \E f \in [1 .. n -> S] : P(f)
    BY <1>2 DEF P
  <2>2. QED
    BY <1>3, <2>1
<1>5. Len(s) = n
  <2>. HIDE DEF n, s
  <2>1. s \in Seq(S)
    BY <1>1, <1>4
  <2>2. QED
    BY <1>1, <1>4, <2>1
<1>6. \A i, j \in 1 .. n : s[i] = s[j] => i = j
  <2>. HIDE DEF n, s
  <2>1. DOMAIN s = 1 .. n
    BY <1>4
  <2>2. QED
    BY <1>4, <2>1 DEF IsInjective
<1>7. QED
  BY <1>1, <1>4, <1>5, <1>6

NewBullet(s, i) == [handle |-> nextHandle + i - 1, shooter |-> s[i], delay |-> players[s[i]].shot,
                    firedOn |-> tick, match |-> match]

NewHandles(n) == {nextHandle + i - 1 : i \in 1 .. n}

\* n rounds are put in flight, of the shooters s names in order.
PutsInFlight(n, s) ==
  /\ n \in Nat /\ s \in [1 .. n -> {p \in Living : players[p].shot > 0}]
  /\ \A i, j \in 1 .. n : s[i] = s[j] => i = j
  /\ bullets' = bullets \cup {NewBullet(s, i) : i \in 1 .. n}
  /\ DOMAIN flights' = DOMAIN flights \cup NewHandles(n)
  /\ \A h \in DOMAIN flights' : flights'[h] = IF h \in NewHandles(n) THEN 0 ELSE flights[h]
  /\ flights' = [h \in DOMAIN flights' |-> flights'[h]]
  /\ nextHandle' = nextHandle + n
  /\ toFly' = {b.handle : b \in bullets} \cup NewHandles(n)

LEMMA PosingPuts ==
  ASSUME WorldIInv, NEW blocked \in SUBSET Players, Posing(blocked)
  PROVE  \E n, s : PutsInFlight(n, s)
<1>. DEFINE shooters == {p \in Living : players[p].shot > 0}
            s == SetToSeq(shooters \ blocked)
            n == Cardinality(shooters \ blocked)
            flying == {NewBullet(s, i) : i \in DOMAIN s}
            handles == {b.handle : b \in flying}
<1>1. IsFiniteSet(shooters \ blocked)
  <2>1. shooters \ blocked \subseteq Players
    BY DEF Living, WorldIInv, WorldTypes
  <2>2. QED
    BY <2>1, ConstantsOK, FS_Subset
<1>2. n \in Nat /\ s \in [1 .. n -> shooters \ blocked] /\ Len(s) = n /\ \A i, j \in 1 .. n : s[i] = s[j] => i = j
  BY <1>1, SetInOrder
<1>3. /\ bullets' = bullets \cup flying
      /\ flights' = [h \in DOMAIN flights \cup handles |-> IF h \in handles THEN 0 ELSE flights[h]]
      /\ nextHandle' = nextHandle + Len(s)
      /\ toFly' = {b.handle : b \in bullets} \cup handles
  BY DEF Posing, NewBullet
<1>. HIDE DEF s, n
<1>4. DOMAIN s = 1 .. n
  BY <1>2
<1>5. handles = NewHandles(n)
  <2>1. \A i \in 1 .. n : NewBullet(s, i).handle = nextHandle + i - 1
    BY DEF NewBullet
  <2>2. handles = {NewBullet(s, i).handle : i \in 1 .. n}
    BY <1>4
  <2>. HIDE DEF handles
  <2>3. QED
    BY <2>1, <2>2 DEF NewHandles
<1>6. s \in [1 .. n -> shooters]
  BY <1>2
<1>. HIDE DEF handles
<1>7. DOMAIN flights' = DOMAIN flights \cup handles /\ \A h \in DOMAIN flights' : flights'[h] = IF h \in handles THEN 0 ELSE flights[h]
  BY <1>3
<1>8. flights' = [h \in DOMAIN flights' |-> flights'[h]]
  BY <1>3
<1>9. PutsInFlight(n, s)
  BY <1>2, <1>3, <1>4, <1>5, <1>6, <1>7, <1>8 DEF PutsInFlight
<1>10. QED
  BY <1>9

LEMMA PosingIs ==
  ASSUME NEW blocked, Posing(blocked)
  PROVE  /\ phase = "posing" /\ phase' = "ballistics"
         /\ UNCHANGED <<tick, players, matchEnded, posed, playerHits, match, startedOn, fired>>
         /\ committed' = [committed EXCEPT !.shots = {p \in Living : players[p].shot > 0}]
BY DEF Posing

(* A round put in flight is a Bullet, under a handle of its own.           *)
LEMMA NewBulletIs ==
  ASSUME WorldIInv, phase = "posing", NEW n, NEW s, PutsInFlight(n, s), NEW i \in 1 .. n
  PROVE  LET b == NewBullet(s, i)
         IN  /\ b \in Bullets /\ b.firedOn = tick /\ b.match = match /\ b.shooter = s[i]
             /\ b.handle = nextHandle + i - 1 /\ b.handle \in NewHandles(n)
             /\ b.handle \in Nat /\ b.handle < nextHandle + n /\ b.handle >= nextHandle
<1>1. /\ n \in Nat /\ s[i] \in Living /\ players[s[i]].shot > 0
  BY DEF PutsInFlight
<1>2. s[i] \in DOMAIN players /\ s[i] \in Players /\ players[s[i]] \in Slots
  BY <1>1 DEF Living, WorldIInv, WorldTypes
<1>3. players[s[i]].shot \in Half .. MaxDelay
  <2>1. players[s[i]].shot >= Half /\ players[s[i]].shot \in 0 .. MaxDelay
    BY <1>1, <1>2 DEF WorldIInv, PhasesOK, Slots
  <2>2. QED
    BY <2>1, ConstantsOK
<1>4. match \in 1 .. MaxMatches /\ tick \in 1 .. MaxTicks
  <2>1. match > 0 /\ match \in 0 .. MaxMatches
    BY <1>2 DEF WorldIInv, WorldTypes, PhasesOK
  <2>2. startedOn < tick /\ tick \in 0 .. MaxTicks /\ startedOn \in 0 .. tick
    BY DEF WorldIInv, WorldTypes, PhasesOK
  <2>3. QED
    BY <2>1, <2>2, ConstantsOK
<1>5. nextHandle \in Nat /\ nextHandle + i - 1 \in Nat /\ nextHandle + i - 1 < nextHandle + n /\ nextHandle + i - 1 >= nextHandle
  BY <1>1 DEF WorldIInv, WorldTypes
<1>6. nextHandle + i - 1 \in NewHandles(n)
  BY DEF NewHandles
<1>7. QED
  BY <1>2, <1>3, <1>4, <1>5, <1>6 DEF NewBullet, Bullets

LEMMA PosingFlights ==
  ASSUME WorldIInv, phase = "posing", phase' = "ballistics", tick' = tick, match' = match,
         NEW n, NEW s, PutsInFlight(n, s)
  PROVE  FlightsOK' /\ bullets' \subseteq Bullets /\ flights' \in [DOMAIN flights' -> Nat] /\ nextHandle' \in Nat
<1>1. /\ n \in Nat /\ nextHandle \in Nat /\ nextHandle' = nextHandle + n
      /\ bullets' = bullets \cup {NewBullet(s, i) : i \in 1 .. n}
      /\ DOMAIN flights' = DOMAIN flights \cup NewHandles(n)
      /\ \A h \in DOMAIN flights' : flights'[h] = IF h \in NewHandles(n) THEN 0 ELSE flights[h]
      /\ toFly' = {b.handle : b \in bullets} \cup NewHandles(n)
      /\ \A i, j \in 1 .. n : s[i] = s[j] => i = j
  BY DEF PutsInFlight, WorldIInv, WorldTypes
<1>2. \A b \in bullets' : b \in bullets \/ \E i \in 1 .. n : b = NewBullet(s, i)
  BY <1>1
<1>3. \A h \in NewHandles(n) : h \in Nat /\ h >= nextHandle /\ h < nextHandle + n
  BY <1>1 DEF NewHandles
<1>4. tick \in Nat
  BY TickIsNumber
<1>5. /\ \A h \in DOMAIN flights : h < nextHandle /\ flights[h] < MaxFlightSteps /\ flights[h] \in Nat
      /\ {b.handle : b \in bullets} = DOMAIN flights
  BY DEF WorldIInv, WorldTypes, FlightsOK
<1>6. \A h \in DOMAIN flights : h \in Nat
  <2>1. \A b \in bullets : b.handle \in Nat
    BY DEF WorldIInv, WorldTypes, Bullets
  <2>2. QED
    BY <1>5, <2>1
<1>7. \A h \in DOMAIN flights : h \notin NewHandles(n)
  BY <1>1, <1>3, <1>5, <1>6
<1>8. ASSUME NEW b \in bullets
      PROVE  /\ b.handle \in DOMAIN flights /\ b.handle \notin NewHandles(n) /\ b.firedOn < tick /\ b.firedOn \in Nat
             /\ flights'[b.handle] = tick - b.firedOn /\ b.match = match /\ b \in Bullets
  <2>1. b \in Bullets /\ b.firedOn < tick /\ flights[b.handle] = tick - b.firedOn + 0 /\ b.match = match
    BY DEF WorldIInv, WorldTypes, FlightsOK
  <2>2. b.handle \in DOMAIN flights
    BY <1>5
  <2>3. b.firedOn \in Nat
    BY <2>1, ConstantsOK DEF Bullets
  <2>4. flights'[b.handle] = flights[b.handle]
    BY <1>1, <1>7, <2>2
  <2>5. QED
    BY <1>4, <1>7, <2>1, <2>2, <2>3, <2>4
<1>9. ASSUME NEW i \in 1 .. n
      PROVE  LET b == NewBullet(s, i)
             IN  /\ b \in Bullets /\ b.firedOn = tick /\ b.match = match /\ b.shooter = s[i]
                 /\ b.handle = nextHandle + i - 1 /\ b.handle \in NewHandles(n)
                 /\ flights'[b.handle] = 0
  BY <1>1, NewBulletIs
<1>10. ASSUME NEW h \in DOMAIN flights'
       PROVE  h < nextHandle' /\ flights'[h] < MaxFlightSteps /\ flights'[h] \in Nat
  <2>1. CASE h \in NewHandles(n)
    BY <1>1, <1>3, <2>1, ConstantsOK
  <2>2. CASE h \notin NewHandles(n)
    <3>1. h \in DOMAIN flights /\ flights'[h] = flights[h]
      BY <1>1, <2>2
    <3>2. QED
      BY <1>1, <1>5, <1>6, <3>1
  <2>3. QED
    BY <2>1, <2>2
<1>11. {b.handle : b \in bullets'} = DOMAIN flights' /\ toFly' = DOMAIN flights'
  <2>1. {NewBullet(s, i).handle : i \in 1 .. n} = NewHandles(n)
    BY <1>9 DEF NewHandles
  <2>2. {b.handle : b \in bullets'} = {b.handle : b \in bullets} \cup {NewBullet(s, i).handle : i \in 1 .. n}
    BY <1>1
  <2>3. QED
    BY <1>1, <1>5, <2>1, <2>2
<1>12. ASSUME NEW b \in bullets'
       PROVE  /\ b \in Bullets /\ b.match = match /\ b.firedOn <= tick /\ b.handle \in toFly'
              /\ flights'[b.handle] = tick - b.firedOn + 0
  <2>1. CASE b \in bullets
    BY <1>1, <1>4, <1>8, <2>1
  <2>2. CASE \E i \in 1 .. n : b = NewBullet(s, i)
    BY <1>1, <1>4, <1>9, <2>2
  <2>3. QED
    BY <1>2, <2>1, <2>2
<1>13. ASSUME NEW b \in bullets', NEW c \in bullets',
              (b.shooter = c.shooter /\ b.firedOn = c.firedOn) \/ b.handle = c.handle
       PROVE  b = c
  <2>1. CASE b \in bullets /\ c \in bullets
    BY <1>13, <2>1 DEF WorldIInv, FlightsOK
  <2>2. CASE b \in bullets /\ \E i \in 1 .. n : c = NewBullet(s, i)
    BY <1>4, <1>8, <1>9, <1>13, <2>2
  <2>3. CASE c \in bullets /\ \E i \in 1 .. n : b = NewBullet(s, i)
    BY <1>4, <1>8, <1>9, <1>13, <2>3
  <2>4. ASSUME NEW i \in 1 .. n, NEW j \in 1 .. n, b = NewBullet(s, i), c = NewBullet(s, j)
        PROVE  b = c
    <3>1. b.shooter = s[i] /\ c.shooter = s[j] /\ b.handle = nextHandle + i - 1 /\ c.handle = nextHandle + j - 1
      BY <1>9, <2>4
    <3>2. CASE b.shooter = c.shooter
      BY <1>1, <2>4, <3>1, <3>2
    <3>3. CASE b.handle = c.handle
      <4>1. i = j
        BY <1>1, <3>1, <3>3
      <4>2. QED
        BY <2>4, <4>1
    <3>4. QED
      BY <1>13, <3>2, <3>3
  <2>5. QED
    BY <1>2, <2>1, <2>2, <2>3, <2>4
<1>14. flights' \in [DOMAIN flights' -> Nat]
  <2>1. flights' = [h \in DOMAIN flights' |-> flights'[h]]
    BY DEF PutsInFlight
  <2>2. QED
    BY <1>10, <2>1
<1>15. FlightsOK'
  BY <1>10, <1>11, <1>12, <1>13 DEF FlightsOK
<1>16. QED
  BY <1>1, <1>12, <1>14, <1>15

LEMMA PosingStep ==
  ASSUME WorldIInv, NEW blocked \in SUBSET Players, Posing(blocked) PROVE WorldIInv'
<1>. USE PosingIs
<1>1. FlightsOK' /\ bullets' \subseteq Bullets /\ flights' \in [DOMAIN flights' -> Nat] /\ nextHandle' \in Nat
  BY PosingPuts, PosingFlights
<1>2. /\ committed' \in States /\ committed'.hits = committed.hits /\ committed'.deaths = committed.deaths
      /\ committed'.alive = committed.alive
  <2>1. committed \in States /\ {p \in Living : players[p].shot > 0} \subseteq Players
    BY DEF WorldIInv, WorldTypes, Living
  <2>2. QED
    BY <2>1 DEF States
<1>3. WorldTypes'
  BY <1>1, <1>2 DEF WorldIInv, WorldTypes, Phases
<1>4. PhasesOK'
  BY <1>2 DEF WorldIInv, PhasesOK
<1>5. HistoriesOK'
  <2>1. LastPosed' = LastPosed
    BY DEF LastPosed
  <2>2. QED
    BY <2>1 DEF WorldIInv, HistoriesOK
<1>6. StruckOK'
  <2>1. posed' = {} /\ playerHits' = <<>>
    BY DEF WorldIInv, PhasesOK
  <2>2. QED
    BY <2>1 DEF StruckOK
<1>7. DeathsOK' /\ TheDeadAreOut'
  BY <1>2 DEF WorldIInv, DeathsOK, TheDeadAreOut
<1>8. CooldownOK' /\ NeverFasterThanItsRate'
  BY DEF WorldIInv, CooldownOK, NeverFasterThanItsRate, Living
<1>9. JudgedWhereSeen'
  BY DEF JudgedWhereSeen
<1>10. QED
  BY <1>1, <1>3, <1>4, <1>5, <1>6, <1>7, <1>8, <1>9 DEF WorldIInv

-----------------------------------------------------------------------------
(***************************************************************************)
(* Ballistics: a delay within the cap asks for a tick the ring still has.  *)
(***************************************************************************)
LEMMA Halves ==
  ASSUME NEW x \in Int
  PROVE  /\ x \div 2 \in Int /\ x % 2 \in 0 .. 1
         /\ 2 * (x \div 2) <= x /\ x < 2 * (x \div 2) + 2
         /\ (2 * x) \div 2 = x
OBVIOUS

LEMMA PoseIsSeen ==
  ASSUME WorldIInv, phase = "ballistics", NEW p \in Living, NEW delay \in Half .. MaxDelay
  PROVE  PoseFor(p, Clock - delay) = SeenPose(delay) /\ SeenPose(delay) \in Poses
<1>. DEFINE h == players[p].history
            size == h.size
            first == startedOn + 1
            time == Clock - delay
            held == IF time < 2 * first THEN 2 * first ELSE time
            from == held \div 2
            earlier == from - (tick - size)
            later == IF earlier + 1 <= size - 1 THEN earlier + 1 ELSE size - 1
            to == IF from < tick - 1 THEN from + 1 ELSE from
<1>1. /\ tick \in Nat /\ tick <= MaxTicks /\ startedOn \in Nat /\ startedOn < tick
      /\ h \in Histories /\ HistoryOK(h, startedOn, tick - 1)
  <2>1. p \in DOMAIN players /\ players[p].alive /\ players[p] \in Slots
    BY DEF Living, WorldIInv, WorldTypes
  <2>2. HistoryOK(h, startedOn, LastPosed) /\ LastPosed = tick - 1
    BY <2>1 DEF WorldIInv, HistoriesOK, LastPosed
  <2>3. QED
    BY <2>1, <2>2, ConstantsOK DEF WorldIInv, WorldTypes, PhasesOK, Slots
<1>2. /\ size = Kept(startedOn, tick - 1) /\ (size > 0 => h.newest = tick - 1)
      /\ \A count \in 0 .. size - 1 : h.roots[SlotOf(h, count)] = tick - 1 - size + 1 + count
  BY <1>1, Zenon DEF HistoryOK
<1>3. /\ size \in Nat /\ size <= HitboxHistoryTicks
      /\ size < HitboxHistoryTicks => size = tick - 1 - startedOn
      /\ size <= tick - 1 - startedOn
  <2>. HIDE DEF size
  <2>1. QED
    BY <1>1, <1>2, RingOK DEF Kept
<1>4. time = 2 * tick - delay /\ delay \in Nat /\ delay >= 2 /\ delay <= MaxDelay /\ time \in Int
  BY <1>1, ConstantsOK DEF Clock
<1>. HIDE DEF size, time
<1>5. CASE size = 0
  <2>1. tick = first
    BY <1>1, <1>3, <1>5, RingOK
  <2>2. PoseFor(p, time) = [from |-> tick, to |-> tick, fraction |-> 0]
    BY <1>5 DEF PoseFor, size
  <2>3. SeenPose(delay) = [from |-> tick, to |-> tick, fraction |-> 0]
    BY <2>1 DEF SeenPose
  <2>4. tick \in 1 .. MaxTicks
    BY <1>1, ConstantsOK
  <2>5. QED
    BY <2>2, <2>3, <2>4, ConstantsOK DEF Poses, time
<1>6. CASE size # 0
  <2>1. tick # first /\ size > 0
    BY <1>1, <1>3, <1>6
  <2>2. held \in Int /\ 2 * (tick - size) <= held /\ held <= 2 * (tick - 1)
        /\ (time < 2 * (tick - size) => held = 2 * (tick - size))
        /\ (time >= 2 * (tick - size) => held = time)
    <3>1. 2 * HitboxHistoryTicks >= MaxDelay /\ HitboxHistoryTicks \in Nat /\ MaxDelay \in Nat
      BY RingOK, ConstantsOK
    <3>2. CASE size < HitboxHistoryTicks
      BY <1>1, <1>3, <1>4, <2>1, <3>2
    <3>3. CASE size = HitboxHistoryTicks
      BY <1>1, <1>3, <1>4, <2>1, <3>1, <3>3
    <3>4. QED
      BY <1>3, <3>1, <3>2, <3>3
  <2>. HIDE DEF held
  <2>3. from \in Int /\ 2 * from <= held /\ held < 2 * from + 2
    BY <2>2, Halves
  <2>. HIDE DEF from
  <2>4. earlier \in 0 .. size - 1 /\ tick - size <= from /\ from <= tick - 1 /\ from \in 1 .. MaxTicks
    BY <1>1, <1>3, <2>2, <2>3, ConstantsOK
  <2>5. /\ later \in 0 .. size - 1
        /\ tick - 1 - size + 1 + earlier = from
        /\ tick - 1 - size + 1 + later = to
        /\ to \in 1 .. MaxTicks
    BY <1>1, <1>3, <2>4, ConstantsOK
  <2>6. At(h, time) = [from |-> h.roots[SlotOf(h, earlier)], to |-> h.roots[SlotOf(h, later)],
                       fraction |-> held % 2]
    <3>. DEFINE newest == Half * h.newest
                oldest == newest - Half * (h.size - 1)
                heldThere == IF time < oldest THEN oldest ELSE IF time > newest THEN newest ELSE time
    <3>1. h.newest = tick - 1 /\ h.size = size
      BY <1>2, <2>1 DEF size
    <3>2. newest = 2 * (tick - 1) /\ oldest = 2 * (tick - size)
      <4>1. 2 * (tick - 1) - 2 * (size - 1) = 2 * (tick - size)
        BY <1>1, <1>3
      <4>2. QED
        BY <3>1, <4>1, ConstantsOK
    <3>3. heldThere = held
      <4>1. tick - size \in Int /\ tick - 1 \in Int
        BY <1>1, <1>3
      <4>2. time <= 2 * (tick - 1)
        BY <1>1, <1>4
      <4>. HIDE DEF newest, oldest
      <4>3. QED
        BY <1>4, <2>2, <3>2, <4>1, <4>2
    <3>4. (2 * (tick - size)) \div 2 = tick - size
      BY <1>1, <1>3, Halves
    <3>5. heldThere \div Half - oldest \div Half = earlier
      BY <3>2, <3>3, <3>4, ConstantsOK DEF from
    <3>. HIDE DEF newest, earlier
    <3>6. At(h, time) = [from |-> h.roots[SlotOf(h, heldThere \div Half - oldest \div Half)],
                         to |-> h.roots[SlotOf(h,
                                  IF heldThere \div Half - oldest \div Half + 1 <= h.size - 1
                                    THEN heldThere \div Half - oldest \div Half + 1 ELSE h.size - 1)],
                         fraction |-> heldThere % Half]
      BY Zenon DEF At, newest
    <3>. HIDE DEF heldThere, oldest, h
    <3>7. QED
      BY <3>1, <3>3, <3>5, <3>6, ConstantsOK
  <2>7. PoseFor(p, time) = [from |-> from, to |-> to, fraction |-> held % 2]
    <3>1. PoseFor(p, time) = At(h, time)
      BY <1>6 DEF PoseFor, size
    <3>2. h.roots[SlotOf(h, earlier)] = from /\ h.roots[SlotOf(h, later)] = to
      <4>. HIDE DEF h, earlier, later, to
      <4>. QED
        BY <1>2, <2>4, <2>5
    <3>3. QED
      BY <2>6, <3>1, <3>2
  <2>8. SeenPose(delay) = [from |-> from, to |-> to, fraction |-> held % 2]
    BY <2>1, ConstantsOK, Zenon DEF SeenPose, held, from, time
  <2>9. held % 2 \in 0 .. Half - 1
    BY <2>2, Halves, ConstantsOK
  <2>10. QED
    BY <2>4, <2>5, <2>7, <2>8, <2>9 DEF Poses, time
<1>7. QED
  BY <1>5, <1>6

LEMMA BallisticsIs ==
  ASSUME NEW b, Ballistics(b)
  PROVE  /\ phase = "ballistics" /\ b.handle \in toFly /\ toFly' = toFly \ {b.handle}
         /\ UNCHANGED <<tick, phase, players, nextHandle, matchEnded, committed, match, startedOn, fired>>
BY DEF Ballistics

\* One bullet of the World is gone, with its flight.
Lands(b) == bullets' = bullets \ {b} /\ flights' = [h \in DOMAIN flights \ {b.handle} |-> flights[h]]

\* It flies on, one step further.
FliesOn(b) ==
  /\ flights[b.handle] + 1 < MaxFlightSteps
  /\ flights' = [flights EXCEPT ![b.handle] = @ + 1]
  /\ bullets' = bullets

LEMMA BulletMoves ==
  ASSUME WorldIInv, NEW b \in bullets, Ballistics(b)
  PROVE  FlightsOK' /\ bullets' \subseteq bullets /\ flights' \in [DOMAIN flights' -> Nat]
<1>. USE BallisticsIs
<1>1. Lands(b) \/ FliesOn(b)
  BY DEF Ballistics, Lands, FliesOn
<1>2. /\ \A c \in bullets : c.handle = b.handle => c = b
      /\ {c.handle : c \in bullets} = DOMAIN flights
      /\ flights \in [DOMAIN flights -> Nat]
      /\ \A c \in bullets : c.match = match
      /\ toFly \subseteq DOMAIN flights
      /\ \A handle \in DOMAIN flights : handle < nextHandle /\ flights[handle] < MaxFlightSteps
  BY DEF WorldIInv, WorldTypes, FlightsOK
<1>3. \A c \in bullets :
        /\ c.firedOn <= tick /\ c.firedOn \in Nat /\ c.handle \in DOMAIN flights
        /\ flights[c.handle] = tick - c.firedOn + (IF c.handle \in toFly THEN 0 ELSE 1)
  <2>1. \A c \in Bullets : c.firedOn \in Nat
    BY ConstantsOK DEF Bullets
  <2>2. \A c \in bullets : c \in Bullets /\ c.handle \in DOMAIN flights
    BY <1>2 DEF WorldIInv, WorldTypes
  <2>3. \A c \in bullets :
          c.firedOn <= tick /\ flights[c.handle] = tick - c.firedOn + (IF c.handle \in toFly THEN 0 ELSE 1)
    BY DEF WorldIInv, FlightsOK
  <2>4. QED
    BY <2>1, <2>2, <2>3
<1>4. \A c, d \in bullets : (c.shooter = d.shooter /\ c.firedOn = d.firedOn) \/ c.handle = d.handle => c = d
  BY DEF WorldIInv, FlightsOK
<1>5. tick \in Nat
  BY TickIsNumber
<1>6. CASE Lands(b)
  <2>1. /\ bullets' = bullets \ {b} /\ DOMAIN flights' = DOMAIN flights \ {b.handle}
        /\ \A h \in DOMAIN flights' : flights'[h] = flights[h]
        /\ flights' \in [DOMAIN flights' -> Nat]
    BY <1>2, <1>6 DEF Lands
  <2>2. {c.handle : c \in bullets'} = DOMAIN flights'
    <3>1. \A c \in bullets' : c \in bullets /\ c.handle # b.handle
      BY <1>2, <2>1
    <3>2. \A h \in DOMAIN flights' : \E c \in bullets' : h = c.handle
      <4>1. ASSUME NEW h \in DOMAIN flights' PROVE \E c \in bullets' : h = c.handle
        <5>1. PICK c \in bullets : h = c.handle
          BY <1>2, <2>1
        <5>2. c # b
          BY <2>1, <5>1
        <5>3. QED
          BY <2>1, <5>1, <5>2
      <4>2. QED
        BY <4>1
    <3>3. \A c \in bullets' : c.handle \in DOMAIN flights'
      BY <1>3, <2>1, <3>1
    <3>4. QED
      BY <3>2, <3>3
  <2>3. \A c \in bullets' :
          /\ c \in bullets /\ c.handle # b.handle
          /\ flights'[c.handle] = tick - c.firedOn + (IF c.handle \in toFly' THEN 0 ELSE 1)
    BY <1>2, <1>3, <2>1
  <2>4. QED
    BY <1>2, <1>3, <1>4, <2>1, <2>2, <2>3 DEF FlightsOK
<1>7. CASE FliesOn(b)
  <2>1. /\ bullets' = bullets /\ DOMAIN flights' = DOMAIN flights
        /\ \A h \in DOMAIN flights : flights'[h] = IF h = b.handle THEN flights[h] + 1 ELSE flights[h]
        /\ flights[b.handle] + 1 < MaxFlightSteps
    BY <1>7 DEF FliesOn
  <2>2. flights' \in [DOMAIN flights' -> Nat]
    BY <1>2, <1>7, <2>1 DEF FliesOn
  <2>3. \A c \in bullets :
          flights'[c.handle] = tick - c.firedOn + (IF c.handle \in toFly' THEN 0 ELSE 1)
    BY <1>2, <1>3, <1>5, <2>1
  <2>4. QED
    BY <1>2, <1>3, <1>4, <2>1, <2>2, <2>3 DEF FlightsOK
<1>8. QED
  BY <1>1, <1>6, <1>7

(* Whoever is posed for a bullet, or struck by it, is as its shooter saw it. *)
LEMMA BulletStrikes ==
  ASSUME WorldIInv, NEW b \in bullets, Ballistics(b)
  PROVE  StruckOK' /\ playerHits' \in Seq(Struck)
<1>. USE BallisticsIs
<1>. DEFINE time == Clock - b.delay
<1>1. PICK reached \in SUBSET Targets(b) :
        /\ posed' = HitboxesFor(b, reached)
        /\ \/ playerHits' = playerHits
           \/ \E struck \in HitboxesFor(b, reached) :
                /\ struck.target \in reached /\ struck.time = time
                /\ playerHits' = Append(playerHits,
                     [shooter |-> b.shooter, target |-> struck.target, part |-> struck.part,
                      pose |-> struck.pose, delay |-> b.delay])
  BY DEF Ballistics
<1>2. reached \subseteq Living /\ Living \subseteq Players
  BY DEF Targets, Living, WorldIInv, WorldTypes
<1>3. b.delay \in Half .. MaxDelay /\ b.shooter \in Players
  BY DEF WorldIInv, WorldTypes, Bullets
<1>4. \A hitbox \in HitboxesFor(b, reached) :
        hitbox.target \in Living /\ hitbox.part \in Parts /\ hitbox.pose = PoseFor(hitbox.target, hitbox.time)
  <2>1. \A hitbox \in posed :
          hitbox.target \in Living /\ hitbox.part \in Parts /\ hitbox.pose = PoseFor(hitbox.target, hitbox.time)
    BY DEF WorldIInv, StruckOK
  <2>2. ASSUME NEW p \in reached, NEW hitbox \in Consider(p, time)
        PROVE  hitbox.target \in Living /\ hitbox.part \in Parts /\ hitbox.pose = PoseFor(hitbox.target, hitbox.time)
    <3>1. \E part \in Parts : hitbox = [target |-> p, part |-> part, time |-> time, pose |-> PoseFor(p, time)]
      BY <2>2 DEF Consider
    <3>2. QED
      BY <1>2, <3>1
  <2>3. QED
    BY <2>1, <2>2 DEF HitboxesFor
<1>6. Living' = Living
  BY DEF Living
<1>8. /\ playerHits \in Seq(Struck)
      /\ \A i \in DOMAIN playerHits :
           playerHits[i].target \in Living /\ playerHits[i].pose = SeenPose(playerHits[i].delay)
  BY DEF WorldIInv, WorldTypes, StruckOK
<1>9. /\ playerHits' \in Seq(Struck)
      /\ \A i \in DOMAIN playerHits' :
           playerHits'[i].target \in Living /\ playerHits'[i].pose = SeenPose(playerHits'[i].delay)
  <2>1. CASE playerHits' = playerHits
    BY <1>8, <2>1
  <2>2. ASSUME NEW struck \in HitboxesFor(b, reached), struck.target \in reached, struck.time = time,
               playerHits' = Append(playerHits,
                 [shooter |-> b.shooter, target |-> struck.target, part |-> struck.part,
                  pose |-> struck.pose, delay |-> b.delay])
        PROVE  /\ playerHits' \in Seq(Struck)
               /\ \A i \in DOMAIN playerHits' :
                    playerHits'[i].target \in Living /\ playerHits'[i].pose = SeenPose(playerHits'[i].delay)
    <3>. DEFINE hit == [shooter |-> b.shooter, target |-> struck.target, part |-> struck.part,
                        pose |-> struck.pose, delay |-> b.delay]
    <3>1. struck.target \in Living /\ struck.part \in Parts /\ struck.pose = PoseFor(struck.target, time)
      BY <1>4, <2>2
    <3>2. struck.pose = SeenPose(b.delay) /\ struck.pose \in Poses
      BY <1>3, <3>1, PoseIsSeen
    <3>3. hit \in Struck /\ hit.target \in Living /\ hit.pose = SeenPose(hit.delay)
      BY <1>2, <1>3, <3>1, <3>2 DEF Struck
    <3>. HIDE DEF hit
    <3>4. playerHits' = Append(playerHits, hit)
      BY <2>2 DEF hit
    <3>5. /\ playerHits' \in Seq(Struck)
          /\ \A i \in DOMAIN playerHits' :
               (i \in DOMAIN playerHits /\ playerHits'[i] = playerHits[i]) \/ playerHits'[i] = hit
      BY <1>8, <3>3, <3>4
    <3>6. QED
      BY <1>8, <3>3, <3>5
  <2>3. QED
    BY <1>1, <2>1, <2>2
<1>10. QED
  BY <1>1, <1>4, <1>6, <1>9 DEF StruckOK, SeenPose, Clock, PoseFor

LEMMA BallisticsStep ==
  ASSUME WorldIInv, NEW b \in bullets, Ballistics(b) PROVE WorldIInv'
<1>. USE BallisticsIs
<1>1. FlightsOK' /\ bullets' \subseteq bullets /\ flights' \in [DOMAIN flights' -> Nat]
  BY BulletMoves
<1>2. StruckOK' /\ playerHits' \in Seq(Struck)
  BY BulletStrikes
<1>3. WorldTypes'
  BY <1>1, <1>2 DEF WorldIInv, WorldTypes
<1>4. PhasesOK'
  BY DEF WorldIInv, PhasesOK
<1>5. HistoriesOK'
  BY DEF WorldIInv, HistoriesOK, LastPosed
<1>6. DeathsOK' /\ TheDeadAreOut'
  BY DEF WorldIInv, DeathsOK, TheDeadAreOut
<1>7. CooldownOK' /\ NeverFasterThanItsRate'
  BY DEF WorldIInv, CooldownOK, NeverFasterThanItsRate, Living
<1>8. JudgedWhereSeen'
  BY DEF JudgedWhereSeen
<1>9. QED
  BY <1>1, <1>2, <1>3, <1>4, <1>5, <1>6, <1>7, <1>8 DEF WorldIInv

-----------------------------------------------------------------------------
(***************************************************************************)
(* Damage done.                                                            *)
(***************************************************************************)
LEMMA DamageIs ==
  ASSUME OnDamage
  PROVE  /\ phase = "ballistics" /\ phase' = "scripts" /\ toFly = {} /\ playerHits' = <<>> /\ posed' = {}
         /\ UNCHANGED <<tick, bullets, flights, nextHandle, matchEnded, toFly, match, startedOn, fired>>
         /\ DOMAIN players' = DOMAIN players
BY DEF OnDamage

LEMMA DamageWrites ==
  ASSUME OnDamage
  PROVE  /\ committed' = [committed EXCEPT !.hits = {HitOf(n) : n \in DOMAIN playerHits}, !.deaths = Killed]
         /\ players' = [p \in DOMAIN players' |-> players'[p]]
         /\ \A p \in DOMAIN players :
              players'[p] = [players[p] EXCEPT !.health = HealthLeft[Len(playerHits)][p],
                                               !.alive = @ /\ ~\E death \in Killed : death.victim = p]
BY DEF OnDamage

LEMMA StruckArePlayers == WorldIInv => HitsAreOfPlayers /\ WorldTypes
BY DEF WorldIInv, StruckOK, HitsAreOfPlayers, Living

LEMMA DamagedPlayer ==
  ASSUME WorldIInv, OnDamage, NEW p \in DOMAIN players
  PROVE  /\ players'[p] \in Slots
         /\ players'[p].health \in Nat
         /\ players'[p].alive <=> players'[p].health > 0
         /\ players'[p].alive => players[p].alive
         /\ players'[p].rifle = players[p].rifle /\ players'[p].shot = players[p].shot
         /\ players'[p].history = players[p].history
         /\ (\E death \in Killed : death.victim = p) => players'[p].health = 0
<1>. DEFINE left == HealthLeft[Len(playerHits)][p]
            dies == \E death \in Killed : death.victim = p
<1>1. left \in 0 .. players[p].health /\ (dies <=> players[p].health > 0 /\ left = 0)
  BY StruckArePlayers, DiesOfAHit
<1>2. players[p] \in Slots /\ (players[p].alive <=> players[p].health > 0)
  BY DEF WorldIInv, WorldTypes, TheDeadAreOut
<1>3. players[p].health \in 0 .. StartingHealth /\ players[p].alive \in BOOLEAN
  BY <1>2 DEF Slots
<1>4. players'[p] = [players[p] EXCEPT !.health = left, !.alive = @ /\ ~dies]
  BY DamageWrites
<1>5. left \in 0 .. StartingHealth /\ left \in Nat
  BY <1>1, <1>3, ConstantsOK
<1>. HIDE DEF left, dies
<1>6. players'[p] = [players[p] EXCEPT !.health = left, !.alive = (players[p].alive /\ ~dies)]
  BY <1>2, <1>4 DEF Slots
<1>7. (players[p].alive /\ ~dies) \in BOOLEAN
  OBVIOUS
<1>8. /\ players'[p] \in Slots /\ players'[p].health = left
      /\ players'[p].alive <=> players[p].alive /\ ~dies
      /\ players'[p].rifle = players[p].rifle /\ players'[p].shot = players[p].shot
      /\ players'[p].history = players[p].history
  BY <1>2, <1>5, <1>6, <1>7 DEF Slots
<1>9. players'[p].alive <=> left > 0
  <2>1. players[p].health \in Nat
    BY <1>3, ConstantsOK
  <2>2. players[p].alive /\ ~dies <=> left > 0
    BY <1>1, <1>2, <1>5, <2>1
  <2>3. QED
    BY <1>8, <2>2
<1>10. QED
  BY <1>1, <1>5, <1>8, <1>9 DEF dies

LEMMA HitIs ==
  ASSUME WorldIInv, NEW n \in DOMAIN playerHits
  PROVE  /\ HitOf(n) \in Hits /\ HitOf(n).pose = SeenPose(HitOf(n).delay)
         /\ playerHits[n].target \in DOMAIN players /\ playerHits[n].target \in Players
         /\ playerHits[n].shooter \in Players
<1>1. playerHits[n] \in Struck /\ n \in 1 .. Len(playerHits) /\ Len(playerHits) \in Nat
  BY DEF WorldIInv, WorldTypes
<1>2. playerHits[n].target \in Living /\ playerHits[n].pose = SeenPose(playerHits[n].delay)
  BY DEF WorldIInv, StruckOK
<1>3. HealthLeft[n][playerHits[n].target] \in 0 .. StartingHealth
  <2>1. HealthLeft \in [0 .. Len(playerHits) -> Healths] /\ n \in 0 .. Len(playerHits)
    BY <1>1, StruckArePlayers, HealthLeftIs
  <2>2. HealthLeft[n] \in Healths
    BY <2>1
  <2>3. QED
    BY <1>2, <2>2 DEF Healths, Living
<1>4. ReachedZero(n) \in BOOLEAN
  BY DEF ReachedZero
<1>5. QED
  BY <1>1, <1>2, <1>3, <1>4 DEF HitOf, Hits, Struck, Poses, Living, WorldIInv, WorldTypes

LEMMA DamageCommits ==
  ASSUME WorldIInv, OnDamage
  PROVE  /\ committed' \in States /\ committed'.alive = {}
         /\ committed'.hits = {HitOf(n) : n \in DOMAIN playerHits} /\ committed'.deaths = Killed
<1>1. committed \in States /\ committed.alive = {}
  BY DamageIs DEF WorldIInv, WorldTypes, PhasesOK
<1>2. {HitOf(n) : n \in DOMAIN playerHits} \subseteq Hits
  BY HitIs
<1>3. Killed \subseteq Deaths
  BY HitIs DEF Killed, Deaths
<1>. DEFINE hits == {HitOf(n) : n \in DOMAIN playerHits}
<1>4. committed' = [committed EXCEPT !.hits = hits, !.deaths = Killed]
  BY DamageWrites
<1>. HIDE DEF hits
<1>5. committed' \in States /\ committed'.alive = {} /\ committed'.hits = hits /\ committed'.deaths = Killed
  BY <1>1, <1>2, <1>3, <1>4 DEF States, hits
<1>6. QED
  BY <1>5 DEF hits

LEMMA DeathsAreOfOneHit ==
  ASSUME WorldIInv
  PROVE  /\ \A d, e \in Killed : d.victim = e.victim => d = e
         /\ \A d \in Killed :
              /\ d.victim \in DOMAIN players
              /\ \E n \in DOMAIN playerHits :
                   HitOf(n).zero /\ HitOf(n).target = d.victim /\ HitOf(n).shooter = d.killer
<1>1. \A d \in Killed : \E n \in DOMAIN playerHits :
        ReachedZero(n) /\ d = [victim |-> playerHits[n].target, killer |-> playerHits[n].shooter]
  BY DEF Killed
<1>2. \A d, e \in Killed : d.victim = e.victim => d = e
  BY <1>1, StruckArePlayers, DiesOnce
<1>3. ASSUME NEW d \in Killed
      PROVE  /\ d.victim \in DOMAIN players
             /\ \E n \in DOMAIN playerHits :
                  HitOf(n).zero /\ HitOf(n).target = d.victim /\ HitOf(n).shooter = d.killer
  <2>1. PICK n \in DOMAIN playerHits :
          ReachedZero(n) /\ d = [victim |-> playerHits[n].target, killer |-> playerHits[n].shooter]
    BY <1>1
  <2>2. HitOf(n).zero = ReachedZero(n) /\ HitOf(n).target = playerHits[n].target
        /\ HitOf(n).shooter = playerHits[n].shooter
    BY DEF HitOf
  <2>3. QED
    BY <2>1, <2>2, HitIs
<1>4. QED
  BY <1>2, <1>3

LEMMA OnDamageStep ==
  ASSUME WorldIInv, OnDamage PROVE WorldIInv'
<1>. USE DamageIs
<1>1. /\ \A p \in DOMAIN players :
           /\ players'[p] \in Slots /\ (players'[p].alive <=> players'[p].health > 0)
           /\ players'[p].alive => players[p].alive
           /\ players'[p].rifle = players[p].rifle /\ players'[p].shot = players[p].shot
           /\ players'[p].history = players[p].history
      /\ \A d \in Killed : d.victim \in DOMAIN players /\ players'[d.victim].health = 0
  BY DamagedPlayer, DeathsAreOfOneHit
<1>2. Living' \subseteq Living
  BY <1>1 DEF Living
<1>3. WorldTypes'
  <2>1. players' \in [DOMAIN players' -> Slots]
    BY <1>1, DamageWrites
  <2>2. QED
    BY <2>1, DamageCommits DEF WorldIInv, WorldTypes, Phases
<1>4. PhasesOK'
  BY <1>1, DamageCommits DEF WorldIInv, PhasesOK
<1>5. HistoriesOK'
  <2>1. LastPosed' = LastPosed
    BY DEF LastPosed
  <2>2. QED
    BY <1>1, <2>1 DEF WorldIInv, HistoriesOK
<1>6. StruckOK'
  BY DEF StruckOK
<1>7. DeathsOK'
  BY <1>1, DamageCommits DEF DeathsOK
<1>8. TheDeadAreOut'
  <2>1. \A d \in Killed : \E h \in committed'.hits : h.zero /\ h.target = d.victim /\ h.shooter = d.killer
    BY DamageCommits, DeathsAreOfOneHit
  <2>2. \A d, e \in Killed : d.victim = e.victim => d = e
    BY DeathsAreOfOneHit
  <2>3. QED
    BY <1>1, <2>1, <2>2, DamageCommits DEF TheDeadAreOut
<1>9. FlightsOK'
  BY DEF WorldIInv, FlightsOK
<1>10. CooldownOK' /\ NeverFasterThanItsRate'
  <2>1. \A p \in Living' : players'[p].rifle = players[p].rifle
    BY <1>1, <1>2 DEF Living
  <2>2. QED
    BY <1>2, <2>1 DEF WorldIInv, CooldownOK, NeverFasterThanItsRate
<1>11. JudgedWhereSeen'
  <2>1. \A h \in committed'.hits : h.pose = SeenPose(h.delay)
    BY DamageCommits, HitIs
  <2>2. QED
    BY <2>1 DEF JudgedWhereSeen, SeenPose, Clock
<1>12. QED
  BY <1>3, <1>4, <1>5, <1>6, <1>7, <1>8, <1>9, <1>10, <1>11 DEF WorldIInv

-----------------------------------------------------------------------------
(***************************************************************************)
(* The rules asked, and the tick committed.                                *)
(***************************************************************************)
LEMMA OnScriptsBehavioursStep ==
  ASSUME WorldIInv, OnScriptsBehaviours PROVE WorldIInv'
<1>1. /\ phase = "scripts" /\ phase' = "commit"
      /\ UNCHANGED <<tick, players, bullets, flights, nextHandle, posed, toFly, playerHits, match, startedOn, fired>>
      /\ committed' = committed \/ committed' = [committed EXCEPT !.action = "match_end"]
  BY DEF OnScriptsBehaviours
<1>2. committed \in States
  BY DEF WorldIInv, WorldTypes
<1>3. /\ committed' \in States /\ committed'.hits = committed.hits /\ committed'.deaths = committed.deaths
      /\ committed'.alive = committed.alive
  <2>1. CASE committed' = committed
    BY <1>2, <2>1
  <2>2. CASE committed' = [committed EXCEPT !.action = "match_end"]
    BY <1>2, <2>2 DEF States
  <2>3. QED
    BY <1>1, <2>1, <2>2
<1>4. WorldTypes'
  BY <1>1, <1>3 DEF WorldIInv, WorldTypes, Phases
<1>5. PhasesOK'
  BY <1>1, <1>3 DEF WorldIInv, PhasesOK
<1>6. HistoriesOK'
  <2>1. LastPosed' = LastPosed
    BY <1>1 DEF LastPosed
  <2>2. QED
    BY <1>1, <2>1 DEF WorldIInv, HistoriesOK
<1>7. StruckOK'
  <2>1. posed' = {} /\ playerHits' = <<>>
    BY <1>1 DEF WorldIInv, PhasesOK
  <2>2. QED
    BY <2>1 DEF StruckOK
<1>8. DeathsOK' /\ TheDeadAreOut'
  BY <1>1, <1>3 DEF WorldIInv, DeathsOK, TheDeadAreOut
<1>9. FlightsOK'
  BY <1>1 DEF WorldIInv, FlightsOK
<1>10. CooldownOK' /\ NeverFasterThanItsRate'
  BY <1>1 DEF WorldIInv, CooldownOK, NeverFasterThanItsRate, Living
<1>11. JudgedWhereSeen'
  BY <1>1 DEF JudgedWhereSeen
<1>12. QED
  BY <1>4, <1>5, <1>6, <1>7, <1>8, <1>9, <1>10, <1>11 DEF WorldIInv

(* A turn of the ring comes back to its oldest slot, and to no other before. *)
LEMMA OneTurn ==
  ASSUME NEW h \in Histories
  PROVE  /\ SlotOf(h, 0) = h.oldest /\ SlotOf(h, HitboxHistoryTicks) = h.oldest
         /\ \A a, b \in 0 .. HitboxHistoryTicks :
              a < b /\ b - a < HitboxHistoryTicks => SlotOf(h, a) # SlotOf(h, b)
<1>. DEFINE N == HitboxHistoryTicks
            at == h.oldest
            slot(c) == IF at + c < N THEN at + c ELSE at + c - N
<1>1. N \in Nat /\ N > 0 /\ at \in 0 .. N - 1
  BY RingOK DEF Histories
<1>2. \A c \in 0 .. N : SlotOf(h, c) = slot(c)
  BY SlotIs
<1>3. 0 \in 0 .. N /\ N \in 0 .. N
  BY <1>1
<1>. HIDE DEF N, at
<1>4. slot(0) = at /\ slot(N) = at
  BY <1>1
<1>5. \A a, b \in 0 .. N : a < b /\ b - a < N => slot(a) # slot(b)
  BY <1>1
<1>. HIDE DEF slot
<1>6. \A a, b \in 0 .. N : a < b /\ b - a < N => SlotOf(h, a) # SlotOf(h, b)
  BY <1>2, <1>5
<1>7. SlotOf(h, 0) = at /\ SlotOf(h, N) = at
  BY <1>2, <1>3, <1>4
<1>8. QED
  BY <1>6, <1>7 DEF N, at

(* A pose recorded is the ring's newest, and drops its oldest of a full one. *)
LEMMA RecordKeeps ==
  ASSUME NEW h \in Histories, NEW began \in Nat, NEW newest \in Nat, began <= newest, newest < MaxTicks,
         HistoryOK(h, began, newest)
  PROVE  Record(h, newest + 1) \in Histories /\ HistoryOK(Record(h, newest + 1), began, newest + 1)
<1>. DEFINE r == Record(h, newest + 1)
            N == HitboxHistoryTicks
            size == h.size
<1>1. N \in Nat /\ N > 0
  BY RingOK
<1>2. /\ h.roots \in [0 .. N - 1 -> 0 .. MaxTicks] /\ h.oldest \in 0 .. N - 1 /\ size \in 0 .. N
      /\ h.newest \in 0 .. MaxTicks /\ newest + 1 \in 0 .. MaxTicks
  BY ConstantsOK DEF Histories
<1>3. /\ size = Kept(began, newest)
      /\ \A count \in 0 .. size - 1 : h.roots[SlotOf(h, count)] = newest - size + 1 + count
  BY Zenon DEF HistoryOK
<1>4. \A count \in 0 .. N :
        /\ SlotOf(h, count) \in 0 .. N - 1
        /\ SlotOf(h, count) = IF h.oldest + count < N THEN h.oldest + count ELSE h.oldest + count - N
  BY SlotIs
<1>5. CASE size < N
  <2>1. r = [h EXCEPT !.roots[SlotOf(h, size)] = newest + 1, !.size = @ + 1, !.newest = newest + 1]
    BY <1>5 DEF Record
  <2>. DEFINE slot == SlotOf(h, size)
  <2>2. slot \in 0 .. N - 1 /\ size + 1 \in 0 .. N
    <3>1. size \in 0 .. N /\ size + 1 \in 0 .. N
      BY SMTT(30), <1>1, <1>2, <1>5
    <3>. HIDE DEF size, N
    <3>2. QED
      BY <1>4, <3>1
  <2>. HIDE DEF r, N, size, slot
  <2>3. r = [h EXCEPT !.roots[slot] = newest + 1, !.size = @ + 1, !.newest = newest + 1]
    BY <2>1 DEF slot
  <2>4. /\ r \in Histories /\ r.oldest = h.oldest /\ r.size = size + 1 /\ r.newest = newest + 1
        /\ r.roots = [h.roots EXCEPT ![slot] = newest + 1]
    BY <1>2, <2>2, <2>3 DEF Histories, N, size
  <2>5. \A count : SlotOf(r, count) = SlotOf(h, count)
    BY <2>4 DEF SlotOf
  <2>6. ASSUME NEW count \in 0 .. size + 1 - 1
        PROVE  r.roots[SlotOf(r, count)] = newest + 1 - (size + 1) + 1 + count
    <3>1. CASE count = size
      <4>1. SlotOf(r, count) = slot /\ r.roots[slot] = newest + 1
        BY <1>2, <2>2, <2>4, <2>5, <3>1 DEF slot
      <4>2. newest + 1 - (size + 1) + 1 + count = newest + 1
        BY <1>1, <1>2, <3>1
      <4>3. QED
        BY <4>1, <4>2
    <3>2. CASE count # size
      <4>1. count \in 0 .. size - 1 /\ count \in 0 .. N /\ size \in 0 .. N
        BY <1>1, <1>2, <3>2
      <4>2. SlotOf(h, count) # slot /\ SlotOf(h, count) \in 0 .. N - 1
        <5>1. count < size /\ size - count < N
          BY <1>1, <1>5, <4>1
        <5>2. QED
          BY <1>4, <4>1, <5>1, OneTurn DEF slot, N
      <4>3. r.roots[SlotOf(r, count)] = h.roots[SlotOf(h, count)]
        BY <1>2, <2>4, <2>5, <4>2
      <4>4. newest - size + 1 + count = newest + 1 - (size + 1) + 1 + count
        BY <1>1, <1>2, <4>1
      <4>5. QED
        BY <1>3, <4>1, <4>3, <4>4
    <3>3. QED
      BY <3>1, <3>2
  <2>7. size + 1 = Kept(began, newest + 1)
    BY <1>1, <1>2, <1>3, <1>5 DEF Kept, N
  <2>8. HistoryOK(r, began, newest + 1)
    <3>1. r.size = Kept(began, newest + 1) /\ r.newest = newest + 1 /\ r.size \in Nat
      BY <1>1, <1>2, <2>4, <2>7
    <3>2. ASSUME NEW count \in 0 .. r.size - 1
          PROVE  r.roots[SlotOf(r, count)] = newest + 1 - r.size + 1 + count
      <4>1. r.size = size + 1 /\ size \in Nat
        BY <1>1, <1>2, <2>4
      <4>2. count \in 0 .. size + 1 - 1
        BY <4>1
      <4>3. r.roots[SlotOf(r, count)] = newest + 1 - (size + 1) + 1 + count
        BY <2>6, <4>2
      <4>4. QED
        BY <4>1, <4>3
    <3>3. QED
      BY <3>1, <3>2 DEF HistoryOK
  <2>9. QED
    BY <2>4, <2>8 DEF r
<1>6. CASE size = N
  <2>. DEFINE oldest == SlotOf(h, 1)
  <2>1. r = [h EXCEPT !.roots[h.oldest] = newest + 1, !.oldest = oldest, !.newest = newest + 1]
    BY <1>1, <1>6 DEF Record
  <2>2. oldest \in 0 .. N - 1 /\ oldest = IF h.oldest + 1 < N THEN h.oldest + 1 ELSE h.oldest + 1 - N
    BY <1>1, <1>4
  <2>. HIDE DEF r, N, size, oldest
  <2>3. /\ r \in Histories /\ r.oldest = oldest /\ r.size = size /\ r.newest = newest + 1
        /\ r.roots = [h.roots EXCEPT ![h.oldest] = newest + 1]
    BY <1>2, <2>1, <2>2 DEF Histories, N, size
  <2>4. ASSUME NEW count \in 0 .. size - 1
        PROVE  r.roots[SlotOf(r, count)] = newest + 1 - size + 1 + count
    <3>1. count \in 0 .. N /\ count + 1 \in 0 .. N /\ 0 \in 0 .. N
      BY <1>1, <1>6
    <3>2. SlotOf(r, count) = IF oldest + count < N THEN oldest + count ELSE oldest + count - N
      BY <2>3, <3>1, SlotIs DEF N
    <3>3. SlotOf(h, count + 1) = IF h.oldest + (count + 1) < N THEN h.oldest + (count + 1) ELSE h.oldest + (count + 1) - N
      BY <1>4, <3>1
    <3>4. SlotOf(r, count) = SlotOf(h, count + 1)
      <4>1. h.oldest \in Nat /\ oldest \in Nat /\ count \in Nat
        BY <1>1, <1>2, <2>2, <3>1
      <4>. DEFINE was == h.oldest
                  x == SlotOf(r, count)
                  y == SlotOf(h, count + 1)
      <4>2. /\ x = IF oldest + count < N THEN oldest + count ELSE oldest + count - N
            /\ y = IF was + (count + 1) < N THEN was + (count + 1) ELSE was + (count + 1) - N
            /\ oldest = IF was + 1 < N THEN was + 1 ELSE was + 1 - N
            /\ was \in 0 .. N - 1 /\ count \in 0 .. N - 1
        BY <1>2, <1>6, <2>2, <3>2, <3>3
      <4>. HIDE DEF was, x, y
      <4>3. x = y
        BY <1>1, <4>2
      <4>4. QED
        BY <4>3 DEF x, y
    <3>5. CASE count + 1 = N
      <4>1. SlotOf(r, count) = h.oldest
        BY <1>1, <1>2, <3>3, <3>4, <3>5
      <4>2. r.roots[h.oldest] = newest + 1
        BY <1>2, <2>3
      <4>3. QED
        BY <1>1, <1>6, <3>5, <4>1, <4>2
    <3>6. CASE count + 1 # N
      <4>1. count + 1 \in 0 .. size - 1
        BY <1>1, <1>6, <3>6
      <4>2. SlotOf(h, count + 1) # h.oldest /\ SlotOf(h, count + 1) \in 0 .. N - 1
        <5>1. 0 < count + 1 /\ count + 1 - 0 < N
          BY <1>1, <1>6, <4>1
        <5>2. SlotOf(h, 0) = h.oldest /\ SlotOf(h, 0) # SlotOf(h, count + 1)
          BY <3>1, <5>1, OneTurn DEF N
        <5>3. QED
          BY <1>4, <3>1, <5>2
      <4>3. r.roots[SlotOf(r, count)] = h.roots[SlotOf(h, count + 1)]
        BY <1>2, <2>3, <3>4, <4>2
      <4>4. newest - size + 1 + (count + 1) = newest + 1 - size + 1 + count
        BY <1>1, <1>2, <4>1
      <4>5. QED
        BY <1>3, <4>1, <4>3, <4>4
    <3>7. QED
      BY <3>5, <3>6
  <2>5. size = Kept(began, newest + 1)
    BY <1>1, <1>2, <1>3, <1>6 DEF Kept, N
  <2>6. HistoryOK(r, began, newest + 1)
    <3>1. r.size = Kept(began, newest + 1) /\ r.newest = newest + 1 /\ r.size \in Nat
      BY <1>1, <1>2, <2>3, <2>5
    <3>2. ASSUME NEW count \in 0 .. r.size - 1
          PROVE  r.roots[SlotOf(r, count)] = newest + 1 - r.size + 1 + count
      <4>1. count \in 0 .. size - 1
        BY <2>3
      <4>2. QED
        BY <2>3, <2>4, <4>1
    <3>3. QED
      BY <3>1, <3>2 DEF HistoryOK
  <2>7. QED
    BY <2>3, <2>6 DEF r
<1>7. QED
  BY <1>1, <1>2, <1>5, <1>6

LEMMA CommitIs ==
  ASSUME Commit
  PROVE  /\ phase = "commit" /\ phase' = "idle"
         /\ UNCHANGED <<tick, bullets, flights, nextHandle, matchEnded, posed, toFly, playerHits, match,
                        startedOn, fired>>
         /\ DOMAIN players' = DOMAIN players
BY DEF Commit

LEMMA CommittedPlayer ==
  ASSUME WorldIInv, Commit, NEW p \in DOMAIN players
  PROVE  /\ players'[p] \in Slots
         /\ players'[p].alive = players[p].alive /\ players'[p].health = players[p].health
         /\ players'[p].rifle = players[p].rifle /\ players'[p].shot = players[p].shot
         /\ players[p].alive => HistoryOK(players'[p].history, startedOn, tick)
<1>1. players[p] \in Slots
  BY DEF WorldIInv, WorldTypes
<1>2. CASE p \in Living
  <2>. DEFINE h == players[p].history
              newest == tick - 1
  <2>1. players'[p] = [players[p] EXCEPT !.history = Record(h, tick)]
    BY <1>2 DEF Commit
  <2>2. startedOn \in Nat /\ startedOn < tick /\ tick \in Nat /\ tick <= MaxTicks
    BY CommitIs, ConstantsOK DEF WorldIInv, WorldTypes, PhasesOK
  <2>3. newest \in Nat /\ startedOn <= newest /\ newest < MaxTicks /\ newest + 1 = tick
    BY <2>2, ConstantsOK
  <2>4. h \in Histories /\ HistoryOK(h, startedOn, newest)
    <3>1. LastPosed = newest
      BY CommitIs DEF LastPosed
    <3>2. QED
      BY <1>1, <1>2, <3>1 DEF WorldIInv, HistoriesOK, Living, Slots
  <2>. HIDE DEF newest, h
  <2>5. Record(h, newest + 1) \in Histories /\ HistoryOK(Record(h, newest + 1), startedOn, newest + 1)
    BY <2>2, <2>3, <2>4, RecordKeeps
  <2>6. Record(h, tick) \in Histories /\ HistoryOK(Record(h, tick), startedOn, tick)
    BY <2>3, <2>5
  <2>7. players'[p] \in Slots /\ players'[p].history = Record(h, tick)
        /\ players'[p].alive = players[p].alive /\ players'[p].health = players[p].health
        /\ players'[p].rifle = players[p].rifle /\ players'[p].shot = players[p].shot
    BY <1>1, <2>1, <2>6 DEF Slots
  <2>8. QED
    BY <2>6, <2>7
<1>3. CASE p \notin Living
  <2>1. players'[p] = players[p] /\ ~players[p].alive
    BY <1>3 DEF Commit, Living
  <2>2. QED
    BY <1>1, <2>1
<1>4. QED
  BY <1>2, <1>3

LEMMA CommitStep ==
  ASSUME WorldIInv, Commit PROVE WorldIInv'
<1>. USE CommitIs
<1>1. \A p \in DOMAIN players :
        /\ players'[p] \in Slots
        /\ players'[p].alive = players[p].alive /\ players'[p].health = players[p].health
        /\ players'[p].rifle = players[p].rifle /\ players'[p].shot = players[p].shot
        /\ players[p].alive => HistoryOK(players'[p].history, startedOn, tick)
  BY CommittedPlayer
<1>2. Living' = Living
  BY <1>1 DEF Living
<1>3. /\ committed' \in States /\ committed'.hits = committed.hits /\ committed'.deaths = committed.deaths
      /\ committed'.alive = Living
  <2>1. committed \in States /\ Living \subseteq Players
    BY DEF WorldIInv, WorldTypes, Living
  <2>2. committed' = [committed EXCEPT !.alive = Living]
    BY DEF Commit
  <2>3. QED
    BY <2>1, <2>2 DEF States
<1>4. WorldTypes'
  <2>1. players' \in [DOMAIN players' -> Slots]
    <3>1. players' = [p \in DOMAIN players |-> players'[p]]
      BY DEF Commit
    <3>2. QED
      BY <1>1, <3>1
  <2>2. QED
    BY <1>3, <2>1 DEF WorldIInv, WorldTypes, Phases
<1>5. PhasesOK'
  BY <1>1 DEF WorldIInv, PhasesOK
<1>6. HistoriesOK'
  <2>1. LastPosed' = tick
    BY DEF LastPosed
  <2>2. QED
    BY <1>1, <2>1 DEF HistoriesOK
<1>7. StruckOK'
  <2>1. posed' = {} /\ playerHits' = <<>>
    BY DEF WorldIInv, PhasesOK
  <2>2. QED
    BY <2>1 DEF StruckOK
<1>8. DeathsOK'
  BY <1>2, <1>3 DEF DeathsOK
<1>9. TheDeadAreOut'
  <2>1. /\ \A p \in DOMAIN players : players[p].alive <=> players[p].health > 0
        /\ \A d, e \in committed.deaths : d.victim = e.victim => d = e
        /\ \A d \in committed.deaths : \E h \in committed.hits : h.zero /\ h.target = d.victim /\ h.shooter = d.killer
    BY DEF WorldIInv, TheDeadAreOut
  <2>2. \A d \in committed.deaths : d.victim \in DOMAIN players /\ players[d.victim].health = 0
    BY DEF WorldIInv, DeathsOK
  <2>3. Living \cap {d.victim : d \in committed.deaths} = {}
    BY <2>1, <2>2 DEF Living
  <2>4. \A p \in DOMAIN players : players[p].health \in Nat
    <3>1. \A slot \in Slots : slot.health \in Nat
      BY ConstantsOK DEF Slots
    <3>2. QED
      BY <3>1 DEF WorldIInv, WorldTypes
  <2>5. \A p \in DOMAIN players : p \notin Living => players[p].health = 0
    BY <2>1, <2>4 DEF Living
  <2>6. \A p \in DOMAIN players' :
          (IF p \in committed'.alive THEN players'[p].health ELSE 0) = players'[p].health
    BY <1>1, <1>3, <2>5
  <2>7. QED
    BY <1>1, <1>3, <2>1, <2>3, <2>6 DEF TheDeadAreOut, OwnHealth
<1>10. FlightsOK'
  BY DEF WorldIInv, FlightsOK
<1>11. CooldownOK' /\ NeverFasterThanItsRate'
  <2>1. \A p \in Living : players'[p].rifle = players[p].rifle
    BY <1>1 DEF Living
  <2>2. QED
    BY <1>2, <2>1 DEF WorldIInv, CooldownOK, NeverFasterThanItsRate
<1>12. JudgedWhereSeen'
  BY DEF JudgedWhereSeen
<1>13. QED
  BY <1>4, <1>5, <1>6, <1>7, <1>8, <1>9, <1>10, <1>11, <1>12 DEF WorldIInv

-----------------------------------------------------------------------------
(***************************************************************************)
(* Every tick, and what follows.                                           *)
(***************************************************************************)
LEMMA WorldSteps ==
  ASSUME WorldIInv, [WorldNext]_worldVars PROVE WorldIInv'
<1>1. ASSUME NEW entrants \in SUBSET Players \ {{}}, StartMatch(entrants) PROVE WorldIInv'
  BY <1>1, StartMatchStep
<1>2. CASE EndMatch
  BY <1>2, EndMatchStep
<1>3. ASSUME NEW p \in Players, RemovePlayer(p) PROVE WorldIInv'
  BY <1>3, RemovePlayerStep
<1>4. ASSUME NEW commands \in [Living -> Commands], BeginTick(commands) PROVE WorldIInv'
  BY <1>4, BeginTickStep
<1>5. ASSUME NEW blocked \in SUBSET Players, Posing(blocked) PROVE WorldIInv'
  BY <1>5, PosingStep
<1>6. ASSUME NEW b \in bullets, Ballistics(b) PROVE WorldIInv'
  BY <1>6, BallisticsStep
<1>7. CASE OnDamage
  BY <1>7, OnDamageStep
<1>8. CASE OnScriptsBehaviours
  BY <1>8, OnScriptsBehavioursStep
<1>9. CASE Commit
  BY <1>9, CommitStep
<1>10. CASE UNCHANGED worldVars
  <2>. USE <1>10 DEF worldVars
  <2>1. WorldTypes' /\ PhasesOK'
    BY DEF WorldIInv, WorldTypes, PhasesOK
  <2>2. HistoriesOK'
    BY DEF WorldIInv, HistoriesOK, LastPosed
  <2>3. StruckOK'
    BY DEF WorldIInv, StruckOK, Living, PoseFor, SeenPose, Clock
  <2>4. DeathsOK' /\ TheDeadAreOut'
    BY DEF WorldIInv, DeathsOK, TheDeadAreOut, Living, OwnHealth
  <2>5. FlightsOK'
    BY DEF WorldIInv, FlightsOK
  <2>6. CooldownOK' /\ NeverFasterThanItsRate'
    BY DEF WorldIInv, CooldownOK, NeverFasterThanItsRate, Living
  <2>7. JudgedWhereSeen'
    BY DEF WorldIInv, JudgedWhereSeen, SeenPose, Clock
  <2>8. QED
    BY <2>1, <2>2, <2>3, <2>4, <2>5, <2>6, <2>7 DEF WorldIInv
<1>11. QED
  BY <1>1, <1>2, <1>3, <1>4, <1>5, <1>6, <1>7, <1>8, <1>9, <1>10 DEF WorldNext

LEMMA WorldInductive == WorldSpec => []WorldIInv
<1>1. WorldIInv /\ [WorldNext]_worldVars => WorldIInv'
  BY WorldSteps
<1>2. QED
  BY <1>1, WorldStarts, PTL DEF WorldSpec

(* A player has a bullet in flight for a tick at most, of fewer ticks than a flight has steps. *)
LEMMA FewInFlight ==
  ASSUME WorldIInv, phase = "scripts", NEW p \in Players
  PROVE  Cardinality({b \in bullets : b.shooter = p}) < MaxFlightSteps
<1>. DEFINE own == {b \in bullets : b.shooter = p}
            n == MaxFlightSteps - 1
            f == [b \in own |-> flights[b.handle]]
<1>1. n \in Nat /\ toFly = {} /\ tick \in Nat
  BY ConstantsOK, TickIsNumber DEF WorldIInv, PhasesOK
<1>2. ASSUME NEW b \in own
      PROVE  /\ b \in bullets /\ b.firedOn \in Nat /\ b.firedOn <= tick
             /\ f[b] = tick - b.firedOn + 1 /\ f[b] \in 1 .. n
  <2>1. b.firedOn \in Nat
    <3>1. \A c \in Bullets : c.firedOn \in Nat
      BY ConstantsOK DEF Bullets
    <3>2. QED
      BY <3>1 DEF WorldIInv, WorldTypes
  <2>2. /\ b.firedOn <= tick /\ flights[b.handle] = tick - b.firedOn + 1 /\ b.handle \in DOMAIN flights
        /\ flights[b.handle] < MaxFlightSteps
    BY <1>1 DEF WorldIInv, FlightsOK
  <2>3. QED
    BY <1>1, <2>1, <2>2, ConstantsOK
<1>3. IsInjective(f) /\ f \in [own -> 1 .. n]
  <2>1. ASSUME NEW b \in own, NEW c \in own, f[b] = f[c] PROVE b = c
    <3>1. b.firedOn = c.firedOn
      <4>. HIDE DEF own, f
      <4>1. /\ b.firedOn \in Nat /\ f[b] = tick - b.firedOn + 1
            /\ c.firedOn \in Nat /\ f[c] = tick - c.firedOn + 1
        BY <1>2
      <4>2. tick - b.firedOn + 1 = tick - c.firedOn + 1
        BY <2>1, <4>1
      <4>3. \A x, y \in Nat : tick - x + 1 = tick - y + 1 => x = y
        BY <1>1
      <4>4. QED
        BY <4>1, <4>2, <4>3
    <3>2. QED
      BY <1>2, <3>1 DEF WorldIInv, FlightsOK
  <2>2. f \in [own -> 1 .. n]
    BY <1>2
  <2>. HIDE DEF own
  <2>3. DOMAIN f = own
    OBVIOUS
  <2>. HIDE DEF f
  <2>4. QED
    BY <2>1, <2>2, <2>3 DEF IsInjective
<1>. HIDE DEF own, f
<1>4. f \in Injection(own, 1 .. n)
  BY <1>3 DEF Injection
<1>5. IsFiniteSet(1 .. n) /\ Cardinality(1 .. n) = n
  BY <1>1, FS_Interval
<1>6. Cardinality(own) <= n /\ Cardinality(own) \in Nat
  BY <1>4, <1>5, FS_Injection, FS_CardinalityType
<1>7. QED
  BY <1>1, <1>6, ConstantsOK DEF own

LEMMA WorldIsSound == WorldIInv => SimulationInv /\ JudgedWhereSeen /\ NeverFasterThanItsRate
<1>1. SUFFICES ASSUME WorldIInv PROVE SimulationInv /\ JudgedWhereSeen /\ NeverFasterThanItsRate
  OBVIOUS
<1>2. WorldTypeOK
  <2>1. \E everyone \in SUBSET Players : players \in [everyone -> Slots]
    BY <1>1 DEF WorldIInv, WorldTypes
  <2>2. QED
    BY <1>1, <2>1 DEF WorldIInv, WorldTypes, WorldTypeOK, FlightsOK
<1>3. BulletsHaveFlights
  BY <1>1, FewInFlight DEF WorldIInv, FlightsOK, BulletsHaveFlights
<1>4. QED
  BY <1>1, <1>2, <1>3 DEF WorldIInv, SimulationInv

(***************************************************************************)
(* SimulationWorld's books are sound after every call and phase: a player  *)
(* is in the State while it has health, every Death is of one hit, and the *)
(* bullets and their flights agree and are few.                            *)
(***************************************************************************)
THEOREM SimulationInvariant == WorldSpec => []SimulationInv
BY WorldInductive, WorldIsSound, PTL

(***************************************************************************)
(* A hit is judged against the pose its shooter saw, whatever the delay.   *)
(***************************************************************************)
THEOREM HitsAreJudgedWhereSeen == WorldSpec => []JudgedWhereSeen
BY WorldInductive, WorldIsSound, PTL

(***************************************************************************)
(* No trigger makes a rifle fire faster than its rate.                     *)
(***************************************************************************)
THEOREM RiflesKeepTheirRate == WorldSpec => []NeverFasterThanItsRate
BY WorldInductive, WorldIsSound, PTL

\* What a step may not undo while the Match is the same: a death, and the Match's end.
TheDeadStayDead ==
  \A p \in DOMAIN players \cap DOMAIN players' :
    ~players[p].alive =>
      /\ ~players'[p].alive /\ fired'[p] = fired[p]
      /\ \A h \in committed'.hits \ committed.hits : h.target # p

EndedOnce ==
  matchEnded /\ committed'.action = "match_end" => committed.action = "match_end"

LEMMA NothingIsUndone ==
  ASSUME WorldIInv, [WorldNext]_worldVars, match' = match PROVE TheDeadStayDead /\ EndedOnce
<1>1. committed \in States /\ DOMAIN players \subseteq Players /\ match \in Nat
  BY DEF WorldIInv, WorldTypes
<1>2. ASSUME committed'.hits = committed.hits, fired' = fired,
             \A p \in DOMAIN players \cap DOMAIN players' : players'[p].alive = players[p].alive
      PROVE  TheDeadStayDead
  BY <1>2 DEF TheDeadStayDead
<1>3. ASSUME NEW entrants, StartMatch(entrants) PROVE TheDeadStayDead /\ EndedOnce
  <2>1. match' = match + 1
    BY <1>3 DEF StartMatch
  <2>2. QED
    BY <1>1, <2>1
<1>4. CASE EndMatch
  <2>1. DOMAIN players' = {} /\ committed' = committed
    BY <1>4 DEF EndMatch
  <2>2. QED
    BY <2>1 DEF TheDeadStayDead, EndedOnce
<1>5. ASSUME NEW p, RemovePlayer(p) PROVE TheDeadStayDead /\ EndedOnce
  <2>1. /\ committed' = committed /\ fired' = fired
        /\ \A q \in DOMAIN players \cap DOMAIN players' : players'[q] = players[q]
    BY <1>5 DEF RemovePlayer
  <2>2. QED
    BY <1>2, <2>1 DEF EndedOnce
<1>6. ASSUME NEW commands \in [Living -> Commands], BeginTick(commands) PROVE TheDeadStayDead /\ EndedOnce
  <2>1. committed'.hits = {} /\ committed'.action = "none"
    BY <1>6, BeginTickIs DEF NothingCommitted
  <2>2. ASSUME NEW p \in DOMAIN players, ~players[p].alive
        PROVE  players'[p] = players[p] /\ fired'[p] = fired[p]
    <3>1. p \in DOMAIN players \ Living /\ p \in Players \ Living
      BY <1>1, <2>2 DEF Living
    <3>2. QED
      BY <1>6, <3>1, BeginTickIs
  <2>3. QED
    BY <2>1, <2>2 DEF TheDeadStayDead, EndedOnce
<1>7. ASSUME NEW blocked, Posing(blocked) PROVE TheDeadStayDead /\ EndedOnce
  <2>1. players' = players /\ fired' = fired /\ committed' = [committed EXCEPT !.shots = {p \in Living : players[p].shot > 0}]
    BY <1>7, PosingIs
  <2>2. committed'.hits = committed.hits /\ committed'.action = committed.action
    BY <1>1, <2>1 DEF States
  <2>3. QED
    BY <1>2, <2>1, <2>2 DEF EndedOnce
<1>8. ASSUME NEW b, Ballistics(b) PROVE TheDeadStayDead /\ EndedOnce
  BY <1>2, <1>8, BallisticsIs DEF EndedOnce
<1>9. CASE OnDamage
  <2>1. ASSUME NEW n \in DOMAIN playerHits PROVE HitOf(n).target \in Living
    BY DEF HitOf, WorldIInv, StruckOK
  <2>2. \A h \in committed'.hits : h.target \in Living
    BY <1>9, <2>1, DamageCommits
  <2>3. \A p \in DOMAIN players : players'[p].alive => players[p].alive
    BY <1>9, DamagedPlayer
  <2>4. fired' = fired /\ committed'.action = committed.action
    <3>1. committed' = [committed EXCEPT !.hits = {HitOf(n) : n \in DOMAIN playerHits}, !.deaths = Killed]
      BY <1>9, DamageWrites
    <3>2. QED
      BY <1>1, <1>9, <3>1, DamageIs DEF States
  <2>5. QED
    BY <2>2, <2>3, <2>4 DEF TheDeadStayDead, EndedOnce, Living
<1>10. CASE OnScriptsBehaviours
  <2>1. /\ players' = players /\ fired' = fired
        /\ \/ ~matchEnded /\ committed' = [committed EXCEPT !.action = "match_end"]
           \/ committed' = committed
    BY <1>10 DEF OnScriptsBehaviours
  <2>2. committed'.hits = committed.hits
    BY <1>1, <2>1 DEF States
  <2>3. QED
    BY <1>2, <2>1, <2>2 DEF EndedOnce
<1>11. CASE Commit
  <2>1. committed' = [committed EXCEPT !.alive = Living] /\ fired' = fired
    BY <1>11 DEF Commit
  <2>2. committed'.hits = committed.hits /\ committed'.action = committed.action
    BY <1>1, <2>1 DEF States
  <2>3. \A p \in DOMAIN players : players'[p].alive = players[p].alive
    BY <1>11, CommittedPlayer
  <2>4. QED
    BY <1>2, <2>1, <2>2, <2>3 DEF EndedOnce
<1>12. CASE UNCHANGED worldVars
  BY <1>2, <1>12 DEF worldVars, EndedOnce
<1>13. QED
  BY <1>3, <1>4, <1>5, <1>6, <1>7, <1>8, <1>9, <1>10, <1>11, <1>12 DEF WorldNext

(***************************************************************************)
(* A death and the rules' end of a Match are final: nothing the World does *)
(* undoes either before the next Match.                                    *)
(***************************************************************************)
THEOREM DeathIsFinal == WorldSpec => FinalForTheMatch
<1>1. WorldIInv /\ [WorldNext]_worldVars => [match' = match => TheDeadStayDead /\ EndedOnce]_worldVars
  BY NothingIsUndone
<1>2. QED
  BY <1>1, WorldInductive, PTL DEF WorldSpec, FinalForTheMatch, TheDeadStayDead, EndedOnce

-----------------------------------------------------------------------------
(***************************************************************************)
(* The replay server: types.                                               *)
(***************************************************************************)
Flags == BOOLEAN
Asked == {"list", "replay", "join"}
Mail == Seq(Asked)
Told == {"list", "accepted", "start", "tick", "end"}
Hearings == Seq(Told)
Captures == [replayable : Flags, written : Nat]
Places == {"idle", "messages", "listed", "found", "unknown", "built"}
Rounds == [at : Places, batch : [Askers -> Mail], of : SUBSET Askers, listed : SUBSET SUBSET Names]

NetworkTypeOK ==
  /\ connection \in [Askers -> {"open", "lost", "closed"}]
  /\ sending \in [Askers -> Mail]
  /\ heard \in [Askers -> Hearings]

CatalogTypeOK ==
  /\ DOMAIN directory \subseteq Names /\ directory \in [DOMAIN directory -> Captures]
  /\ DOMAIN read \subseteq Names /\ read \in [DOMAIN read -> Captures]
  /\ writes \in Nat

ViewersTypeOK ==
  /\ DOMAIN viewers \subseteq Askers /\ viewers \in [DOMAIN viewers -> Nat]
  /\ dismissed \in SUBSET Askers

TickTypeOK ==
  /\ watching \in SUBSET (Askers \X (Nat \ {0})) /\ atEnd \in SUBSET Askers
  /\ ticking \in Flags

ReplayServerTypeOK ==
  NetworkTypeOK /\ CatalogTypeOK /\ round \in Rounds /\ ViewersTypeOK /\ TickTypeOK

(***************************************************************************)
(* Of a connection closed here nothing is left but what the round would    *)
(* ignore; and the peer whose message is handled with the lock let go is   *)
(* no viewer, whatever a tick does in the meantime.                        *)
(***************************************************************************)
ClosedIsSilent ==
  \A p \in Askers : connection[p] = "closed" =>
    p \notin DOMAIN viewers /\ sending[p] = <<>> /\ (round.batch[p] = <<>> \/ p \in dismissed)

RoundOK ==
  /\ round.at = "idle" => \A p \in Askers : round.batch[p] = <<>>
  /\ round.at \notin {"idle", "messages"} => round.of # {} /\ round.of \cap DOMAIN viewers = {}

(***************************************************************************)
(* What a peer still connected has heard: nothing until it is a viewer,    *)
(* and then its Replay up to the tick it is at, its end with the last one, *)
(* after which a tick has it among those to close.                         *)
(***************************************************************************)
Part(i) ==
  IF i = 1 THEN "accepted" ELSE IF i = 2 THEN "start" ELSE IF i <= ReplayTicks + 2 THEN "tick" ELSE "end"

IsStory(told) == Len(told) <= ReplayTicks + 3 /\ \A i \in DOMAIN told : told[i] = Part(i)

HeardWhole(p) == viewers[p] = 0 /\ Len(heard[p]) = ReplayTicks + 3
HeardSoFar(p) == viewers[p] \in 1..ReplayTicks /\ Len(heard[p]) + viewers[p] = ReplayTicks + 2

HeardInv ==
  \A p \in Askers :
    /\ heard[p] = <<"list">> \/ IsStory(heard[p])
    /\ connection[p] # "closed" /\ p \notin DOMAIN viewers => heard[p] = <<>>
    /\ p \in DOMAIN viewers => IF p \in atEnd THEN HeardWhole(p) ELSE HeardSoFar(p)

(* A tick steps each viewer once, and those it holds are viewers yet or    *)
(* were closed.                                                            *)
IsOrWasClosed(p) == p \in DOMAIN viewers \/ connection[p] = "closed"

TickOK ==
  /\ ~ticking => watching = {} /\ atEnd = {}
  /\ \A p \in atEnd : IsOrWasClosed(p)
  /\ \A v \in watching :
       IsOrWasClosed(v[1]) /\ (v[1] \in DOMAIN viewers => viewers[v[1]] = v[2] /\ v[1] \notin atEnd)

(* What the catalog read is no later than what was written, and of one     *)
(* writing there is one reading.                                           *)
CatalogOK ==
  /\ \A name \in DOMAIN directory : directory[name].written <= writes
  /\ \A name \in DOMAIN read : read[name].written <= writes
  /\ \A name \in DOMAIN directory \cap DOMAIN read :
       read[name].written = directory[name].written => read[name] = directory[name]

(* Only a round adds viewers, so that there was room stays true.           *)
RoomOK ==
  /\ Cardinality(DOMAIN viewers) <= MaxViewers /\ gauge = Cardinality(DOMAIN viewers)
  /\ round.at = "built" => HasRoom

ListedOK == \E names \in SUBSET Names : round.listed \subseteq {names}

ReplayServerIInv ==
  /\ ReplayServerTypeOK /\ ClosedIsSilent /\ RoundOK /\ HeardInv /\ TickOK /\ CatalogOK
  /\ RoomOK /\ ListedOK

-----------------------------------------------------------------------------
(***************************************************************************)
(* What the steps are made of.                                             *)
(***************************************************************************)

(* Some peers' connections are over, and they are no viewers.              *)
Over(peers) ==
  /\ \A q \in Askers : connection'[q] = IF q \in peers THEN "closed" ELSE connection[q]
  /\ DOMAIN viewers' = DOMAIN viewers \ peers
  /\ \A q \in DOMAIN viewers' : viewers'[q] = viewers[q]
  /\ gauge' = Cardinality(DOMAIN viewers')
  /\ connection' \in [Askers -> {"open", "lost", "closed"}]
  /\ viewers' \in [DOMAIN viewers' -> Nat] /\ DOMAIN viewers' \subseteq Askers

(* Those closed by this side send nothing more.                            *)
Closed(peers) ==
  /\ Over(peers)
  /\ \A q \in Askers : sending'[q] = IF q \in peers THEN <<>> ELSE sending[q]
  /\ sending' \in [Askers -> Mail]

LEMMA EmptyMail == <<>> \in Mail
BY DEF Mail

LEMMA TailOfMail ==
  ASSUME NEW mail \in Mail, mail # <<>>
  PROVE  Tail(mail) \in Mail
BY DEF Mail

LEMMA ClosesAll ==
  ASSUME ReplayServerTypeOK, NEW peers \in SUBSET Askers, CloseAll(peers)
  PROVE  Closed(peers)
<1>1. Over(peers)
  BY DEF Over, CloseAll, Forget, ReplayServerTypeOK, NetworkTypeOK, ViewersTypeOK
<1>2. sending' = [q \in Askers |-> IF q \in peers THEN <<>> ELSE sending[q]]
  BY DEF CloseAll
<1>3. \A q \in Askers : sending[q] \in Mail
  BY DEF ReplayServerTypeOK, NetworkTypeOK
<1> QED
  BY <1>1, <1>2, <1>3, EmptyMail DEF Closed

LEMMA Unchanging ==
  ASSUME ReplayServerTypeOK, RoomOK, UNCHANGED <<connection, sending, viewers, gauge>>
  PROVE  Closed({})
BY DEF Closed, Over, ReplayServerTypeOK, NetworkTypeOK, ViewersTypeOK, RoomOK

(* Whoever is judged is closed and dismissed, or nothing happens to it.    *)
LEMMA JudgedOne ==
  ASSUME ReplayServerTypeOK, RoomOK, NEW p \in Askers, Judged(p)
  PROVE  \E peers \in SUBSET {p} : Closed(peers) /\ dismissed' = dismissed \cup peers
<1>1. CASE UNCHANGED <<networkVars, replaysVars>>
  <2>1. Closed({}) /\ dismissed' = dismissed \cup {}
    BY <1>1, Unchanging DEF networkVars, replaysVars
  <2> QED BY <2>1
<1>2. CASE Dismiss({p})
  <2>1. Closed({p}) /\ dismissed' = dismissed \cup {p}
    BY <1>2, ClosesAll DEF Dismiss
  <2> QED BY <2>1
<1> QED BY <1>1, <1>2 DEF Judged

(* The next message is taken when one was handled.                         *)
Handled(p) ==
  /\ round'.at = "messages" /\ round'.of = {} /\ round'.listed = {}
  /\ \A q \in Askers : q # p => round'.batch[q] = round.batch[q]
  /\ round' \in Rounds

LEMMA NextIsTaken ==
  ASSUME ReplayServerTypeOK, NEW p \in Askers, round.batch[p] # <<>>, NextMessage(p)
  PROVE  Handled(p)
<1>1. round.batch \in [Askers -> Mail]
  BY DEF ReplayServerTypeOK, Rounds
<1>2. Tail(round.batch[p]) \in Mail
  BY <1>1, TailOfMail
<1> DEFINE batch == [round.batch EXCEPT ![p] = Tail(@)]
<1>3. batch \in [Askers -> Mail] /\ \A q \in Askers : q # p => batch[q] = round.batch[q]
  BY <1>1, <1>2
<1>4. round' = [at |-> "messages", batch |-> batch, of |-> {}, listed |-> {}]
  BY DEF NextMessage
<1> HIDE DEF batch
<1>5. round' \in Rounds
  BY <1>3, <1>4 DEF Rounds, Places
<1> QED
  BY <1>3, <1>4, <1>5 DEF Handled

-----------------------------------------------------------------------------
(***************************************************************************)
(* What a connection that is over does to the parts of the invariant.      *)
(***************************************************************************)
LEMMA ViewersAreFinite ==
  ASSUME ReplayServerTypeOK
  PROVE  IsFiniteSet(DOMAIN viewers) /\ Cardinality(DOMAIN viewers) \in Nat
<1>1. IsFiniteSet(DOMAIN viewers)
  BY FS_Subset, ReplayServerAssumption DEF ReplayServerTypeOK, ViewersTypeOK
<1> QED BY <1>1, FS_CardinalityType

LEMMA MaxViewersIsNat == MaxViewers \in Nat /\ ReplayTicks \in Nat /\ ReplayTicks > 0
BY ReplayServerAssumption

LEMMA OverLeavesRoom ==
  ASSUME ReplayServerTypeOK, RoomOK, NEW peers, Over(peers),
         round'.at = "built" => round.at = "built"
  PROVE  RoomOK'
<1>1. IsFiniteSet(DOMAIN viewers) /\ Cardinality(DOMAIN viewers) \in Nat
  BY ViewersAreFinite
<1>2. DOMAIN viewers' \subseteq DOMAIN viewers /\ gauge' = Cardinality(DOMAIN viewers')
  BY DEF Over
<1>3. IsFiniteSet(DOMAIN viewers') /\ Cardinality(DOMAIN viewers') <= Cardinality(DOMAIN viewers)
  BY <1>1, <1>2, FS_Subset
<1>4. Cardinality(DOMAIN viewers') \in Nat
  BY <1>3, FS_CardinalityType
<1> QED
  BY <1>1, <1>2, <1>3, <1>4, MaxViewersIsNat DEF RoomOK, HasRoom

LEMMA OverIsTicked ==
  ASSUME ReplayServerTypeOK, TickOK, NEW peers, Over(peers), UNCHANGED tickVars
  PROVE  TickOK'
<1>1. watching' = watching /\ atEnd' = atEnd /\ ticking' = ticking
  BY DEF tickVars
<1>2. \A p \in Askers : IsOrWasClosed(p) => IsOrWasClosed(p)'
  BY DEF IsOrWasClosed, Over
<1>3. \A v \in watching : v[1] \in Askers
  BY DEF ReplayServerTypeOK, TickTypeOK
<1>4. atEnd \subseteq Askers
  BY DEF ReplayServerTypeOK, TickTypeOK
<1>5. \A p \in DOMAIN viewers' : p \in DOMAIN viewers /\ viewers'[p] = viewers[p]
  BY DEF Over
<1>6. \A v \in watching' :
        IsOrWasClosed(v[1])' /\ (v[1] \in DOMAIN viewers' => viewers'[v[1]] = v[2] /\ v[1] \notin atEnd')
  BY <1>1, <1>2, <1>3, <1>5 DEF TickOK
<1>7. \A p \in atEnd' : IsOrWasClosed(p)'
  BY <1>1, <1>2, <1>4 DEF TickOK
<1> QED
  BY <1>1, <1>6, <1>7 DEF TickOK

LEMMA OverIsHeard ==
  ASSUME ReplayServerTypeOK, HeardInv, NEW peers, Over(peers), UNCHANGED heard,
         \A p \in DOMAIN viewers' : p \in atEnd' <=> p \in atEnd
  PROVE  HeardInv'
<1> SUFFICES ASSUME NEW p \in Askers
             PROVE  /\ heard'[p] = <<"list">> \/ IsStory(heard'[p])
                    /\ connection'[p] # "closed" /\ p \notin DOMAIN viewers' => heard'[p] = <<>>
                    /\ p \in DOMAIN viewers' => IF p \in atEnd' THEN HeardWhole(p)' ELSE HeardSoFar(p)'
  BY DEF HeardInv
<1>1. heard'[p] = heard[p]
  OBVIOUS
<1>2. heard'[p] = <<"list">> \/ IsStory(heard'[p])
  BY <1>1 DEF HeardInv
<1>3. connection'[p] # "closed" => connection[p] # "closed" /\ p \notin peers
  BY DEF Over
<1>4. connection'[p] # "closed" /\ p \notin DOMAIN viewers' => heard'[p] = <<>>
  BY <1>1, <1>3 DEF HeardInv, Over
<1>5. ASSUME p \in DOMAIN viewers'
      PROVE  IF p \in atEnd' THEN HeardWhole(p)' ELSE HeardSoFar(p)'
  <2>1. p \in DOMAIN viewers /\ viewers'[p] = viewers[p]
    BY <1>5 DEF Over
  <2>2. (HeardWhole(p) => HeardWhole(p)') /\ (HeardSoFar(p) => HeardSoFar(p)')
    BY <2>1, <1>1 DEF HeardWhole, HeardSoFar
  <2>3. IF p \in atEnd THEN HeardWhole(p) ELSE HeardSoFar(p)
    BY <2>1 DEF HeardInv
  <2> QED BY <1>5, <2>2, <2>3
<1> QED BY <1>2, <1>4, <1>5

LEMMA CatalogKept ==
  ASSUME CatalogOK, UNCHANGED catalogVars
  PROVE  CatalogOK'
BY DEF CatalogOK, catalogVars

(***************************************************************************)
(* A message that was handled, its peer closed or not.                     *)
(***************************************************************************)
LEMMA HandledIsSilent ==
  ASSUME ReplayServerTypeOK, ClosedIsSilent, NEW p \in Askers, NEW peers \in SUBSET {p},
         Closed(peers), dismissed' = dismissed \cup peers, round.batch[p] # <<>>, Handled(p)
  PROVE  ClosedIsSilent'
<1> SUFFICES ASSUME NEW q \in Askers, connection'[q] = "closed"
             PROVE  q \notin DOMAIN viewers' /\ sending'[q] = <<>> /\ (round'.batch[q] = <<>> \/ q \in dismissed')
  BY DEF ClosedIsSilent
<1>1. CASE q \in peers
  BY <1>1 DEF Closed, Over
<1>2. CASE q \notin peers
  <2>1. connection[q] = "closed"
    BY <1>2 DEF Closed, Over
  <2>2. q \notin DOMAIN viewers /\ sending[q] = <<>> /\ (round.batch[q] = <<>> \/ q \in dismissed)
    BY <2>1 DEF ClosedIsSilent
  <2>3. q # p => round'.batch[q] = round.batch[q]
    BY DEF Handled
  <2>4. round'.batch[q] = <<>> \/ q \in dismissed'
    BY <2>2, <2>3
  <2> QED
    BY <1>2, <2>2, <2>4 DEF Closed, Over
<1> QED BY <1>1, <1>2

LEMMA HandledTypes ==
  ASSUME ReplayServerTypeOK, NEW p \in Askers, NEW peers \in SUBSET {p}, Closed(peers),
         dismissed' = dismissed \cup peers, Handled(p), UNCHANGED <<catalogVars, tickVars>>,
         heard' \in [Askers -> Hearings]
  PROVE  ReplayServerTypeOK'
<1>1. NetworkTypeOK'
  BY DEF NetworkTypeOK, Closed, Over
<1>2. CatalogTypeOK' /\ TickTypeOK'
  BY DEF ReplayServerTypeOK, CatalogTypeOK, TickTypeOK, catalogVars, tickVars
<1>3. ViewersTypeOK'
  BY DEF ReplayServerTypeOK, ViewersTypeOK, Closed, Over
<1>4. round' \in Rounds
  BY DEF Handled
<1> QED BY <1>1, <1>2, <1>3, <1>4 DEF ReplayServerTypeOK

LEMMA HandledKeepsRound ==
  ASSUME NEW p \in Askers, Handled(p)
  PROVE  RoundOK' /\ ListedOK'
<1>1. RoundOK'
  BY DEF RoundOK, Handled
<1>2. round'.listed = {}
  BY DEF Handled
<1>3. {} \in SUBSET Names
  OBVIOUS
<1> QED BY <1>1, <1>2, <1>3 DEF ListedOK

LEMMA HandledStep ==
  ASSUME ReplayServerIInv, NEW p \in Askers, NEW peers \in SUBSET {p}, Closed(peers),
         dismissed' = dismissed \cup peers, round.batch[p] # <<>>, Handled(p),
         UNCHANGED <<catalogVars, tickVars, heard>>
  PROVE  ReplayServerIInv'
<1> USE DEF ReplayServerIInv
<1>1. Over(peers) /\ round'.at # "built"
  BY DEF Closed, Handled
<1>2. atEnd' = atEnd
  BY DEF tickVars
<1>3. heard' \in [Askers -> Hearings]
  BY DEF ReplayServerTypeOK, NetworkTypeOK
<1>4. ReplayServerTypeOK'
  BY <1>3, HandledTypes
<1>5. ClosedIsSilent'
  BY HandledIsSilent
<1>6. RoundOK' /\ ListedOK'
  BY HandledKeepsRound
<1>7. HeardInv'
  BY <1>1, <1>2, OverIsHeard
<1>8. TickOK' /\ RoomOK'
  BY <1>1, OverIsTicked, OverLeavesRoom
<1>9. CatalogOK'
  BY CatalogKept
<1> QED BY <1>4, <1>5, <1>6, <1>7, <1>8, <1>9

LEMMA IgnoreExpelledStep ==
  ASSUME ReplayServerIInv, NEW p \in Askers, IgnoreExpelled(p)
  PROVE  ReplayServerIInv'
<1>1. Closed({}) /\ dismissed' = dismissed \cup {}
  BY Unchanging DEF ReplayServerIInv, IgnoreExpelled, networkVars, replaysVars
<1>2. round.batch[p] # <<>> /\ Handled(p)
  BY NextIsTaken DEF ReplayServerIInv, IgnoreExpelled
<1>3. UNCHANGED <<catalogVars, tickVars, heard>>
  BY DEF IgnoreExpelled
<1> QED BY <1>1, <1>2, <1>3, HandledStep

LEMMA JudgedStep ==
  ASSUME ReplayServerIInv, NEW p \in Askers, Judged(p), NextMessage(p), round.batch[p] # <<>>,
         UNCHANGED <<directory, writes, tickVars, read, heard>>
  PROVE  ReplayServerIInv'
<1>1. PICK peers \in SUBSET {p} : Closed(peers) /\ dismissed' = dismissed \cup peers
  BY JudgedOne DEF ReplayServerIInv
<1>2. Handled(p)
  BY NextIsTaken DEF ReplayServerIInv
<1>3. UNCHANGED <<catalogVars, tickVars, heard>>
  BY DEF catalogVars
<1> QED BY <1>1, <1>2, <1>3, HandledStep

LEMMA DropStep ==
  ASSUME ReplayServerIInv, NEW p \in Askers, Drop(p) \/ RefuseToPlay(p) \/ RefusesReplay(p)
  PROVE  ReplayServerIInv'
<1>1. /\ Judged(p) /\ NextMessage(p) /\ round.batch[p] # <<>>
      /\ UNCHANGED <<directory, writes, tickVars, read, heard>>
  BY DEF Drop, RefuseToPlay, RefusesReplay, RefuseReplay, Receiving
<1> QED BY <1>1, JudgedStep

-----------------------------------------------------------------------------
(***************************************************************************)
(* Messages handled with the lock let go.                                  *)
(***************************************************************************)

(* The round waits at a place, of p, with what it then listed.             *)
WaitsAt(p, place) ==
  /\ round'.at = place /\ round'.of = {p} /\ round'.batch = round.batch
  /\ round' \in Rounds

LEMMA WaitingKeepsTypes ==
  ASSUME ReplayServerTypeOK, round' \in Rounds, UNCHANGED <<networkVars, replaysVars, tickVars, heard>>,
         CatalogTypeOK'
  PROVE  ReplayServerTypeOK'
BY DEF ReplayServerTypeOK, NetworkTypeOK, ViewersTypeOK, TickTypeOK, networkVars, replaysVars, tickVars

LEMMA WaitingKeepsRest ==
  ASSUME HeardInv, TickOK, UNCHANGED <<networkVars, replaysVars, tickVars, heard>>
  PROVE  HeardInv' /\ TickOK'
<1>1. HeardInv'
  BY DEF HeardInv, HeardWhole, HeardSoFar, networkVars, replaysVars, tickVars
<1>2. TickOK'
  BY DEF TickOK, IsOrWasClosed, networkVars, replaysVars, tickVars
<1> QED BY <1>1, <1>2

LEMMA WaitingStep ==
  ASSUME ReplayServerIInv, NEW p \in Askers, p \notin DOMAIN viewers, NEW place, WaitsAt(p, place),
         place \notin {"idle", "messages"}, place = "built" => HasRoom,
         UNCHANGED <<networkVars, replaysVars, tickVars, heard>>, CatalogTypeOK', CatalogOK', ListedOK'
  PROVE  ReplayServerIInv'
<1> USE DEF ReplayServerIInv
<1>1. ReplayServerTypeOK'
  BY WaitingKeepsTypes DEF WaitsAt
<1>2. ClosedIsSilent'
  BY DEF ClosedIsSilent, WaitsAt, networkVars, replaysVars
<1>3. RoundOK'
  BY DEF RoundOK, WaitsAt, replaysVars
<1>4. HeardInv' /\ TickOK'
  BY WaitingKeepsRest
<1>5. RoomOK'
  BY DEF RoomOK, HasRoom, WaitsAt, replaysVars
<1> QED BY <1>1, <1>2, <1>3, <1>4, <1>5

LEMMA FindCaptureStep ==
  ASSUME ReplayServerIInv, NEW p \in Askers, FindCapture(p)
  PROVE  ReplayServerIInv'
<1>1. PICK name \in Names : round' = [round EXCEPT !.at = IF Found(name) THEN "found" ELSE "unknown", !.of = {p}]
  BY DEF FindCapture
<1>2. PICK place \in {"found", "unknown"} : round' = [round EXCEPT !.at = place, !.of = {p}]
  BY <1>1
<1>3. round \in Rounds
  BY DEF ReplayServerIInv, ReplayServerTypeOK
<1>4. WaitsAt(p, place) /\ round'.listed = round.listed
  BY <1>2, <1>3 DEF WaitsAt, Rounds, Places
<1>5. UNCHANGED <<networkVars, replaysVars, tickVars, heard, catalogVars>>
  BY DEF FindCapture, Receiving, catalogVars
<1>6. CatalogTypeOK' /\ CatalogOK'
  BY <1>5, CatalogKept DEF ReplayServerIInv, ReplayServerTypeOK, CatalogTypeOK, catalogVars
<1>7. ListedOK'
  BY <1>4 DEF ReplayServerIInv, ListedOK
<1>8. p \notin DOMAIN viewers /\ place \notin {"idle", "messages", "built"}
  BY DEF FindCapture
<1> QED BY <1>4, <1>5, <1>6, <1>7, <1>8, WaitingStep

LEMMA BuildWorldStep ==
  ASSUME ReplayServerIInv, NEW p \in Askers, BuildWorld(p)
  PROVE  ReplayServerIInv'
<1>1. round' = [round EXCEPT !.at = "built"] /\ HasRoom /\ round.at = "found" /\ round.of \subseteq {p}
  BY DEF BuildWorld, Receiving
<1>2. round \in Rounds
  BY DEF ReplayServerIInv, ReplayServerTypeOK
<1>3. round.of = {p} /\ p \notin DOMAIN viewers
  BY <1>1 DEF ReplayServerIInv, RoundOK
<1>4. WaitsAt(p, "built") /\ round'.listed = round.listed
  BY <1>1, <1>2, <1>3 DEF WaitsAt, Rounds, Places
<1>5. UNCHANGED <<networkVars, replaysVars, tickVars, heard, catalogVars>>
  BY DEF BuildWorld, Receiving, catalogVars
<1>6. CatalogTypeOK' /\ CatalogOK'
  BY <1>5, CatalogKept DEF ReplayServerIInv, ReplayServerTypeOK, CatalogTypeOK, catalogVars
<1>7. ListedOK'
  BY <1>4 DEF ReplayServerIInv, ListedOK
<1> QED BY <1>1, <1>3, <1>4, <1>5, <1>6, <1>7, WaitingStep

(* What the catalog has after a list is what is there.                     *)
LEMMA ListsWhatIsThere ==
  ASSUME CatalogTypeOK, CatalogOK
  PROVE  AfterList = directory
<1>1. directory = [name \in DOMAIN directory |-> directory[name]]
  BY DEF CatalogTypeOK
<1>2. \A name \in DOMAIN directory : StillKnown(name) => read[name] = directory[name]
  BY DEF StillKnown, CatalogOK
<1>3. AfterList = [name \in DOMAIN directory |-> directory[name]]
  BY <1>2 DEF AfterList
<1> QED BY <1>1, <1>3

LEMMA LookAtDirectoryStep ==
  ASSUME ReplayServerIInv, NEW p \in Askers, LookAtDirectory(p)
  PROVE  ReplayServerIInv'
<1> DEFINE there == {name \in DOMAIN directory : Found(name)}
<1>1. CatalogTypeOK /\ CatalogOK /\ round \in Rounds
  BY DEF ReplayServerIInv, ReplayServerTypeOK
<1>2. AfterList = directory
  BY <1>1, ListsWhatIsThere
<1>3. Listed = there
  BY <1>2 DEF Listed, Found
<1>4. there \in SUBSET Names
  BY <1>1 DEF CatalogTypeOK
<1>5. read' = directory
  BY <1>2 DEF LookAtDirectory
<1>6. round' = [round EXCEPT !.at = "listed", !.of = {p}, !.listed = {there}]
  BY <1>3 DEF LookAtDirectory
<1> HIDE DEF there
<1>7. {there} \in SUBSET SUBSET Names
  BY <1>4
<1>8. WaitsAt(p, "listed") /\ round'.listed = {there}
  BY <1>1, <1>6, <1>7 DEF WaitsAt, Rounds, Places
<1>9. UNCHANGED <<networkVars, replaysVars, tickVars, heard, directory, writes>>
  BY DEF LookAtDirectory, Receiving
<1>10. CatalogTypeOK'
  BY <1>1, <1>5, <1>9 DEF CatalogTypeOK
<1>11. CatalogOK'
  BY <1>1, <1>5, <1>9 DEF CatalogOK
<1>12. ListedOK'
  BY <1>4, <1>8 DEF ListedOK
<1>13. p \notin DOMAIN viewers
  BY DEF LookAtDirectory
<1> QED BY <1>8, <1>9, <1>10, <1>11, <1>12, <1>13, WaitingStep

(* A peer whose message is handled is connected.                           *)
LEMMA HandledIsConnected ==
  ASSUME ReplayServerIInv, NEW p \in Askers, round.batch[p] # <<>>, p \notin dismissed
  PROVE  connection[p] # "closed"
BY DEF ReplayServerIInv, ClosedIsSilent

LEMMA AnswerListStep ==
  ASSUME ReplayServerIInv, NEW p \in Askers, AnswerList(p)
  PROVE  ReplayServerIInv'
<1> USE DEF ReplayServerIInv
<1>1. /\ round.at = "listed" /\ round.of \subseteq {p} /\ round.batch[p] # <<>> /\ p \notin dismissed
      /\ UNCHANGED <<directory, writes, tickVars, read>>
  BY DEF AnswerList, Receiving
<1>2. Closed({p}) /\ dismissed' = dismissed \cup {p}
  BY ClosesAll DEF AnswerList, Dismiss
<1>3. Handled(p)
  BY <1>1, NextIsTaken DEF AnswerList
<1>4. connection[p] # "closed" /\ p \notin DOMAIN viewers
  BY <1>1, HandledIsConnected DEF RoundOK
<1>5. heard[p] = <<>>
  BY <1>4 DEF HeardInv
<1>6. heard' = [heard EXCEPT ![p] = <<"list">>]
  BY <1>4, <1>5 DEF AnswerList, Sent, ReplayServerTypeOK, NetworkTypeOK
<1>7. heard \in [Askers -> Hearings]
  BY DEF ReplayServerTypeOK, NetworkTypeOK
<1>8. <<"list">> \in Hearings
  BY DEF Hearings, Told
<1>9. heard' \in [Askers -> Hearings] /\ heard'[p] = <<"list">> /\ \A q \in Askers : q # p => heard'[q] = heard[q]
  BY <1>6, <1>7, <1>8
<1>10. UNCHANGED <<catalogVars, tickVars>> /\ atEnd' = atEnd
  BY <1>1 DEF catalogVars, tickVars
<1>11. Over({p}) /\ round'.at # "built"
  BY <1>2, <1>3 DEF Closed, Handled
<1>12. ReplayServerTypeOK'
  BY <1>2, <1>3, <1>9, <1>10, HandledTypes
<1>13. ClosedIsSilent'
  BY <1>1, <1>2, <1>3, HandledIsSilent
<1>14. RoundOK' /\ ListedOK'
  BY <1>3, HandledKeepsRound
<1>15. TickOK' /\ RoomOK' /\ CatalogOK'
  BY <1>10, <1>11, OverIsTicked, OverLeavesRoom, CatalogKept
<1>16. HeardInv'
  <2> SUFFICES ASSUME NEW q \in Askers
               PROVE  /\ heard'[q] = <<"list">> \/ IsStory(heard'[q])
                      /\ connection'[q] # "closed" /\ q \notin DOMAIN viewers' => heard'[q] = <<>>
                      /\ q \in DOMAIN viewers' => IF q \in atEnd' THEN HeardWhole(q)' ELSE HeardSoFar(q)'
    BY DEF HeardInv
  <2>1. CASE q = p
    BY <2>1, <1>4, <1>9, <1>11 DEF Over
  <2>2. CASE q # p
    <3>1. heard'[q] = heard[q] /\ connection'[q] = connection[q]
      BY <2>2, <1>9, <1>11 DEF Over
    <3>2. q \in DOMAIN viewers' <=> q \in DOMAIN viewers
      BY <2>2, <1>11 DEF Over
    <3>3. q \in DOMAIN viewers' => viewers'[q] = viewers[q]
      BY <1>11 DEF Over
    <3>4. q \in DOMAIN viewers' => IF q \in atEnd' THEN HeardWhole(q)' ELSE HeardSoFar(q)'
      BY <3>1, <3>2, <3>3, <1>10 DEF HeardInv, HeardWhole, HeardSoFar
    <3> QED BY <3>1, <3>2, <3>4 DEF HeardInv
  <2> QED BY <2>1, <2>2
<1> QED BY <1>12, <1>13, <1>14, <1>15, <1>16

(***************************************************************************)
(* A viewer is admitted: it hears of its Replay before any tick of it.     *)
(***************************************************************************)
LEMMA FirstTwoOfAStory ==
  ASSUME NEW told, told = <<"accepted", "start">>
  PROVE  told \in Hearings /\ Len(told) = 2 /\ IsStory(told)
<1>1. told \in Hearings
  BY DEF Hearings, Told
<1>2. Len(told) = 2 /\ DOMAIN told = 1..2 /\ told[1] = "accepted" /\ told[2] = "start"
  OBVIOUS
<1>3. \A i \in DOMAIN told : told[i] = Part(i)
  BY <1>2 DEF Part
<1> QED BY <1>1, <1>2, <1>3, MaxViewersIsNat DEF IsStory

LEMMA AdmitStep ==
  ASSUME ReplayServerIInv, NEW p \in Askers, Admit(p)
  PROVE  ReplayServerIInv'
<1> USE DEF ReplayServerIInv
<1>1. /\ round.at = "built" /\ round.of \subseteq {p} /\ round.batch[p] # <<>> /\ p \notin dismissed
      /\ UNCHANGED <<networkVars, dismissed, read, directory, writes, tickVars>>
  BY DEF Admit, Receiving
<1>2. connection[p] # "closed" /\ p \notin DOMAIN viewers
  BY <1>1, HandledIsConnected DEF RoundOK
<1>3. Handled(p)
  BY <1>1, NextIsTaken DEF Admit
<1>4. heard \in [Askers -> Hearings] /\ heard[p] = <<>>
  BY <1>2 DEF HeardInv, ReplayServerTypeOK, NetworkTypeOK
<1> DEFINE told == <<"accepted", "start">>
<1>5. heard' = [heard EXCEPT ![p] = told]
  <2>1. heard' = [heard EXCEPT ![p] = @ \o told]
    BY DEF Admit
  <2>2. <<>> \o told = told
    OBVIOUS
  <2> QED BY <1>4, <2>1, <2>2
<1>6. told \in Hearings /\ Len(told) = 2 /\ IsStory(told)
  BY FirstTwoOfAStory
<1> HIDE DEF told
<1>7. heard' \in [Askers -> Hearings] /\ heard'[p] = told /\ \A q \in Askers : q # p => heard'[q] = heard[q]
  BY <1>4, <1>5, <1>6
<1>8. viewers' = [q \in DOMAIN viewers \cup {p} |-> IF q = p THEN ReplayTicks ELSE viewers[q]]
  BY DEF Admit
<1>9. /\ DOMAIN viewers' = DOMAIN viewers \cup {p} /\ viewers'[p] = ReplayTicks
      /\ \A q \in DOMAIN viewers : viewers'[q] = viewers[q]
  BY <1>2, <1>8
<1>10. viewers' \in [DOMAIN viewers' -> Nat] /\ DOMAIN viewers' \subseteq Askers
  BY <1>8, MaxViewersIsNat DEF ReplayServerTypeOK, ViewersTypeOK
<1>11. ReplayServerTypeOK'
  <2>1. NetworkTypeOK'
    BY <1>1, <1>7 DEF ReplayServerTypeOK, NetworkTypeOK, networkVars
  <2>2. CatalogTypeOK' /\ TickTypeOK'
    BY <1>1 DEF ReplayServerTypeOK, CatalogTypeOK, TickTypeOK, tickVars
  <2>3. ViewersTypeOK'
    BY <1>1, <1>10 DEF ReplayServerTypeOK, ViewersTypeOK
  <2> QED BY <1>3, <2>1, <2>2, <2>3 DEF ReplayServerTypeOK, Handled
<1>12. ClosedIsSilent'
  <2> SUFFICES ASSUME NEW q \in Askers, connection'[q] = "closed"
               PROVE  q \notin DOMAIN viewers' /\ sending'[q] = <<>> /\ (round'.batch[q] = <<>> \/ q \in dismissed')
    BY DEF ClosedIsSilent
  <2>1. connection[q] = "closed" /\ q # p /\ sending'[q] = sending[q]
    BY <1>1, <1>2 DEF networkVars
  <2>2. round'.batch[q] = round.batch[q]
    BY <1>3, <2>1 DEF Handled
  <2> QED BY <1>1, <1>9, <2>1, <2>2 DEF ClosedIsSilent
<1>13. RoundOK' /\ ListedOK'
  BY <1>3, HandledKeepsRound
<1>14. CatalogOK'
  BY <1>1, CatalogKept DEF catalogVars
<1>15. RoomOK'
  <2>1. IsFiniteSet(DOMAIN viewers) /\ Cardinality(DOMAIN viewers) \in Nat
    BY ViewersAreFinite
  <2>2. Cardinality(DOMAIN viewers') = Cardinality(DOMAIN viewers) + 1
    BY <1>2, <1>9, <2>1, FS_AddElement
  <2>3. Cardinality(DOMAIN viewers) < MaxViewers
    BY <1>1 DEF RoomOK, HasRoom
  <2>4. gauge' = Cardinality(DOMAIN viewers') /\ round'.at # "built"
    BY <1>3 DEF Admit, Handled
  <2> QED BY <2>1, <2>2, <2>3, <2>4, MaxViewersIsNat DEF RoomOK
<1>16. UNCHANGED <<connection, watching, atEnd, ticking>>
  BY <1>1 DEF networkVars, tickVars
<1>17. p \notin atEnd /\ \A v \in watching : v[1] # p
  BY <1>2 DEF TickOK, IsOrWasClosed
<1>18. TickOK'
  <2>1. \A q : IsOrWasClosed(q) => IsOrWasClosed(q)'
    BY <1>9, <1>16 DEF IsOrWasClosed
  <2>2. \A v \in watching : v[1] \in DOMAIN viewers' => v[1] \in DOMAIN viewers /\ viewers'[v[1]] = viewers[v[1]]
    BY <1>9, <1>17
  <2>3. \A v \in watching :
          IsOrWasClosed(v[1])' /\ (v[1] \in DOMAIN viewers' => viewers'[v[1]] = v[2] /\ v[1] \notin atEnd)
    BY <2>1, <2>2 DEF TickOK
  <2>4. \A q \in atEnd : IsOrWasClosed(q)'
    BY <2>1 DEF TickOK
  <2> QED BY <1>16, <2>3, <2>4 DEF TickOK
<1>19. HeardInv'
  <2> SUFFICES ASSUME NEW q \in Askers
               PROVE  /\ heard'[q] = <<"list">> \/ IsStory(heard'[q])
                      /\ connection'[q] # "closed" /\ q \notin DOMAIN viewers' => heard'[q] = <<>>
                      /\ q \in DOMAIN viewers' => IF q \in atEnd' THEN HeardWhole(q)' ELSE HeardSoFar(q)'
    BY DEF HeardInv
  <2>1. CASE q = p
    <3>2. heard'[q] = told /\ viewers'[q] = ReplayTicks
      BY <2>1, <1>7, <1>9
    <3>3. Len(heard'[q]) = 2 /\ ReplayTicks \in 1..ReplayTicks /\ 2 + ReplayTicks = ReplayTicks + 2
      BY <3>2, <1>6, MaxViewersIsNat
    <3>1. HeardSoFar(q)'
      BY <3>2, <3>3 DEF HeardSoFar
    <3> QED BY <2>1, <3>1, <1>6, <1>7, <1>9, <1>16, <1>17
  <2>2. CASE q # p
    <3>1. heard'[q] = heard[q] /\ connection'[q] = connection[q]
      BY <2>2, <1>7, <1>16
    <3>2. q \in DOMAIN viewers' <=> q \in DOMAIN viewers
      BY <2>2, <1>9
    <3>3. q \in DOMAIN viewers' => viewers'[q] = viewers[q]
      BY <3>2, <1>9
    <3>4. q \in DOMAIN viewers' => IF q \in atEnd' THEN HeardWhole(q)' ELSE HeardSoFar(q)'
      BY <3>1, <3>2, <3>3, <1>16 DEF HeardInv, HeardWhole, HeardSoFar
    <3> QED BY <3>1, <3>2, <3>4 DEF HeardInv
  <2> QED BY <2>1, <2>2
<1> QED BY <1>11, <1>12, <1>13, <1>14, <1>15, <1>18, <1>19

-----------------------------------------------------------------------------
(***************************************************************************)
(* A round begins and ends, and what is outside goes on.                   *)
(***************************************************************************)
LEMMA PumpBeginsStep ==
  ASSUME ReplayServerIInv, PumpBegins
  PROVE  ReplayServerIInv'
<1> USE DEF ReplayServerIInv
<1> DEFINE lost == {p \in Askers : connection[p] = "lost"}
           batch == [p \in Askers |-> IF p \in lost THEN <<>> ELSE sending[p]]
<1>1. /\ round.at = "idle" /\ Forget(lost)
      /\ connection' = [p \in Askers |-> IF p \in lost THEN "closed" ELSE connection[p]]
      /\ round' = [round EXCEPT !.at = "messages", !.batch = batch]
      /\ sending' = [p \in Askers |-> <<>>]
      /\ UNCHANGED <<asks, catalogVars, dismissed, tickVars, heard>>
  BY DEF PumpBegins
<1>2. batch \in [Askers -> Mail] /\ \A p \in Askers : batch[p] = IF p \in lost THEN <<>> ELSE sending[p]
  BY EmptyMail DEF ReplayServerTypeOK, NetworkTypeOK
<1> HIDE DEF batch
<1>3. round \in Rounds
  BY DEF ReplayServerTypeOK
<1>4. /\ round' \in Rounds /\ round'.at = "messages" /\ round'.batch = batch
      /\ round'.of = round.of /\ round'.listed = round.listed
  BY <1>1, <1>2, <1>3 DEF Rounds, Places
<1>5. Over(lost)
  BY <1>1 DEF Over, Forget, ReplayServerTypeOK, NetworkTypeOK, ViewersTypeOK
<1>6. sending' \in [Askers -> Mail]
  BY <1>1, EmptyMail
<1>7. ReplayServerTypeOK'
  <2>1. NetworkTypeOK'
    BY <1>1, <1>5, <1>6 DEF ReplayServerTypeOK, NetworkTypeOK, Over
  <2>2. CatalogTypeOK' /\ TickTypeOK'
    BY <1>1 DEF ReplayServerTypeOK, CatalogTypeOK, TickTypeOK, catalogVars, tickVars
  <2>3. ViewersTypeOK'
    BY <1>1, <1>5 DEF ReplayServerTypeOK, ViewersTypeOK, Over
  <2> QED BY <1>4, <2>1, <2>2, <2>3 DEF ReplayServerTypeOK
<1>8. ClosedIsSilent'
  <2> SUFFICES ASSUME NEW q \in Askers, connection'[q] = "closed"
               PROVE  q \notin DOMAIN viewers' /\ sending'[q] = <<>> /\ (round'.batch[q] = <<>> \/ q \in dismissed')
    BY DEF ClosedIsSilent
  <2>1. sending'[q] = <<>> /\ (q \in lost \/ connection[q] = "closed")
    BY <1>1
  <2>2. connection[q] = "closed" => q \notin DOMAIN viewers /\ sending[q] = <<>>
    BY DEF ClosedIsSilent
  <2>3. DOMAIN viewers' = DOMAIN viewers \ lost
    BY <1>5 DEF Over
  <2> HIDE DEF lost
  <2> QED BY <1>2, <1>4, <2>1, <2>2, <2>3
<1>9. RoundOK'
  BY <1>4 DEF RoundOK
<1>10. HeardInv'
  <2>1. atEnd' = atEnd
    BY <1>1 DEF tickVars
  <2> HIDE DEF lost
  <2> QED BY <1>1, <1>5, <2>1, OverIsHeard
<1>11. TickOK' /\ RoomOK'
  <2> HIDE DEF lost
  <2> QED BY <1>1, <1>4, <1>5, OverIsTicked, OverLeavesRoom
<1>12. CatalogOK' /\ ListedOK'
  BY <1>1, <1>4, CatalogKept DEF ListedOK
<1> QED BY <1>7, <1>8, <1>9, <1>10, <1>11, <1>12

LEMMA PumpEndsStep ==
  ASSUME ReplayServerIInv, PumpEnds
  PROVE  ReplayServerIInv'
<1> USE DEF ReplayServerIInv
<1>1. PICK peers \in SUBSET {p \in Askers \ DOMAIN viewers : connection[p] = "open"} : CloseAll(peers)
  BY DEF PumpEnds
<1>2. Closed(peers) /\ Over(peers)
  BY <1>1, ClosesAll DEF Closed
<1>3. /\ \A p \in Askers : round.batch[p] = <<>>
      /\ dismissed' = {} /\ round' = [round EXCEPT !.at = "idle"]
      /\ UNCHANGED <<catalogVars, tickVars, heard>>
  BY DEF PumpEnds
<1>4. round \in Rounds
  BY DEF ReplayServerTypeOK
<1>5. /\ round' \in Rounds /\ round'.at = "idle" /\ round'.batch = round.batch
      /\ round'.listed = round.listed
  BY <1>3, <1>4 DEF Rounds, Places
<1>6. ReplayServerTypeOK'
  <2>1. NetworkTypeOK'
    BY <1>2, <1>3 DEF ReplayServerTypeOK, NetworkTypeOK, Closed, Over
  <2>2. CatalogTypeOK' /\ TickTypeOK'
    BY <1>3 DEF ReplayServerTypeOK, CatalogTypeOK, TickTypeOK, catalogVars, tickVars
  <2>3. ViewersTypeOK'
    BY <1>2, <1>3 DEF ReplayServerTypeOK, ViewersTypeOK, Over
  <2> QED BY <1>5, <2>1, <2>2, <2>3 DEF ReplayServerTypeOK
<1>7. ClosedIsSilent'
  <2> SUFFICES ASSUME NEW q \in Askers, connection'[q] = "closed"
               PROVE  q \notin DOMAIN viewers' /\ sending'[q] = <<>> /\ (round'.batch[q] = <<>> \/ q \in dismissed')
    BY DEF ClosedIsSilent
  <2>1. q \in peers \/ connection[q] = "closed"
    BY <1>2 DEF Over
  <2>2. connection[q] = "closed" => q \notin DOMAIN viewers /\ sending[q] = <<>>
    BY DEF ClosedIsSilent
  <2> QED BY <1>2, <1>3, <1>5, <2>1, <2>2 DEF Closed, Over
<1>8. RoundOK'
  BY <1>3, <1>5 DEF RoundOK
<1>9. HeardInv' /\ TickOK' /\ RoomOK'
  <2>1. atEnd' = atEnd /\ round'.at # "built"
    BY <1>3, <1>5 DEF tickVars
  <2> QED BY <1>2, <1>3, <2>1, OverIsHeard, OverIsTicked, OverLeavesRoom
<1>10. CatalogOK' /\ ListedOK'
  BY <1>3, <1>5, CatalogKept DEF ListedOK
<1> QED BY <1>6, <1>7, <1>8, <1>9, <1>10

LEMMA OutsideStepKeeps ==
  ASSUME ReplayServerIInv, OutsideStep
  PROVE  ReplayServerIInv'
<1> USE DEF ReplayServerIInv
<1>1. UNCHANGED <<read, round, replaysVars, tickVars, heard>>
  BY DEF OutsideStep
<1>2. UNCHANGED <<viewers, dismissed, gauge, watching, atEnd, ticking>>
  BY <1>1 DEF replaysVars, tickVars
<1>3. ASSUME NEW p \in Askers, LosesConnection(p), UNCHANGED <<directory, writes>>
      PROVE  ReplayServerIInv'
  <2>1. connection[p] = "open" /\ connection' = [connection EXCEPT ![p] = "lost"] /\ UNCHANGED sending
    BY <1>3 DEF LosesConnection
  <2>2. /\ connection' \in [Askers -> {"open", "lost", "closed"}]
        /\ \A q \in Askers : connection'[q] = "closed" <=> connection[q] = "closed"
    BY <2>1 DEF ReplayServerTypeOK, NetworkTypeOK
  <2>3. ReplayServerTypeOK'
    BY <1>1, <1>2, <1>3, <2>1, <2>2
    DEF ReplayServerTypeOK, NetworkTypeOK, CatalogTypeOK, ViewersTypeOK, TickTypeOK
  <2>4. ClosedIsSilent'
    BY <1>1, <1>2, <2>1, <2>2 DEF ClosedIsSilent
  <2>5. HeardInv'
    BY <1>1, <1>2, <2>2 DEF HeardInv, HeardWhole, HeardSoFar
  <2>6. \A q \in Askers : IsOrWasClosed(q) => IsOrWasClosed(q)'
    BY <1>2, <2>2 DEF IsOrWasClosed
  <2>7. TickOK'
    BY <1>2, <2>6 DEF TickOK, ReplayServerTypeOK, TickTypeOK
  <2>8. RoundOK' /\ RoomOK' /\ ListedOK' /\ CatalogOK'
    BY <1>1, <1>2, <1>3 DEF RoundOK, RoomOK, HasRoom, ListedOK, CatalogOK
  <2> QED BY <2>3, <2>4, <2>5, <2>7, <2>8
<1>4. ASSUME NEW p \in Askers, NEW what \in Asked, Asks(p, what), UNCHANGED <<directory, writes>>
      PROVE  ReplayServerIInv'
  <2>1. connection[p] = "open" /\ sending' = [sending EXCEPT ![p] = Append(@, what)] /\ UNCHANGED connection
    BY <1>4 DEF Asks
  <2>2. \A q \in Askers : sending[q] \in Mail
    BY DEF ReplayServerTypeOK, NetworkTypeOK
  <2>3. Append(sending[p], what) \in Mail
    BY <2>2 DEF Mail
  <2>4. sending' \in [Askers -> Mail] /\ \A q \in Askers : q # p => sending'[q] = sending[q]
    BY <2>1, <2>3 DEF ReplayServerTypeOK, NetworkTypeOK
  <2>5. ReplayServerTypeOK'
    BY <1>1, <1>2, <1>4, <2>1, <2>4
    DEF ReplayServerTypeOK, NetworkTypeOK, CatalogTypeOK, ViewersTypeOK, TickTypeOK
  <2>6. ClosedIsSilent'
    BY <1>1, <1>2, <2>1, <2>4 DEF ClosedIsSilent
  <2>7. HeardInv'
    BY <1>1, <1>2, <2>1 DEF HeardInv, HeardWhole, HeardSoFar
  <2>8. TickOK'
    BY <1>2, <2>1 DEF TickOK, IsOrWasClosed
  <2>9. RoundOK' /\ RoomOK' /\ ListedOK' /\ CatalogOK'
    BY <1>1, <1>2, <1>4 DEF RoundOK, RoomOK, HasRoom, ListedOK, CatalogOK
  <2> QED BY <2>5, <2>6, <2>7, <2>8, <2>9
<1>5. ASSUME writes' = writes + 1, UNCHANGED networkVars, CatalogTypeOK', CatalogOK'
      PROVE  ReplayServerIInv'
  <2>1. UNCHANGED <<connection, sending>>
    BY <1>5 DEF networkVars
  <2>2. ReplayServerTypeOK'
    BY <1>1, <1>2, <1>5, <2>1 DEF ReplayServerTypeOK, NetworkTypeOK, ViewersTypeOK, TickTypeOK
  <2>3. ClosedIsSilent' /\ HeardInv' /\ TickOK'
    BY <1>1, <1>2, <2>1 DEF ClosedIsSilent, HeardInv, HeardWhole, HeardSoFar, TickOK, IsOrWasClosed
  <2>4. RoundOK' /\ RoomOK' /\ ListedOK'
    BY <1>1, <1>2 DEF RoundOK, RoomOK, HasRoom, ListedOK
  <2> QED BY <1>5, <2>2, <2>3, <2>4
<1>6. ASSUME writes' = writes + 1, UNCHANGED <<read, networkVars>>, NEW name \in Names, NEW replayable \in Flags,
             directory' = [n \in DOMAIN directory \cup {name} |->
                            IF n = name THEN [replayable |-> replayable, written |-> writes'] ELSE directory[n]]
      PROVE  ReplayServerIInv'
  <2> DEFINE capture == [replayable |-> replayable, written |-> writes']
  <2>1. capture \in Captures /\ capture.written = writes'
    BY <1>6 DEF Captures, ReplayServerTypeOK, CatalogTypeOK
  <2>2. directory' = [n \in DOMAIN directory \cup {name} |-> IF n = name THEN capture ELSE directory[n]]
    BY <1>6
  <2> HIDE DEF capture
  <2>3. CatalogTypeOK
    BY DEF ReplayServerTypeOK
  <2>4. CatalogTypeOK'
    BY <1>6, <2>1, <2>2, <2>3 DEF CatalogTypeOK
  <2>5. /\ DOMAIN directory' = DOMAIN directory \cup {name} /\ directory'[name] = capture
        /\ \A n \in DOMAIN directory : n # name => directory'[n] = directory[n]
    BY <2>2
  <2>6. writes \in Nat /\ writes' \in Nat /\ writes < writes'
    BY <1>6, <2>3 DEF CatalogTypeOK
  <2>7. /\ \A n \in DOMAIN directory : directory[n].written \in Nat /\ directory[n].written <= writes
        /\ \A n \in DOMAIN read : read[n].written \in Nat /\ read[n].written <= writes
    BY <2>3 DEF CatalogTypeOK, CatalogOK, Captures
  <2>8. \A n \in DOMAIN directory' : directory'[n].written <= writes'
    BY <2>1, <2>5, <2>6, <2>7
  <2>9. \A n \in DOMAIN read : read[n].written < writes'
    BY <2>6, <2>7
  <2>10. \A n \in DOMAIN directory' \cap DOMAIN read :
           read[n].written = directory'[n].written => read[n] = directory'[n]
    <3> SUFFICES ASSUME NEW n \in DOMAIN directory' \cap DOMAIN read, read[n].written = directory'[n].written
                 PROVE  read[n] = directory'[n]
      OBVIOUS
    <3>1. n # name
      BY <2>1, <2>5, <2>6, <2>7, <2>9
    <3>2. n \in DOMAIN directory /\ directory'[n] = directory[n]
      BY <2>5, <3>1
    <3> QED BY <3>2 DEF CatalogOK
  <2>11. CatalogOK'
    BY <1>6, <2>6, <2>7, <2>8, <2>9, <2>10 DEF CatalogOK
  <2> QED BY <1>5, <1>6, <2>4, <2>11
<1>7. ASSUME writes' = writes + 1, UNCHANGED <<read, networkVars>>, NEW name \in Names,
             directory' = [n \in DOMAIN directory \ {name} |-> directory[n]]
      PROVE  ReplayServerIInv'
  <2>1. CatalogTypeOK
    BY DEF ReplayServerTypeOK
  <2>2. CatalogTypeOK'
    BY <1>7, <2>1 DEF CatalogTypeOK
  <2>3. /\ \A n \in DOMAIN directory : directory[n].written \in Nat
        /\ \A n \in DOMAIN read : read[n].written \in Nat
    BY <2>1 DEF CatalogTypeOK, Captures
  <2>4. CatalogOK'
    BY <1>7, <2>1, <2>3 DEF CatalogOK, CatalogTypeOK
  <2> QED BY <1>5, <1>7, <2>2, <2>4
<1> QED
  BY <1>1, <1>3, <1>4, <1>6, <1>7 DEF OutsideStep, Asked, Flags

-----------------------------------------------------------------------------
(***************************************************************************)
(* A tick.                                                                 *)
(***************************************************************************)
LEMMA TickBeginsStep ==
  ASSUME ReplayServerIInv, TickBegins
  PROVE  ReplayServerIInv'
<1> USE DEF ReplayServerIInv
<1>1. /\ ~ticking /\ ticking' = TRUE /\ watching' = {<<p, viewers[p]>> : p \in DOMAIN viewers}
      /\ UNCHANGED <<networkVars, catalogVars, round, replaysVars, atEnd, heard>>
  BY DEF TickBegins
<1>2. atEnd = {} /\ atEnd' = {}
  BY <1>1 DEF TickOK
<1>3. UNCHANGED <<connection, sending, viewers, dismissed, gauge, directory, writes, read, round, heard>>
  BY <1>1 DEF networkVars, replaysVars, catalogVars
<1>4. \A p \in DOMAIN viewers : viewers[p] \in Nat \ {0} /\ p \in Askers
  BY <1>2, MaxViewersIsNat DEF HeardInv, HeardSoFar, ReplayServerTypeOK, ViewersTypeOK
<1>5. \A v \in watching' : v \in Askers \X (Nat \ {0}) /\ v[1] \in DOMAIN viewers /\ viewers[v[1]] = v[2]
  BY <1>1, <1>4
<1>6. ReplayServerTypeOK'
  <2>1. TickTypeOK'
    BY <1>1, <1>2, <1>5 DEF TickTypeOK, Flags
  <2> QED
    BY <1>3, <2>1 DEF ReplayServerTypeOK, NetworkTypeOK, CatalogTypeOK, ViewersTypeOK
<1>7. TickOK'
  BY <1>1, <1>2, <1>3, <1>5 DEF TickOK, IsOrWasClosed
<1>8. ClosedIsSilent' /\ HeardInv'
  BY <1>1, <1>3 DEF ClosedIsSilent, HeardInv, HeardWhole, HeardSoFar
<1>9. RoundOK' /\ RoomOK' /\ ListedOK' /\ CatalogOK'
  BY <1>3 DEF RoundOK, RoomOK, HasRoom, ListedOK, CatalogOK
<1> QED BY <1>6, <1>7, <1>8, <1>9

LEMMA JoinedHearings ==
  ASSUME NEW a \in Hearings, NEW b \in Hearings
  PROVE  /\ a \o b \in Hearings /\ Len(a \o b) = Len(a) + Len(b)
         /\ \A i \in 1..Len(a) : (a \o b)[i] = a[i]
         /\ \A i \in 1..Len(b) : (a \o b)[Len(a) + i] = b[i]
BY DEF Hearings

LEMMA StoryGoesOn ==
  ASSUME NEW told \in Hearings, IsStory(told), Len(told) >= 2, Len(told) <= ReplayTicks + 1, NEW more \in Hearings,
         more = <<"tick">> \/ (more = <<"tick", "end">> /\ Len(told) = ReplayTicks + 1)
  PROVE  told \o more \in Hearings /\ Len(told \o more) = Len(told) + Len(more) /\ IsStory(told \o more)
<1> DEFINE whole == told \o more
<1>1. whole \in Hearings /\ Len(whole) = Len(told) + Len(more)
  BY JoinedHearings
<1>2. /\ \A i \in 1..Len(told) : whole[i] = told[i]
      /\ \A i \in 1..Len(more) : whole[Len(told) + i] = more[i]
  BY JoinedHearings
<1>3. DOMAIN whole = 1..Len(whole) /\ DOMAIN told = 1..Len(told) /\ Len(told) \in Nat
  BY <1>1 DEF Hearings
<1> DEFINE n == Len(told)
<1>6. n \in Nat /\ n >= 2 /\ n <= ReplayTicks + 1
  BY <1>3
<1> HIDE DEF whole, n
<1>7. Part(n + 1) = "tick" /\ (n = ReplayTicks + 1 => Part(n + 2) = "end")
  BY <1>6, MaxViewersIsNat DEF Part
<1>8. n + 1 <= ReplayTicks + 3 /\ (n = ReplayTicks + 1 => n + 2 <= ReplayTicks + 3)
  BY <1>6, MaxViewersIsNat
<1>4. CASE more = <<"tick">>
  <2>1. Len(more) = 1 /\ more[1] = "tick"
    BY <1>4
  <2>2. Len(whole) = Len(told) + 1 /\ whole[Len(told) + 1] = "tick"
    BY <1>1, <1>2, <2>1
  <2>3. Part(Len(told) + 1) = "tick"
    BY <1>7 DEF n
  <2>4. \A i \in DOMAIN whole : i \in 1..Len(told) \/ i = Len(told) + 1
    BY <1>3, <2>2
  <2>5. \A i \in DOMAIN whole : whole[i] = Part(i)
    BY <1>2, <1>3, <2>2, <2>3, <2>4 DEF IsStory
  <2>6. Len(whole) <= ReplayTicks + 3
    BY <1>8, <2>2 DEF n
  <2> QED BY <1>1, <2>5, <2>6 DEF IsStory, whole
<1>5. CASE more = <<"tick", "end">> /\ Len(told) = ReplayTicks + 1
  <2>1. Len(more) = 2 /\ more[1] = "tick" /\ more[2] = "end"
    BY <1>5
  <2>2. Len(whole) = Len(told) + 2 /\ whole[Len(told) + 1] = "tick" /\ whole[Len(told) + 2] = "end"
    BY <1>1, <1>2, <2>1
  <2>3. Part(Len(told) + 1) = "tick" /\ Part(Len(told) + 2) = "end"
    BY <1>5, <1>7 DEF n
  <2>4. \A i \in DOMAIN whole : i \in 1..Len(told) \/ i = Len(told) + 1 \/ i = Len(told) + 2
    BY <1>3, <2>2
  <2>5. \A i \in DOMAIN whole : whole[i] = Part(i)
    BY <1>2, <1>3, <2>2, <2>3, <2>4 DEF IsStory
  <2>6. Len(whole) <= ReplayTicks + 3
    BY <1>5, <1>8, <2>2 DEF n
  <2> QED BY <1>1, <2>5, <2>6 DEF IsStory, whole
<1> QED BY <1>4, <1>5

(* A tick of a viewer gone in the meantime changes nothing of a peer.      *)
LEMMA TickOfTheGone ==
  ASSUME ReplayServerIInv, NEW v \in watching, TickViewer(v), connection[v[1]] = "closed"
  PROVE  ReplayServerIInv'
<1> USE DEF ReplayServerIInv
<1> DEFINE p == v[1]
<1>1. p \in Askers /\ p \notin DOMAIN viewers
  BY DEF ClosedIsSilent, ReplayServerTypeOK, TickTypeOK
<1>2. /\ watching' = watching \ {v} /\ viewers' = viewers /\ heard' = heard
      /\ atEnd' = atEnd \/ atEnd' = atEnd \cup {p}
      /\ UNCHANGED <<networkVars, catalogVars, round, dismissed, gauge, ticking>>
  BY <1>1 DEF TickViewer
<1> HIDE DEF p
<1>3. UNCHANGED <<connection, sending, directory, writes, read>>
  BY <1>2 DEF networkVars, catalogVars
<1>4. ReplayServerTypeOK'
  BY <1>1, <1>2, <1>3 DEF ReplayServerTypeOK, NetworkTypeOK, CatalogTypeOK, ViewersTypeOK, TickTypeOK
<1>5. ClosedIsSilent' /\ RoundOK' /\ RoomOK' /\ ListedOK' /\ CatalogOK'
  BY <1>2, <1>3 DEF ClosedIsSilent, RoundOK, RoomOK, HasRoom, ListedOK, CatalogOK
<1>6. HeardInv'
  BY <1>1, <1>2, <1>3 DEF HeardInv, HeardWhole, HeardSoFar
<1>7. TickOK'
  <2>1. IsOrWasClosed(p) /\ ticking' /\ ticking
    BY <1>2 DEF IsOrWasClosed, p, TickOK, ReplayServerTypeOK, TickTypeOK, Flags
  <2> QED BY <1>1, <1>2, <1>3, <2>1 DEF TickOK, IsOrWasClosed
<1> QED BY <1>4, <1>5, <1>6, <1>7

LEMMA TickOfAViewer ==
  ASSUME ReplayServerIInv, NEW v \in watching, TickViewer(v), connection[v[1]] # "closed"
  PROVE  ReplayServerIInv'
<1> USE DEF ReplayServerIInv
<1> DEFINE p == v[1]
           left == v[2] - 1
           more == IF EndsWith(left) THEN <<"tick", "end">> ELSE <<"tick">>
<1>1. p \in Askers /\ v = <<p, v[2]>> /\ v[2] \in Nat \ {0}
  BY DEF ReplayServerTypeOK, TickTypeOK
<1>2. p \in DOMAIN viewers /\ viewers[p] = v[2] /\ p \notin atEnd
  BY DEF TickOK, IsOrWasClosed
<1>3. HeardSoFar(p)
  BY <1>1, <1>2 DEF HeardInv
<1>4. heard \in [Askers -> Hearings] /\ heard[p] \in Hearings /\ Len(heard[p]) \in Nat
  BY <1>1 DEF ReplayServerTypeOK, NetworkTypeOK, Hearings
<1>5. left \in Nat /\ left < ReplayTicks /\ Len(heard[p]) = ReplayTicks + 1 - left
  BY <1>1, <1>2, <1>3, <1>4, MaxViewersIsNat DEF HeardSoFar
<1>6. /\ watching' = watching \ {v} /\ viewers' = [viewers EXCEPT ![p] = left]
      /\ heard' = [heard EXCEPT ![p] = @ \o more]
      /\ atEnd' = IF EndsWith(left) THEN atEnd \cup {p} ELSE atEnd
      /\ UNCHANGED <<networkVars, catalogVars, round, dismissed, gauge, ticking>>
  BY <1>2 DEF TickViewer
<1>7. more \in Hearings
  <2>1. <<"tick", "end">> \in Hearings /\ <<"tick">> \in Hearings
    BY DEF Hearings, Told
  <2> QED BY <2>1
<1>8. EndsWith(left) <=> left = 0
  BY DEF EndsWith
<1>9. more = <<"tick">> \/ (more = <<"tick", "end">> /\ Len(heard[p]) = ReplayTicks + 1)
  BY <1>5, <1>8, MaxViewersIsNat
<1>10. Len(more) = IF left = 0 THEN 2 ELSE 1
  BY <1>8
<1>11. IsStory(heard[p])
  <2>1. Len(<<"list">>) = 1 /\ Len(heard[p]) >= 2
    BY <1>5, MaxViewersIsNat
  <2> QED BY SMTT(30), <1>1, <2>1 DEF HeardInv
<1> HIDE DEF more
<1>12. Len(heard[p]) >= 2 /\ Len(heard[p]) <= ReplayTicks + 1
  BY <1>5, MaxViewersIsNat
<1>13. heard[p] \o more \in Hearings /\ IsStory(heard[p] \o more)
       /\ Len(heard[p] \o more) = Len(heard[p]) + Len(more)
  BY <1>4, <1>7, <1>9, <1>11, <1>12, StoryGoesOn
<1>14. /\ heard' \in [Askers -> Hearings] /\ heard'[p] = heard[p] \o more
       /\ \A q \in Askers : q # p => heard'[q] = heard[q]
  BY <1>1, <1>4, <1>6, <1>13
<1> HIDE DEF p, left
<1>15. /\ DOMAIN viewers' = DOMAIN viewers /\ viewers'[p] = left
       /\ \A q \in DOMAIN viewers : q # p => viewers'[q] = viewers[q]
       /\ viewers' \in [DOMAIN viewers' -> Nat]
  BY <1>2, <1>5, <1>6 DEF ReplayServerTypeOK, ViewersTypeOK
<1>16. UNCHANGED <<connection, sending, directory, writes, read>>
  BY <1>6 DEF networkVars, catalogVars
<1>17. ReplayServerTypeOK'
  <2>1. NetworkTypeOK' /\ CatalogTypeOK'
    BY <1>14, <1>16 DEF ReplayServerTypeOK, NetworkTypeOK, CatalogTypeOK
  <2>2. ViewersTypeOK'
    BY <1>6, <1>15 DEF ReplayServerTypeOK, ViewersTypeOK
  <2>3. TickTypeOK'
    BY <1>1, <1>6 DEF ReplayServerTypeOK, TickTypeOK
  <2> QED BY <1>6, <2>1, <2>2, <2>3 DEF ReplayServerTypeOK
<1>18. ClosedIsSilent' /\ RoundOK' /\ RoomOK' /\ ListedOK' /\ CatalogOK'
  BY <1>6, <1>15, <1>16 DEF ClosedIsSilent, RoundOK, RoomOK, HasRoom, ListedOK, CatalogOK
<1>19. HeardInv'
  <2> SUFFICES ASSUME NEW q \in Askers
               PROVE  /\ heard'[q] = <<"list">> \/ IsStory(heard'[q])
                      /\ connection'[q] # "closed" /\ q \notin DOMAIN viewers' => heard'[q] = <<>>
                      /\ q \in DOMAIN viewers' => IF q \in atEnd' THEN HeardWhole(q)' ELSE HeardSoFar(q)'
    BY DEF HeardInv
  <2>1. CASE q = p /\ left = 0
    <3>1. Len(heard'[q]) = ReplayTicks + 3 /\ viewers'[q] = 0
      BY <2>1, <1>5, <1>10, <1>13, <1>14, <1>15, MaxViewersIsNat
    <3>2. HeardWhole(q)' /\ q \in atEnd'
      BY <2>1, <3>1, <1>6, <1>8 DEF HeardWhole
    <3> QED BY <2>1, <3>2, <1>2, <1>13, <1>14, <1>15
  <2>2. CASE q = p /\ left # 0
    <3>3. Len(heard'[q]) = Len(heard[p]) + 1 /\ viewers'[q] = left
      BY <2>2, <1>10, <1>13, <1>14, <1>15
    <3>1. Len(heard'[q]) + left = ReplayTicks + 2 /\ left \in 1..ReplayTicks /\ viewers'[q] = left
      BY <2>2, <3>3, <1>5, MaxViewersIsNat
    <3>2. HeardSoFar(q)' /\ q \notin atEnd'
      BY <2>2, <3>1, <1>2, <1>6, <1>8 DEF HeardSoFar
    <3> QED BY <2>2, <3>2, <1>2, <1>13, <1>14, <1>15
  <2>3. CASE q # p
    <3>1. heard'[q] = heard[q] /\ connection'[q] = connection[q] /\ (q \in atEnd' <=> q \in atEnd)
      BY <2>3, <1>6, <1>14, <1>16
    <3>2. q \in DOMAIN viewers' => q \in DOMAIN viewers /\ viewers'[q] = viewers[q]
      BY <2>3, <1>15
    <3>3. q \in DOMAIN viewers' => IF q \in atEnd' THEN HeardWhole(q)' ELSE HeardSoFar(q)'
      BY <3>1, <3>2 DEF HeardInv, HeardWhole, HeardSoFar
    <3> QED BY <3>1, <3>3, <1>15 DEF HeardInv
  <2> QED BY <2>1, <2>2, <2>3
<1>20. TickOK'
  <2>1. \A q : IsOrWasClosed(q)' <=> IsOrWasClosed(q)
    BY <1>15, <1>16 DEF IsOrWasClosed
  <2>2. ticking /\ ticking'
    BY <1>6 DEF TickOK, ReplayServerTypeOK, TickTypeOK, Flags
  <2>3. \A q \in atEnd' : IsOrWasClosed(q)'
    BY <2>1, <1>2, <1>6 DEF TickOK, IsOrWasClosed
  <2>4. ASSUME NEW w \in watching'
        PROVE  IsOrWasClosed(w[1])' /\ (w[1] \in DOMAIN viewers' => viewers'[w[1]] = w[2] /\ w[1] \notin atEnd')
    <3>1. w \in watching /\ w # v /\ w = <<w[1], w[2]>>
      BY <1>6 DEF ReplayServerTypeOK, TickTypeOK
    <3>2. IsOrWasClosed(w[1]) /\ (w[1] \in DOMAIN viewers => viewers[w[1]] = w[2] /\ w[1] \notin atEnd)
      BY <3>1 DEF TickOK
    <3>3. w[1] # p
      BY <1>1, <1>2, <3>1, <3>2
    <3> QED BY <2>1, <3>2, <3>3, <1>6, <1>15
  <2> QED BY <2>2, <2>3, <2>4 DEF TickOK
<1> QED BY <1>17, <1>18, <1>19, <1>20

LEMMA TickEndsStep ==
  ASSUME ReplayServerIInv, TickEnds
  PROVE  ReplayServerIInv'
<1> USE DEF ReplayServerIInv
<1> DEFINE peers == atEnd \cap DOMAIN viewers
<1>1. /\ watching = {} /\ ticking' = FALSE /\ CloseAll(peers) /\ dismissed' = dismissed \cup peers /\ atEnd' = {}
      /\ UNCHANGED <<catalogVars, round, watching, heard>>
  BY DEF TickEnds, Dismiss
<1>2. peers \in SUBSET Askers
  BY DEF ReplayServerTypeOK, TickTypeOK
<1>3. \A q \in DOMAIN viewers \ peers : q \notin atEnd
  OBVIOUS
<1> HIDE DEF peers
<1>4. Closed(peers) /\ Over(peers)
  BY <1>1, <1>2, ClosesAll DEF Closed
<1>5. ReplayServerTypeOK'
  <2>1. NetworkTypeOK'
    BY <1>1, <1>4 DEF ReplayServerTypeOK, NetworkTypeOK, Closed, Over
  <2>2. CatalogTypeOK' /\ TickTypeOK'
    BY <1>1 DEF ReplayServerTypeOK, CatalogTypeOK, TickTypeOK, catalogVars, Flags
  <2>3. ViewersTypeOK'
    BY <1>1, <1>2, <1>4 DEF ReplayServerTypeOK, ViewersTypeOK, Over
  <2> QED BY <1>1, <2>1, <2>2, <2>3 DEF ReplayServerTypeOK
<1>6. ClosedIsSilent'
  <2> SUFFICES ASSUME NEW q \in Askers, connection'[q] = "closed"
               PROVE  q \notin DOMAIN viewers' /\ sending'[q] = <<>> /\ (round'.batch[q] = <<>> \/ q \in dismissed')
    BY DEF ClosedIsSilent
  <2>1. q \in peers \/ connection[q] = "closed"
    BY <1>4 DEF Over
  <2>2. connection[q] = "closed" =>
          q \notin DOMAIN viewers /\ sending[q] = <<>> /\ (round.batch[q] = <<>> \/ q \in dismissed)
    BY DEF ClosedIsSilent
  <2> QED BY <1>1, <1>4, <2>1, <2>2 DEF Closed, Over
<1>7. RoundOK'
  BY <1>1, <1>4 DEF RoundOK, Over
<1>8. HeardInv'
  <2>1. \A q \in DOMAIN viewers' : q \in atEnd' <=> q \in atEnd
    BY <1>1, <1>3, <1>4 DEF Over
  <2> QED BY <1>1, <1>4, <2>1, OverIsHeard
<1>9. RoomOK' /\ CatalogOK' /\ ListedOK' /\ TickOK'
  BY <1>1, <1>4, OverLeavesRoom, CatalogKept DEF ListedOK, TickOK
<1> QED BY <1>5, <1>6, <1>7, <1>8, <1>9

-----------------------------------------------------------------------------
(***************************************************************************)
(* The invariant.                                                          *)
(***************************************************************************)
LEMMA ReplayServerStarts == ReplayServerInit => ReplayServerIInv
<1> SUFFICES ASSUME ReplayServerInit PROVE ReplayServerIInv
  OBVIOUS
<1> USE DEF ReplayServerInit
<1>1. NetworkTypeOK
  BY EmptyMail DEF NetworkTypeOK, Hearings
<1>2. CatalogTypeOK
  BY DEF CatalogTypeOK, Captures, Flags
<1>3. round \in Rounds
  BY EmptyMail DEF Rounds, Places
<1>4. ViewersTypeOK /\ TickTypeOK
  BY DEF ViewersTypeOK, TickTypeOK, Flags
<1>5. ClosedIsSilent /\ RoundOK /\ TickOK /\ CatalogOK
  BY DEF ClosedIsSilent, RoundOK, TickOK, CatalogOK
<1>6. HeardInv
  <2>1. IsStory(<<>>)
    BY MaxViewersIsNat DEF IsStory
  <2> QED BY <2>1 DEF HeardInv
<1>7. RoomOK
  <2>1. DOMAIN viewers = {} /\ Cardinality({}) = 0
    BY FS_EmptySet
  <2> QED BY <2>1, MaxViewersIsNat DEF RoomOK
<1>8. ListedOK
  BY DEF ListedOK
<1> QED BY <1>1, <1>2, <1>3, <1>4, <1>5, <1>6, <1>7, <1>8 DEF ReplayServerIInv, ReplayServerTypeOK

LEMMA ReplayServerSteps == ReplayServerIInv /\ [ReplayServerNext]_replayServerVars => ReplayServerIInv'
<1> SUFFICES ASSUME ReplayServerIInv, [ReplayServerNext]_replayServerVars PROVE ReplayServerIInv'
  OBVIOUS
<1>1. CASE OutsideStep
  BY <1>1, OutsideStepKeeps
<1>2. CASE PumpStep
  <2>1. CASE PumpBegins \/ PumpEnds
    BY <2>1, PumpBeginsStep, PumpEndsStep
  <2>2. ASSUME NEW p \in Askers, IgnoreExpelled(p) \/ Drop(p) \/ RefuseToPlay(p) \/ RefusesReplay(p)
        PROVE  ReplayServerIInv'
    BY <2>2, IgnoreExpelledStep, DropStep
  <2>3. ASSUME NEW p \in Askers, LookAtDirectory(p) \/ AnswerList(p) \/ FindCapture(p) \/ BuildWorld(p) \/ Admit(p)
        PROVE  ReplayServerIInv'
    BY <2>3, LookAtDirectoryStep, AnswerListStep, FindCaptureStep, BuildWorldStep, AdmitStep
  <2> QED BY <1>2, <2>1, <2>2, <2>3 DEF PumpStep
<1>3. CASE TickStep
  <2>1. ASSUME NEW v \in watching, TickViewer(v)
        PROVE  ReplayServerIInv'
    BY <2>1, TickOfTheGone, TickOfAViewer
  <2> QED BY <1>3, <2>1, TickBeginsStep, TickEndsStep DEF TickStep
<1>4. CASE UNCHANGED replayServerVars
  <2>1. UNCHANGED <<connection, sending, directory, writes, read, round, viewers, dismissed, gauge,
                    watching, atEnd, ticking, heard>>
    BY <1>4 DEF replayServerVars, networkVars, catalogVars, replaysVars, tickVars
  <2>2. ReplayServerTypeOK'
    BY <2>1 DEF ReplayServerIInv, ReplayServerTypeOK, NetworkTypeOK, CatalogTypeOK, ViewersTypeOK, TickTypeOK
  <2>3. ClosedIsSilent' /\ RoundOK' /\ HeardInv' /\ TickOK'
    BY <2>1 DEF ReplayServerIInv, ClosedIsSilent, RoundOK, HeardInv, HeardWhole, HeardSoFar, TickOK, IsOrWasClosed
  <2>4. CatalogOK' /\ RoomOK' /\ ListedOK'
    BY <2>1 DEF ReplayServerIInv, CatalogOK, RoomOK, HasRoom, ListedOK
  <2> QED BY <2>2, <2>3, <2>4 DEF ReplayServerIInv
<1> QED BY <1>1, <1>2, <1>3, <1>4 DEF ReplayServerNext

(* A story up to somewhere is a prefix of the whole one.                   *)
LEMMA StoryIsPrefix ==
  ASSUME NEW told \in Hearings, IsStory(told)
  PROVE  IsPrefix(told, <<"accepted", "start">> \o Ticks \o <<"end">>)
<1> DEFINE first == <<"accepted", "start">>
           whole == (first \o Ticks) \o <<"end">>
<1>1. Ticks \in Hearings /\ Len(Ticks) = ReplayTicks /\ \A i \in 1..ReplayTicks : Ticks[i] = "tick"
  BY MaxViewersIsNat DEF Ticks, Hearings, Told
<1>2. first \in Hearings /\ Len(first) = 2 /\ first[1] = "accepted" /\ first[2] = "start"
  BY DEF Hearings, Told
<1>3. <<"end">> \in Hearings /\ Len(<<"end">>) = 1 /\ <<"end">>[1] = "end"
  BY DEF Hearings, Told
<1> DEFINE begun == first \o Ticks
<1> HIDE DEF first
<1>4. /\ begun \in Hearings /\ Len(begun) = ReplayTicks + 2
      /\ \A i \in 1..2 : begun[i] = first[i]
      /\ \A i \in 1..ReplayTicks : begun[2 + i] = Ticks[i]
  <2>1. /\ begun \in Hearings /\ Len(begun) = Len(first) + Len(Ticks)
        /\ \A i \in 1..Len(first) : begun[i] = first[i]
        /\ \A i \in 1..Len(Ticks) : begun[Len(first) + i] = Ticks[i]
    BY <1>1, <1>2, JoinedHearings
  <2> HIDE DEF begun
  <2> QED BY <2>1, <1>1, <1>2, MaxViewersIsNat
<1> HIDE DEF begun
<1>5. /\ whole \in Hearings /\ Len(whole) = ReplayTicks + 3
      /\ \A i \in 1..(ReplayTicks + 2) : whole[i] = begun[i]
      /\ whole[ReplayTicks + 3] = "end"
  <2> DEFINE last == <<"end">>
  <2>1. whole = begun \o last
    BY DEF begun
  <2>2. last \in Hearings /\ Len(last) = 1 /\ last[1] = "end"
    BY <1>3
  <2> HIDE DEF whole, last
  <2>3. /\ whole \in Hearings /\ Len(whole) = Len(begun) + Len(last)
        /\ \A i \in 1..Len(begun) : whole[i] = begun[i]
        /\ \A i \in 1..Len(last) : whole[Len(begun) + i] = last[i]
    BY ZenonT(60), <1>4, <2>1, <2>2, JoinedHearings
  <2>4. whole[Len(begun) + 1] = "end"
    BY <2>2, <2>3
  <2> QED BY <1>4, <2>2, <2>3, <2>4, MaxViewersIsNat
<1> HIDE DEF whole
<1>6. \A i \in 1..(ReplayTicks + 3) : whole[i] = Part(i)
  <2> SUFFICES ASSUME NEW i \in 1..(ReplayTicks + 3) PROVE whole[i] = Part(i)
    OBVIOUS
  <2>1. CASE i \in 1..2
    BY <2>1, <1>2, <1>4, <1>5, MaxViewersIsNat DEF Part
  <2>2. CASE i \in 3..(ReplayTicks + 2)
    <3>2. i - 2 \in 1..ReplayTicks /\ 2 + (i - 2) = i /\ i \in 1..(ReplayTicks + 2)
      BY <2>2, MaxViewersIsNat
    <3>1. whole[i] = Ticks[i - 2] /\ i - 2 \in 1..ReplayTicks
      BY <3>2, <1>4, <1>5
    <3> QED BY <2>2, <3>1, <1>1, MaxViewersIsNat DEF Part
  <2>3. CASE i = ReplayTicks + 3
    BY <2>3, <1>5, MaxViewersIsNat DEF Part
  <2> QED BY <2>1, <2>2, <2>3, MaxViewersIsNat
<1>7. Len(told) \in Nat /\ DOMAIN told = 1..Len(told) /\ Len(told) <= Len(whole)
  BY <1>5 DEF IsStory, Hearings
<1>8. \A i \in 1..Len(told) : told[i] = whole[i]
  BY <1>5, <1>6, <1>7, MaxViewersIsNat DEF IsStory
<1>9. SubSeq(told, 1, Len(told)) = SubSeq(whole, 1, Len(told))
  BY <1>5, <1>7, <1>8 DEF Hearings
<1> QED BY <1>7, <1>9 DEF IsPrefix, whole, first

LEMMA ReplayServerIInvImplies == ReplayServerIInv => ReplayServerInv
<1> SUFFICES ASSUME ReplayServerIInv PROVE ReplayServerInv
  OBVIOUS
<1> USE DEF ReplayServerIInv
<1>1. Cardinality(DOMAIN viewers) <= MaxViewers /\ gauge = Cardinality(DOMAIN viewers)
  BY DEF RoomOK
<1>2. \A p \in Askers :
        /\ \/ heard[p] = <<"list">>
           \/ IsPrefix(heard[p], <<"accepted", "start">> \o Ticks \o <<"end">>)
        /\ p \in DOMAIN viewers => connection[p] # "closed"
  <2> SUFFICES ASSUME NEW p \in Askers
               PROVE  /\ \/ heard[p] = <<"list">>
                         \/ IsPrefix(heard[p], <<"accepted", "start">> \o Ticks \o <<"end">>)
                      /\ p \in DOMAIN viewers => connection[p] # "closed"
    OBVIOUS
  <2>1. heard[p] \in Hearings
    BY DEF ReplayServerTypeOK, NetworkTypeOK
  <2>2. heard[p] = <<"list">> \/ IsPrefix(heard[p], <<"accepted", "start">> \o Ticks \o <<"end">>)
    BY <2>1, StoryIsPrefix DEF HeardInv
  <2> QED BY <2>2 DEF ClosedIsSilent
<1>3. Cardinality(round.listed) <= 1
  <2>1. PICK names : round.listed \subseteq {names}
    BY DEF ListedOK
  <2>2. round.listed = {} \/ round.listed = {names}
    BY <2>1
  <2>3. Cardinality({}) = 0 /\ Cardinality({names}) = 1
    BY FS_EmptySet, FS_Singleton
  <2> QED BY <2>2, <2>3
<1> QED BY <1>1, <1>2, <1>3 DEF ReplayServerInv

(***************************************************************************)
(* There are never more viewers than the most, each hears of its Replay in *)
(* order and in whole, and nothing after it, whatever the two threads do   *)
(* between them (replay_server.cpp).                                       *)
(***************************************************************************)
THEOREM ReplayServerInvariant == ReplayServerSpec => []ReplayServerInv
BY ReplayServerStarts, ReplayServerSteps, ReplayServerIInvImplies, PTL DEF ReplayServerSpec

-----------------------------------------------------------------------------
(***************************************************************************)
(* The sum of a function with a finite domain, which Functions' SumFunction *)
(* takes element by element in an order of its own.                        *)
(***************************************************************************)
OneOf(S) == CHOOSE x \in S : TRUE

SumsUp(sum, f, S) ==
  sum = [T \in SUBSET S |-> IF T = {} THEN 0 ELSE f[OneOf(T)] + sum[T \ {OneOf(T)}]]

LEMMA SumIs ==
  ASSUME NEW f
  PROVE  SumFunction(f) = (CHOOSE sum : SumsUp(sum, f, DOMAIN f))[DOMAIN f]
BY DEF SumFunction, SumFunctionOnSet, FoldFunctionOnSet, MapThenFoldSet, SumsUp, OneOf

LEMMA SmallestSubset ==
  ASSUME NEW S, IsFiniteSet(S), NEW B \in SUBSET SUBSET S, B # {}
  PROVE  \E T \in B : /\ IsFiniteSet(T)
                      /\ \A x \in T : T \ {x} \notin B
<1>. DEFINE sizes == {Cardinality(T) : T \in B}
<1>1. \A T \in B : IsFiniteSet(T) /\ Cardinality(T) \in Nat
  BY FS_Subset, FS_CardinalityType
<1>2. sizes \in SUBSET Nat /\ sizes # {}
  BY <1>1
<1>3. PICK n \in sizes : \A k \in sizes : n <= k
  <2>. HIDE DEF sizes
  <2>1. QED
    BY <1>2, LeastNat
<1>4. PICK T \in B : Cardinality(T) = n
  BY <1>3
<1>5. ASSUME NEW x \in T, T \ {x} \in B PROVE FALSE
  <2>1. Cardinality(T \ {x}) = Cardinality(T) - 1
    BY <1>1, FS_RemoveElement
  <2>2. n <= Cardinality(T \ {x})
    BY <1>3, <1>5
  <2>3. QED
    BY <1>1, <1>4, <2>1, <2>2
<1>6. QED
  BY <1>1, <1>5

(* Whatever set it is summed within, the same elements have the same sum.  *)
LEMMA SumsAgree ==
  ASSUME NEW A, NEW B, NEW f, NEW g, NEW sum, NEW other, SumsUp(sum, f, A), SumsUp(other, g, B),
         NEW S, S \subseteq A, S \subseteq B, IsFiniteSet(S), \A x \in S : f[x] = g[x]
  PROVE  sum[S] = other[S]
<1>. DEFINE Bad == {T \in SUBSET S : sum[T] # other[T]}
<1>1. SUFFICES ASSUME Bad # {} PROVE FALSE
  OBVIOUS
<1>2. PICK T \in Bad : \A x \in T : T \ {x} \notin Bad
  <2>1. Bad \in SUBSET SUBSET S
    OBVIOUS
  <2>. HIDE DEF Bad
  <2>2. QED
    BY <1>1, <2>1, SmallestSubset
<1>3. T \in SUBSET A /\ T \in SUBSET B /\ T \subseteq S
  OBVIOUS
<1>4. sum[T] = IF T = {} THEN 0 ELSE f[OneOf(T)] + sum[T \ {OneOf(T)}]
  BY <1>3, Zenon DEF SumsUp
<1>5. other[T] = IF T = {} THEN 0 ELSE g[OneOf(T)] + other[T \ {OneOf(T)}]
  BY <1>3, Zenon DEF SumsUp
<1>6. CASE T = {}
  BY <1>2, <1>4, <1>5, <1>6
<1>7. CASE T # {}
  <2>1. OneOf(T) \in T
    BY <1>7 DEF OneOf
  <2>2. sum[T \ {OneOf(T)}] = other[T \ {OneOf(T)}]
    <3>1. T \ {OneOf(T)} \notin Bad /\ T \ {OneOf(T)} \subseteq S
      BY <1>2, <1>3, <2>1
    <3>2. QED
      BY <3>1
  <2>3. f[OneOf(T)] = g[OneOf(T)]
    BY <1>3, <2>1
  <2>4. sum[T] = other[T]
    BY <1>4, <1>5, <1>7, <2>2, <2>3
  <2>5. QED
    BY <2>4
<1>8. QED
  BY <1>6, <1>7

LEMMA SumExists ==
  ASSUME NEW S, IsFiniteSet(S), NEW f
  PROVE  \E sum : SumsUp(sum, f, S)
<1>. DEFINE Bad == {T \in SUBSET S : ~\E sum : SumsUp(sum, f, T)}
<1>1. SUFFICES ASSUME Bad # {} PROVE FALSE
  OBVIOUS
<1>2. PICK T \in Bad : IsFiniteSet(T) /\ \A x \in T : T \ {x} \notin Bad
  <2>1. Bad \in SUBSET SUBSET S
    OBVIOUS
  <2>. HIDE DEF Bad
  <2>2. QED
    BY <1>1, <2>1, SmallestSubset
<1>3. T \subseteq S /\ ~\E sum : SumsUp(sum, f, T)
  OBVIOUS
<1>4. \A x \in T : \E sum : SumsUp(sum, f, T \ {x})
  BY <1>2, <1>3
<1>. DEFINE IsOf(v, U) == \E x \in T : \E sum : SumsUp(sum, f, T \ {x}) /\ U \subseteq T \ {x} /\ v = sum[U]
            Of(U) == CHOOSE v : IsOf(v, U)
<1>5. ASSUME NEW U \in SUBSET T, U # T,
             NEW x \in T, NEW sum, SumsUp(sum, f, T \ {x}), U \subseteq T \ {x}
      PROVE  sum[U] = Of(U)
  <2>1. IsOf(sum[U], U)
    BY <1>5
  <2>2. IsOf(Of(U), U)
    BY <2>1
  <2>3. PICK y \in T : \E other : SumsUp(other, f, T \ {y}) /\ U \subseteq T \ {y} /\ Of(U) = other[U]
    BY <2>2
  <2>4. PICK other : SumsUp(other, f, T \ {y}) /\ U \subseteq T \ {y} /\ Of(U) = other[U]
    BY <2>3
  <2>5. IsFiniteSet(U)
    BY <1>2, FS_Subset
  <2>. HIDE DEF Of
  <2>6. QED
    BY <1>5, <2>4, <2>5, SumsAgree
<1>. DEFINE whole == [U \in SUBSET T |->
                        IF U # T THEN Of(U)
                        ELSE IF T = {} THEN 0 ELSE f[OneOf(T)] + Of(T \ {OneOf(T)})]
<1>6. ASSUME NEW U \in SUBSET T
      PROVE  whole[U] = IF U = {} THEN 0 ELSE f[OneOf(U)] + whole[U \ {OneOf(U)}]
  <2>1. CASE U = T
    <3>. HIDE DEF Of
    <3>1. CASE T = {}
      BY <2>1, <3>1
    <3>2. CASE T # {}
      <4>1. OneOf(T) \in T /\ T \ {OneOf(T)} \in SUBSET T /\ T \ {OneOf(T)} # T
        BY <3>2 DEF OneOf
      <4>2. whole[T \ {OneOf(T)}] = Of(T \ {OneOf(T)})
        BY <4>1
      <4>3. whole[T] = f[OneOf(T)] + Of(T \ {OneOf(T)})
        BY <3>2
      <4>4. QED
        BY <2>1, <3>2, <4>2, <4>3
    <3>3. QED
      BY <3>1, <3>2
  <2>2. CASE U # T
    <3>1. PICK x \in T : x \notin U
      BY <2>2
    <3>2. PICK sum : SumsUp(sum, f, T \ {x})
      BY <1>4
    <3>3. U \in SUBSET (T \ {x}) /\ U \ {OneOf(U)} \in SUBSET (T \ {x}) /\ U \ {OneOf(U)} # T
      BY <3>1
    <3>4. sum[U] = Of(U) /\ sum[U \ {OneOf(U)}] = Of(U \ {OneOf(U)})
      <4>. HIDE DEF Of
      <4>1. QED
        BY <1>5, <2>2, <3>2, <3>3
    <3>5. sum[U] = IF U = {} THEN 0 ELSE f[OneOf(U)] + sum[U \ {OneOf(U)}]
      BY <3>2, <3>3, Zenon DEF SumsUp
    <3>. HIDE DEF Of
    <3>6. whole[U] = Of(U) /\ whole[U \ {OneOf(U)}] = Of(U \ {OneOf(U)})
      BY <2>2, <3>3
    <3>7. QED
      BY <3>4, <3>5, <3>6
  <2>3. QED
    BY <2>1, <2>2
<1>7. SumsUp(whole, f, T)
  <2>1. DOMAIN whole = SUBSET T /\ whole = [U \in SUBSET T |-> whole[U]]
    OBVIOUS
  <2>. HIDE DEF whole
  <2>2. QED
    BY <1>6, <2>1, Zenon DEF SumsUp
<1>8. QED
  BY <1>3, <1>7

(* Of natural numbers it is one.                                           *)
LEMMA SumIsNatural ==
  ASSUME NEW S, IsFiniteSet(S), NEW f, \A x \in S : f[x] \in Nat, NEW sum, SumsUp(sum, f, S)
  PROVE  \A T \in SUBSET S : sum[T] \in Nat
<1>. DEFINE Bad == {T \in SUBSET S : sum[T] \notin Nat}
<1>1. SUFFICES ASSUME Bad # {} PROVE FALSE
  OBVIOUS
<1>2. PICK T \in Bad : \A x \in T : T \ {x} \notin Bad
  <2>1. Bad \in SUBSET SUBSET S
    OBVIOUS
  <2>. HIDE DEF Bad
  <2>2. QED
    BY <1>1, <2>1, SmallestSubset
<1>3. T \in SUBSET S /\ sum[T] \notin Nat /\ \A x \in T : sum[T \ {x}] \in Nat
  BY <1>2
<1>4. sum[T] = IF T = {} THEN 0 ELSE f[OneOf(T)] + sum[T \ {OneOf(T)}]
  BY <1>3, Zenon DEF SumsUp
<1>5. T # {} => OneOf(T) \in T
  BY DEF OneOf
<1>6. T # {} => f[OneOf(T)] \in Nat /\ sum[T \ {OneOf(T)}] \in Nat
  BY <1>3, <1>5
<1>7. QED
  BY <1>3, <1>4, <1>6

(* Whichever is taken out first.                                           *)
LEMMA SumWithout ==
  ASSUME NEW S, IsFiniteSet(S), NEW f, \A x \in S : f[x] \in Nat, NEW sum, SumsUp(sum, f, S)
  PROVE  \A T \in SUBSET S : \A x \in T : sum[T] = f[x] + sum[T \ {x}]
<1>. DEFINE Fine(T) == \A x \in T : sum[T] = f[x] + sum[T \ {x}]
            Bad == {T \in SUBSET S : ~Fine(T)}
<1>1. SUFFICES ASSUME Bad # {} PROVE FALSE
  OBVIOUS
<1>2. PICK T \in Bad : \A x \in T : T \ {x} \notin Bad
  <2>1. Bad \in SUBSET SUBSET S
    OBVIOUS
  <2>. HIDE DEF Bad
  <2>2. QED
    BY <1>1, <2>1, SmallestSubset
<1>3. T \in SUBSET S /\ ~Fine(T)
  OBVIOUS
<1>4. \A x \in T : Fine(T \ {x})
  BY <1>2, <1>3
<1>5. PICK x \in T : sum[T] # f[x] + sum[T \ {x}]
  BY <1>3
<1>. DEFINE c == OneOf(T)
<1>6. c \in T /\ sum[T] = f[c] + sum[T \ {c}]
  <2>1. OneOf(T) \in T
    BY <1>5 DEF OneOf
  <2>2. sum[T] = IF T = {} THEN 0 ELSE f[OneOf(T)] + sum[T \ {OneOf(T)}]
    BY <1>3, Zenon DEF SumsUp
  <2>3. QED
    BY <2>1, <2>2
<1>. HIDE DEF c
<1>7. x # c
  BY <1>5, <1>6
<1>8. sum[T \ {c}] = f[x] + sum[(T \ {c}) \ {x}] /\ sum[T \ {x}] = f[c] + sum[(T \ {x}) \ {c}]
  BY <1>4, <1>5, <1>6, <1>7
<1>9. (T \ {c}) \ {x} = (T \ {x}) \ {c} /\ (T \ {x}) \ {c} \in SUBSET S /\ f[x] \in Nat /\ f[c] \in Nat
  BY <1>3, <1>5, <1>6
<1>. DEFINE rest == sum[(T \ {x}) \ {c}]
<1>10. rest \in Nat
  BY <1>9, SumIsNatural
<1>11. sum[T \ {c}] = f[x] + rest /\ sum[T \ {x}] = f[c] + rest
  BY <1>8, <1>9
<1>. HIDE DEF rest
<1>12. QED
  BY <1>5, <1>6, <1>9, <1>10, <1>11

(* Of SumFunction, then: what one element adds, and what fewer sum up to.  *)
LEMMA SumFunctionIs ==
  ASSUME NEW f, IsFiniteSet(DOMAIN f)
  PROVE  \E sum : SumsUp(sum, f, DOMAIN f) /\ SumFunction(f) = sum[DOMAIN f]
<1>1. \E sum : SumsUp(sum, f, DOMAIN f)
  BY SumExists
<1>2. SumsUp(CHOOSE sum : SumsUp(sum, f, DOMAIN f), f, DOMAIN f)
  BY <1>1
<1>3. QED
  BY <1>2, SumIs

LEMMA SumTakesOut ==
  ASSUME NEW S, IsFiniteSet(S), NEW f \in [S -> Nat], NEW x \in S
  PROVE  /\ SumFunction(f) \in Nat /\ SumFunction([y \in S \ {x} |-> f[y]]) \in Nat
         /\ SumFunction(f) = f[x] + SumFunction([y \in S \ {x} |-> f[y]])
<1>. DEFINE g == [y \in S \ {x} |-> f[y]]
<1>0. DOMAIN f = S /\ DOMAIN g = S \ {x} /\ (\A y \in S : f[y] \in Nat) /\ \A y \in S \ {x} : g[y] = f[y]
  OBVIOUS
<1>. HIDE DEF g
<1>1. IsFiniteSet(S \ {x})
  BY FS_RemoveElement
<1>2. PICK sum : SumsUp(sum, f, S) /\ SumFunction(f) = sum[S]
  BY <1>0, SumFunctionIs
<1>3. PICK less : SumsUp(less, g, S \ {x}) /\ SumFunction(g) = less[S \ {x}]
  BY <1>0, <1>1, SumFunctionIs
<1>4. less[S \ {x}] = sum[S \ {x}]
  BY <1>0, <1>1, <1>2, <1>3, SumsAgree
<1>5. sum[S] \in Nat /\ sum[S \ {x}] \in Nat
  BY <1>0, <1>2, SumIsNatural
<1>6. sum[S] = f[x] + sum[S \ {x}]
  BY <1>0, <1>2, SumWithout
<1>7. QED
  BY <1>2, <1>3, <1>4, <1>5, <1>6 DEF g

LEMMA SumIsNat ==
  ASSUME NEW S, IsFiniteSet(S), NEW f \in [S -> Nat]
  PROVE  SumFunction(f) \in Nat
<1>1. DOMAIN f = S /\ \A y \in S : f[y] \in Nat
  OBVIOUS
<1>2. PICK sum : SumsUp(sum, f, S) /\ SumFunction(f) = sum[S]
  BY <1>1, SumFunctionIs
<1>3. QED
  BY <1>1, <1>2, SumIsNatural

LEMMA SumOfNone ==
  ASSUME NEW f, DOMAIN f = {}
  PROVE  SumFunction(f) = 0
<1>1. PICK sum : SumsUp(sum, f, {}) /\ SumFunction(f) = sum[{}]
  BY SumFunctionIs, FS_EmptySet
<1>2. sum[{}] = 0
  BY <1>1 DEF SumsUp
<1>3. QED
  BY <1>1, <1>2

LEMMA FewerSumToLess ==
  ASSUME NEW S, IsFiniteSet(S), NEW f \in [S -> Nat], NEW T \in SUBSET S
  PROVE  SumFunction([y \in T |-> f[y]]) <= SumFunction(f)
<1>. DEFINE Of(U) == SumFunction([y \in U |-> f[y]])
            Bad == {U \in SUBSET S : T \subseteq U /\ ~(Of(T) <= Of(U))}
<1>1. f = [y \in S |-> f[y]]
  OBVIOUS
<1>2. SUFFICES Bad = {}
  BY <1>1
<1>3. SUFFICES ASSUME Bad # {} PROVE FALSE
  OBVIOUS
<1>4. PICK U \in Bad : \A x \in U : U \ {x} \notin Bad
  <2>1. Bad \in SUBSET SUBSET S
    OBVIOUS
  <2>. HIDE DEF Bad
  <2>2. QED
    BY <1>3, <2>1, SmallestSubset
<1>5. U \in SUBSET S /\ T \subseteq U /\ ~(Of(T) <= Of(U)) /\ IsFiniteSet(T) /\ IsFiniteSet(U)
  <2>1. U \in SUBSET S /\ T \subseteq U /\ ~(Of(T) <= Of(U))
    OBVIOUS
  <2>2. QED
    BY <2>1, FS_Subset
<1>6. [y \in U |-> f[y]] \in [U -> Nat] /\ [y \in T |-> f[y]] \in [T -> Nat]
  BY <1>5
<1>7. Of(T) \in Nat /\ Of(U) \in Nat
  BY <1>5, <1>6, SumIsNat
<1>8. U # T
  <2>. HIDE DEF Of
  <2>1. QED
    BY <1>5, <1>7
<1>9. PICK x \in U : x \notin T
  BY <1>5, <1>8
<1>10. Of(T) <= Of(U \ {x})
  <2>1. U \ {x} \in SUBSET S /\ T \subseteq U \ {x} /\ U \ {x} \notin Bad
    BY <1>4, <1>5, <1>9
  <2>2. QED
    BY <2>1
<1>11. Of(U) = f[x] + Of(U \ {x}) /\ Of(U \ {x}) \in Nat /\ f[x] \in Nat
  <2>. DEFINE u == [y \in U |-> f[y]]
  <2>1. [y \in U \ {x} |-> u[y]] = [y \in U \ {x} |-> f[y]]
    OBVIOUS
  <2>2. u \in [U -> Nat] /\ u[x] = f[x] /\ f[x] \in Nat
    BY <1>6
  <2>3. SumFunction(u) = u[x] + SumFunction([y \in U \ {x} |-> u[y]]) /\ SumFunction([y \in U \ {x} |-> u[y]]) \in Nat
    <3>. HIDE DEF u
    <3>1. QED
      BY <1>5, <2>2, SumTakesOut
  <2>4. QED
    BY <2>1, <2>2, <2>3
<1>12. QED
  <2>. HIDE DEF Of
  <2>1. QED
    BY <1>5, <1>7, <1>10, <1>11

-----------------------------------------------------------------------------
(***************************************************************************)
(* The directory.  Types; and files are of Matches that have started.      *)
(***************************************************************************)
CaptureFiles == [size : Nat, capture : BOOLEAN]
CompletedCaptures == [name : Int, size : Nat]

DirectoryTypeOK ==
  /\ files \in [DOMAIN files -> CaptureFiles] /\ IsFiniteSet(DOMAIN files) /\ DOMAIN files \subseteq Int
  /\ limits \in [files : FileLimits, bytes : ByteLimits]
  /\ completed \in Seq(CompletedCaptures)
  /\ total \in Nat /\ current \in Nat
  /\ room \in [bytes : Nat, opening : BOOLEAN]
  /\ capturing \in {"closed", "open", "refused", "stopped"}
  /\ deleted \subseteq Int

(***************************************************************************)
(* Room is made for the capture open alone, which has its file once the    *)
(* header is written, and for as long as it is refused any.                *)
(***************************************************************************)
RoomMade ==
  /\ capturing \in {"closed", "stopped"} => room = NoRoom
  /\ capturing = "refused" => room # NoRoom
  /\ capturing \in {"open", "refused"} /\ ~room.opening => current \in DOMAIN files

(***************************************************************************)
(* The completed captures are in order, older than the Match being         *)
(* captured and newer than any deleted for it, and of the sizes of their   *)
(* files; and every capture there is one of them, or could not be deleted, *)
(* or is the one being written.                                            *)
(***************************************************************************)
NamesOf(captures) == {captures[i].name : i \in DOMAIN captures}
CompletedNames == NamesOf(completed)

InOrder(captures) ==
  \A i, j \in DOMAIN captures : i < j => captures[i].name < captures[j].name

CompletedInOrder ==
  /\ InOrder(completed)
  /\ \A name \in CompletedNames \cup deleted : name < current
  /\ \A name \in DOMAIN files : name <= current
  /\ \A gone \in deleted, name \in CompletedNames : gone < name

CompletedAreThere ==
  /\ \A i \in DOMAIN completed :
       completed[i].name \in DOMAIN files => files[completed[i].name].size = completed[i].size
  /\ capturing \in {"open", "refused"} =>
       CapturesThere \subseteq CompletedNames \cup {current} \cup failedToDelete

(***************************************************************************)
(* The total is of the completed captures and of what was written of the   *)
(* one open, and was within the limits when that was; a capture is refused *)
(* room with no other left to delete.                                      *)
(***************************************************************************)
SizesFor(captures) ==
  [name \in NamesOf(captures) |-> captures[CHOOSE i \in DOMAIN captures : captures[i].name = name].size]

OpenBytes == IF room.opening THEN 0 ELSE files[current].size

TotalCounts ==
  /\ capturing \in {"open", "refused"} => total = SumFunction(SizesFor(completed)) + OpenBytes
  /\ capturing = "open" /\ ~room.opening =>
       /\ limits.files # NoLimit => Len(completed) < limits.files
       /\ limits.bytes # NoLimit => total <= limits.bytes
  /\ capturing = "refused" =>
       completed = <<>> /\ limits.bytes # NoLimit /\ total + room.bytes > limits.bytes

RetentionIInv ==
  /\ DirectoryTypeOK /\ RoomMade /\ CompletedInOrder /\ CompletedAreThere /\ TotalCounts
  /\ OldestGoFirst

-----------------------------------------------------------------------------
(***************************************************************************)
(* What is found, oldest first.                                            *)
(***************************************************************************)
Older(name, found) == {other \in found : other < name}

LEMMA RanksAreTaken ==
  ASSUME NEW found, IsFiniteSet(found), found \subseteq Int
  PROVE  /\ \A n \in 1 .. Cardinality(found) : \E name \in found : Cardinality(Older(name, found)) = n - 1
         /\ \A name \in found : Cardinality(Older(name, found)) + 1 \in 1 .. Cardinality(found)
         /\ \A name, other \in found :
              name < other => Cardinality(Older(name, found)) < Cardinality(Older(other, found))
<1>. DEFINE N == Cardinality(found)
            rank == [name \in found |-> Cardinality(Older(name, found)) + 1]
<1>1. N \in Nat
  BY FS_CardinalityType
<1>2. \A name : IsFiniteSet(Older(name, found)) /\ Cardinality(Older(name, found)) \in Nat
  <2>1. \A name : Older(name, found) \in SUBSET found
    BY DEF Older
  <2>2. \A name : IsFiniteSet(Older(name, found))
    BY <2>1, FS_Subset
  <2>3. QED
    BY <2>2, FS_CardinalityType
<1>3. ASSUME NEW name \in found, NEW other \in found, name < other
      PROVE  Cardinality(Older(name, found)) < Cardinality(Older(other, found))
  <2>1. Older(name, found) \cup {name} \subseteq Older(other, found) /\ name \notin Older(name, found)
    <3>1. \A any \in found : any \in Int
      OBVIOUS
    <3>2. (\A any \in found : any < name => any < other) /\ ~(name < name)
      BY <1>3, <3>1
    <3>3. QED
      BY <1>3, <3>2, Zenon DEF Older
  <2>2. Cardinality(Older(name, found) \cup {name}) = Cardinality(Older(name, found)) + 1
    BY <1>2, <2>1, FS_AddElement
  <2>3. Cardinality(Older(name, found) \cup {name}) <= Cardinality(Older(other, found))
    BY <1>2, <2>1, FS_Subset
  <2>4. QED
    BY <1>2, <2>2, <2>3
<1>4. ASSUME NEW name \in found PROVE Cardinality(Older(name, found)) + 1 \in 1 .. N
  <2>1. Older(name, found) \cup {name} \subseteq found /\ name \notin Older(name, found)
    BY DEF Older
  <2>2. Cardinality(Older(name, found) \cup {name}) = Cardinality(Older(name, found)) + 1
    BY <1>2, <2>1, FS_AddElement
  <2>3. Cardinality(Older(name, found) \cup {name}) <= N
    BY <2>1, FS_Subset
  <2>4. QED
    BY <1>1, <1>2, <2>2, <2>3
<1>5. rank \in Surjection(found, 1 .. N)
  <2>1. rank \in Injection(found, 1 .. N)
    <3>1. rank \in [found -> 1 .. N]
      BY <1>4
    <3>2. ASSUME NEW name \in found, NEW other \in found, rank[name] = rank[other] PROVE name = other
      <4>1. Cardinality(Older(name, found)) = Cardinality(Older(other, found))
        BY <1>2, <3>2
      <4>2. QED
        BY <1>2, <1>3, <4>1
    <3>3. QED
      BY <3>1, <3>2, Zenon DEF Injection, IsInjective
  <2>2. IsFiniteSet(1 .. N) /\ Cardinality(1 .. N) = N
    BY <1>1, FS_Interval
  <2>. HIDE DEF rank
  <2>3. QED
    BY <2>1, <2>2, FS_Injection
<1>6. ASSUME NEW n \in 1 .. N PROVE \E name \in found : Cardinality(Older(name, found)) = n - 1
  <2>1. PICK name \in found : rank[name] = n
    BY <1>5 DEF Surjection
  <2>2. QED
    BY <1>2, <2>1
<1>7. QED
  BY <1>3, <1>4, <1>6

LEMMA ScanFinds ==
  ASSUME files \in [DOMAIN files -> CaptureFiles], IsFiniteSet(DOMAIN files), DOMAIN files \subseteq Int, NEW name
  PROVE  /\ Scan(name) \in Seq(CompletedCaptures)
         /\ {Scan(name)[i].name : i \in DOMAIN Scan(name)} = CapturesThere \ {name}
         /\ \A i \in DOMAIN Scan(name) : Scan(name)[i].size = files[Scan(name)[i].name].size
         /\ \A i, j \in DOMAIN Scan(name) : i < j => Scan(name)[i].name < Scan(name)[j].name
<1>. DEFINE found == CapturesThere \ {name}
            Oldest(n) == CHOOSE f \in found : Cardinality(Older(f, found)) = n - 1
            N == Cardinality(found)
<1>1. found \subseteq DOMAIN files /\ IsFiniteSet(found) /\ N \in Nat /\ found \subseteq Int
  <2>1. found \in SUBSET DOMAIN files
    BY DEF CapturesThere
  <2>2. IsFiniteSet(found)
    BY <2>1, FS_Subset
  <2>3. QED
    BY <2>1, <2>2, FS_CardinalityType
<1>2. Scan(name) = [n \in 1 .. N |-> [name |-> Oldest(n), size |-> files[Oldest(n)].size]]
  BY DEF Scan, Older
<1>. HIDE DEF found
<1>3. \A n \in 1 .. N : Oldest(n) \in found /\ Cardinality(Older(Oldest(n), found)) = n - 1
  BY <1>1, RanksAreTaken
<1>. HIDE DEF Oldest
<1>4. \A n \in 1 .. N : Oldest(n) \in Int /\ files[Oldest(n)].size \in Nat
  BY <1>1, <1>3 DEF CaptureFiles
<1>5. Scan(name) \in [1 .. N -> CompletedCaptures] /\ DOMAIN Scan(name) = 1 .. N
  BY <1>2, <1>4 DEF CompletedCaptures
<1>6. Scan(name) \in Seq(CompletedCaptures)
  BY <1>1, <1>5
<1>7. {Scan(name)[i].name : i \in 1 .. N} = found
  <2>1. \A i \in 1 .. N : Scan(name)[i].name \in found
    BY <1>2, <1>3
  <2>2. ASSUME NEW f \in found PROVE \E i \in 1 .. N : Scan(name)[i].name = f
    <3>1. PICK i \in 1 .. N : i = Cardinality(Older(f, found)) + 1
      BY <1>1, RanksAreTaken
    <3>2. Cardinality(Older(f, found)) \in Nat
      <4>1. Older(f, found) \in SUBSET found
        BY DEF Older
      <4>2. QED
        BY <1>1, <4>1, FS_Subset, FS_CardinalityType
    <3>3. Cardinality(Older(f, found)) = Cardinality(Older(Oldest(i), found)) /\ Oldest(i) \in found
      BY <1>3, <3>1, <3>2
    <3>4. f \in Int /\ Oldest(i) \in Int
      BY <1>1, <3>3
    <3>5. ~(f < Oldest(i)) /\ ~(Oldest(i) < f)
      BY <1>1, <3>2, <3>3, RanksAreTaken
    <3>6. f = Oldest(i)
      BY <3>4, <3>5
    <3>7. QED
      BY <1>2, <3>6
  <2>3. QED
    BY <2>1, <2>2
<1>8. \A i \in 1 .. N : Scan(name)[i].size = files[Scan(name)[i].name].size
  BY <1>2
<1>9. ASSUME NEW i \in 1 .. N, NEW j \in 1 .. N, i < j PROVE Scan(name)[i].name < Scan(name)[j].name
  <2>1. Cardinality(Older(Oldest(i), found)) < Cardinality(Older(Oldest(j), found))
    BY <1>1, <1>3, <1>9
  <2>2. Oldest(i) \in found /\ Oldest(j) \in found /\ Oldest(i) \in Int /\ Oldest(j) \in Int
    BY <1>1, <1>3
  <2>3. ~(Oldest(j) < Oldest(i)) /\ Oldest(i) # Oldest(j)
    <3>1. Cardinality(Older(Oldest(i), found)) \in Int /\ Cardinality(Older(Oldest(j), found)) \in Int
      BY <1>3
    <3>2. QED
      BY <1>1, <2>1, <2>2, <3>1, RanksAreTaken
  <2>4. QED
    BY <1>2, <2>2, <2>3
<1>10. QED
  BY <1>5, <1>6, <1>7, <1>8, <1>9 DEF found

-----------------------------------------------------------------------------
(***************************************************************************)
(* How many are deleted (PlanRetention): none only when there is none, or  *)
(* the limits are kept without.                                            *)
(***************************************************************************)
LEMMA NothingLeftOut == LeftAfter(0) = total
<1>. DEFINE left == CHOOSE left : left = [n \in 0 .. 0 |->
                      IF n = 0 THEN total
                      ELSE left[n - 1] - (IF left[n - 1] < completed[n].size THEN left[n - 1] ELSE completed[n].size)]
            some == [n \in 0 .. 0 |-> total]
<1>1. some = [n \in 0 .. 0 |->
               IF n = 0 THEN total
               ELSE some[n - 1] - (IF some[n - 1] < completed[n].size THEN some[n - 1] ELSE completed[n].size)]
  <2>1. \A n \in 0 .. 0 : n = 0
    OBVIOUS
  <2>2. QED
    BY <2>1
<1>2. left = [n \in 0 .. 0 |->
               IF n = 0 THEN total
               ELSE left[n - 1] - (IF left[n - 1] < completed[n].size THEN left[n - 1] ELSE completed[n].size)]
  <2>. HIDE DEF some
  <2>1. QED
    BY <1>1
<1>3. LeftAfter(0) = left[0]
  BY DEF LeftAfter
<1>. HIDE DEF left
<1>4. QED
  BY <1>2, <1>3

LEMMA DeletionsAre ==
  ASSUME DirectoryTypeOK
  PROVE  /\ Deletions \in 0 .. Len(completed)
         /\ Deletions = 0 /\ FitsAfter(0) => EnoughGone(0)
         /\ Deletions = 0 /\ ~FitsAfter(0) => Len(completed) = 0
<1>. DEFINE N == Len(completed)
            enough == {n \in 0 .. N : EnoughGone(n) /\ FitsAfter(n)}
<1>1. N \in Nat
  BY DEF DirectoryTypeOK
<1>. DEFINE least == CHOOSE n \in enough : \A m \in enough : n <= m
<1>2. Deletions = IF enough = {} THEN N ELSE least
  BY DEF Deletions
<1>3. limits.files # NoLimit => limits.files \in Nat \ {0}
  BY DirectoryAssumption DEF DirectoryAssumption, DirectoryTypeOK
<1>4. enough \in SUBSET Nat /\ enough \subseteq 0 .. N
  BY <1>1
<1>5. N = 0 => EnoughGone(0)
  BY <1>3 DEF EnoughGone
<1>6. 0 \in enough => EnoughGone(0) /\ FitsAfter(0)
  OBVIOUS
<1>. HIDE DEF enough
<1>a. enough # {} => least \in enough
  <2>1. enough # {} => \E n \in enough : \A m \in enough : n <= m
    BY <1>4, LeastNat
  <2>2. QED
    BY <2>1
<1>. HIDE DEF least
<1>7. enough # {} => Deletions \in enough
  BY <1>2, <1>a
<1>8. enough = {} => Deletions = N
  BY <1>2
<1>9. Deletions \in 0 .. N
  <2>1. CASE enough = {}
    BY <1>1, <1>8, <2>1
  <2>2. CASE enough # {}
    BY <1>4, <1>7, <2>2
  <2>3. QED
    BY <2>1, <2>2
<1>10. Deletions = 0 => 0 \in enough \/ N = 0
  BY <1>7, <1>8
<1>11. QED
  BY <1>5, <1>6, <1>9, <1>10, <1>8, <1>7

-----------------------------------------------------------------------------
(***************************************************************************)
(* The completed captures' sizes, and what is left of them without the     *)
(* oldest.                                                                 *)
(***************************************************************************)
LEMMA SizesAre ==
  ASSUME NEW captures \in Seq(CompletedCaptures), InOrder(captures)
  PROVE  /\ NamesOf(captures) \subseteq Int /\ IsFiniteSet(NamesOf(captures))
         /\ Cardinality(NamesOf(captures)) <= Len(captures)
         /\ SizesFor(captures) \in [NamesOf(captures) -> Nat]
         /\ \A i \in DOMAIN captures : SizesFor(captures)[captures[i].name] = captures[i].size
         /\ \A i, j \in DOMAIN captures : captures[i].name = captures[j].name => i = j
<1>. DEFINE N == Len(captures)
<1>1. N \in Nat /\ DOMAIN captures = 1 .. N
      /\ \A i \in 1 .. N : captures[i].name \in Int /\ captures[i].size \in Nat
  <2>1. N \in Nat /\ DOMAIN captures = 1 .. N /\ \A i \in 1 .. N : captures[i] \in CompletedCaptures
    OBVIOUS
  <2>2. QED
    BY <2>1 DEF CompletedCaptures
<1>2. \A i, j \in 1 .. N : captures[i].name = captures[j].name => i = j
  <2>1. \A i, j \in 1 .. N : i < j => captures[i].name < captures[j].name
    BY <1>1 DEF InOrder
  <2>2. QED
    BY <1>1, <2>1
<1>3. NamesOf(captures) \subseteq Int
  BY <1>1 DEF NamesOf
<1>4. IsFiniteSet(NamesOf(captures)) /\ Cardinality(NamesOf(captures)) <= N
  <2>. DEFINE nameOf == [i \in 1 .. N |-> captures[i].name]
  <2>1. nameOf \in Surjection(1 .. N, NamesOf(captures))
    BY <1>1 DEF Surjection, NamesOf
  <2>2. IsFiniteSet(1 .. N) /\ Cardinality(1 .. N) = N
    BY SMTT(30), <1>1, FS_Interval
  <2>. HIDE DEF nameOf
  <2>3. QED
    BY <2>1, <2>2, FS_Surjection
<1>5. ASSUME NEW i \in 1 .. N PROVE SizesFor(captures)[captures[i].name] = captures[i].size
  <2>1. captures[i].name \in NamesOf(captures)
    BY <1>1 DEF NamesOf
  <2>2. (CHOOSE j \in 1 .. N : captures[j].name = captures[i].name) = i
    BY <1>2
  <2>3. QED
    BY <1>1, <2>1, <2>2 DEF SizesFor
<1>6. SizesFor(captures) \in [NamesOf(captures) -> Nat]
  <2>1. \A name \in NamesOf(captures) : SizesFor(captures)[name] \in Nat
    BY <1>1, <1>5 DEF NamesOf
  <2>2. SizesFor(captures) = [name \in NamesOf(captures) |-> SizesFor(captures)[name]]
    BY DEF SizesFor
  <2>. HIDE DEF SizesFor
  <2>3. QED
    BY <2>1, <2>2
<1>7. QED
  BY <1>1, <1>2, <1>3, <1>4, <1>5, <1>6

LEMMA OldestTakenOut ==
  ASSUME NEW captures \in Seq(CompletedCaptures), InOrder(captures), captures # <<>>
  PROVE  LET oldest == captures[1].name
         IN  /\ oldest \in NamesOf(captures) /\ captures[1].size \in Nat
             /\ Tail(captures) \in Seq(CompletedCaptures) /\ InOrder(Tail(captures))
             /\ Len(Tail(captures)) < Len(captures)
             /\ NamesOf(Tail(captures)) = NamesOf(captures) \ {oldest}
             /\ \A name \in NamesOf(Tail(captures)) : oldest < name
             /\ \A i \in DOMAIN Tail(captures) : \E j \in DOMAIN captures : Tail(captures)[i] = captures[j]
             /\ SumFunction(SizesFor(captures)) = captures[1].size + SumFunction(SizesFor(Tail(captures)))
             /\ SumFunction(SizesFor(Tail(captures))) \in Nat
<1>. DEFINE oldest == captures[1].name
            rest == Tail(captures)
            N == Len(captures)
<1>1. /\ N \in Nat /\ N > 0 /\ DOMAIN captures = 1 .. N
      /\ rest \in Seq(CompletedCaptures) /\ Len(rest) = N - 1 /\ DOMAIN rest = 1 .. N - 1
      /\ \A i \in 1 .. N - 1 : i + 1 \in 1 .. N /\ rest[i] = captures[i + 1]
  OBVIOUS
<1>2. \A i \in 1 .. N : captures[i] \in CompletedCaptures
  BY <1>1
<1>3. oldest \in NamesOf(captures) /\ captures[1].size \in Nat
  <2>1. 1 \in 1 .. N
    BY <1>1
  <2>2. QED
    BY <1>1, <1>2, <2>1 DEF NamesOf, CompletedCaptures
<1>. HIDE DEF rest
<1>4. InOrder(rest)
  <2>1. ASSUME NEW i \in 1 .. N - 1, NEW j \in 1 .. N - 1, i < j PROVE rest[i].name < rest[j].name
    <3>1. i + 1 \in 1 .. N /\ j + 1 \in 1 .. N /\ i + 1 < j + 1
      BY <1>1, <2>1
    <3>2. captures[i + 1].name < captures[j + 1].name
      BY <1>1, <3>1 DEF InOrder
    <3>3. QED
      BY <1>1, <3>2
  <2>2. QED
    BY <1>1, <2>1 DEF InOrder
<1>5. \A j \in 1 .. N : j = 1 \/ oldest < captures[j].name
  <2>1. \A j \in 1 .. N : j = 1 \/ (1 < j /\ 1 \in 1 .. N)
    BY <1>1
  <2>2. QED
    BY <1>1, <2>1 DEF InOrder
<1>6. \A j \in 1 .. N : captures[j].name \in Int
  BY <1>2 DEF CompletedCaptures
<1>7. NamesOf(rest) = NamesOf(captures) \ {oldest} /\ \A name \in NamesOf(rest) : oldest < name
  <2>1. ASSUME NEW i \in 1 .. N - 1
        PROVE  rest[i].name \in NamesOf(captures) /\ oldest < rest[i].name /\ oldest # rest[i].name
    <3>1. i + 1 \in 1 .. N /\ i + 1 # 1 /\ 1 \in 1 .. N
      BY <1>1
    <3>2. oldest < captures[i + 1].name /\ oldest \in Int /\ captures[i + 1].name \in Int
      BY <1>5, <1>6, <3>1
    <3>3. captures[i + 1].name \in NamesOf(captures)
      BY <1>1, <3>1, Zenon DEF NamesOf
    <3>. HIDE DEF oldest
    <3>4. oldest # captures[i + 1].name
      BY <3>2
    <3>5. QED
      BY <1>1, <3>2, <3>3, <3>4
  <2>2. ASSUME NEW j \in 1 .. N, captures[j].name # oldest PROVE captures[j].name \in NamesOf(rest)
    <3>1. j # 1 /\ j - 1 \in 1 .. N - 1 /\ j - 1 + 1 = j
      BY <1>1, <2>2
    <3>2. rest[j - 1] = captures[j]
      BY <1>1, <3>1
    <3>3. QED
      BY <1>1, <3>1, <3>2, Zenon DEF NamesOf
  <2>3. \A name \in NamesOf(rest) : \E i \in 1 .. N - 1 : rest[i].name = name
    BY <1>1, Zenon DEF NamesOf
  <2>4. \A name \in NamesOf(captures) : \E j \in 1 .. N : captures[j].name = name
    BY <1>1, Zenon DEF NamesOf
  <2>. HIDE DEF oldest
  <2>5. \A name \in NamesOf(rest) : name \in NamesOf(captures) /\ oldest < name /\ name # oldest
    BY <2>1, <2>3
  <2>6. \A name \in NamesOf(captures) : name # oldest => name \in NamesOf(rest)
    BY <2>2, <2>4
  <2>7. QED
    BY <2>5, <2>6
<1>8. \A i \in DOMAIN rest : \E j \in DOMAIN captures : rest[i] = captures[j]
  BY <1>1
<1>9. SizesFor(rest) = [y \in NamesOf(captures) \ {oldest} |-> SizesFor(captures)[y]]
  <2>1. ASSUME NEW y \in NamesOf(rest) PROVE SizesFor(rest)[y] = SizesFor(captures)[y]
    <3>1. PICK i \in 1 .. N - 1 : rest[i].name = y
      BY <1>1 DEF NamesOf
    <3>2. SizesFor(rest)[rest[i].name] = rest[i].size
      BY <1>1, <1>4, SizesAre
    <3>3. SizesFor(captures)[captures[i + 1].name] = captures[i + 1].size
      BY <1>1, SizesAre
    <3>4. QED
      BY <1>1, <3>1, <3>2, <3>3
  <2>2. SizesFor(rest) = [y \in NamesOf(rest) |-> SizesFor(rest)[y]]
    BY DEF SizesFor
  <2>3. QED
    BY <1>7, <2>1, <2>2
<1>10. IsFiniteSet(NamesOf(captures)) /\ SizesFor(captures) \in [NamesOf(captures) -> Nat]
       /\ SizesFor(captures)[oldest] = captures[1].size
  <2>1. 1 \in DOMAIN captures
    BY <1>1
  <2>2. QED
    BY <2>1, SizesAre
<1>11. SumFunction(SizesFor(captures)) = captures[1].size + SumFunction(SizesFor(rest))
       /\ SumFunction(SizesFor(rest)) \in Nat
  <2>. DEFINE S == NamesOf(captures)
              f == SizesFor(captures)
  <2>1. IsFiniteSet(S) /\ f \in [S -> Nat] /\ oldest \in S
    BY <1>3, <1>10
  <2>. HIDE DEF oldest, S, f
  <2>2. SumFunction(f) = f[oldest] + SumFunction([y \in S \ {oldest} |-> f[y]])
        /\ SumFunction([y \in S \ {oldest} |-> f[y]]) \in Nat
    BY ZenonT(60), <2>1, SumTakesOut
  <2>3. QED
    BY <1>9, <1>10, <2>2 DEF S, f
<1>12. Len(rest) < Len(captures)
  BY <1>1
<1>13. QED
  BY <1>1, <1>3, <1>4, <1>7, <1>8, <1>11, <1>12 DEF rest

-----------------------------------------------------------------------------
(***************************************************************************)
(* What it promises, it keeps.                                             *)
(***************************************************************************)
LEMMA LimitsAre ==
  ASSUME DirectoryTypeOK
  PROVE  /\ limits.files # NoLimit => limits.files \in Nat \ {0}
         /\ limits.bytes # NoLimit => limits.bytes \in Nat
BY DirectoryAssumption DEF DirectoryAssumption, DirectoryTypeOK

LEMMA CompletedSumsUp ==
  ASSUME DirectoryTypeOK, CompletedInOrder
  PROVE  /\ CompletedNames \subseteq Int /\ IsFiniteSet(CompletedNames)
         /\ Cardinality(CompletedNames) \in Nat /\ Cardinality(CompletedNames) <= Len(completed)
         /\ SizesFor(completed) \in [CompletedNames -> Nat]
         /\ SumFunction(SizesFor(completed)) \in Nat
<1>1. completed \in Seq(CompletedCaptures) /\ InOrder(completed)
  BY DEF DirectoryTypeOK, CompletedInOrder
<1>2. /\ CompletedNames \subseteq Int /\ IsFiniteSet(CompletedNames)
      /\ Cardinality(CompletedNames) <= Len(completed)
      /\ SizesFor(completed) \in [CompletedNames -> Nat]
  BY <1>1, SizesAre DEF CompletedNames
<1>3. QED
  BY <1>2, SumIsNat, FS_CardinalityType

LEMMA RetentionPromise == RetentionIInv => RetentionInv
<1>1. SUFFICES ASSUME RetentionIInv PROVE RetentionInv
  OBVIOUS
<1>. USE <1>1 DEF RetentionIInv
<1>2. CapturesThere \subseteq DOMAIN files
  BY DEF CapturesThere
<1>3. WithinLimits
  <2>1. SUFFICES ASSUME capturing = "open", room = NoRoom
                 PROVE  LET counted == CapturesThere \ failedToDelete
                        IN  /\ limits.files # NoLimit => Cardinality(counted) <= limits.files
                            /\ limits.bytes # NoLimit => SumFunction(SizesOf(counted)) <= limits.bytes
    BY DEF WithinLimits
  <2>. DEFINE counted == CapturesThere \ failedToDelete
              rest == counted \ {current}
  <2>2. ~room.opening
    BY <2>1 DEF NoRoom
  <2>3. counted \subseteq CompletedNames \cup {current}
    BY <2>1 DEF CompletedAreThere
  <2>4. counted \subseteq DOMAIN files /\ IsFiniteSet(counted)
    <3>1. counted \in SUBSET DOMAIN files
      BY <1>2
    <3>2. QED
      BY <3>1, FS_Subset DEF DirectoryTypeOK
  <2>5. ASSUME limits.files # NoLimit PROVE Cardinality(counted) <= limits.files
    <3>1. Cardinality(CompletedNames \cup {current}) <= Cardinality(CompletedNames) + 1
          /\ IsFiniteSet(CompletedNames \cup {current})
      <4>1. IsFiniteSet(CompletedNames) /\ Cardinality(CompletedNames) \in Nat
        BY CompletedSumsUp
      <4>2. /\ IsFiniteSet(CompletedNames \cup {current})
            /\ Cardinality(CompletedNames \cup {current}) =
                 IF current \in CompletedNames THEN Cardinality(CompletedNames) ELSE Cardinality(CompletedNames) + 1
        BY <4>1, FS_AddElement
      <4>3. QED
        BY <4>1, <4>2
    <3>2. Cardinality(counted) <= Cardinality(CompletedNames \cup {current})
      BY <2>3, <3>1, FS_Subset
    <3>3. Cardinality(counted) \in Nat /\ Cardinality(CompletedNames \cup {current}) \in Nat
      BY <2>4, <3>1, FS_CardinalityType
    <3>4. Len(completed) < limits.files /\ limits.files \in Nat /\ Len(completed) \in Nat
      BY <2>1, <2>2, <2>5, LimitsAre DEF TotalCounts, DirectoryTypeOK
    <3>. HIDE DEF counted
    <3>5. QED
      BY <3>1, <3>2, <3>3, <3>4, CompletedSumsUp
  <2>6. ASSUME limits.bytes # NoLimit PROVE SumFunction(SizesOf(counted)) <= limits.bytes
    <3>. DEFINE g == SizesOf(counted)
    <3>1. g \in [counted -> Nat] /\ \A y \in counted : g[y] = files[y].size
      BY <2>4 DEF SizesOf, DirectoryTypeOK, CaptureFiles
    <3>2. \A y \in rest : g[y] = SizesFor(completed)[y]
      <4>1. ASSUME NEW y \in rest PROVE g[y] = SizesFor(completed)[y]
        <5>1. y \in NamesOf(completed) /\ y \in DOMAIN files /\ g[y] = files[y].size
          BY <2>3, <2>4, <3>1 DEF CompletedNames
        <5>2. PICK i \in DOMAIN completed : completed[i].name = y
          BY <5>1 DEF NamesOf
        <5>3. completed[i].size = files[y].size
          BY <5>1, <5>2 DEF CompletedAreThere
        <5>4. SizesFor(completed)[completed[i].name] = completed[i].size
          BY SizesAre DEF DirectoryTypeOK, CompletedInOrder
        <5>5. QED
          BY <5>1, <5>2, <5>3, <5>4
      <4>2. QED
        BY <4>1
    <3>. HIDE DEF g
    <3>3. [y \in rest |-> g[y]] = [y \in rest |-> SizesFor(completed)[y]]
      BY <3>2
    <3>4. rest \in SUBSET CompletedNames
      BY <2>3
    <3>. DEFINE ofRest == SumFunction([y \in rest |-> g[y]])
    <3>5. ofRest <= SumFunction(SizesFor(completed))
      BY <3>3, <3>4, CompletedSumsUp, FewerSumToLess
    <3>6. current \in counted =>
            SumFunction(g) = g[current] + ofRest /\ ofRest \in Nat
      BY <2>4, <3>1, SumTakesOut
    <3>7. current \notin counted => SumFunction(g) = ofRest /\ ofRest \in Nat
      <4>1. current \notin counted => rest = counted /\ [y \in counted |-> g[y]] = g
        BY <3>1
      <4>2. SumFunction(g) \in Nat
        BY <2>4, <3>1, SumIsNat
      <4>3. QED
        BY <4>1, <4>2
    <3>8. total = SumFunction(SizesFor(completed)) + files[current].size /\ total <= limits.bytes
      BY <2>1, <2>2, <2>6 DEF TotalCounts, OpenBytes
    <3>9. files[current].size \in Nat /\ limits.bytes \in Nat
      <4>1. current \in DOMAIN files
        BY <2>1, <2>2 DEF RoomMade
      <4>2. QED
        BY <2>6, <4>1, LimitsAre DEF DirectoryTypeOK, CaptureFiles
    <3>10. current \in counted => g[current] = files[current].size
      BY <3>1
    <3>. HIDE DEF ofRest, counted
    <3>11. SumFunction(g) <= limits.bytes
      BY <3>5, <3>6, <3>7, <3>8, <3>9, <3>10, CompletedSumsUp
    <3>12. QED
      BY <3>11 DEF g
  <2>7. QED
    BY <2>5, <2>6
<1>4. RefusedForItsOwnSize
  <2>1. SUFFICES ASSUME capturing = "refused"
                 PROVE  /\ room.bytes + (IF room.opening THEN 0 ELSE files[current].size) > limits.bytes
                        /\ CapturesThere \ failedToDelete \subseteq {current}
    BY DEF RefusedForItsOwnSize
  <2>2. completed = <<>> /\ total + room.bytes > limits.bytes /\ total = SumFunction(SizesFor(completed)) + OpenBytes
    BY <2>1 DEF TotalCounts
  <2>3. CompletedNames = {}
    BY <2>2 DEF CompletedNames, NamesOf
  <2>4. SumFunction(SizesFor(completed)) = 0
    <3>1. DOMAIN SizesFor(completed) = {}
      BY <2>3 DEF SizesFor, CompletedNames
    <3>2. QED
      BY <3>1, SumOfNone
  <2>5. CapturesThere \ failedToDelete \subseteq {current}
    BY <2>1, <2>3 DEF CompletedAreThere
  <2>6. OpenBytes \in Nat /\ room.bytes \in Nat
    BY <2>1 DEF OpenBytes, RoomMade, DirectoryTypeOK, CaptureFiles
  <2>7. QED
    BY <2>2, <2>4, <2>5, <2>6 DEF OpenBytes
<1>5. QED
  BY <1>3, <1>4 DEF RetentionInv

-----------------------------------------------------------------------------
(***************************************************************************)
(* It starts so, and every step keeps it.                                  *)
(***************************************************************************)
LEMMA DirectoryConstants ==
  /\ HeaderBytes \in Nat /\ RecordBytes \in Nat /\ MaxBytes \in Nat /\ LastCaptureMatch \in Nat
BY DirectoryAssumption DEF DirectoryAssumption

LEMMA RetentionStart == DirectoryInit => RetentionIInv
<1>1. SUFFICES ASSUME DirectoryInit PROVE RetentionIInv
  OBVIOUS
<1>2. /\ files \in [DOMAIN files -> CaptureFiles] /\ IsFiniteSet(DOMAIN files) /\ DOMAIN files \subseteq Int
      /\ \A name \in DOMAIN files : name <= 0
  BY <1>1, DirectoryAssumption DEF DirectoryInit, DirectoryAssumption, CaptureFiles
<1>3. completed = <<>> /\ DOMAIN completed = {} /\ CompletedNames = {} /\ deleted = {} /\ current = 0
  BY <1>1 DEF DirectoryInit, CompletedNames, NamesOf
<1>4. DirectoryTypeOK
  BY <1>1, <1>2 DEF DirectoryInit, DirectoryTypeOK, NoRoom
<1>5. RoomMade /\ TotalCounts
  BY <1>1 DEF DirectoryInit, RoomMade, TotalCounts
<1>6. CompletedInOrder /\ CompletedAreThere
  BY <1>1, <1>2, <1>3 DEF DirectoryInit, CompletedInOrder, CompletedAreThere, InOrder
<1>7. OldestGoFirst
  BY <1>3 DEF OldestGoFirst
<1>8. QED
  BY <1>4, <1>5, <1>6, <1>7 DEF RetentionIInv

LEMMA OpenKeeps == RetentionIInv /\ OpenDirectory => RetentionIInv'
<1>1. SUFFICES ASSUME RetentionIInv, OpenDirectory PROVE RetentionIInv'
  OBVIOUS
<1>. USE <1>1 DEF RetentionIInv
<1>. DEFINE found == CapturesThere \ {current + 1}
            scan == Scan(current + 1)
<1>2. /\ current' = current + 1 /\ completed' = scan /\ total' = SumFunction(SizesOf(found))
      /\ room' = [bytes |-> HeaderBytes, opening |-> TRUE] /\ capturing' = "open"
      /\ deleted' = {} /\ failedToDelete' = {} /\ files' = files /\ limits' = limits
  BY DEF OpenDirectory
<1>3. /\ scan \in Seq(CompletedCaptures) /\ NamesOf(scan) = found /\ InOrder(scan)
      /\ \A i \in DOMAIN scan : scan[i].size = files[scan[i].name].size
  BY ScanFinds DEF DirectoryTypeOK, NamesOf, InOrder
<1>4. found \in SUBSET DOMAIN files /\ IsFiniteSet(found)
  <2>1. found \in SUBSET DOMAIN files
    BY DEF CapturesThere
  <2>2. QED
    BY <2>1, FS_Subset DEF DirectoryTypeOK
<1>. HIDE DEF scan
<1>5. SizesFor(scan) = SizesOf(found)
  <2>1. ASSUME NEW name \in found PROVE SizesFor(scan)[name] = files[name].size
    <3>1. PICK i \in DOMAIN scan : scan[i].name = name
      BY <1>3 DEF NamesOf
    <3>2. QED
      BY <1>3, <3>1, SizesAre
  <2>2. SizesFor(scan) = [name \in NamesOf(scan) |-> SizesFor(scan)[name]]
    BY DEF SizesFor
  <2>3. QED
    BY <1>3, <2>1, <2>2 DEF SizesOf
<1>6. SumFunction(SizesOf(found)) \in Nat
  <2>1. SizesOf(found) \in [found -> Nat]
    BY <1>4 DEF SizesOf, DirectoryTypeOK, CaptureFiles
  <2>2. QED
    BY <1>4, <2>1, SumIsNat
<1>. HIDE DEF found
<1>7. DirectoryTypeOK'
  BY <1>2, <1>3, <1>6, DirectoryConstants DEF DirectoryTypeOK
<1>8. RoomMade'
  BY <1>2 DEF RoomMade
<1>9. CompletedNames' = found /\ \A name \in DOMAIN files : name <= current /\ name \in Int
  BY <1>2, <1>3 DEF CompletedNames, CompletedInOrder, DirectoryTypeOK
<1>10. CompletedInOrder'
  <2>1. \A name \in found : name < current + 1
    BY <1>4, <1>9 DEF DirectoryTypeOK
  <2>2. \A name \in DOMAIN files : name <= current + 1
    BY <1>9 DEF DirectoryTypeOK
  <2>3. QED
    BY <1>2, <1>3, <1>9, <2>1, <2>2 DEF CompletedInOrder
<1>11. CompletedAreThere'
  <2>1. CapturesThere' = CapturesThere
    BY <1>2 DEF CapturesThere
  <2>2. CapturesThere' \subseteq CompletedNames' \cup {current'} \cup failedToDelete'
    BY <1>2, <1>9, <2>1 DEF found
  <2>3. QED
    BY <1>2, <1>3, <2>2 DEF CompletedAreThere
<1>12. TotalCounts'
  <2>1. OpenBytes' = 0
    BY <1>2 DEF OpenBytes
  <2>2. SumFunction(SizesFor(completed')) = total'
    BY <1>2, <1>5
  <2>3. QED
    BY <1>2, <1>6, <2>1, <2>2 DEF TotalCounts
<1>13. OldestGoFirst'
  BY <1>2 DEF OldestGoFirst
<1>14. QED
  BY <1>7, <1>8, <1>10, <1>11, <1>12, <1>13

(* Room for a record, or for a capture no longer: nothing else changes.    *)
LEMMA ReserveKeeps == RetentionIInv /\ Reserve => RetentionIInv'
<1>1. SUFFICES ASSUME RetentionIInv, Reserve PROVE RetentionIInv'
  OBVIOUS
<1>. USE <1>1 DEF RetentionIInv
<1>2. /\ capturing = "open" /\ room = NoRoom /\ room' = [bytes |-> RecordBytes, opening |-> FALSE]
      /\ UNCHANGED <<files, limits, completed, total, current, capturing, deleted, failedToDelete>>
  BY DEF Reserve
<1>3. ~room.opening /\ ~room'.opening
  BY <1>2 DEF NoRoom
<1>4. DirectoryTypeOK'
  BY <1>2, DirectoryConstants DEF DirectoryTypeOK
<1>5. RoomMade'
  BY <1>2, <1>3 DEF RoomMade
<1>6. CompletedNames' = CompletedNames /\ CapturesThere' = CapturesThere /\ OpenBytes' = OpenBytes
  BY <1>2, <1>3 DEF CompletedNames, CapturesThere, OpenBytes
<1>7. CompletedInOrder' /\ CompletedAreThere' /\ OldestGoFirst'
  BY <1>2, <1>6 DEF CompletedInOrder, CompletedAreThere, OldestGoFirst
<1>8. TotalCounts'
  BY <1>2, <1>3, <1>6 DEF TotalCounts
<1>9. QED
  BY <1>4, <1>5, <1>7, <1>8

(* A file less.                                                            *)
LEMMA FilesLess ==
  ASSUME DirectoryTypeOK, NEW gone, files' = [name \in DOMAIN files \ {gone} |-> files[name]]
  PROVE  /\ files' \in [DOMAIN files' -> CaptureFiles] /\ IsFiniteSet(DOMAIN files') /\ DOMAIN files' \subseteq Int
         /\ DOMAIN files' = DOMAIN files \ {gone}
         /\ \A name \in DOMAIN files' : files'[name] = files[name]
         /\ CapturesThere' = CapturesThere \ {gone}
<1>1. DOMAIN files' = DOMAIN files \ {gone} /\ \A name \in DOMAIN files' : files'[name] = files[name]
  OBVIOUS
<1>2. IsFiniteSet(DOMAIN files')
  <2>1. DOMAIN files' \in SUBSET DOMAIN files
    BY <1>1
  <2>2. QED
    BY <2>1, FS_Subset DEF DirectoryTypeOK
<1>3. QED
  BY <1>1, <1>2 DEF DirectoryTypeOK, CapturesThere

LEMMA DeleteKeeps == RetentionIInv /\ DeleteOldest => RetentionIInv'
<1>1. SUFFICES ASSUME RetentionIInv, DeleteOldest PROVE RetentionIInv'
  OBVIOUS
<1>. USE <1>1 DEF RetentionIInv
<1>. DEFINE oldest == completed[1].name
            size == completed[1].size
            rest == Tail(completed)
<1>2. /\ room # NoRoom /\ Deletions > 0
      /\ total' = total - (IF total < size THEN total ELSE size) /\ completed' = rest
      /\ \/ /\ files' = [name \in DOMAIN files \ {oldest} |-> files[name]]
            /\ deleted' = deleted \cup {oldest} /\ failedToDelete' = failedToDelete
         \/ /\ failedToDelete' = failedToDelete \cup {oldest}
            /\ files' = files /\ deleted' = deleted
      /\ limits' = limits /\ current' = current /\ room' = room /\ capturing' = capturing
  BY DEF DeleteOldest
<1>3. completed # <<>> /\ capturing = "open" /\ completed \in Seq(CompletedCaptures) /\ InOrder(completed)
  <2>1. completed # <<>>
    BY <1>2, DeletionsAre DEF DirectoryTypeOK
  <2>2. QED
    BY <1>2, <2>1 DEF DirectoryTypeOK, RoomMade, TotalCounts, CompletedInOrder
<1>4. /\ oldest \in CompletedNames /\ size \in Nat
      /\ rest \in Seq(CompletedCaptures) /\ InOrder(rest) /\ Len(rest) < Len(completed)
      /\ NamesOf(rest) = CompletedNames \ {oldest} /\ \A name \in NamesOf(rest) : oldest < name
      /\ \A i \in DOMAIN rest : \E j \in DOMAIN completed : rest[i] = completed[j]
      /\ SumFunction(SizesFor(completed)) = size + SumFunction(SizesFor(rest))
      /\ SumFunction(SizesFor(rest)) \in Nat
  BY <1>3, OldestTakenOut DEF CompletedNames
<1>5. oldest \in Int /\ oldest < current
  BY <1>4, CompletedSumsUp DEF CompletedInOrder
<1>. HIDE DEF oldest, size, rest
<1>6. CompletedNames' = CompletedNames \ {oldest}
  BY <1>2, <1>4 DEF CompletedNames
<1>7. /\ files' \in [DOMAIN files' -> CaptureFiles] /\ IsFiniteSet(DOMAIN files') /\ DOMAIN files' \subseteq DOMAIN files
      /\ \A name \in DOMAIN files' : files'[name] = files[name]
      /\ CapturesThere' \subseteq CapturesThere
      /\ oldest \in CapturesThere' => oldest \in failedToDelete'
      /\ current \in DOMAIN files => current \in DOMAIN files'
  <2>1. CASE files' = [name \in DOMAIN files \ {oldest} |-> files[name]]
    <3>1. oldest # current
      BY <1>5 DEF DirectoryTypeOK
    <3>2. QED
      BY <2>1, <3>1, FilesLess
  <2>2. CASE files' = files /\ failedToDelete' = failedToDelete \cup {oldest}
    BY <2>2 DEF DirectoryTypeOK, CapturesThere
  <2>3. QED
    BY <1>2, <2>1, <2>2
<1>8. failedToDelete \subseteq failedToDelete' /\ deleted' \subseteq deleted \cup {oldest}
  BY <1>2
<1>9. OpenBytes' = OpenBytes /\ OpenBytes \in Nat
  <2>1. ~room.opening => current \in DOMAIN files /\ files'[current] = files[current] /\ files[current].size \in Nat
    BY <1>3, <1>7 DEF RoomMade, DirectoryTypeOK, CaptureFiles
  <2>2. QED
    BY <1>2, <2>1 DEF OpenBytes
<1>10. total' = SumFunction(SizesFor(completed')) + OpenBytes' /\ total' <= total /\ total' \in Nat
  <2>1. total = size + SumFunction(SizesFor(rest)) + OpenBytes
    BY <1>3, <1>4 DEF TotalCounts
  <2>2. total' = total - size
    BY <1>2, <1>4, <1>9, <2>1
  <2>3. completed' = rest
    BY <1>2
  <2>4. total' = SumFunction(SizesFor(rest)) + OpenBytes /\ total' <= total /\ total' \in Nat
    BY <1>4, <1>9, <2>1, <2>2
  <2>5. QED
    BY <1>9, <2>3, <2>4
<1>11. DirectoryTypeOK'
  BY <1>2, <1>4, <1>5, <1>7, <1>8, <1>10 DEF DirectoryTypeOK
<1>12. RoomMade'
  BY <1>2, <1>7 DEF RoomMade
<1>13. CompletedInOrder'
  <2>1. \A gone \in deleted', name \in CompletedNames' : gone < name
    BY <1>2, <1>4, <1>6, <1>8 DEF CompletedInOrder
  <2>2. \A name \in CompletedNames' \cup deleted' : name < current
    BY <1>5, <1>6, <1>8 DEF CompletedInOrder
  <2>3. QED
    BY <1>2, <1>4, <1>7, <2>1, <2>2 DEF CompletedInOrder
<1>14. CompletedAreThere'
  <2>1. \A i \in DOMAIN completed' :
          completed'[i].name \in DOMAIN files' => files'[completed'[i].name].size = completed'[i].size
    BY <1>2, <1>4, <1>7 DEF CompletedAreThere
  <2>2. CapturesThere \subseteq CompletedNames \cup {current} \cup failedToDelete
    BY <1>3 DEF CompletedAreThere
  <2>3. CapturesThere' \subseteq CompletedNames' \cup {current'} \cup failedToDelete'
    BY <1>2, <1>6, <1>7, <1>8, <2>2
  <2>4. QED
    BY <2>1, <2>3 DEF CompletedAreThere
<1>15. TotalCounts'
  BY <1>2, <1>3, <1>4, <1>10, LimitsAre DEF TotalCounts, DirectoryTypeOK
<1>16. OldestGoFirst'
  <2>1. ASSUME NEW gone \in deleted', NEW left \in CapturesThere', left < gone
        PROVE  left \in failedToDelete'
    <3>1. CASE gone \in deleted
      BY <1>7, <1>8, <2>1, <3>1 DEF OldestGoFirst
    <3>2. CASE gone = oldest
      <4>1. left \in CompletedNames \cup {current} \cup failedToDelete
        BY <1>3, <1>7 DEF CompletedAreThere
      <4>2. left # current
        BY <1>5, <2>1, <3>2 DEF DirectoryTypeOK
      <4>3. left \in CompletedNames => left = oldest \/ (left \in NamesOf(rest) /\ oldest < left /\ left \in Int)
        BY <1>4, CompletedSumsUp
      <4>4. left \notin CompletedNames
        BY <1>5, <2>1, <3>2, <4>3
      <4>5. QED
        BY <1>8, <4>1, <4>2, <4>4
    <3>3. QED
      BY <1>8, <3>1, <3>2
  <2>2. current' \notin deleted'
    BY <1>2, <1>5, <1>8 DEF OldestGoFirst, DirectoryTypeOK
  <2>3. QED
    BY <2>1, <2>2 DEF OldestGoFirst
<1>17. QED
  BY <1>11, <1>12, <1>13, <1>14, <1>15, <1>16

(* What an open capture has room for is within the limits.                 *)
LEMMA FitsWithin ==
  ASSUME RetentionIInv, room # NoRoom, Deletions = 0, FitsAfter(0)
  PROVE  /\ capturing = "open" /\ total + room.bytes \in Nat
         /\ limits.files # NoLimit => Len(completed) < limits.files
         /\ limits.bytes # NoLimit => total + room.bytes <= limits.bytes
<1>. USE DEF RetentionIInv
<1>1. capturing \in {"open", "refused"} /\ total \in Nat /\ room.bytes \in Nat
  BY DEF RoomMade, DirectoryTypeOK
<1>2. limits.bytes # NoLimit => total + room.bytes <= limits.bytes
  BY NothingLeftOut DEF FitsAfter
<1>3. capturing # "refused"
  <2>1. capturing = "refused" => limits.bytes # NoLimit /\ total + room.bytes > limits.bytes
    BY DEF TotalCounts
  <2>2. QED
    BY <1>1, <1>2, <2>1, LimitsAre
<1>4. limits.files # NoLimit => Len(completed) < limits.files
  <2>1. CASE room.opening
    <3>1. limits.files # NoLimit => Len(completed) - 0 < limits.files
      BY <2>1, DeletionsAre DEF EnoughGone
    <3>2. Len(completed) \in Nat
      BY DEF DirectoryTypeOK
    <3>3. QED
      BY <3>1, <3>2, LimitsAre
  <2>2. CASE ~room.opening
    BY <1>1, <1>3, <2>2 DEF TotalCounts
  <2>3. QED
    BY <2>1, <2>2
<1>5. QED
  BY <1>1, <1>2, <1>3, <1>4

LEMMA WriteKeeps == RetentionIInv /\ WriteWhatFits => RetentionIInv'
<1>1. SUFFICES ASSUME RetentionIInv, WriteWhatFits PROVE RetentionIInv'
  OBVIOUS
<1>. USE <1>1 DEF RetentionIInv
<1>. DEFINE before == IF room.opening THEN 0 ELSE files[current].size
<1>2. /\ room # NoRoom /\ Deletions = 0 /\ FitsAfter(0)
      /\ total' = total + room.bytes /\ room' = NoRoom
      /\ UNCHANGED <<limits, completed, current, deleted, failedToDelete>>
  BY DEF WriteWhatFits
<1>3. PICK reached \in 0 .. room.bytes :
        /\ files' = [name \in DOMAIN files \cup {current} |->
                      IF name = current
                      THEN [size |-> before + reached, capture |-> before + reached > 0]
                      ELSE files[name]]
        /\ capturing' = IF reached = room.bytes THEN "open" ELSE "stopped"
  BY DEF WriteWhatFits
<1>4. before \in Nat /\ before = OpenBytes /\ reached \in Nat /\ before + reached \in Nat
  <2>1. ~room.opening => files[current].size \in Nat
    BY <1>2, FitsWithin DEF RoomMade, DirectoryTypeOK, CaptureFiles
  <2>2. room.bytes \in Nat
    BY DEF DirectoryTypeOK
  <2>3. before \in Nat /\ before = OpenBytes
    BY <2>1 DEF OpenBytes
  <2>. HIDE DEF before
  <2>4. QED
    BY <2>2, <2>3
<1>. HIDE DEF before
<1>5. /\ DOMAIN files' = DOMAIN files \cup {current}
      /\ files'[current] = [size |-> before + reached, capture |-> before + reached > 0]
      /\ \A name \in DOMAIN files \ {current} : files'[name] = files[name]
      /\ \A name \in DOMAIN files' : name # current => name \in DOMAIN files /\ files'[name] = files[name]
  BY <1>3
<1>6. DirectoryTypeOK'
  <2>1. files' \in [DOMAIN files' -> CaptureFiles]
    <3>1. files'[current] \in CaptureFiles
      BY <1>4, <1>5 DEF CaptureFiles
    <3>2. \A name \in DOMAIN files' : files'[name] \in CaptureFiles
      BY <1>5, <3>1 DEF DirectoryTypeOK
    <3>3. files' = [name \in DOMAIN files' |-> files'[name]]
      BY <1>3
    <3>4. QED
      BY <3>2, <3>3
  <2>2. IsFiniteSet(DOMAIN files') /\ DOMAIN files' \subseteq Int
    <3>1. IsFiniteSet(DOMAIN files) /\ DOMAIN files \subseteq Int /\ current \in Int
      BY DEF DirectoryTypeOK
    <3>2. IsFiniteSet(DOMAIN files \cup {current}) /\ DOMAIN files \cup {current} \subseteq Int
      BY <3>1, FS_AddElement
    <3>3. QED
      BY <1>5, <3>2
  <2>3. room' \in [bytes : Nat, opening : BOOLEAN] /\ capturing' \in {"closed", "open", "refused", "stopped"}
    BY <1>2, <1>3 DEF NoRoom
  <2>4. total' \in Nat
    BY <1>2, FitsWithin
  <2>5. QED
    BY <1>2, <2>1, <2>2, <2>3, <2>4 DEF DirectoryTypeOK
<1>7. ~room'.opening
  BY <1>2 DEF NoRoom
<1>8. RoomMade'
  BY <1>2, <1>3, <1>5 DEF RoomMade
<1>9. CompletedNames' = CompletedNames /\ (\A name \in CompletedNames \cup deleted : name < current)
  BY <1>2 DEF CompletedNames, CompletedInOrder
<1>10. current \in Int /\ current \notin CompletedNames /\ current \notin deleted
  BY <1>9 DEF DirectoryTypeOK
<1>11. CapturesThere' \subseteq CapturesThere \cup {current}
  BY <1>5 DEF CapturesThere
<1>12. CompletedInOrder'
  <2>1. \A name \in DOMAIN files' : name <= current
    BY <1>5, <1>10 DEF CompletedInOrder
  <2>2. QED
    BY <1>2, <1>9, <2>1 DEF CompletedInOrder
<1>13. CompletedAreThere'
  <2>1. ASSUME NEW i \in DOMAIN completed, completed[i].name \in DOMAIN files'
        PROVE  files'[completed[i].name].size = completed[i].size
    <3>1. completed[i].name # current
      BY <1>10 DEF CompletedNames, NamesOf
    <3>2. QED
      BY <1>5, <2>1, <3>1 DEF CompletedAreThere
  <2>2. CapturesThere \subseteq CompletedNames \cup {current} \cup failedToDelete
    BY <1>2, FitsWithin DEF CompletedAreThere
  <2>3. CapturesThere' \subseteq CompletedNames' \cup {current'} \cup failedToDelete'
    BY <1>2, <1>9, <1>11, <2>2
  <2>4. QED
    BY <1>2, <2>1, <2>3 DEF CompletedAreThere
<1>14. TotalCounts'
  <2>1. total = SumFunction(SizesFor(completed)) + before
    BY <1>2, <1>4, FitsWithin DEF TotalCounts
  <2>2. capturing' = "open" => reached = room.bytes
    BY <1>3
  <2>3. OpenBytes' = before + reached
    BY <1>2, <1>5, <1>7 DEF OpenBytes
  <2>4. SumFunction(SizesFor(completed')) = SumFunction(SizesFor(completed))
    BY <1>2
  <2>5. capturing' = "open" => total' = SumFunction(SizesFor(completed')) + OpenBytes'
    BY <1>2, <1>4, <2>1, <2>2, <2>3, <2>4, CompletedSumsUp
  <2>6. capturing' # "refused"
    BY <1>3
  <2>7. /\ limits'.files # NoLimit => Len(completed') < limits'.files
        /\ limits'.bytes # NoLimit => total' <= limits'.bytes
    BY <1>2, FitsWithin
  <2>8. QED
    BY <2>5, <2>6, <2>7 DEF TotalCounts
<1>15. OldestGoFirst'
  <2>1. ASSUME NEW gone \in deleted, NEW left \in CapturesThere', left < gone PROVE left \in failedToDelete
    <3>1. left # current
      BY <1>9, <1>10, <2>1 DEF DirectoryTypeOK
    <3>2. QED
      BY <1>11, <2>1, <3>1 DEF OldestGoFirst
  <2>2. QED
    BY <1>2, <1>10, <2>1 DEF OldestGoFirst
<1>16. QED
  BY <1>6, <1>8, <1>12, <1>13, <1>14, <1>15

(* The file could not be created, or the process is another's: nothing     *)
(* more is asked of the captures completed.                                *)
LEMMA CannotCreateKeeps == RetentionIInv /\ CannotCreate => RetentionIInv'
<1>1. SUFFICES ASSUME RetentionIInv, CannotCreate PROVE RetentionIInv'
  OBVIOUS
<1>. USE <1>1 DEF RetentionIInv
<1>2. /\ room # NoRoom /\ Deletions = 0 /\ FitsAfter(0)
      /\ total' = total + room.bytes /\ capturing' = "stopped" /\ room' = NoRoom
      /\ UNCHANGED <<files, limits, completed, current, deleted, failedToDelete>>
  BY DEF CannotCreate
<1>3. CompletedNames' = CompletedNames /\ CapturesThere' = CapturesThere
  BY <1>2 DEF CompletedNames, CapturesThere
<1>4. DirectoryTypeOK'
  BY <1>2, FitsWithin DEF DirectoryTypeOK, NoRoom
<1>5. RoomMade' /\ TotalCounts'
  BY <1>2 DEF RoomMade, TotalCounts
<1>6. CompletedInOrder' /\ CompletedAreThere' /\ OldestGoFirst'
  BY <1>2, <1>3 DEF CompletedInOrder, CompletedAreThere, OldestGoFirst
<1>7. QED
  BY <1>4, <1>5, <1>6

LEMMA NoneFitsKeeps == RetentionIInv /\ NoneFits => RetentionIInv'
<1>1. SUFFICES ASSUME RetentionIInv, NoneFits PROVE RetentionIInv'
  OBVIOUS
<1>. USE <1>1 DEF RetentionIInv
<1>2. /\ room # NoRoom /\ Deletions = 0 /\ ~FitsAfter(0) /\ capturing' = "refused"
      /\ UNCHANGED <<files, limits, completed, total, current, room, deleted, failedToDelete>>
  BY DEF NoneFits
<1>3. capturing \in {"open", "refused"}
  BY <1>2 DEF RoomMade, DirectoryTypeOK
<1>4. completed = <<>>
  BY <1>2, DeletionsAre DEF DirectoryTypeOK
<1>5. limits.bytes # NoLimit /\ total + room.bytes > limits.bytes
  <2>1. limits.bytes # NoLimit /\ ~(total + room.bytes <= limits.bytes)
    BY <1>2, NothingLeftOut DEF FitsAfter
  <2>2. QED
    BY <2>1, LimitsAre DEF DirectoryTypeOK
<1>6. CompletedNames' = CompletedNames /\ CapturesThere' = CapturesThere /\ OpenBytes' = OpenBytes
  BY <1>2 DEF CompletedNames, CapturesThere, OpenBytes
<1>7. DirectoryTypeOK' /\ RoomMade'
  BY <1>2, <1>3 DEF DirectoryTypeOK, RoomMade
<1>8. CompletedInOrder' /\ CompletedAreThere' /\ OldestGoFirst'
  BY <1>2, <1>3, <1>6 DEF CompletedInOrder, CompletedAreThere, OldestGoFirst
<1>9. TotalCounts'
  BY <1>2, <1>3, <1>4, <1>5, <1>6 DEF TotalCounts
<1>10. QED
  BY <1>7, <1>8, <1>9

LEMMA CloseKeeps == RetentionIInv /\ CloseMatch => RetentionIInv'
<1>1. SUFFICES ASSUME RetentionIInv, CloseMatch PROVE RetentionIInv'
  OBVIOUS
<1>. USE <1>1 DEF RetentionIInv
<1>2. /\ capturing' = "closed" /\ room' = NoRoom
      /\ UNCHANGED <<files, limits, completed, total, current, deleted, failedToDelete>>
  BY DEF CloseMatch
<1>3. CompletedNames' = CompletedNames /\ CapturesThere' = CapturesThere
  BY <1>2 DEF CompletedNames, CapturesThere
<1>4. DirectoryTypeOK' /\ RoomMade' /\ TotalCounts'
  BY <1>2 DEF DirectoryTypeOK, RoomMade, TotalCounts, NoRoom
<1>5. CompletedInOrder' /\ CompletedAreThere' /\ OldestGoFirst'
  BY <1>2, <1>3 DEF CompletedInOrder, CompletedAreThere, OldestGoFirst
<1>6. QED
  BY <1>4, <1>5

LEMMA RestartKeeps == RetentionIInv /\ RestartServer => RetentionIInv'
<1>1. SUFFICES ASSUME RetentionIInv, RestartServer PROVE RetentionIInv'
  OBVIOUS
<1>. USE <1>1 DEF RetentionIInv
<1>2. /\ completed' = <<>> /\ total' = 0 /\ room' = NoRoom /\ capturing' = "closed"
      /\ deleted' = {} /\ failedToDelete' = {} /\ UNCHANGED <<files, limits, current>>
  BY DEF RestartServer
<1>3. CompletedNames' = {} /\ DOMAIN completed' = {}
  BY <1>2 DEF CompletedNames, NamesOf
<1>4. DirectoryTypeOK' /\ RoomMade' /\ TotalCounts'
  BY <1>2 DEF DirectoryTypeOK, RoomMade, TotalCounts, NoRoom
<1>5. CompletedInOrder' /\ CompletedAreThere' /\ OldestGoFirst'
  BY <1>2, <1>3 DEF CompletedInOrder, CompletedAreThere, OldestGoFirst, InOrder
<1>6. QED
  BY <1>4, <1>5

LEMMA OperatorKeeps == RetentionIInv /\ OperatorRemoves => RetentionIInv'
<1>1. SUFFICES ASSUME RetentionIInv, OperatorRemoves PROVE RetentionIInv'
  OBVIOUS
<1>. USE <1>1 DEF RetentionIInv
<1>2. PICK gone \in CapturesThere \ {current} : files' = [other \in DOMAIN files \ {gone} |-> files[other]]
  BY DEF OperatorRemoves
<1>3. UNCHANGED <<limits, completed, total, current, room, capturing, deleted, failedToDelete>>
  BY DEF OperatorRemoves
<1>4. /\ files' \in [DOMAIN files' -> CaptureFiles] /\ IsFiniteSet(DOMAIN files') /\ DOMAIN files' \subseteq Int
      /\ DOMAIN files' = DOMAIN files \ {gone} /\ CapturesThere' = CapturesThere \ {gone}
      /\ \A name \in DOMAIN files' : files'[name] = files[name]
  BY <1>2, FilesLess
<1>5. (current \in DOMAIN files <=> current \in DOMAIN files') /\ CompletedNames' = CompletedNames
  BY <1>2, <1>3, <1>4 DEF CompletedNames
<1>6. DirectoryTypeOK' /\ RoomMade'
  BY <1>3, <1>4, <1>5 DEF DirectoryTypeOK, RoomMade
<1>7. CompletedInOrder' /\ CompletedAreThere' /\ OldestGoFirst'
  BY <1>3, <1>4, <1>5 DEF CompletedInOrder, CompletedAreThere, OldestGoFirst
<1>8. capturing \in {"open", "refused"} => OpenBytes' = OpenBytes
  BY <1>3, <1>4, <1>5 DEF OpenBytes, RoomMade
<1>9. TotalCounts'
  BY <1>3, <1>8 DEF TotalCounts
<1>10. QED
  BY <1>6, <1>7, <1>9

LEMMA RetentionStep == RetentionIInv /\ [DirectoryNext]_directoryVars => RetentionIInv'
<1>1. ASSUME RetentionIInv, UNCHANGED directoryVars PROVE RetentionIInv'
  <2>1. CompletedNames' = CompletedNames /\ CapturesThere' = CapturesThere /\ OpenBytes' = OpenBytes
    BY <1>1 DEF directoryVars, CompletedNames, CapturesThere, OpenBytes
  <2>2. DirectoryTypeOK' /\ RoomMade' /\ TotalCounts'
    BY <1>1, <2>1 DEF RetentionIInv, directoryVars, DirectoryTypeOK, RoomMade, TotalCounts
  <2>3. CompletedInOrder' /\ CompletedAreThere' /\ OldestGoFirst'
    BY <1>1, <2>1 DEF RetentionIInv, directoryVars, CompletedInOrder, CompletedAreThere, OldestGoFirst
  <2>4. QED
    BY <2>2, <2>3 DEF RetentionIInv
<1>2. QED
  BY <1>1, OpenKeeps, ReserveKeeps, DeleteKeeps, WriteKeeps, CannotCreateKeeps, NoneFitsKeeps,
     CloseKeeps, RestartKeeps, OperatorKeeps DEF DirectoryNext

(***************************************************************************)
(* CaptureDirectory keeps what a server may keep, and deletes the oldest   *)
(* first: however full, slow to delete or changed from outside it is.      *)
(***************************************************************************)
THEOREM RetentionInvariant == DirectorySpec => []RetentionInv
<1>1. DirectoryInit => RetentionIInv
  BY RetentionStart
<1>2. RetentionIInv /\ [DirectoryNext]_directoryVars => RetentionIInv'
  BY RetentionStep
<1>3. RetentionIInv => RetentionInv
  BY RetentionPromise
<1>4. QED
  BY <1>1, <1>2, <1>3, PTL DEF DirectorySpec
=============================================================================
