---------------------------- MODULE CommandProofs ----------------------------
(***************************************************************************)
(* Proofs about what a player asks for: an Agent's Intents, which become   *)
(* the commands of its ticks (Intents.tla), and the delivery of commands   *)
(* to the server's ticks (CommandDelivery.tla).                            *)
(***************************************************************************)
EXTENDS Intents, CommandDelivery, Subsequences

-----------------------------------------------------------------------------
(***************************************************************************)
(* Types.                                                                  *)
(***************************************************************************)
Threads == {"agent", "prediction"}
Kinds == {"Move", "MoveTo", "Look", "AimAt", "HoldFire", "Reload", "FireBursts", "Raw", "RawReloading"}
Hows == {"kReplaced", "kArrived", "kBlocked", "kTargetGone", "kDone"}
Flags == BOOLEAN

Intent == [id : 1..MaxIntents, kind : Kinds, nearest : Nat, stuck : Nat, match : Nat, ticks : Nat]
Endings == [id : 1..MaxIntents, ending : Hows]
Comings == [reloads : Nat, aimedIn : SUBSET Nat, streak : Nat]
Views ==
  [match : Nat, inMatch : Flags, ownAlive : Flags, dead : Flags, state : Flags, there : Flags,
   rounds : Nat, reloading : Flags]

HeldTypeOK ==
  /\ held \in [Channels -> Intent \cup {Nothing}]
  /\ \A channel \in Channels : held[channel] # Nothing => held[channel].kind \in KindsOf[channel]

OwedTypeOK == owed \in [Threads -> Seq(Endings)]
ToldTypeOK == toldHow \in [1..MaxIntents -> Seq(Hows)]
ViewTypeOK == serverView \in Views
DoneTypeOK == done \in [1..MaxIntents -> Comings]

IntentsTypeOK ==
  HeldTypeOK /\ OwedTypeOK /\ ToldTypeOK /\ intentsSet \in 0..MaxIntents /\ ViewTypeOK /\ DoneTypeOK

(***************************************************************************)
(* No Intent is held by two channels, or owed twice by one thread, and     *)
(* each one set is in one place.                                           *)
(***************************************************************************)
Is(p) == IF p THEN 1 ELSE 0

IsHeld(id) == \E channel \in Channels : held[channel].id = id
Placed(id) == Is(IsHeld(id)) + Len(toldHow[id]) + Is(id \in OwedIds("agent")) + Is(id \in OwedIds("prediction"))

HeldOnce ==
  \A c, d \in Channels : held[c] # Nothing /\ held[c].id = held[d].id => c = d

OncePerThread ==
  \A thread \in Threads : \A i, j \in DOMAIN owed[thread] : owed[thread][i].id = owed[thread][j].id => i = j

InOnePlace == \A id \in 1..MaxIntents : Placed(id) = Is(id <= intentsSet)

PlacesInv == HeldOnce /\ OncePerThread /\ InOnePlace

(***************************************************************************)
(* What the Commands have of an Intent still held: no reload of one still  *)
(* to press it, the match an AimAt is of and no other, and of FireBursts   *)
(* no longer a streak than its ticks.                                      *)
(***************************************************************************)
NothingYet == [reloads |-> 0, aimedIn |-> {}, streak |-> 0]

SoFar(intent, came) ==
  /\ intent.kind \in {"Reload", "RawReloading"} => came.reloads = 0
  /\ intent.kind = "AimAt" => came.aimedIn \subseteq (IF intent.match = 0 THEN {} ELSE {intent.match})
  /\ intent.kind = "FireBursts" => came.streak <= intent.ticks /\ intent.ticks < BurstTicks + ReleaseTicks

Within(came) ==
  came.reloads <= 1 /\ (\E itsMatch \in Nat : came.aimedIn \subseteq {itsMatch}) /\ came.streak <= BurstTicks

CameInv ==
  /\ \A id \in 1..MaxIntents : Within(done[id]) /\ (id > intentsSet => done[id] = NothingYet)
  /\ \A channel \in Channels : held[channel] # Nothing => SoFar(held[channel], done[held[channel].id])

(* A player alive is in a Match, and matches are counted from one. *)
AliveInAMatch == serverView.ownAlive => serverView.match >= 1

IntentsIInv == IntentsTypeOK /\ PlacesInv /\ CameInv /\ AliveInAMatch /\ RawIsAlone

-----------------------------------------------------------------------------
(***************************************************************************)
(* Types of what the steps make.                                           *)
(***************************************************************************)
LEMMA KindsAreKinds == \A channel \in Channels : KindsOf[channel] \subseteq Kinds
  BY DEF Channels, KindsOf, Kinds

\* An empty channel is one whose Intent has no number.
LEMMA EmptyIsNumberless ==
  ASSUME NEW intent \in Intent \cup {Nothing}
  PROVE  /\ intent = Nothing \/ (intent \in Intent /\ intent.id \in 1..MaxIntents)
         /\ intent = Nothing <=> intent.id = 0
         /\ intent.id \in 0..MaxIntents
<1>1. MaxIntents \in Nat
  BY IntentsAssumption
<1>2. CASE intent = Nothing
  BY <1>1, <1>2 DEF Nothing
<1>3. CASE intent \in Intent
  <2>1. intent.id \in 1..MaxIntents
    BY <1>3 DEF Intent
  <2>2. Nothing.id = 0
    BY DEF Nothing
  <2>. QED
    BY <1>1, <1>3, <2>1, <2>2
<1>. QED
  BY <1>2, <1>3

LEMMA NewIntentTyped ==
  ASSUME NEW id \in 1..MaxIntents, NEW kind \in Kinds
  PROVE  /\ Held(id, kind) \in Intent /\ Held(id, kind).id = id /\ Held(id, kind).kind = kind
         /\ Held(id, kind).match = 0 /\ Held(id, kind).ticks = 0
<1>1. FarthestPoint \in Nat
  BY IntentsAssumption
<1>. QED
  BY <1>1 DEF Held, Intent

LEMMA IntentUpdates ==
  ASSUME NEW intent \in Intent
  PROVE  /\ \A n \in Nat : /\ [intent EXCEPT !.nearest = n, !.stuck = 0] \in Intent
                           /\ [intent EXCEPT !.nearest = n, !.stuck = 0].id = intent.id
                           /\ [intent EXCEPT !.nearest = n, !.stuck = 0].kind = intent.kind
         /\ \A n \in Nat : /\ [intent EXCEPT !.stuck = n] \in Intent
                           /\ [intent EXCEPT !.stuck = n].id = intent.id
                           /\ [intent EXCEPT !.stuck = n].kind = intent.kind
         /\ \A n \in Nat : /\ [intent EXCEPT !.match = n] \in Intent
                           /\ [intent EXCEPT !.match = n].id = intent.id
                           /\ [intent EXCEPT !.match = n].kind = intent.kind
                           /\ [intent EXCEPT !.match = n].match = n
         /\ \A n \in Nat : /\ [intent EXCEPT !.ticks = n] \in Intent
                           /\ [intent EXCEPT !.ticks = n].id = intent.id
                           /\ [intent EXCEPT !.ticks = n].kind = intent.kind
                           /\ [intent EXCEPT !.ticks = n].ticks = n
         /\ \A kind \in Kinds : /\ [intent EXCEPT !.kind = kind] \in Intent
                                /\ [intent EXCEPT !.kind = kind].id = intent.id
                                /\ [intent EXCEPT !.kind = kind].kind = kind
<1>1. ASSUME NEW n \in Nat
      PROVE  /\ [intent EXCEPT !.nearest = n, !.stuck = 0] \in Intent
             /\ [intent EXCEPT !.nearest = n, !.stuck = 0].id = intent.id
             /\ [intent EXCEPT !.nearest = n, !.stuck = 0].kind = intent.kind
  BY DEF Intent
<1>2. ASSUME NEW n \in Nat
      PROVE  /\ [intent EXCEPT !.stuck = n] \in Intent
             /\ [intent EXCEPT !.stuck = n].id = intent.id
             /\ [intent EXCEPT !.stuck = n].kind = intent.kind
  BY DEF Intent
<1>3. ASSUME NEW n \in Nat
      PROVE  /\ [intent EXCEPT !.match = n] \in Intent
             /\ [intent EXCEPT !.match = n].id = intent.id
             /\ [intent EXCEPT !.match = n].kind = intent.kind
             /\ [intent EXCEPT !.match = n].match = n
  BY DEF Intent
<1>4. ASSUME NEW n \in Nat
      PROVE  /\ [intent EXCEPT !.ticks = n] \in Intent
             /\ [intent EXCEPT !.ticks = n].id = intent.id
             /\ [intent EXCEPT !.ticks = n].kind = intent.kind
             /\ [intent EXCEPT !.ticks = n].ticks = n
  BY DEF Intent
<1>5. ASSUME NEW kind \in Kinds
      PROVE  /\ [intent EXCEPT !.kind = kind] \in Intent
             /\ [intent EXCEPT !.kind = kind].id = intent.id
             /\ [intent EXCEPT !.kind = kind].kind = kind
  BY DEF Intent
<1>. QED
  BY <1>1, <1>2, <1>3, <1>4, <1>5

LEMMA ViewUpdates ==
  ASSUME NEW seen \in Views, NEW flag \in Flags
  PROVE  /\ [seen EXCEPT !.dead = flag] \in Views
         /\ [seen EXCEPT !.dead = flag].match = seen.match
         /\ [seen EXCEPT !.dead = flag].ownAlive = seen.ownAlive
         /\ [seen EXCEPT !.ownAlive = flag] \in Views
         /\ [seen EXCEPT !.ownAlive = flag].match = seen.match
         /\ [seen EXCEPT !.ownAlive = flag].ownAlive = flag
  BY DEF Views

LEMMA ARemainder ==
  ASSUME NEW n \in Nat \ {0}, NEW k \in Nat
  PROVE  k % n \in Nat /\ k % n < n /\ (k < n => k % n = k)
  OBVIOUS

LEMMA PlacesAreNumbers ==
  ASSUME IntentsTypeOK, NEW id \in 1..MaxIntents
  PROVE  Len(toldHow[id]) \in Nat
<1>1. toldHow[id] \in Seq(Hows)
  BY DEF IntentsTypeOK, ToldTypeOK
<1>. QED
  BY <1>1

-----------------------------------------------------------------------------
(***************************************************************************)
(* Tells: a sequence of endings has one of each Intent the channels of a   *)
(* set hold, and no other.  What channels apart tell goes together.        *)
(***************************************************************************)
IdsOf(endings) == {endings[i].id : i \in DOMAIN endings}

Tells(endings, channels) ==
  /\ endings \in Seq(Endings)
  /\ \A i, j \in DOMAIN endings : endings[i].id = endings[j].id => i = j
  /\ \A id \in 1..MaxIntents : id \in IdsOf(endings) <=> \E channel \in channels : held[channel].id = id

LEMMA TellsOfNone == Tells(<<>>, {})
  BY DEF Tells, IdsOf

LEMMA TellsOfOne ==
  ASSUME HeldTypeOK, NEW channel \in Channels, NEW how \in Hows
  PROVE  Tells(EndInto(channel, how), {channel})
<1>1. CASE held[channel] = Nothing
  <2>1. EndInto(channel, how) = <<>> /\ held[channel].id = 0
    BY <1>1 DEF EndInto, Nothing
  <2>. QED
    BY <2>1 DEF Tells, IdsOf
<1>2. CASE held[channel] # Nothing
  <2>. DEFINE ending == [id |-> held[channel].id, ending |-> how]
  <2>1. ending \in Endings /\ ending.id = held[channel].id
    BY <1>2, EmptyIsNumberless DEF Endings, HeldTypeOK
  <2>2. EndInto(channel, how) = <<ending>>
    BY <1>2 DEF EndInto
  <2>. HIDE DEF ending
  <2>3. <<ending>> \in Seq(Endings) /\ DOMAIN <<ending>> = {1} /\ <<ending>>[1] = ending
    BY <2>1
  <2>. QED
    BY <2>1, <2>2, <2>3 DEF Tells, IdsOf
<1>. QED
  BY <1>1, <1>2

LEMMA TellsTogether ==
  ASSUME HeldTypeOK, HeldOnce,
         NEW some, NEW others, NEW of \in SUBSET Channels, NEW ofOthers \in SUBSET Channels,
         Tells(some, of), Tells(others, ofOthers), of \cap ofOthers = {}
  PROVE  Tells(some \o others, of \cup ofOthers)
<1>. DEFINE both == some \o others
<1>1. some \in Seq(Endings) /\ others \in Seq(Endings)
  BY DEF Tells
<1>2. /\ both \in Seq(Endings) /\ DOMAIN both = 1..(Len(some) + Len(others))
      /\ DOMAIN some = 1..Len(some) /\ DOMAIN others = 1..Len(others)
      /\ Len(some) \in Nat /\ Len(others) \in Nat
      /\ \A i \in DOMAIN some : i \in DOMAIN both /\ both[i] = some[i]
      /\ \A i \in DOMAIN others : i + Len(some) \in DOMAIN both /\ both[i + Len(some)] = others[i]
      /\ \A i \in DOMAIN both : i <= Len(some) => i \in DOMAIN some
      /\ \A i \in DOMAIN both : i > Len(some) => i - Len(some) \in DOMAIN others /\ both[i] = others[i - Len(some)]
  BY <1>1
<1>. HIDE DEF both
<1>3. /\ \A i \in DOMAIN some : some[i].id \in 1..MaxIntents /\ some[i].id \in IdsOf(some)
      /\ \A i \in DOMAIN others : others[i].id \in 1..MaxIntents /\ others[i].id \in IdsOf(others)
  <2>1. ASSUME NEW endings \in Seq(Endings), NEW i \in DOMAIN endings
        PROVE  endings[i].id \in 1..MaxIntents /\ endings[i].id \in IdsOf(endings)
    <3>1. endings[i] \in Endings
      OBVIOUS
    <3>2. endings[i].id \in 1..MaxIntents
      BY <3>1 DEF Endings
    <3>. QED
      BY <3>2 DEF IdsOf
  <2>. QED
    BY <1>1, <2>1
<1>4. \A id \in 1..MaxIntents : ~(id \in IdsOf(some) /\ id \in IdsOf(others))
  <2>. SUFFICES ASSUME NEW id \in 1..MaxIntents, id \in IdsOf(some), id \in IdsOf(others) PROVE FALSE
    OBVIOUS
  <2>1. PICK c \in of : held[c].id = id
    BY DEF Tells
  <2>2. PICK d \in ofOthers : held[d].id = id
    BY DEF Tells
  <2>3. held[c] # Nothing
    BY <2>1, EmptyIsNumberless DEF HeldTypeOK
  <2>. QED
    BY <2>1, <2>2, <2>3 DEF HeldOnce
<1>5. ASSUME NEW i \in DOMAIN both, NEW j \in DOMAIN both, both[i].id = both[j].id
      PROVE  i = j
  <2>0. i \in Nat /\ j \in Nat
    BY <1>2
  <2>1. CASE i <= Len(some) /\ j <= Len(some)
    <3>1. i \in DOMAIN some /\ j \in DOMAIN some /\ both[i] = some[i] /\ both[j] = some[j]
      BY <1>2, <2>1
    <3>. QED
      BY <1>5, <3>1 DEF Tells
  <2>2. CASE i > Len(some) /\ j > Len(some)
    <3>1. /\ i - Len(some) \in DOMAIN others /\ both[i] = others[i - Len(some)]
          /\ j - Len(some) \in DOMAIN others /\ both[j] = others[j - Len(some)]
      BY <1>2, <2>2
    <3>2. i - Len(some) = j - Len(some)
      BY <1>5, <3>1 DEF Tells
    <3>. QED
      BY <1>2, <2>0, <3>2
  <2>3. CASE i <= Len(some) /\ j > Len(some)
    <3>1. i \in DOMAIN some /\ both[i] = some[i] /\ j - Len(some) \in DOMAIN others /\ both[j] = others[j - Len(some)]
      BY <1>2, <2>3
    <3>. QED
      BY <1>3, <1>4, <1>5, <3>1
  <2>4. CASE i > Len(some) /\ j <= Len(some)
    <3>1. j \in DOMAIN some /\ both[j] = some[j] /\ i - Len(some) \in DOMAIN others /\ both[i] = others[i - Len(some)]
      BY <1>2, <2>4
    <3>. QED
      BY <1>3, <1>4, <1>5, <3>1
  <2>. QED
    BY <1>2, <2>0, <2>1, <2>2, <2>3, <2>4
<1>6. ASSUME NEW id \in 1..MaxIntents
      PROVE  id \in IdsOf(both) <=> (id \in IdsOf(some) \/ id \in IdsOf(others))
  <2>1. ASSUME id \in IdsOf(both) PROVE id \in IdsOf(some) \/ id \in IdsOf(others)
    <3>1. PICK i \in DOMAIN both : both[i].id = id
      BY <2>1 DEF IdsOf
    <3>2. CASE i <= Len(some)
      BY <1>2, <3>1, <3>2 DEF IdsOf
    <3>3. CASE i > Len(some)
      BY <1>2, <3>1, <3>3 DEF IdsOf
    <3>. QED
      BY <1>2, <3>2, <3>3
  <2>2. ASSUME id \in IdsOf(some) PROVE id \in IdsOf(both)
    BY <1>2, <2>2 DEF IdsOf
  <2>3. ASSUME id \in IdsOf(others) PROVE id \in IdsOf(both)
    <3>1. PICK i \in DOMAIN others : others[i].id = id
      BY <2>3 DEF IdsOf
    <3>2. i + Len(some) \in DOMAIN both /\ both[i + Len(some)].id = id
      BY <1>2, <3>1
    <3>. QED
      BY <3>2 DEF IdsOf
  <2>. QED
    BY <2>1, <2>2, <2>3
<1>7. ASSUME NEW id \in 1..MaxIntents
      PROVE  id \in IdsOf(both) <=> \E channel \in of \cup ofOthers : held[channel].id = id
  BY <1>6 DEF Tells
<1>. QED
  BY <1>2, <1>5, <1>7 DEF Tells, both

-----------------------------------------------------------------------------
(***************************************************************************)
(* What is taken out of channels is owed, and what is told no longer.      *)
(***************************************************************************)
LEMMA TheOther ==
  ASSUME NEW thread \in Threads
  PROVE  \E other \in Threads : other # thread /\ Threads = {thread, other}
  BY DEF Threads

LEMMA OwedIdsAre ==
  ASSUME NEW thread
  PROVE  OwedIds(thread) = IdsOf(owed[thread])
  BY DEF OwedIds, IdsOf

(***************************************************************************)
(* A thread with nothing to tell empties channels, one of which may then   *)
(* hold a new Intent.                                                      *)
(***************************************************************************)
EmptiesInto(thread, emptied) ==
  /\ owed[thread] = <<>>
  /\ Tells(owed'[thread], emptied)
  /\ \A other \in Threads \ {thread} : owed'[other] = owed[other]
  /\ \A channel \in Channels \ emptied : held'[channel].id = held[channel].id
  /\ toldHow' = toldHow
  /\ \/ /\ intentsSet' = intentsSet
        /\ \A channel \in emptied : held'[channel].id = 0
     \/ /\ intentsSet' = intentsSet + 1
        /\ \E taker \in emptied :
             /\ held'[taker].id = intentsSet + 1
             /\ \A channel \in emptied \ {taker} : held'[channel].id = 0

LEMMA WhoIsHeldAfter ==
  ASSUME IntentsTypeOK, PlacesInv, HeldTypeOK', intentsSet' \in 0..MaxIntents,
         NEW thread \in Threads, NEW emptied \in SUBSET Channels, EmptiesInto(thread, emptied),
         NEW id \in 1..MaxIntents
  PROVE  /\ id <= intentsSet => /\ IsHeld(id)' <=> \E channel \in Channels \ emptied : held[channel].id = id
                                /\ id <= intentsSet'
         /\ id > intentsSet => /\ IsHeld(id)' <=> id <= intentsSet'
                               /\ ~IsHeld(id)
<1>0. intentsSet \in 0..MaxIntents /\ HeldTypeOK /\ MaxIntents \in Nat
  BY IntentsAssumption DEF IntentsTypeOK
<1>1. id > intentsSet => ~IsHeld(id)
  <2>1. SUFFICES ASSUME id > intentsSet, IsHeld(id) PROVE FALSE
    OBVIOUS
  <2>2. Placed(id) = 0
    BY <1>0, <2>1 DEF PlacesInv, InOnePlace, Is
  <2>3. Len(toldHow[id]) \in Nat
    BY PlacesAreNumbers
  <2>4. /\ Is(IsHeld(id)) = 1 /\ Is(id \in OwedIds("agent")) \in {0, 1}
        /\ Is(id \in OwedIds("prediction")) \in {0, 1}
    BY <2>1 DEF Is
  <2>. QED
    BY <2>2, <2>3, <2>4 DEF Placed
<1>2. \A channel \in Channels \ emptied : held'[channel].id = held[channel].id
  BY DEF EmptiesInto
<1>3. CASE intentsSet' = intentsSet /\ \A channel \in emptied : held'[channel].id = 0
  <2>1. IsHeld(id)' <=> \E channel \in Channels \ emptied : held[channel].id = id
    BY <1>2, <1>3 DEF IsHeld
  <2>2. id > intentsSet => ~IsHeld(id)'
    BY <1>1, <2>1 DEF IsHeld
  <2>. QED
    BY <1>0, <1>1, <1>3, <2>1, <2>2
<1>4. CASE /\ intentsSet' = intentsSet + 1
           /\ \E taker \in emptied :
                /\ held'[taker].id = intentsSet + 1
                /\ \A channel \in emptied \ {taker} : held'[channel].id = 0
  <2>1. PICK taker \in emptied : /\ held'[taker].id = intentsSet + 1
                                 /\ \A channel \in emptied \ {taker} : held'[channel].id = 0
    BY <1>4
  <2>2. IsHeld(id)' <=> (id = intentsSet + 1 \/ \E channel \in Channels \ emptied : held[channel].id = id)
    BY <1>2, <2>1 DEF IsHeld
  <2>3. id > intentsSet => ~\E channel \in Channels \ emptied : held[channel].id = id
    BY <1>1 DEF IsHeld
  <2>4. id > intentsSet => (id = intentsSet + 1 <=> id <= intentsSet')
    BY <1>0, <1>4
  <2>5. id <= intentsSet => id # intentsSet + 1 /\ id <= intentsSet'
    BY <1>0, <1>4
  <2>. QED
    BY <1>1, <2>2, <2>3, <2>4, <2>5
<1>. QED
  BY <1>3, <1>4 DEF EmptiesInto

LEMMA EmptyingKeepsPlaces ==
  ASSUME IntentsTypeOK, PlacesInv, IntentsTypeOK',
         NEW thread \in Threads, NEW emptied \in SUBSET Channels, EmptiesInto(thread, emptied)
  PROVE  PlacesInv'
<1>. USE DEF PlacesInv
<1>0. intentsSet \in 0..MaxIntents /\ HeldTypeOK /\ MaxIntents \in Nat /\ HeldTypeOK' /\ intentsSet' \in 0..MaxIntents
      /\ \A channel \in Channels : held[channel] \in Intent \cup {Nothing} /\ held'[channel] \in Intent \cup {Nothing}
  BY IntentsAssumption DEF IntentsTypeOK, HeldTypeOK
<1>1. PICK other \in Threads : other # thread /\ Threads = {thread, other}
  BY TheOther
<1>2. /\ owed'[other] = owed[other] /\ owed[thread] = <<>> /\ Tells(owed'[thread], emptied)
      /\ toldHow' = toldHow
  BY <1>1 DEF EmptiesInto
<1>3. OncePerThread'
  <2>1. \A i, j \in DOMAIN owed'[thread] : owed'[thread][i].id = owed'[thread][j].id => i = j
    BY <1>2 DEF Tells
  <2>2. \A i, j \in DOMAIN owed'[other] : owed'[other][i].id = owed'[other][j].id => i = j
    BY <1>2 DEF OncePerThread
  <2>. QED
    BY <1>1, <2>1, <2>2 DEF OncePerThread
<1>4. HeldOnce'
  <2>. SUFFICES ASSUME NEW c \in Channels, NEW d \in Channels, held'[c] # Nothing, held'[c].id = held'[d].id
                PROVE  c = d
    BY DEF HeldOnce
  <2>1. held'[c].id # 0 /\ held'[d].id # 0 /\ held'[c].id \in 1..MaxIntents
    <3>1. /\ held'[c] = Nothing <=> held'[c].id = 0
          /\ held'[c].id \in 0..MaxIntents
      BY <1>0, EmptyIsNumberless
    <3>. QED
      BY <3>1, <1>0
  <2>2. CASE c \notin emptied /\ d \notin emptied
    <3>1. held[c].id = held[d].id /\ held[c].id # 0
      BY <2>1, <2>2 DEF EmptiesInto
    <3>2. held[c] # Nothing
      BY <1>0, <3>1, EmptyIsNumberless
    <3>. QED
      BY <3>1, <3>2 DEF HeldOnce
  <2>3. ASSUME NEW c1 \in emptied, NEW d1 \in Channels \ emptied,
               held'[c1].id = held'[d1].id, held'[c1].id # 0
        PROVE  FALSE
    <3>1. held'[c1].id = intentsSet + 1 /\ held'[d1].id = held[d1].id
      BY <2>3 DEF EmptiesInto
    <3>2. held[d1].id = intentsSet + 1 /\ intentsSet + 1 \in 1..MaxIntents
      <4>1. held[d1].id \in 0..MaxIntents
        BY <1>0, EmptyIsNumberless
      <4>2. held[d1].id = intentsSet + 1 /\ intentsSet + 1 >= 1 /\ intentsSet \in Nat
        <5>1. intentsSet \in Nat
          BY <1>0
        <5>2. held[d1].id = intentsSet + 1
          BY <2>3, <3>1
        <5>. QED
          BY <5>1, <5>2
      <4>3. MaxIntents \in Nat
        BY IntentsAssumption
      <4>. QED
        BY <4>1, <4>2, <4>3
    <3>3. ~IsHeld(intentsSet + 1)
      BY <1>0, <3>2, WhoIsHeldAfter
    <3>. QED
      BY <3>2, <3>3 DEF IsHeld
  <2>4. CASE c \in emptied /\ d \in emptied
    BY <2>1, <2>4 DEF EmptiesInto
  <2>. QED
    BY <2>1, <2>2, <2>3, <2>4
<1>5. ASSUME NEW id \in 1..MaxIntents
      PROVE  Placed(id)' = Is(id <= intentsSet')
  <2>. DEFINE isHeld == Is(IsHeld(id))
              isHeldThen == Is(IsHeld(id)')
              isOwed == Is(id \in OwedIds(other))
              isOwedThen == Is(id \in IdsOf(owed'[thread]))
              isSet == Is(id <= intentsSet)
              isSetThen == Is(id <= intentsSet')
  <2>0. isHeld \in Nat /\ isHeldThen \in Nat /\ isOwed \in Nat /\ isOwedThen \in Nat
    BY DEF Is
  <2>1. Placed(id) = isHeld + Len(toldHow[id]) + isOwed
    <3>1. \/ thread = "agent" /\ other = "prediction"
          \/ thread = "prediction" /\ other = "agent"
      BY <1>1 DEF Threads
    <3>2. id \notin OwedIds(thread)
      BY <1>2 DEF OwedIds
    <3>3. Is(id \in OwedIds(thread)) = 0
      BY <3>2 DEF Is
    <3>4. Len(toldHow[id]) \in Nat
      BY PlacesAreNumbers
    <3>5. CASE thread = "agent" /\ other = "prediction"
      BY <2>0, <3>3, <3>4, <3>5 DEF Placed
    <3>6. CASE thread = "prediction" /\ other = "agent"
      BY <2>0, <3>3, <3>4, <3>6 DEF Placed
    <3>. QED
      BY <3>1, <3>5, <3>6
  <2>2. Placed(id)' = isHeldThen + Len(toldHow'[id]) + isOwed + isOwedThen
    <3>1. \/ thread = "agent" /\ other = "prediction"
          \/ thread = "prediction" /\ other = "agent"
      BY <1>1 DEF Threads
    <3>2. Placed(id)' = isHeldThen + Len(toldHow'[id]) + Is(id \in IdsOf(owed'["agent"])) + Is(id \in IdsOf(owed'["prediction"]))
      BY DEF Placed, OwedIds, IdsOf
    <3>3. isOwed = Is(id \in IdsOf(owed'[other]))
      BY <1>2 DEF OwedIds, IdsOf
    <3>4. Len(toldHow'[id]) \in Nat
      BY <1>2, PlacesAreNumbers
    <3>. HIDE DEF isHeldThen
    <3>5. CASE thread = "agent" /\ other = "prediction"
      BY <2>0, <3>2, <3>3, <3>4, <3>5
    <3>6. CASE thread = "prediction" /\ other = "agent"
      BY <2>0, <3>2, <3>3, <3>4, <3>6
    <3>. QED
      BY <3>1, <3>5, <3>6
  <2>5. id \in IdsOf(owed'[thread]) <=> \E channel \in emptied : held[channel].id = id
    BY <1>2 DEF Tells
  <2>6. Placed(id) = isSet
    BY DEF InOnePlace
  <2>7. Len(toldHow[id]) \in Nat /\ toldHow'[id] = toldHow[id]
    BY <1>2, PlacesAreNumbers
  <2>8. CASE id <= intentsSet
    <3>1. /\ IsHeld(id)' <=> \E channel \in Channels \ emptied : held[channel].id = id
          /\ id <= intentsSet'
      BY <1>0, <2>8, WhoIsHeldAfter
    <3>2. ~(IsHeld(id)' /\ id \in IdsOf(owed'[thread]))
      <4>. SUFFICES ASSUME IsHeld(id)', id \in IdsOf(owed'[thread]) PROVE FALSE
        OBVIOUS
      <4>1. PICK c \in Channels \ emptied : held[c].id = id
        BY <3>1
      <4>2. PICK d \in emptied : held[d].id = id
        BY <2>5
      <4>3. held[c] # Nothing
        BY <1>0, <4>1, EmptyIsNumberless
      <4>. QED
        BY <4>1, <4>2, <4>3 DEF HeldOnce
    <3>3. IsHeld(id) <=> (IsHeld(id)' \/ id \in IdsOf(owed'[thread]))
      BY <2>5, <3>1 DEF IsHeld
    <3>4. isHeld = isHeldThen + isOwedThen
      <4>1. CASE IsHeld(id)'
        <5>1. isHeld = 1 /\ isHeldThen = 1 /\ isOwedThen = 0
          BY <3>2, <3>3, <4>1 DEF Is
        <5>. QED
          BY <5>1
      <4>2. CASE id \in IdsOf(owed'[thread])
        <5>1. isHeld = 1 /\ isHeldThen = 0 /\ isOwedThen = 1
          BY <3>2, <3>3, <4>2 DEF Is
        <5>. QED
          BY <5>1
      <4>3. CASE ~IsHeld(id)' /\ id \notin IdsOf(owed'[thread])
        <5>1. isHeld = 0 /\ isHeldThen = 0 /\ isOwedThen = 0
          BY <3>2, <3>3, <4>3 DEF Is
        <5>. QED
          BY <5>1
      <4>. QED
        BY <4>1, <4>2, <4>3
    <3>5. isSet = 1 /\ isSetThen = 1
      BY <2>8, <3>1 DEF Is
    <3>. HIDE DEF isHeld, isHeldThen, isOwed, isOwedThen, isSet, isSetThen
    <3>6. Len(toldHow[id]) + isOwed + isHeld = 1
      BY <2>0, <2>1, <2>6, <2>7, <3>5
    <3>7. Placed(id)' = isHeldThen + Len(toldHow[id]) + isOwed + isOwedThen
      BY <2>2, <2>7
    <3>8. Placed(id)' = 1
      <4>1. \A a, b, c, d \in Nat : c + d + (a + b) = 1 => a + c + d + b = 1
        OBVIOUS
      <4>2. Len(toldHow[id]) + isOwed + (isHeldThen + isOwedThen) = 1
        BY <3>4, <3>6
      <4>3. isHeldThen + Len(toldHow[id]) + isOwed + isOwedThen = 1
        BY ZenonT(60), <2>0, <2>7, <4>1, <4>2
      <4>. QED
        BY <3>7, <4>3
    <3>. QED
      BY <3>5, <3>8 DEF isSetThen
  <2>9. CASE id > intentsSet
    <3>1. (IsHeld(id)' <=> id <= intentsSet') /\ ~IsHeld(id)
      BY <1>0, <2>9, WhoIsHeldAfter
    <3>2. id \notin IdsOf(owed'[thread])
      BY <2>5, <3>1 DEF IsHeld
    <3>3. isHeldThen = isSetThen /\ isHeld = 0 /\ isOwedThen = 0
      <4>1. CASE IsHeld(id)'
        BY <3>1, <3>2, <4>1 DEF Is
      <4>2. CASE ~IsHeld(id)'
        BY <3>1, <3>2, <4>2 DEF Is
      <4>. QED
        BY <4>1, <4>2
    <3>4. isSet = 0
      <4>1. ~(id <= intentsSet)
        BY <1>0, <2>9
      <4>. QED
        BY <4>1 DEF Is
    <3>. HIDE DEF isHeld, isHeldThen, isOwed, isOwedThen, isSet, isSetThen
    <3>5. Placed(id)' = isSetThen
      BY <2>0, <2>1, <2>2, <2>6, <2>7, <3>3, <3>4
    <3>. QED
      BY <3>5 DEF isSetThen
  <2>. QED
    BY <1>0, <2>8, <2>9
<1>. QED
  BY <1>3, <1>4, <1>5 DEF InOnePlace

\* What a thread owes moves to what was told, one ending at a time.
LEMMA TellingKeepsPlaces ==
  ASSUME IntentsTypeOK, PlacesInv, NEW thread \in Threads, NotifyEnded(thread)
  PROVE  OwedTypeOK' /\ ToldTypeOK' /\ PlacesInv'
<1>. USE DEF PlacesInv
<1>. DEFINE endings == owed[thread]
            told == Head(endings).id
<1>1. PICK other \in Threads : other # thread /\ Threads = {thread, other}
  BY TheOther
<1>2. /\ endings \in Seq(Endings) /\ owed[other] \in Seq(Endings) /\ endings # <<>>
      /\ owed \in [Threads -> Seq(Endings)] /\ toldHow \in [1..MaxIntents -> Seq(Hows)]
  BY DEF IntentsTypeOK, OwedTypeOK, ToldTypeOK, NotifyEnded
<1>3. /\ 1 \in DOMAIN endings /\ Head(endings) = endings[1] /\ Tail(endings) \in Seq(Endings)
      /\ Len(endings) \in Nat /\ DOMAIN endings = 1..Len(endings)
      /\ DOMAIN Tail(endings) = 1..(Len(endings) - 1)
      /\ \A i \in DOMAIN Tail(endings) : i + 1 \in DOMAIN endings /\ i \in Nat /\ Tail(endings)[i] = endings[i + 1]
  BY <1>2
<1>4. Head(endings) \in Endings
  BY <1>2, <1>3
<1>5. told \in 1..MaxIntents /\ Head(endings).ending \in Hows
  BY <1>4 DEF Endings
<1>6. /\ owed' = [owed EXCEPT ![thread] = Tail(endings)]
      /\ toldHow' = [toldHow EXCEPT ![told] = Append(toldHow[told], Head(endings).ending)]
      /\ held' = held /\ intentsSet' = intentsSet
  BY DEF NotifyEnded
<1>7. owed'[thread] = Tail(endings) /\ owed'[other] = owed[other] /\ OwedTypeOK'
  BY <1>1, <1>2, <1>3, <1>6 DEF OwedTypeOK
<1>8. /\ ToldTypeOK'
      /\ \A id \in 1..MaxIntents : Len(toldHow'[id]) = IF id = told THEN Len(toldHow[id]) + 1 ELSE Len(toldHow[id])
  <2>1. toldHow[told] \in Seq(Hows)
    BY <1>2, <1>5
  <2>2. /\ Append(toldHow[told], Head(endings).ending) \in Seq(Hows)
        /\ Len(Append(toldHow[told], Head(endings).ending)) = Len(toldHow[told]) + 1
    BY <1>5, <2>1
  <2>. HIDE DEF told
  <2>. QED
    BY <1>2, <1>5, <1>6, <2>2 DEF ToldTypeOK
<1>. HIDE DEF told
<1>9. told \in IdsOf(endings) /\ told \notin IdsOf(Tail(endings))
  <2>1. told = endings[1].id
    BY <1>3 DEF told
  <2>2. ASSUME NEW i \in DOMAIN Tail(endings), Tail(endings)[i].id = told PROVE FALSE
    <3>1. i + 1 \in DOMAIN endings /\ endings[i + 1].id = endings[1].id /\ i >= 1
      BY <1>3, <2>1, <2>2
    <3>2. i + 1 = 1
      BY <1>3, <3>1 DEF OncePerThread
    <3>. QED
      BY <1>3, <3>1, <3>2
  <2>. QED
    BY <1>3, <2>1, <2>2 DEF IdsOf
<1>10. ASSUME NEW id, id # told
       PROVE  id \in IdsOf(Tail(endings)) <=> id \in IdsOf(endings)
  <2>1. ASSUME id \in IdsOf(endings) PROVE id \in IdsOf(Tail(endings))
    <3>1. PICK i \in DOMAIN endings : endings[i].id = id
      BY <2>1 DEF IdsOf
    <3>2. i # 1
      BY <1>3, <1>10, <3>1 DEF told
    <3>3. i - 1 \in DOMAIN Tail(endings) /\ Tail(endings)[i - 1] = endings[i]
      BY <1>2, <1>3, <3>2
    <3>. QED
      BY <3>1, <3>3 DEF IdsOf
  <2>2. ASSUME id \in IdsOf(Tail(endings)) PROVE id \in IdsOf(endings)
    <3>1. PICK i \in DOMAIN Tail(endings) : Tail(endings)[i].id = id
      BY <2>2 DEF IdsOf
    <3>. QED
      BY <1>3, <3>1 DEF IdsOf
  <2>. QED
    BY <2>1, <2>2
<1>11. OncePerThread'
  <2>1. ASSUME NEW i \in DOMAIN Tail(endings), NEW j \in DOMAIN Tail(endings),
               Tail(endings)[i].id = Tail(endings)[j].id
        PROVE  i = j
    <3>1. i + 1 = j + 1
      BY <1>3, <2>1 DEF OncePerThread
    <3>. QED
      BY <1>3, <3>1
  <2>2. \A i, j \in DOMAIN owed[other] : owed[other][i].id = owed[other][j].id => i = j
    BY DEF OncePerThread
  <2>. QED
    BY <1>1, <1>7, <2>1, <2>2 DEF OncePerThread
<1>12. ASSUME NEW id \in 1..MaxIntents
       PROVE  Placed(id)' = Placed(id)
  <2>. DEFINE isHeld == Is(IsHeld(id))
              length == Len(toldHow[id])
              isOwed == Is(id \in IdsOf(endings))
              isOwedThen == Is(id \in IdsOf(Tail(endings)))
              isOther == Is(id \in IdsOf(owed[other]))
  <2>0. isHeld \in Nat /\ length \in Nat /\ isOwed \in Nat /\ isOwedThen \in Nat /\ isOther \in Nat
    BY <1>2 DEF Is
  <2>1. \/ thread = "agent" /\ other = "prediction"
        \/ thread = "prediction" /\ other = "agent"
    BY <1>1 DEF Threads
  <2>2. /\ Is(IsHeld(id)') = isHeld
        /\ Placed(id) = isHeld + length + Is(id \in IdsOf(owed["agent"])) + Is(id \in IdsOf(owed["prediction"]))
        /\ Placed(id)' = Is(IsHeld(id)') + Len(toldHow'[id]) + Is(id \in IdsOf(owed'["agent"]))
                         + Is(id \in IdsOf(owed'["prediction"]))
    BY <1>6 DEF Placed, OwedIds, IdsOf, IsHeld
  <2>3. /\ id = told => isOwed = 1 /\ isOwedThen = 0 /\ Len(toldHow'[id]) = length + 1
        /\ id # told => isOwed = isOwedThen /\ Len(toldHow'[id]) = length
    BY <1>8, <1>9, <1>10 DEF Is
  <2>4. Len(toldHow'[id]) \in Nat /\ Len(toldHow'[id]) + isOwedThen = length + isOwed
    BY <2>0, <2>3
  <2>5. Placed(id) = isHeld + length + isOwed + isOther
    <3>. HIDE DEF isHeld, length
    <3>1. CASE thread = "agent" /\ other = "prediction"
      BY <2>0, <2>2, <3>1
    <3>2. CASE thread = "prediction" /\ other = "agent"
      BY <2>0, <2>2, <3>2
    <3>. QED
      BY <2>1, <3>1, <3>2
  <2>6. Placed(id)' = isHeld + Len(toldHow'[id]) + isOwedThen + isOther
    <3>. HIDE DEF isHeld
    <3>1. CASE thread = "agent" /\ other = "prediction"
      BY <1>7, <2>0, <2>2, <2>4, <3>1
    <3>2. CASE thread = "prediction" /\ other = "agent"
      BY <1>7, <2>0, <2>2, <2>4, <3>2
    <3>. QED
      BY <2>1, <3>1, <3>2
  <2>. HIDE DEF isHeld, length, isOwed, isOwedThen, isOther
  <2>7. \A a, b, c, d, e, f \in Nat : b + c = e + f => a + b + c + d = a + e + f + d
    OBVIOUS
  <2>. QED
    BY <2>0, <2>4, <2>5, <2>6, <2>7
<1>13. HeldOnce' /\ InOnePlace'
  BY <1>6, <1>12 DEF HeldOnce, InOnePlace
<1>. QED
  BY <1>7, <1>8, <1>11, <1>13

-----------------------------------------------------------------------------
(***************************************************************************)
(* What carrying an Intent out comes to, kind by kind.                     *)
(***************************************************************************)
LEMMA GoingOnAndStopping ==
  \A intent, ending : /\ GoesOn(intent).held = intent /\ GoesOn(intent).ending = "none"
                      /\ Stops(intent, ending).held = intent /\ Stops(intent, ending).ending = ending
  BY DEF GoesOn, Stops

\* Carries: the Intent is the same, carried on or ended in one of the ways there are.
Carries(carried, intent) ==
  /\ carried.held \in Intent /\ carried.held.id = intent.id
  /\ carried.ending \in Hows \cup {"none"}

LEMMA MovementCarries ==
  ASSUME NEW intent \in Intent, NEW distance \in Nat
  PROVE  /\ Carries(CarryMovement(intent, distance), intent)
         /\ CarryMovement(intent, distance).held.kind = intent.kind
<1>. DEFINE carried == CarryMovement(intent, distance)
            near == [intent EXCEPT !.nearest = distance, !.stuck = 0]
            waits == [intent EXCEPT !.stuck = @ + 1]
<1>1. near \in Intent /\ near.id = intent.id /\ near.kind = intent.kind
  BY IntentUpdates
<1>2. waits \in Intent /\ waits.id = intent.id /\ waits.kind = intent.kind
  <2>1. intent.stuck \in Nat
    BY DEF Intent
  <2>2. waits = [intent EXCEPT !.stuck = intent.stuck + 1] /\ intent.stuck + 1 \in Nat
    BY <2>1
  <2>. QED
    BY <2>2, IntentUpdates
<1>3. \/ carried = GoesOn(intent) \/ carried = Stops(intent, "kArrived") \/ carried = GoesOn(near)
      \/ carried = Stops(intent, "kBlocked") \/ carried = GoesOn(waits)
  BY DEF CarryMovement
<1>4. {"kArrived", "kBlocked"} \subseteq Hows
  BY DEF Hows
<1>. HIDE DEF near, waits, carried
<1>. QED
  BY <1>1, <1>2, <1>3, <1>4, GoingOnAndStopping DEF Carries, carried

LEMMA AimCarries ==
  ASSUME NEW intent \in Intent, ViewTypeOK
  PROVE  /\ Carries(CarryAim(intent), intent)
         /\ CarryAim(intent).held.kind = intent.kind
         /\ intent.kind = "AimAt" /\ CarryAim(intent).ending = "none" =>
              /\ CarryAim(intent).held.match = serverView.match
              /\ intent.match # 0 => intent.match = serverView.match
<1>. DEFINE itsMatch == IF intent.match = 0 THEN serverView.match ELSE intent.match
            aimed == [intent EXCEPT !.match = itsMatch]
            carried == CarryAim(intent)
<1>0. itsMatch \in Nat
  BY DEF Intent, ViewTypeOK, Views
<1>1. aimed \in Intent /\ aimed.id = intent.id /\ aimed.kind = intent.kind /\ aimed.match = itsMatch
  <2>. HIDE DEF itsMatch
  <2>. QED
    BY <1>0, IntentUpdates
<1>2. aimed = [intent EXCEPT !.match = IF @ = 0 THEN serverView.match ELSE @]
  OBVIOUS
<1>3. carried = IF intent.kind = "Look" THEN GoesOn(intent)
                ELSE IF TargetGone(aimed) THEN Stops(aimed, "kTargetGone") ELSE GoesOn(aimed)
  BY <1>2 DEF CarryAim
<1>. HIDE DEF aimed, carried
<1>4. ~TargetGone(aimed) => aimed.match = 0 \/ aimed.match = serverView.match
  BY DEF TargetGone
<1>5. "kTargetGone" \in Hows /\ "kTargetGone" # "none"
  BY DEF Hows
<1>6. ~TargetGone(aimed) =>
        aimed.match = serverView.match /\ (intent.match # 0 => intent.match = serverView.match)
  BY <1>1, <1>4
<1>. HIDE DEF itsMatch
<1>. QED
  BY <1>1, <1>3, <1>5, <1>6, GoingOnAndStopping DEF Carries, carried

LEMMA TriggerCarries ==
  ASSUME NEW intent \in Intent, intent.kind \in KindsOf["trigger"]
  PROVE  /\ Carries(CarryTrigger(intent), intent)
         /\ CarryTrigger(intent).held.kind = intent.kind
         /\ intent.kind = "Reload" => CarryTrigger(intent).ending # "none"
         /\ intent.kind = "FireBursts" =>
              /\ CarryTrigger(intent).held.ticks < BurstTicks + ReleaseTicks
              /\ Fires(intent) => CarryTrigger(intent).held.ticks = intent.ticks + 1
<1>. DEFINE cycle == BurstTicks + ReleaseTicks
            ticks == IF EmptyMagazine THEN 0 ELSE (intent.ticks + 1) % cycle
            burst == [intent EXCEPT !.ticks = ticks]
            carried == CarryTrigger(intent)
<1>0. /\ BurstTicks \in Nat /\ ReleaseTicks \in Nat /\ BurstTicks > 0 /\ ReleaseTicks > 0
      /\ cycle \in Nat \ {0} /\ BurstTicks < cycle /\ intent.ticks \in Nat
  BY IntentsAssumption DEF Intent
<1>1. intent.kind \in {"HoldFire", "Reload", "FireBursts"}
  BY DEF KindsOf
<1>2. ticks \in Nat /\ ticks < cycle /\ (Fires(intent) /\ intent.kind = "FireBursts" => ticks = intent.ticks + 1)
  <2>. HIDE DEF cycle
  <2>1. intent.ticks + 1 \in Nat
    BY <1>0
  <2>2. (intent.ticks + 1) % cycle \in Nat /\ (intent.ticks + 1) % cycle < cycle
    BY <1>0, <2>1, ARemainder
  <2>3. CASE EmptyMagazine
    BY <1>0, <2>3 DEF Fires
  <2>4. CASE ~EmptyMagazine
    <3>1. ASSUME Fires(intent), intent.kind = "FireBursts" PROVE ticks = intent.ticks + 1
      <4>1. intent.ticks + 1 < cycle
        BY <1>0, <3>1 DEF Fires
      <4>. QED
        BY <1>0, <2>1, <2>4, <4>1, ARemainder
    <3>. QED
      BY <2>2, <2>4, <3>1
  <2>. QED
    BY <2>3, <2>4
<1>3. burst \in Intent /\ burst.id = intent.id /\ burst.kind = intent.kind /\ burst.ticks = ticks
  <2>. HIDE DEF ticks
  <2>. QED
    BY <1>2, IntentUpdates
<1>4. /\ intent.kind = "HoldFire" => carried = GoesOn(intent)
      /\ intent.kind = "Reload" => carried = Stops(intent, "kDone")
      /\ intent.kind = "FireBursts" => carried = GoesOn(burst)
  BY DEF CarryTrigger
<1>5. "kDone" \in Hows /\ "kDone" # "none"
  BY DEF Hows
<1>. HIDE DEF ticks, burst, carried
<1>. QED
  BY <1>1, <1>2, <1>3, <1>4, <1>5, GoingOnAndStopping DEF Carries, carried

LEMMA RawCarries ==
  ASSUME NEW intent \in Intent
  PROVE  /\ Carries(CarryRaw(intent), intent)
         /\ CarryRaw(intent).held.kind = "Raw"
<1>. DEFINE sent == [intent EXCEPT !.kind = "Raw"]
<1>1. sent \in Intent /\ sent.id = intent.id /\ sent.kind = "Raw"
  BY IntentUpdates DEF Kinds
<1>2. CarryRaw(intent) = GoesOn(sent)
  BY DEF CarryRaw
<1>. HIDE DEF sent
<1>. QED
  BY <1>1, <1>2, GoingOnAndStopping DEF Carries

(***************************************************************************)
(* What a Command has of an Intent it carries out.                         *)
(***************************************************************************)
LEMMA CameOf ==
  ASSUME NEW intent \in Intent, done[intent.id] \in Comings, ViewTypeOK
  PROVE  /\ Came(intent) \in Comings
         /\ Came(intent).reloads = IF intent.kind \in {"Reload", "RawReloading"}
                                   THEN done[intent.id].reloads + 1 ELSE done[intent.id].reloads
         /\ Came(intent).aimedIn = IF intent.kind = "AimAt" /\ CarryAim(intent).ending = "none"
                                   THEN done[intent.id].aimedIn \cup {serverView.match} ELSE done[intent.id].aimedIn
         /\ Came(intent).streak = IF intent.kind = "FireBursts" /\ Fires(intent)
                                  THEN done[intent.id].streak + 1 ELSE 0
<1>. DEFINE was == done[intent.id]
            presses == Reloads(intent) /\ intent.kind # "FireBursts"
            aims == intent.kind = "AimAt" /\ CarryAim(intent).ending = "none"
            fires == intent.kind = "FireBursts" /\ Fires(intent)
            reloads == was.reloads + (IF presses THEN 1 ELSE 0)
            aimedIn == IF aims THEN was.aimedIn \cup {serverView.match} ELSE was.aimedIn
            streak == IF fires THEN was.streak + 1 ELSE 0
<1>1. was.reloads \in Nat /\ was.aimedIn \in SUBSET Nat /\ was.streak \in Nat /\ serverView.match \in Nat
  BY DEF Comings, ViewTypeOK, Views
<1>2. presses <=> intent.kind \in {"Reload", "RawReloading"}
  BY DEF Reloads
<1>3. reloads = IF intent.kind \in {"Reload", "RawReloading"} THEN was.reloads + 1 ELSE was.reloads
  BY <1>1, <1>2
<1>4. reloads \in Nat /\ aimedIn \in SUBSET Nat /\ streak \in Nat
  BY <1>1
<1>5. Came(intent) = [reloads |-> reloads, aimedIn |-> aimedIn, streak |-> streak]
  BY DEF Came
<1>. HIDE DEF reloads, aimedIn, streak
<1>6. /\ Came(intent) \in Comings /\ Came(intent).reloads = reloads /\ Came(intent).aimedIn = aimedIn
      /\ Came(intent).streak = streak
  BY <1>4, <1>5 DEF Comings
<1>. QED
  BY <1>3, <1>6 DEF aimedIn, streak

LEMMA CameKeeps ==
  ASSUME IntentsTypeOK, CameInv, AliveInAMatch, serverView.ownAlive,
         NEW channel \in Channels, held[channel] # Nothing, NEW distance \in Nat
  PROVE  /\ Carries(Carry(channel, distance), held[channel])
         /\ Carry(channel, distance).held.kind \in KindsOf[channel]
         /\ Came(held[channel]) \in Comings /\ Within(Came(held[channel]))
         /\ Carry(channel, distance).ending = "none" =>
              SoFar(Carry(channel, distance).held, Came(held[channel]))
<1>. DEFINE intent == held[channel]
            carried == Carry(channel, distance)
            was == done[intent.id]
            came == Came(intent)
<1>1. intent \in Intent /\ intent.id \in 1..MaxIntents /\ intent.kind \in KindsOf[channel]
  BY EmptyIsNumberless DEF IntentsTypeOK, HeldTypeOK
<1>2. was \in Comings /\ ViewTypeOK
  BY <1>1 DEF IntentsTypeOK, DoneTypeOK
<1>3. Within(was) /\ SoFar(intent, was)
  BY <1>1 DEF CameInv
<1>4. serverView.match \in Nat /\ serverView.match # 0
  BY <1>2 DEF ViewTypeOK, Views, AliveInAMatch
<1>5. /\ channel = "movement" => carried = CarryMovement(intent, distance)
      /\ channel = "aim" => carried = CarryAim(intent)
      /\ channel = "trigger" => carried = CarryTrigger(intent)
      /\ channel = "raw" => carried = CarryRaw(intent)
  BY DEF Carry
<1>6. /\ channel = "movement" => intent.kind \in {"Move", "MoveTo"}
      /\ channel = "aim" => intent.kind \in {"Look", "AimAt"}
      /\ channel = "trigger" => intent.kind \in {"HoldFire", "Reload", "FireBursts"}
      /\ channel = "raw" => intent.kind \in {"Raw", "RawReloading"}
  BY <1>1 DEF KindsOf
<1>7. channel \in {"movement", "aim", "trigger", "raw"}
  BY DEF Channels
<1>8. Carries(carried, intent) /\ carried.held.kind \in KindsOf[channel]
  <2>. HIDE DEF carried, intent
  <2>1. CASE channel = "movement"
    BY <1>1, <1>5, <2>1, MovementCarries
  <2>2. CASE channel = "aim"
    BY <1>1, <1>2, <1>5, <2>2, AimCarries
  <2>3. CASE channel = "trigger"
    BY <1>1, <1>5, <2>3, TriggerCarries
  <2>4. CASE channel = "raw"
    <3>1. carried.held.kind = "Raw" /\ Carries(carried, intent)
      BY <1>1, <1>5, <2>4, RawCarries
    <3>. QED
      BY <2>4, <3>1 DEF KindsOf
  <2>. QED
    BY <1>7, <2>1, <2>2, <2>3, <2>4
<1>9. /\ came \in Comings
      /\ came.reloads = IF intent.kind \in {"Reload", "RawReloading"} THEN was.reloads + 1 ELSE was.reloads
      /\ came.aimedIn = IF intent.kind = "AimAt" /\ CarryAim(intent).ending = "none"
                        THEN was.aimedIn \cup {serverView.match} ELSE was.aimedIn
      /\ came.streak = IF intent.kind = "FireBursts" /\ Fires(intent) THEN was.streak + 1 ELSE 0
  <2>. HIDE DEF intent
  <2>. QED
    BY <1>1, <1>2, CameOf DEF was, came
<1>10. /\ was.reloads \in Nat /\ was.aimedIn \in SUBSET Nat /\ was.streak \in Nat /\ intent.ticks \in Nat
       /\ BurstTicks \in Nat
  BY <1>1, <1>2, IntentsAssumption DEF Comings, Intent
<1>11. intent.kind = "AimAt" /\ CarryAim(intent).ending = "none" =>
         /\ CarryAim(intent).held.match = serverView.match
         /\ intent.match # 0 => intent.match = serverView.match
  <2>. HIDE DEF intent
  <2>. QED
    BY <1>1, <1>2, AimCarries
<1>. HIDE DEF intent, was, came
<1>12. intent.kind = "AimAt" /\ CarryAim(intent).ending = "none" => came.aimedIn \subseteq {serverView.match}
  BY <1>3, <1>9, <1>11 DEF SoFar
<1>13. came.reloads <= 1
  BY <1>3, <1>9, <1>10 DEF Within, SoFar
<1>14. \E itsMatch \in Nat : came.aimedIn \subseteq {itsMatch}
  <2>1. CASE intent.kind = "AimAt" /\ CarryAim(intent).ending = "none"
    BY <1>4, <1>12, <2>1
  <2>2. CASE ~(intent.kind = "AimAt" /\ CarryAim(intent).ending = "none")
    BY <1>3, <1>9, <2>2 DEF Within
  <2>. QED
    BY <2>1, <2>2
<1>15. came.streak <= BurstTicks /\ (intent.kind = "FireBursts" /\ Fires(intent) => came.streak <= intent.ticks + 1)
  <2>1. CASE intent.kind = "FireBursts" /\ Fires(intent)
    <3>1. intent.ticks < BurstTicks /\ was.streak <= intent.ticks
      BY <1>3, <2>1 DEF Fires, SoFar
    <3>. QED
      BY <1>9, <1>10, <2>1, <3>1
  <2>2. CASE ~(intent.kind = "FireBursts" /\ Fires(intent))
    BY <1>9, <1>10, <2>2
  <2>. QED
    BY <2>1, <2>2
<1>16. Within(came)
  BY <1>13, <1>14, <1>15 DEF Within
<1>17. ASSUME carried.ending = "none" PROVE SoFar(carried.held, came)
  <2>. HIDE DEF carried
  <2>1. CASE channel = "movement"
    <3>1. carried.held.kind \in {"Move", "MoveTo"}
      BY <1>8, <2>1 DEF KindsOf
    <3>. QED
      BY <3>1 DEF SoFar
  <2>2. CASE channel = "aim"
    <3>1. carried.held.kind \in {"Look", "AimAt"}
      BY <1>8, <2>2 DEF KindsOf
    <3>2. carried.held.kind = intent.kind /\ carried = CarryAim(intent)
      BY <1>1, <1>2, <1>5, <2>2, AimCarries
    <3>3. CASE intent.kind = "AimAt"
      <4>1. carried.held.match = serverView.match /\ came.aimedIn \subseteq {serverView.match}
        BY <1>11, <1>12, <1>17, <3>2, <3>3
      <4>. QED
        BY <1>4, <3>2, <3>3, <4>1 DEF SoFar
    <3>. QED
      BY <3>1, <3>2, <3>3 DEF SoFar
  <2>3. CASE channel = "trigger"
    <3>1. /\ carried = CarryTrigger(intent) /\ carried.held.kind = intent.kind
          /\ intent.kind \in {"HoldFire", "FireBursts"}
      BY <1>1, <1>5, <1>6, <1>17, <2>3, TriggerCarries
    <3>2. CASE intent.kind = "FireBursts"
      <4>1. /\ carried.held.ticks < BurstTicks + ReleaseTicks
            /\ Fires(intent) => carried.held.ticks = intent.ticks + 1
        BY <1>1, <2>3, <3>1, <3>2, TriggerCarries
      <4>2. carried.held.ticks \in Nat
        BY <1>8 DEF Carries, Intent
      <4>3. came.streak <= carried.held.ticks
        BY <1>9, <1>15, <3>2, <4>1, <4>2
      <4>. QED
        BY <3>1, <3>2, <4>1, <4>3 DEF SoFar
    <3>. QED
      BY <3>1, <3>2 DEF SoFar
  <2>4. CASE channel = "raw"
    <3>1. carried.held.kind = "Raw"
      BY <1>1, <1>5, <2>4, RawCarries
    <3>. QED
      BY <3>1 DEF SoFar
  <2>. QED
    BY <1>7, <2>1, <2>2, <2>3, <2>4
<1>. QED
  BY <1>8, <1>9, <1>16, <1>17 DEF intent, came

-----------------------------------------------------------------------------
(***************************************************************************)
(* Every step keeps the invariant.                                         *)
(***************************************************************************)
LEMMA HeldAreSet ==
  ASSUME IntentsTypeOK, PlacesInv, NEW channel \in Channels
  PROVE  held[channel].id <= intentsSet
<1>. DEFINE id == held[channel].id
<1>1. id \in 0..MaxIntents /\ intentsSet \in 0..MaxIntents /\ MaxIntents \in Nat
  BY EmptyIsNumberless, IntentsAssumption DEF IntentsTypeOK, HeldTypeOK
<1>2. SUFFICES ASSUME id > intentsSet PROVE FALSE
  BY <1>1
<1>3. id \in 1..MaxIntents /\ ~(id <= intentsSet) /\ IsHeld(id)
  BY <1>1, <1>2 DEF IsHeld
<1>. HIDE DEF id
<1>4. Is(id <= intentsSet) = 0 /\ Is(IsHeld(id)) = 1
  BY <1>3 DEF Is
<1>5. Is(id \in OwedIds("agent")) \in Nat /\ Is(id \in OwedIds("prediction")) \in Nat /\ Len(toldHow[id]) \in Nat
  BY <1>3, PlacesAreNumbers DEF Is
<1>6. Placed(id) = 0
  BY <1>3, <1>4 DEF PlacesInv, InOnePlace
<1>. QED
  BY <1>4, <1>5, <1>6 DEF Placed

LEMMA CarryingKeeps ==
  ASSUME IntentsIInv, NEW distance \in 0..FarthestPoint, ExecutorNextCommand(distance), serverView.ownAlive
  PROVE  IntentsIInv'
<1>. DEFINE turns == IF held.raw # Nothing THEN {"raw"} ELSE {"movement", "aim", "trigger"}
            carried == {channel \in turns : held[channel] # Nothing}
            Ended(channel) == Carry(channel, distance).ending
            CarryChannel(channel) ==
              IF channel \in carried /\ Ended(channel) # "none" THEN EndInto(channel, Ended(channel)) ELSE <<>>
            emptied == {channel \in carried : Ended(channel) # "none"}
<1>0. /\ IntentsTypeOK /\ PlacesInv /\ CameInv /\ AliveInAMatch /\ RawIsAlone
      /\ HeldTypeOK /\ HeldOnce /\ OwedTypeOK /\ DoneTypeOK
  BY DEF IntentsIInv, IntentsTypeOK, PlacesInv
<1>1. /\ owed.prediction = <<>>
      /\ held' = [channel \in Channels |->
                    IF channel \notin carried THEN held[channel]
                    ELSE IF Ended(channel) = "none" THEN Carry(channel, distance).held ELSE Nothing]
      /\ owed' = [owed EXCEPT !.prediction = CarryChannel("movement") \o CarryChannel("aim") \o CarryChannel("trigger")]
      /\ done' = [id \in 1..MaxIntents |->
                    IF \E channel \in carried : held[channel].id = id
                    THEN Came(held[CHOOSE channel \in carried : held[channel].id = id]) ELSE done[id]]
      /\ toldHow' = toldHow /\ intentsSet' = intentsSet /\ serverView' = serverView
  BY DEF ExecutorNextCommand, CarryOut
<1>2. carried \subseteq Channels /\ \A channel \in carried : held[channel] # Nothing
  BY DEF Channels
<1>3. ASSUME NEW channel \in carried
      PROVE  /\ Carries(Carry(channel, distance), held[channel])
             /\ Carry(channel, distance).held.kind \in KindsOf[channel]
             /\ Came(held[channel]) \in Comings /\ Within(Came(held[channel]))
             /\ Ended(channel) = "none" => SoFar(Carry(channel, distance).held, Came(held[channel]))
  <2>1. distance \in Nat
    BY IntentsAssumption
  <2>. QED
    BY <1>0, <1>2, <2>1, CameKeeps
<1>4. "raw" \notin emptied
  <2>. SUFFICES ASSUME "raw" \in carried PROVE Ended("raw") = "none"
    OBVIOUS
  <2>. QED
    BY GoingOnAndStopping DEF Carry, CarryRaw
<1>5. ASSUME NEW channel \in Channels
      PROVE  Tells(CarryChannel(channel), emptied \cap {channel})
  <2>1. CASE channel \in emptied
    <3>1. Ended(channel) \in Hows /\ CarryChannel(channel) = EndInto(channel, Ended(channel))
      BY <1>3, <2>1 DEF Carries
    <3>2. emptied \cap {channel} = {channel}
      BY <2>1
    <3>. QED
      BY <1>0, <3>1, <3>2, TellsOfOne
  <2>2. CASE channel \notin emptied
    <3>1. CarryChannel(channel) = <<>> /\ emptied \cap {channel} = {}
      BY <2>2
    <3>. QED
      BY <3>1, TellsOfNone
  <2>. QED
    BY <2>1, <2>2
<1>. HIDE DEF turns, CarryChannel, Ended
<1>6. Tells(CarryChannel("movement") \o CarryChannel("aim") \o CarryChannel("trigger"), emptied)
  <2>1. {"movement", "aim", "trigger"} \subseteq Channels /\ emptied \subseteq {"movement", "aim", "trigger"}
    BY <1>2, <1>4 DEF Channels
  <2>. HIDE DEF emptied
  <2>2. /\ Tells(CarryChannel("movement"), emptied \cap {"movement"})
        /\ Tells(CarryChannel("aim"), emptied \cap {"aim"})
        /\ Tells(CarryChannel("trigger"), emptied \cap {"trigger"})
    BY <1>5, <2>1
  <2>3. Tells(CarryChannel("movement") \o CarryChannel("aim"), (emptied \cap {"movement"}) \cup (emptied \cap {"aim"}))
    <3>1. (emptied \cap {"movement"}) \cap (emptied \cap {"aim"}) = {}
      OBVIOUS
    <3>. QED
      BY <1>0, <2>1, <2>2, <3>1, TellsTogether
  <2>4. (emptied \cap {"movement"}) \cup (emptied \cap {"aim"}) = emptied \cap {"movement", "aim"}
    OBVIOUS
  <2>5. Tells((CarryChannel("movement") \o CarryChannel("aim")) \o CarryChannel("trigger"),
              (emptied \cap {"movement", "aim"}) \cup (emptied \cap {"trigger"}))
    <3>1. (emptied \cap {"movement", "aim"}) \cap (emptied \cap {"trigger"}) = {}
      OBVIOUS
    <3>. QED
      BY <1>0, <2>1, <2>2, <2>3, <2>4, <3>1, TellsTogether
  <2>6. (emptied \cap {"movement", "aim"}) \cup (emptied \cap {"trigger"}) = emptied
    BY <2>1
  <2>. QED
    BY <2>5, <2>6
<1>7. /\ OwedTypeOK' /\ owed["prediction"] = <<>>
      /\ owed'["agent"] = owed["agent"] /\ Tells(owed'["prediction"], emptied)
  <2>. DEFINE told == CarryChannel("movement") \o CarryChannel("aim") \o CarryChannel("trigger")
  <2>1. told \in Seq(Endings)
    BY <1>6 DEF Tells
  <2>2. owed \in [Threads -> Seq(Endings)]
    BY <1>0 DEF OwedTypeOK
  <2>3. owed' = [owed EXCEPT !.prediction = told]
    BY <1>1
  <2>. HIDE DEF told
  <2>4. owed' \in [Threads -> Seq(Endings)] /\ owed'["agent"] = owed["agent"] /\ owed'["prediction"] = told
    BY <2>1, <2>2, <2>3 DEF Threads
  <2>. QED
    BY <1>1, <1>6, <2>4 DEF OwedTypeOK, told
<1>8. ASSUME NEW channel \in Channels
      PROVE  held'[channel] = IF channel \notin carried THEN held[channel]
                              ELSE IF Ended(channel) = "none" THEN Carry(channel, distance).held ELSE Nothing
  BY <1>1
<1>9. ASSUME NEW channel \in Channels
      PROVE  /\ held'[channel] \in Intent \cup {Nothing}
             /\ held'[channel] # Nothing =>
                  held'[channel].kind \in KindsOf[channel] /\ channel \notin emptied /\ held[channel] # Nothing
             /\ channel \notin emptied => held'[channel].id = held[channel].id
             /\ channel \in emptied => held'[channel] = Nothing
  <2>1. CASE channel \notin carried
    BY <1>0, <1>8, <2>1 DEF HeldTypeOK
  <2>2. CASE channel \in carried /\ Ended(channel) = "none"
    BY <1>2, <1>3, <1>8, <2>2 DEF Carries
  <2>3. CASE channel \in carried /\ Ended(channel) # "none"
    BY <1>8, <2>3
  <2>. QED
    BY <2>1, <2>2, <2>3
<1>10. HeldTypeOK'
  BY <1>1, <1>9 DEF HeldTypeOK
<1>11. ASSUME NEW channel \in carried
       PROVE  done'[held[channel].id] = Came(held[channel])
  <2>. DEFINE who == CHOOSE c \in carried : held[c].id = held[channel].id
  <2>1. held[channel].id \in 1..MaxIntents
    BY <1>0, <1>2, EmptyIsNumberless DEF HeldTypeOK
  <2>2. who \in carried /\ held[who].id = held[channel].id
    OBVIOUS
  <2>3. who = channel
    BY <1>0, <1>2, <2>2 DEF HeldOnce
  <2>. QED
    BY <1>1, <2>1, <2>3
<1>12. ASSUME NEW id \in 1..MaxIntents, \A channel \in carried : held[channel].id # id
       PROVE  done'[id] = done[id]
  BY <1>1, <1>12
<1>13. DoneTypeOK' /\ \A id \in 1..MaxIntents : Within(done'[id]) /\ (id > intentsSet => done'[id] = NothingYet)
  <2>1. ASSUME NEW id \in 1..MaxIntents
        PROVE  done'[id] \in Comings /\ Within(done'[id]) /\ (id > intentsSet => done'[id] = NothingYet)
    <3>1. CASE \A channel \in carried : held[channel].id # id
      BY <1>0, <1>12, <3>1 DEF DoneTypeOK, CameInv
    <3>2. ASSUME NEW channel \in carried, held[channel].id = id
          PROVE  done'[id] \in Comings /\ Within(done'[id]) /\ ~(id > intentsSet)
      <4>1. id <= intentsSet /\ intentsSet \in Nat
        BY <1>0, <1>2, <3>2, HeldAreSet DEF IntentsTypeOK
      <4>. QED
        BY <1>3, <1>11, <3>2, <4>1
    <3>. QED
      BY <3>1, <3>2
  <2>2. done' \in [1..MaxIntents -> Comings]
    <3>1. done' = [id \in 1..MaxIntents |-> done'[id]]
      BY <1>1
    <3>. QED
      BY <2>1, <3>1
  <2>. QED
    BY <2>1, <2>2 DEF DoneTypeOK
<1>14. ASSUME NEW channel \in Channels, held'[channel] # Nothing
       PROVE  SoFar(held'[channel], done'[held'[channel].id])
  <2>0. held[channel] # Nothing /\ channel \notin emptied /\ held'[channel].id = held[channel].id
        /\ held[channel].id \in 1..MaxIntents
    BY <1>0, <1>9, <1>14, EmptyIsNumberless DEF HeldTypeOK
  <2>1. CASE channel \in carried
    <3>1. held'[channel] = Carry(channel, distance).held /\ Ended(channel) = "none"
      BY <1>8, <2>0, <2>1
    <3>. QED
      BY <1>3, <1>11, <2>0, <2>1, <3>1
  <2>2. CASE channel \notin carried
    <3>1. held'[channel] = held[channel]
      BY <1>8, <2>2
    <3>2. \A c \in carried : held[c].id # held[channel].id
      BY <1>0, <1>2, <2>2 DEF HeldOnce
    <3>3. done'[held[channel].id] = done[held[channel].id]
      BY <1>12, <2>0, <3>2
    <3>. QED
      BY <1>0, <2>0, <3>1, <3>3 DEF CameInv
  <2>. QED
    BY <2>1, <2>2
<1>15. CameInv' /\ AliveInAMatch'
  BY <1>0, <1>1, <1>13, <1>14 DEF CameInv, AliveInAMatch
<1>16. RawIsAlone'
  BY <1>0, <1>9 DEF RawIsAlone, Channels
<1>17. IntentsTypeOK'
  BY <1>0, <1>1, <1>7, <1>10, <1>13 DEF IntentsTypeOK, ToldTypeOK, ViewTypeOK
<1>18. PlacesInv'
  <2>1. EmptiesInto("prediction", emptied)
    <3>1. \A channel \in emptied : held'[channel].id = 0
      BY <1>2, <1>9 DEF Nothing
    <3>2. \A other \in Threads \ {"prediction"} : owed'[other] = owed[other]
      BY <1>7 DEF Threads
    <3>. QED
      BY <1>1, <1>7, <1>9, <3>1, <3>2 DEF EmptiesInto
  <2>2. emptied \in SUBSET Channels /\ "prediction" \in Threads
    BY <1>2 DEF Threads
  <2>. HIDE DEF emptied
  <2>. QED
    BY <1>0, <1>17, <2>1, <2>2, EmptyingKeepsPlaces
<1>. QED
  BY <1>15, <1>16, <1>17, <1>18 DEF IntentsIInv

\* What replacing a channel's Intent empties: SetRaw empties them all.
Taken(channel) == IF channel = "raw" THEN Channels ELSE {"raw", channel}

LEMMA ReplacingTells ==
  ASSUME HeldTypeOK, HeldOnce, OwedTypeOK, NEW channel \in Channels, NEW next, Replace(channel, next)
  PROVE  /\ OwedTypeOK' /\ owed["agent"] = <<>> /\ owed'["prediction"] = owed["prediction"]
         /\ Tells(owed'["agent"], Taken(channel))
         /\ held' = [c \in Channels |-> IF c = channel THEN next
                                        ELSE IF c \in Taken(channel) THEN Nothing ELSE held[c]]
<1>. DEFINE Told(c) == EndInto(c, "kReplaced")
            others == IF channel # "raw" THEN Told(channel) ELSE Told("movement") \o Told("aim") \o Told("trigger")
            told == Told("raw") \o others
<1>1. Channels = {"raw", "movement", "aim", "trigger"} /\ "kReplaced" \in Hows
  BY DEF Channels, Hows
<1>2. /\ owed.agent = <<>> /\ owed' = [owed EXCEPT !.agent = told]
      /\ held' = [c \in Channels |-> IF c = channel THEN next
                                     ELSE IF "raw" \in {c, channel} THEN Nothing ELSE held[c]]
  BY DEF Replace
<1>3. \A c \in Channels : Tells(Told(c), {c})
  BY <1>1, TellsOfOne
<1>. HIDE DEF Told
<1>4. Tells(others, Taken(channel) \ {"raw"})
  <2>1. CASE channel # "raw"
    <3>1. Taken(channel) \ {"raw"} = {channel} /\ others = Told(channel)
      BY <2>1 DEF Taken
    <3>. QED
      BY <1>3, <3>1
  <2>2. CASE channel = "raw"
    <3>1. Tells(Told("movement") \o Told("aim"), {"movement"} \cup {"aim"})
      <4>1. {"movement"} \in SUBSET Channels /\ {"aim"} \in SUBSET Channels /\ {"movement"} \cap {"aim"} = {}
        BY <1>1
      <4>. QED
        BY <1>1, <1>3, <4>1, TellsTogether
    <3>2. Tells((Told("movement") \o Told("aim")) \o Told("trigger"), ({"movement"} \cup {"aim"}) \cup {"trigger"})
      <4>1. /\ ({"movement"} \cup {"aim"}) \in SUBSET Channels /\ {"trigger"} \in SUBSET Channels
            /\ ({"movement"} \cup {"aim"}) \cap {"trigger"} = {}
        BY <1>1
      <4>. QED
        BY <1>1, <1>3, <3>1, <4>1, TellsTogether
    <3>3. ({"movement"} \cup {"aim"}) \cup {"trigger"} = Taken(channel) \ {"raw"}
      BY <1>1, <2>2 DEF Taken
    <3>4. others = (Told("movement") \o Told("aim")) \o Told("trigger")
      BY <2>2
    <3>. QED
      BY <3>2, <3>3, <3>4
  <2>. QED
    BY <2>1, <2>2
<1>. HIDE DEF others
<1>5. Tells(told, Taken(channel))
  <2>1. /\ Taken(channel) \ {"raw"} \in SUBSET Channels /\ {"raw"} \in SUBSET Channels
        /\ {"raw"} \cap (Taken(channel) \ {"raw"}) = {} /\ {"raw"} \cup (Taken(channel) \ {"raw"}) = Taken(channel)
    BY <1>1 DEF Taken
  <2>2. Tells(told, {"raw"} \cup (Taken(channel) \ {"raw"}))
    BY <1>1, <1>3, <1>4, <2>1, TellsTogether
  <2>. QED
    BY <2>1, <2>2
<1>6. told \in Seq(Endings)
  BY <1>5 DEF Tells
<1>. HIDE DEF told
<1>7. OwedTypeOK' /\ owed'["prediction"] = owed["prediction"] /\ owed'["agent"] = told
  BY <1>2, <1>6 DEF OwedTypeOK, Threads
<1>8. \A c \in Channels : c # channel => ("raw" \in {c, channel} <=> c \in Taken(channel))
  BY DEF Taken
<1>9. held' = [c \in Channels |-> IF c = channel THEN next ELSE IF c \in Taken(channel) THEN Nothing ELSE held[c]]
  BY <1>2, <1>8, Zenon
<1>. QED
  BY <1>2, <1>5, <1>7, <1>9

LEMMA ReplacingKeeps ==
  ASSUME IntentsIInv, NEW channel \in Channels, NEW next \in Intent \cup {Nothing}, Replace(channel, next),
         UNCHANGED <<toldHow, serverView, done>>,
         \/ next = Nothing /\ channel # "raw" /\ intentsSet' = intentsSet
         \/ /\ next # Nothing /\ next.kind \in KindsOf[channel] /\ next.id = intentsSet + 1
            /\ intentsSet' = intentsSet + 1 /\ intentsSet < MaxIntents /\ next.ticks = 0
  PROVE  IntentsIInv'
<1>0. /\ IntentsTypeOK /\ PlacesInv /\ CameInv /\ AliveInAMatch /\ RawIsAlone
      /\ HeldTypeOK /\ HeldOnce /\ OwedTypeOK /\ DoneTypeOK /\ ViewTypeOK /\ ToldTypeOK
      /\ intentsSet \in 0..MaxIntents /\ MaxIntents \in Nat
  BY IntentsAssumption DEF IntentsIInv, IntentsTypeOK, PlacesInv
<1>1. /\ OwedTypeOK' /\ owed["agent"] = <<>> /\ owed'["prediction"] = owed["prediction"]
      /\ Tells(owed'["agent"], Taken(channel))
      /\ held' = [c \in Channels |-> IF c = channel THEN next
                                     ELSE IF c \in Taken(channel) THEN Nothing ELSE held[c]]
  BY <1>0, ReplacingTells
<1>2. channel \in Taken(channel) /\ Taken(channel) \in SUBSET Channels
  BY DEF Taken, Channels
<1>3. ASSUME NEW c \in Channels
      PROVE  held'[c] = IF c = channel THEN next ELSE IF c \in Taken(channel) THEN Nothing ELSE held[c]
  BY <1>1
<1>4. HeldTypeOK'
  <2>1. ASSUME NEW c \in Channels
        PROVE  held'[c] \in Intent \cup {Nothing} /\ (held'[c] # Nothing => held'[c].kind \in KindsOf[c])
    BY <1>0, <1>3 DEF HeldTypeOK
  <2>. QED
    BY <1>1, <2>1 DEF HeldTypeOK
<1>5. intentsSet' \in 0..MaxIntents /\ intentsSet' >= intentsSet
  BY <1>0
<1>6. IntentsTypeOK'
  BY <1>0, <1>1, <1>4, <1>5 DEF IntentsTypeOK, ToldTypeOK, ViewTypeOK, DoneTypeOK
<1>7. EmptiesInto("agent", Taken(channel))
  <2>1. \A other \in Threads \ {"agent"} : owed'[other] = owed[other]
    BY <1>1 DEF Threads
  <2>2. \A c \in Channels \ Taken(channel) : held'[c].id = held[c].id
    BY <1>2, <1>3
  <2>3. \A c \in Taken(channel) \ {channel} : held'[c].id = 0
    BY <1>2, <1>3 DEF Nothing
  <2>4. CASE next = Nothing /\ intentsSet' = intentsSet
    <3>1. held'[channel].id = 0
      BY <1>3, <2>4 DEF Nothing
    <3>. QED
      BY <1>1, <2>1, <2>2, <2>3, <2>4, <3>1 DEF EmptiesInto
  <2>5. CASE next.id = intentsSet + 1 /\ intentsSet' = intentsSet + 1
    <3>1. held'[channel].id = intentsSet + 1
      BY <1>3, <2>5
    <3>. QED
      BY <1>1, <1>2, <2>1, <2>2, <2>3, <2>5, <3>1 DEF EmptiesInto
  <2>. QED
    BY <2>4, <2>5
<1>8. PlacesInv'
  <2>1. "agent" \in Threads
    BY DEF Threads
  <2>. QED
    BY <1>0, <1>2, <1>6, <1>7, <2>1, EmptyingKeepsPlaces
<1>9. ASSUME NEW c \in Channels, held'[c] # Nothing
      PROVE  SoFar(held'[c], done'[held'[c].id])
  <2>1. CASE c = channel
    <3>1. held'[c] = next /\ next # Nothing
      BY <1>3, <1>9, <2>1
    <3>2. next.id = intentsSet + 1 /\ intentsSet + 1 \in 1..MaxIntents /\ intentsSet + 1 > intentsSet /\ next.ticks = 0
      BY <1>0, <3>1
    <3>3. done'[next.id] = NothingYet
      BY <1>0, <3>2 DEF CameInv
    <3>4. BurstTicks + ReleaseTicks > 0
      BY IntentsAssumption
    <3>5. NothingYet.reloads = 0 /\ NothingYet.aimedIn = {} /\ NothingYet.streak = 0
      BY DEF NothingYet
    <3>. QED
      BY <3>1, <3>2, <3>3, <3>4, <3>5 DEF SoFar
  <2>2. CASE c # channel
    <3>1. held'[c] = held[c] /\ held[c] # Nothing
      BY <1>3, <1>9, <2>2
    <3>. QED
      BY <1>0, <3>1 DEF CameInv
  <2>. QED
    BY <2>1, <2>2
<1>10. CameInv' /\ AliveInAMatch'
  <2>1. \A id \in 1..MaxIntents : id > intentsSet' => id > intentsSet
    BY <1>0, <1>5
  <2>2. \A id \in 1..MaxIntents : Within(done'[id]) /\ (id > intentsSet' => done'[id] = NothingYet)
    BY <1>0, <2>1 DEF CameInv
  <2>. QED
    BY <1>0, <1>9, <2>2 DEF CameInv, AliveInAMatch
<1>11. RawIsAlone'
  <2>1. CASE channel = "raw"
    <3>1. \A c \in Channels \ {"raw"} : held'[c] = Nothing
      BY <1>3, <2>1 DEF Taken
    <3>. QED
      BY <3>1 DEF RawIsAlone
  <2>2. CASE channel # "raw"
    <3>1. held'["raw"] = Nothing
      BY <1>3, <2>2 DEF Taken, Channels
    <3>. QED
      BY <3>1 DEF RawIsAlone
  <2>. QED
    BY <2>1, <2>2
<1>. QED
  BY <1>6, <1>8, <1>10, <1>11 DEF IntentsIInv

LEMMA SettingKeeps ==
  ASSUME IntentsIInv, NEW channel \in Channels, NEW kind \in KindsOf[channel], Set(channel, kind)
  PROVE  IntentsIInv'
<1>. DEFINE next == Held(intentsSet + 1, kind)
<1>1. intentsSet \in 0..MaxIntents /\ MaxIntents \in Nat
  BY IntentsAssumption DEF IntentsIInv, IntentsTypeOK
<1>2. /\ intentsSet < MaxIntents /\ intentsSet' = intentsSet + 1 /\ Replace(channel, next)
      /\ UNCHANGED <<toldHow, serverView, done>>
  BY DEF Set
<1>3. intentsSet + 1 \in 1..MaxIntents /\ kind \in Kinds
  BY <1>1, <1>2, KindsAreKinds
<1>4. next \in Intent /\ next.id = intentsSet + 1 /\ next.kind = kind /\ next.ticks = 0
  BY <1>3, NewIntentTyped
<1>. HIDE DEF next
<1>5. next # Nothing
  BY <1>1, <1>4 DEF Nothing
<1>. QED
  BY <1>2, <1>4, <1>5, ReplacingKeeps

LEMMA ClearingKeeps ==
  ASSUME IntentsIInv, NEW channel \in Channels, Clear(channel)
  PROVE  IntentsIInv'
  BY ReplacingKeeps DEF Clear

LEMMA EndingAimKeeps ==
  ASSUME IntentsIInv, NEW distance \in 0..FarthestPoint, ExecutorNextCommand(distance), ~serverView.ownAlive
  PROVE  IntentsIInv'
<1>. DEFINE gone == held.aim # Nothing /\ held.aim.kind = "AimAt" /\ TargetGone(held.aim)
            emptied == IF gone THEN {"aim"} ELSE {}
            told == IF gone THEN EndInto("aim", "kTargetGone") ELSE <<>>
<1>0. /\ IntentsTypeOK /\ PlacesInv /\ CameInv /\ AliveInAMatch /\ RawIsAlone
      /\ HeldTypeOK /\ HeldOnce /\ OwedTypeOK
  BY DEF IntentsIInv, IntentsTypeOK, PlacesInv
<1>1. /\ owed.prediction = <<>> /\ owed' = [owed EXCEPT !.prediction = told]
      /\ held' = [held EXCEPT !.aim = IF gone THEN Nothing ELSE @]
      /\ done' = done /\ toldHow' = toldHow /\ intentsSet' = intentsSet /\ serverView' = serverView
  BY DEF ExecutorNextCommand, EndAimIfTargetGone
<1>2. "aim" \in Channels /\ emptied \in SUBSET Channels /\ "prediction" \in Threads /\ "kTargetGone" \in Hows
  BY DEF Channels, Threads, Hows
<1>3. Tells(told, emptied)
  BY <1>0, <1>2, TellsOfOne, TellsOfNone
<1>4. told \in Seq(Endings)
  BY <1>3 DEF Tells
<1>. HIDE DEF told
<1>5. OwedTypeOK' /\ owed'["agent"] = owed["agent"] /\ owed'["prediction"] = told /\ owed["prediction"] = <<>>
  BY <1>0, <1>1, <1>4 DEF OwedTypeOK, Threads
<1>. HIDE DEF gone
<1>6. ASSUME NEW channel \in Channels
      PROVE  /\ channel \in emptied => held'[channel] = Nothing
             /\ channel \notin emptied => held'[channel] = held[channel]
  <2>1. held \in [Channels -> Intent \cup {Nothing}]
    BY <1>0 DEF HeldTypeOK
  <2>. QED
    BY <1>1, <1>2, <2>1
<1>7. HeldTypeOK'
  <2>1. \A channel \in Channels : held'[channel] \in Intent \cup {Nothing}
    BY <1>0, <1>6 DEF HeldTypeOK
  <2>2. held' = [channel \in Channels |-> held'[channel]]
    BY <1>0, <1>1 DEF HeldTypeOK
  <2>. QED
    BY <1>0, <1>6, <2>1, <2>2 DEF HeldTypeOK
<1>8. IntentsTypeOK'
  BY <1>0, <1>1, <1>5, <1>7 DEF IntentsTypeOK, ToldTypeOK, ViewTypeOK, DoneTypeOK
<1>9. EmptiesInto("prediction", emptied)
  <2>1. \A channel \in emptied : held'[channel].id = 0
    BY <1>2, <1>6 DEF Nothing
  <2>2. \A other \in Threads \ {"prediction"} : owed'[other] = owed[other]
    BY <1>5 DEF Threads
  <2>3. \A channel \in Channels \ emptied : held'[channel].id = held[channel].id
    BY <1>6
  <2>. HIDE DEF emptied
  <2>. QED
    BY <1>1, <1>3, <1>5, <2>1, <2>2, <2>3 DEF EmptiesInto
<1>10. PlacesInv'
  <2>. HIDE DEF emptied
  <2>. QED
    BY <1>0, <1>2, <1>8, <1>9, EmptyingKeepsPlaces
<1>11. CameInv' /\ AliveInAMatch' /\ RawIsAlone'
  <2>1. \A channel \in Channels : held'[channel] # Nothing => held'[channel] = held[channel]
    BY <1>6
  <2>2. \A channel \in Channels : held[channel] = Nothing => held'[channel] = Nothing
    BY <1>6
  <2>3. CameInv' /\ AliveInAMatch'
    BY <1>0, <1>1, <2>1 DEF CameInv, AliveInAMatch
  <2>4. RawIsAlone'
    BY <1>0, <2>1, <2>2 DEF RawIsAlone, Channels
  <2>. QED
    BY <2>3, <2>4
<1>. QED
  BY <1>8, <1>10, <1>11 DEF IntentsIInv

LEMMA TellingKeeps ==
  ASSUME IntentsIInv, NEW thread \in Threads, NotifyEnded(thread)
  PROVE  IntentsIInv'
<1>1. OwedTypeOK' /\ ToldTypeOK' /\ PlacesInv'
  BY TellingKeepsPlaces DEF IntentsIInv
<1>2. held' = held /\ intentsSet' = intentsSet /\ serverView' = serverView /\ done' = done
  BY DEF NotifyEnded
<1>3. IntentsTypeOK'
  BY <1>1, <1>2 DEF IntentsIInv, IntentsTypeOK, HeldTypeOK, ViewTypeOK, DoneTypeOK
<1>4. CameInv' /\ AliveInAMatch' /\ RawIsAlone'
  BY <1>2 DEF IntentsIInv, CameInv, AliveInAMatch, RawIsAlone
<1>. QED
  BY <1>1, <1>3, <1>4 DEF IntentsIInv

LEMMA UnheardOfKeeps ==
  ASSUME IntentsIInv, UNCHANGED <<held, owed, toldHow, intentsSet, done>>, ViewTypeOK', AliveInAMatch'
  PROVE  IntentsIInv'
<1>1. IntentsTypeOK'
  BY DEF IntentsIInv, IntentsTypeOK, HeldTypeOK, OwedTypeOK, ToldTypeOK, DoneTypeOK
<1>2. PlacesInv'
  BY ZenonT(60) DEF IntentsIInv, PlacesInv, HeldOnce, OncePerThread, InOnePlace, Placed, IsHeld, OwedIds
<1>3. CameInv' /\ RawIsAlone'
  BY DEF IntentsIInv, CameInv, RawIsAlone
<1>. QED
  BY <1>1, <1>2, <1>3 DEF IntentsIInv

LEMMA ServerSayingKeeps ==
  ASSUME IntentsIInv, ServerSays
  PROVE  IntentsIInv'
<1>1. serverView \in Views /\ AliveInAMatch
  BY DEF IntentsIInv, IntentsTypeOK, ViewTypeOK
<1>2. serverView.match \in Nat /\ TRUE \in Flags /\ FALSE \in Flags
  BY <1>1 DEF Views, Flags
<1>3. ViewTypeOK' /\ AliveInAMatch'
  <2>1. CASE MatchStarts
    <3>1. serverView' = [match |-> serverView.match + 1, inMatch |-> TRUE, ownAlive |-> TRUE, dead |-> FALSE,
                         state |-> FALSE, there |-> TRUE, rounds |-> 1, reloading |-> FALSE]
      BY <2>1 DEF MatchStarts
    <3>2. serverView.match + 1 \in Nat /\ serverView.match + 1 >= 1 /\ 1 \in Nat
      BY <1>2
    <3>3. serverView' \in Views
      BY <1>2, <3>1, <3>2 DEF Views
    <3>4. serverView'.match = serverView.match + 1
      BY <3>1
    <3>. QED
      BY <3>2, <3>3, <3>4 DEF ViewTypeOK, AliveInAMatch
  <2>2. CASE StateIsTaken
    <3>1. PICK there \in BOOLEAN, rounds \in 0..1, reloading \in BOOLEAN :
            serverView' = [serverView EXCEPT !.state = TRUE, !.there = there, !.rounds = rounds, !.reloading = reloading]
      BY <2>2, Zenon DEF StateIsTaken
    <3>2. there \in Flags /\ reloading \in Flags /\ rounds \in Nat
      <4>1. rounds \in Nat
        BY <3>1
      <4>. QED
        BY <4>1, Zenon DEF Flags
    <3>3. serverView' \in Views /\ serverView'.match = serverView.match /\ serverView'.ownAlive = serverView.ownAlive
      <4>1. PICK yes \in Flags : yes = TRUE
        BY <1>2, Zenon
      <4>2. serverView' = [serverView EXCEPT !.state = yes, !.there = there, !.rounds = rounds, !.reloading = reloading]
        BY <3>1, <4>1, Zenon
      <4>. QED
        BY <1>1, <3>2, <4>2 DEF Views
    <3>. QED
      BY <1>1, <3>3 DEF ViewTypeOK, AliveInAMatch
  <2>3. CASE SomeoneDies
    <3>1. \/ serverView' = [serverView EXCEPT !.dead = TRUE]
          \/ serverView' = [serverView EXCEPT !.ownAlive = FALSE]
      BY <2>3 DEF SomeoneDies
    <3>2. CASE serverView' = [serverView EXCEPT !.dead = TRUE]
      <4>1. serverView' \in Views /\ serverView'.match = serverView.match /\ serverView'.ownAlive = serverView.ownAlive
        BY <1>1, <1>2, <3>2, ViewUpdates
      <4>. QED
        BY <1>1, <4>1 DEF ViewTypeOK, AliveInAMatch
    <3>3. CASE serverView' = [serverView EXCEPT !.ownAlive = FALSE]
      <4>1. serverView' \in Views /\ serverView'.ownAlive = FALSE
        BY <1>1, <1>2, <3>3, ViewUpdates
      <4>. QED
        BY <4>1 DEF ViewTypeOK, AliveInAMatch
    <3>. QED
      BY <3>1, <3>2, <3>3
  <2>4. CASE MatchEnds
    <3>1. serverView' = [serverView EXCEPT !.inMatch = FALSE, !.ownAlive = FALSE, !.state = FALSE]
      BY <2>4 DEF MatchEnds
    <3>2. serverView' \in Views /\ serverView'.ownAlive = FALSE
      <4>1. PICK no \in Flags : no = FALSE
        BY <1>2, Zenon
      <4>2. serverView' = [serverView EXCEPT !.inMatch = no, !.ownAlive = no, !.state = no]
        BY <3>1, <4>1, Zenon
      <4>3. serverView' \in Views /\ serverView'.ownAlive = no
        BY <1>1, <4>2 DEF Views
      <4>. QED
        BY <4>1, <4>3, Zenon
    <3>. QED
      BY <3>2 DEF ViewTypeOK, AliveInAMatch
  <2>. QED
    BY <2>1, <2>2, <2>3, <2>4 DEF ServerSays
<1>. QED
  BY <1>3, UnheardOfKeeps DEF ServerSays

LEMMA IntentsStep == IntentsIInv /\ [IntentsNext]_intentVars => IntentsIInv'
<1>. SUFFICES ASSUME IntentsIInv, [IntentsNext]_intentVars PROVE IntentsIInv'
  OBVIOUS
<1>1. ASSUME NEW channel \in Channels, NEW kind \in KindsOf[channel], Set(channel, kind) PROVE IntentsIInv'
  BY <1>1, SettingKeeps
<1>2. ASSUME NEW channel \in Channels, Clear(channel) PROVE IntentsIInv'
  BY <1>2, ClearingKeeps
<1>3. ASSUME NEW thread \in {"agent", "prediction"}, NotifyEnded(thread) PROVE IntentsIInv'
  BY <1>3, TellingKeeps DEF Threads
<1>4. ASSUME NEW distance \in 0..FarthestPoint, ExecutorNextCommand(distance) PROVE IntentsIInv'
  BY <1>4, CarryingKeeps, EndingAimKeeps
<1>5. CASE ServerSays
  BY <1>5, ServerSayingKeeps
<1>6. CASE UNCHANGED intentVars
  <2>1. /\ UNCHANGED <<held, owed, toldHow, intentsSet, done>> /\ serverView' = serverView
    BY <1>6 DEF intentVars
  <2>2. ViewTypeOK' /\ AliveInAMatch'
    BY <2>1 DEF IntentsIInv, IntentsTypeOK, ViewTypeOK, AliveInAMatch
  <2>. QED
    BY <2>1, <2>2, UnheardOfKeeps
<1>. QED
  BY <1>1, <1>2, <1>3, <1>4, <1>5, <1>6 DEF IntentsNext

LEMMA IntentsStart == IntentsInit => IntentsIInv
<1>. SUFFICES ASSUME IntentsInit PROVE IntentsIInv
  OBVIOUS
<1>. USE DEF IntentsInit
<1>1. HeldTypeOK
  BY DEF HeldTypeOK
<1>2. OwedTypeOK
  <2>1. <<>> \in Seq(Endings)
    OBVIOUS
  <2>. QED
    BY <2>1 DEF OwedTypeOK, Threads
<1>3. ToldTypeOK
  BY DEF ToldTypeOK
<1>4. ViewTypeOK
  <2>1. TRUE \in Flags /\ FALSE \in Flags
    BY DEF Flags
  <2>. QED
    BY <2>1 DEF ViewTypeOK, Views
<1>5. done \in [1..MaxIntents -> Comings] /\ \A id \in 1..MaxIntents : done[id] = NothingYet
  BY DEF Comings, NothingYet
<1>6. IntentsTypeOK
  BY <1>1, <1>2, <1>3, <1>4, <1>5, IntentsAssumption DEF IntentsTypeOK, DoneTypeOK
<1>7. ASSUME NEW id \in 1..MaxIntents PROVE Placed(id) = Is(id <= intentsSet)
  <2>1. ~IsHeld(id) /\ ~(id <= intentsSet) /\ toldHow[id] = <<>>
    BY DEF IsHeld, Nothing
  <2>2. id \notin OwedIds("agent") /\ id \notin OwedIds("prediction")
    BY DEF OwedIds
  <2>3. /\ Is(IsHeld(id)) = 0 /\ Is(id <= intentsSet) = 0 /\ Is(id \in OwedIds("agent")) = 0
        /\ Is(id \in OwedIds("prediction")) = 0 /\ Len(toldHow[id]) = 0
    BY <2>1, <2>2 DEF Is
  <2>. QED
    BY <2>3 DEF Placed
<1>8. PlacesInv
  <2>1. OncePerThread
    BY DEF OncePerThread, Threads
  <2>. QED
    BY <1>7, <2>1 DEF PlacesInv, HeldOnce, InOnePlace
<1>9. CameInv
  <2>1. Within(NothingYet)
    <3>1. NothingYet.reloads = 0 /\ NothingYet.aimedIn = {} /\ NothingYet.streak = 0
      BY DEF NothingYet
    <3>2. 0 \in Nat /\ {} \subseteq {0} /\ BurstTicks \in Nat
      BY IntentsAssumption
    <3>. QED
      BY <3>1, <3>2 DEF Within
  <2>. QED
    BY <1>5, <2>1 DEF CameInv
<1>. QED
  BY <1>6, <1>8, <1>9 DEF IntentsIInv, AliveInAMatch, RawIsAlone

(***************************************************************************)
(* What the invariant comes to.                                            *)
(***************************************************************************)
LEMMA HowManyOwe ==
  ASSUME NEW id
  PROVE  Cardinality({thread \in Threads : id \in OwedIds(thread)}) =
           Is(id \in OwedIds("agent")) + Is(id \in OwedIds("prediction"))
<1>. DEFINE owing == {thread \in Threads : id \in OwedIds(thread)}
<1>1. /\ Cardinality({}) = 0 /\ Cardinality({"agent"}) = 1 /\ Cardinality({"prediction"}) = 1
      /\ Cardinality({"agent", "prediction"}) = 2
  <2>1. IsFiniteSet({"agent"}) /\ Cardinality({"agent"}) = 1 /\ Cardinality({"prediction"}) = 1 /\ Cardinality({}) = 0
    BY FS_Singleton, FS_EmptySet
  <2>2. Cardinality({"agent"} \cup {"prediction"}) = Cardinality({"agent"}) + 1
    BY <2>1, FS_AddElement
  <2>3. {"agent"} \cup {"prediction"} = {"agent", "prediction"}
    OBVIOUS
  <2>. QED
    BY <2>1, <2>2, <2>3
<1>2. CASE id \in OwedIds("agent") /\ id \in OwedIds("prediction")
  <2>1. owing = {"agent", "prediction"}
    BY <1>2 DEF Threads
  <2>2. Is(id \in OwedIds("agent")) = 1 /\ Is(id \in OwedIds("prediction")) = 1
    BY <1>2 DEF Is
  <2>. QED
    BY <1>1, <2>1, <2>2
<1>3. CASE id \in OwedIds("agent") /\ id \notin OwedIds("prediction")
  <2>1. owing = {"agent"}
    BY <1>3 DEF Threads
  <2>2. Is(id \in OwedIds("agent")) = 1 /\ Is(id \in OwedIds("prediction")) = 0
    BY <1>3 DEF Is
  <2>. QED
    BY <1>1, <2>1, <2>2
<1>4. CASE id \notin OwedIds("agent") /\ id \in OwedIds("prediction")
  <2>1. owing = {"prediction"}
    BY <1>4 DEF Threads
  <2>2. Is(id \in OwedIds("agent")) = 0 /\ Is(id \in OwedIds("prediction")) = 1
    BY <1>4 DEF Is
  <2>. QED
    BY <1>1, <2>1, <2>2
<1>5. CASE id \notin OwedIds("agent") /\ id \notin OwedIds("prediction")
  <2>1. owing = {}
    BY <1>5 DEF Threads
  <2>2. Is(id \in OwedIds("agent")) = 0 /\ Is(id \in OwedIds("prediction")) = 0
    BY <1>5 DEF Is
  <2>. QED
    BY <1>1, <2>1, <2>2
<1>. QED
  BY <1>2, <1>3, <1>4, <1>5

LEMMA IntentsConclusion == IntentsIInv => IntentsInv
<1>. SUFFICES ASSUME IntentsIInv PROVE IntentsInv
  OBVIOUS
<1>0. IntentsTypeOK /\ PlacesInv /\ CameInv /\ RawIsAlone /\ intentsSet \in 0..MaxIntents
  BY DEF IntentsIInv, IntentsTypeOK
<1>1. ToldOnceEach
  <2>. SUFFICES ASSUME NEW id \in 1..MaxIntents
                PROVE  (IF id \in HeldIds THEN 1 ELSE 0) + Len(toldHow[id])
                         + Cardinality({thread \in {"agent", "prediction"} : id \in OwedIds(thread)})
                       = IF id <= intentsSet THEN 1 ELSE 0
    BY DEF ToldOnceEach
  <2>1. id \in HeldIds <=> IsHeld(id)
    BY DEF HeldIds, IsHeld
  <2>. DEFINE isHeld == Is(IsHeld(id))
              length == Len(toldHow[id])
              byAgent == Is(id \in OwedIds("agent"))
              byPrediction == Is(id \in OwedIds("prediction"))
  <2>2. (IF id \in HeldIds THEN 1 ELSE 0) = isHeld /\ Is(id <= intentsSet) = (IF id <= intentsSet THEN 1 ELSE 0)
    BY <2>1 DEF Is
  <2>3. isHeld \in Nat /\ byAgent \in Nat /\ byPrediction \in Nat
    BY DEF Is
  <2>4. length \in Nat
    BY <1>0, PlacesAreNumbers
  <2>5. isHeld + length + byAgent + byPrediction = Is(id <= intentsSet)
    BY <1>0 DEF PlacesInv, InOnePlace, Placed
  <2>6. Cardinality({thread \in {"agent", "prediction"} : id \in OwedIds(thread)}) = byAgent + byPrediction
    BY HowManyOwe DEF Threads
  <2>. HIDE DEF isHeld, length, byAgent, byPrediction
  <2>7. isHeld + length + (byAgent + byPrediction) = isHeld + length + byAgent + byPrediction
    BY <2>3, <2>4
  <2>8. (IF id \in HeldIds THEN 1 ELSE 0) + length
          + Cardinality({thread \in {"agent", "prediction"} : id \in OwedIds(thread)})
        = IF id <= intentsSet THEN 1 ELSE 0
    BY <2>2, <2>5, <2>6, <2>7
  <2>. QED
    BY <2>8 DEF length
<1>2. ReloadsOnce /\ BurstsAreShort
  BY <1>0 DEF CameInv, Within, ReloadsOnce, BurstsAreShort
<1>3. AimsInOneMatch
  <2>. SUFFICES ASSUME NEW id \in 1..MaxIntents PROVE Cardinality(done[id].aimedIn) <= 1
    BY DEF AimsInOneMatch
  <2>1. PICK itsMatch \in Nat : done[id].aimedIn \subseteq {itsMatch}
    BY <1>0 DEF CameInv, Within
  <2>2. IsFiniteSet({itsMatch}) /\ Cardinality({itsMatch}) = 1
    BY FS_Singleton
  <2>3. IsFiniteSet(done[id].aimedIn) /\ Cardinality(done[id].aimedIn) <= Cardinality({itsMatch})
    BY <2>1, <2>2, FS_Subset
  <2>. QED
    BY <2>2, <2>3
<1>. QED
  BY <1>0, <1>1, <1>2, <1>3 DEF IntentsInv

(***************************************************************************)
(* Whatever the Agent's thread and the Prediction's do, an Intent set is   *)
(* held, owed an ending or was told one, in one place only; a Raw is       *)
(* alone; a reload is pressed in one Command, an AimAt aims in one match   *)
(* and FireBursts holds the trigger no longer than a Burst.                *)
(***************************************************************************)
THEOREM IntentsInvariant == IntentsSpec => []IntentsInv
<1>1. IntentsSpec => []IntentsIInv
  BY IntentsStart, IntentsStep, PTL DEF IntentsSpec
<1>. QED
  BY <1>1, IntentsConclusion, PTL

-----------------------------------------------------------------------------
(***************************************************************************)
(* The commands.  Types.                                                   *)
(***************************************************************************)
SequencesOrNone == 0..MaxSequence
Datagrams == Seq(Sequence)

Queues == [queued : Datagrams, last : SequencesOrNone, held : Nat, lastOffered : SequencesOrNone,
           acknowledged : SequencesOrNone]
States == [match : Nat, tick : Nat, acknowledged : SequencesOrNone]
ServerViews == [started : Nat, inMatch : Flags, tick : Nat, acknowledged : SequencesOrNone]
CommandStreams == [startedMatch : Nat, unacknowledged : Datagrams, next : Nat]

ServerTyped ==
  /\ playedMatch \in Nat /\ playedMatch <= MaxPlayedMatches /\ inMatch \in Flags
  /\ serverTick \in Nat /\ serverTick <= MaxServerTicks
  /\ queue \in Queues /\ taking \in Datagrams
  /\ Len(queue.queued) <= Capacity /\ queue.held <= MaxHeld

ClientTyped ==
  /\ view \in ServerViews
  /\ stream \in CommandStreams /\ stream.next >= 1 /\ stream.next <= MaxSequence + 1

LinkTyped ==
  /\ commands \in SUBSET Datagrams /\ states \in SUBSET States
  /\ \A datagram \in commands : Len(datagram) >= 1 /\ Len(datagram) <= Carried

HistoryTyped ==
  /\ sentIn \in [Sequence -> Nat] /\ simulated \in Datagrams
  /\ firedTicks \in [Sequence -> Nat] /\ coasted \in Nat /\ dropped \in SUBSET Sequence

(***************************************************************************)
(* Every list of commands is in the order they were made, and a datagram   *)
(* or a list of the client's names only commands it has made.              *)
(***************************************************************************)
Increasing(s) == \A i, j \in DOMAIN s : i < j => s[i] < s[j]
Below(s, n) == \A i \in DOMAIN s : s[i] < n

Made(s) == Increasing(s) /\ Below(s, stream.next)

EverythingMade ==
  /\ Made(stream.unacknowledged) /\ Made(taking)
  /\ \A datagram \in commands : Made(datagram)

(***************************************************************************)
(* The queue: what it ran, then what it acknowledged, then what it holds,  *)
(* then what it was last offered.  No later command has fired.             *)
(***************************************************************************)
QueueInLine ==
  /\ Increasing(queue.queued)
  /\ \A i \in DOMAIN queue.queued :
       queue.acknowledged < queue.queued[i] /\ queue.queued[i] <= queue.lastOffered
  /\ queue.last = queue.acknowledged
  /\ queue.acknowledged <= queue.lastOffered /\ queue.lastOffered < stream.next

RunInLine ==
  /\ Increasing(simulated)
  /\ \A i \in DOMAIN simulated : simulated[i] <= queue.acknowledged
  /\ \A s \in Sequence : firedTicks[s] <= 1 /\ (s > queue.acknowledged => firedTicks[s] = 0)
  /\ coasted <= queue.held

(***************************************************************************)
(* The reliable stream: the client has heard each match start and end, or  *)
(* the word is on its way.                                                 *)
(***************************************************************************)
StartComes == toClient \in {<<"MatchStart">>, <<"MatchStart", "MatchEnd">>}

MatchesInStep ==
  /\ toClient \in {<<>>, <<"MatchStart">>, <<"MatchStart", "MatchEnd">>, <<"MatchEnd">>}
  /\ StartComes => view.started + 1 = playedMatch /\ ~view.inMatch
  /\ ~StartComes => view.started = playedMatch
  /\ inMatch => toClient \in {<<>>, <<"MatchStart">>}
  /\ taking # <<>> => inMatch

(***************************************************************************)
(* No command was made for a match the client has not started, and no      *)
(* acknowledgement of this match is ahead of the queue's.                  *)
(***************************************************************************)
SentBeforeNow ==
  /\ stream.startedMatch <= view.started
  /\ \A s \in Sequence : sentIn[s] <= stream.startedMatch

AcknowledgedBehind ==
  /\ \A state \in states :
       state.match <= playedMatch /\ (state.match = playedMatch => state.acknowledged <= queue.acknowledged)
  /\ view.started = playedMatch => view.acknowledged <= queue.acknowledged

(***************************************************************************)
(* A command of this match made before some point was run or given up,     *)
(* unless it is still in the list there: before what the queue was last    *)
(* offered, before the end of a datagram, before the client's next.        *)
(***************************************************************************)
Settled(s) == s \in ToSet(simulated) \cup dropped \cup Malformed
OfNow(s) == s \in Sequence /\ sentIn[s] = playedMatch
LastOf(s) == s[Len(s)]

OfferedSettled == \A s \in Sequence :
  OfNow(s) /\ s <= queue.lastOffered => Settled(s) \/ s \in ToSet(queue.queued)

CarriedSettled == \A datagram \in commands : \A s \in Sequence :
  OfNow(s) /\ s < LastOf(datagram) => Settled(s) \/ s \in ToSet(datagram)

TakingSettled == taking # <<>> => \A s \in Sequence :
  OfNow(s) /\ s < LastOf(taking) =>
    Settled(s) \/ s \in ToSet(taking) \/ s \in ToSet(queue.queued)

SentSettled == playedMatch = view.started /\ stream.startedMatch = view.started => \A s \in Sequence :
  OfNow(s) /\ s < stream.next => Settled(s) \/ s \in ToSet(stream.unacknowledged)

DeliveryIInv ==
  /\ ServerTyped /\ ClientTyped /\ LinkTyped /\ HistoryTyped
  /\ EverythingMade /\ QueueInLine /\ RunInLine
  /\ MatchesInStep /\ SentBeforeNow /\ AcknowledgedBehind
  /\ OfferedSettled /\ CarriedSettled /\ TakingSettled /\ SentSettled

-----------------------------------------------------------------------------
(***************************************************************************)
(* Lists of commands.                                                      *)
(***************************************************************************)
USE CommandAssumption DEF None, Datagrams, SequencesOrNone

LEMMA SequencesCount ==
  /\ Sequence \in SUBSET Nat /\ SequencesOrNone \in SUBSET Nat /\ Sequence \in SUBSET SequencesOrNone
  /\ \A s \in Sequence : s \in Nat /\ 1 <= s /\ s <= MaxSequence
  BY DEF Sequence

(* Membership of a list, by position.                                      *)
LEMMA MemberOf ==
  ASSUME NEW s, NEW e
  PROVE  e \in ToSet(s) <=> \E i \in DOMAIN s : s[i] = e
  BY DEF ToSet

(* One more command, newer than the rest.                                  *)
LEMMA OneMore ==
  ASSUME NEW s \in Datagrams, NEW e \in Sequence, Increasing(s), Below(s, e)
  PROVE  /\ Append(s, e) \in Datagrams /\ Increasing(Append(s, e))
         /\ Len(Append(s, e)) = Len(s) + 1
         /\ ToSet(Append(s, e)) = ToSet(s) \cup {e}
         /\ LastOf(Append(s, e)) = e
         /\ \A n \in Nat : e < n => Below(Append(s, e), n)
<1>. DEFINE more == Append(s, e)
<1>1. /\ more \in Datagrams /\ Len(more) = Len(s) + 1 /\ Len(s) \in Nat
      /\ DOMAIN s = 1..Len(s) /\ DOMAIN more = 1..(Len(s) + 1)
      /\ \A i \in 1..Len(s) : more[i] = s[i]
      /\ more[Len(s) + 1] = e
  <2>1. Len(s) \in Nat /\ DOMAIN s = 1..Len(s)
    OBVIOUS
  <2>2. more \in Datagrams /\ Len(more) = Len(s) + 1
    OBVIOUS
  <2>3. DOMAIN more = 1..(Len(s) + 1)
    OBVIOUS
  <2>4. \A i \in 1..Len(s) : more[i] = s[i]
    OBVIOUS
  <2>5. more[Len(s) + 1] = e
    OBVIOUS
  <2>6. QED
    BY <2>1, <2>2, <2>3, <2>4, <2>5
<1>2. \A i \in 1..Len(s) : s[i] \in Nat /\ s[i] < e
  <2>1. \A i \in 1..Len(s) : s[i] \in Sequence
    OBVIOUS
  <2>2. QED
    BY <1>1, <2>1, SequencesCount DEF Below
<1>3. e \in Nat
  BY SequencesCount
<1>. HIDE DEF more
<1>4. Increasing(more)
  <2>1. ASSUME NEW i \in DOMAIN more, NEW j \in DOMAIN more, i < j PROVE more[i] < more[j]
    <3>1. i \in 1..Len(s) /\ more[i] = s[i]
      BY <1>1, <2>1
    <3>2. CASE j \in 1..Len(s)
      BY <1>1, <2>1, <3>1, <3>2 DEF Increasing
    <3>3. CASE j \notin 1..Len(s)
      <4>1. j = Len(s) + 1
        BY <1>1, <2>1, <3>3
      <4>2. QED
        BY <1>1, <1>2, <3>1, <4>1
    <3>4. QED
      BY <3>2, <3>3
  <2>2. QED
    BY <2>1 DEF Increasing
<1>5. ToSet(more) = ToSet(s) \cup {e}
  <2>1. \A x : (\E i \in DOMAIN more : more[i] = x) <=> (\E i \in DOMAIN s : s[i] = x) \/ x = e
    <3>1. DOMAIN more = DOMAIN s \cup {Len(s) + 1}
      BY <1>1
    <3>2. QED
      BY <1>1, <3>1
  <2>2. QED
    BY <2>1, MemberOf
<1>6. LastOf(more) = e
  BY <1>1 DEF LastOf
<1>7. ASSUME NEW n \in Nat, e < n PROVE Below(more, n)
  <2>1. \A i \in 1..Len(s) : more[i] < n
    BY <1>1, <1>2, <1>3, <1>7
  <2>2. more[Len(s) + 1] < n
    BY <1>1, <1>7
  <2>3. QED
    BY <1>1, <2>1, <2>2 DEF Below
<1>8. QED
  BY <1>1, <1>4, <1>5, <1>6, <1>7 DEF more

(* The oldest command and the rest.                                        *)
LEMMA OneLess ==
  ASSUME NEW s \in Datagrams, s # <<>>, Increasing(s)
  PROVE  /\ Tail(s) \in Datagrams /\ Increasing(Tail(s)) /\ Len(Tail(s)) = Len(s) - 1
         /\ Head(s) \in Sequence /\ Head(s) \in ToSet(s)
         /\ ToSet(s) = {Head(s)} \cup ToSet(Tail(s))
         /\ \A i \in DOMAIN s : Head(s) <= s[i]
         /\ \A i \in DOMAIN Tail(s) : Head(s) < Tail(s)[i] /\ Tail(s)[i] \in ToSet(s)
         /\ Tail(s) # <<>> => LastOf(Tail(s)) = LastOf(s)
         /\ \A n \in Nat : Below(s, n) => Below(Tail(s), n)
         /\ Head(s) <= LastOf(s) /\ LastOf(s) \in ToSet(s)
<1>. DEFINE rest == Tail(s)
<1>1. /\ Len(s) \in Nat /\ Len(s) >= 1 /\ DOMAIN s = 1..Len(s)
      /\ rest \in Datagrams /\ Len(rest) = Len(s) - 1 /\ DOMAIN rest = 1..(Len(s) - 1)
      /\ \A i \in 1..(Len(s) - 1) : rest[i] = s[i + 1]
      /\ Head(s) = s[1]
  <2>1. Len(s) \in Nat /\ Len(s) >= 1 /\ DOMAIN s = 1..Len(s) /\ Head(s) = s[1]
    OBVIOUS
  <2>2. rest \in Datagrams /\ Len(rest) = Len(s) - 1
    OBVIOUS
  <2>3. DOMAIN rest = 1..(Len(s) - 1)
    BY <2>1, <2>2
  <2>4. \A i \in 1..(Len(s) - 1) : rest[i] = s[i + 1]
    OBVIOUS
  <2>5. QED
    BY <2>1, <2>2, <2>3, <2>4
<1>2. \A i \in 1..Len(s) : s[i] \in Sequence /\ s[i] \in Nat
  <2>1. \A i \in 1..Len(s) : s[i] \in Sequence
    OBVIOUS
  <2>2. QED
    BY <2>1, SequencesCount
<1>. HIDE DEF rest
<1>3. Increasing(rest)
  <2>1. ASSUME NEW i \in DOMAIN rest, NEW j \in DOMAIN rest, i < j PROVE rest[i] < rest[j]
    <3>1. i + 1 \in 1..Len(s) /\ j + 1 \in 1..Len(s) /\ i + 1 < j + 1
      BY <1>1, <2>1
    <3>2. s[i + 1] < s[j + 1]
      BY <1>1, <3>1 DEF Increasing
    <3>3. QED
      BY <1>1, <2>1, <3>2
  <2>2. QED
    BY <2>1 DEF Increasing
<1>4. Head(s) \in Sequence /\ Head(s) \in ToSet(s) /\ LastOf(s) \in ToSet(s)
  <2>1. 1 \in DOMAIN s /\ Len(s) \in DOMAIN s
    BY <1>1
  <2>2. QED
    BY <1>1, <1>2, <2>1, MemberOf DEF LastOf
<1>5. \A i \in DOMAIN s : Head(s) <= s[i]
  <2>1. ASSUME NEW i \in DOMAIN s PROVE s[1] <= s[i]
    <3>1. i = 1 \/ 1 < i
      BY <1>1
    <3>2. 1 < i => s[1] < s[i]
      BY <1>1 DEF Increasing
    <3>3. s[1] \in Nat /\ s[i] \in Nat
      BY <1>1, <1>2
    <3>4. QED
      BY <3>1, <3>2, <3>3
  <2>2. QED
    BY <1>1, <2>1
<1>6. ASSUME NEW i \in DOMAIN rest PROVE Head(s) < rest[i] /\ rest[i] \in ToSet(s)
  <2>1. i + 1 \in DOMAIN s /\ 1 < i + 1 /\ 1 \in DOMAIN s
    BY <1>1
  <2>2. s[1] < s[i + 1]
    BY <2>1 DEF Increasing
  <2>3. QED
    BY <1>1, <2>1, <2>2, MemberOf
<1>7. ToSet(s) = {Head(s)} \cup ToSet(rest)
  <2>1. ASSUME NEW x, NEW i \in DOMAIN s, s[i] = x PROVE x = Head(s) \/ x \in ToSet(rest)
    <3>1. CASE i = 1
      BY <1>1, <2>1, <3>1
    <3>2. CASE i # 1
      <4>1. i - 1 \in DOMAIN rest /\ rest[i - 1] = s[i]
        BY <1>1, <3>2
      <4>2. QED
        BY <2>1, <4>1, MemberOf
    <3>3. QED
      BY <3>1, <3>2
  <2>2. \A x \in ToSet(rest) : x \in ToSet(s)
    BY <1>6, MemberOf
  <2>3. QED
    BY <1>4, <2>1, <2>2, MemberOf
<1>8. rest # <<>> => LastOf(rest) = LastOf(s)
  <2>1. rest # <<>> => Len(rest) \in 1..(Len(s) - 1)
    BY <1>1
  <2>2. QED
    BY <1>1, <2>1 DEF LastOf
<1>9. ASSUME NEW n \in Nat, Below(s, n) PROVE Below(rest, n)
  <2>1. \A i \in DOMAIN rest : i + 1 \in DOMAIN s /\ rest[i] = s[i + 1]
    BY <1>1
  <2>2. QED
    BY <1>9, <2>1 DEF Below
<1>10. Head(s) <= LastOf(s)
  <2>1. Len(s) \in DOMAIN s
    BY <1>1
  <2>2. QED
    BY <1>5, <2>1 DEF LastOf
<1>11. QED
  BY <1>1, <1>3, <1>4, <1>5, <1>6, <1>7, <1>8, <1>9, <1>10 DEF rest

(* The newest that one message carries (link::Carried).                    *)
LEMMA NewestAreLast ==
  ASSUME NEW s \in Datagrams, s # <<>>, Increasing(s)
  PROVE  /\ Newest(s) \in Datagrams /\ Increasing(Newest(s))
         /\ Len(Newest(s)) >= 1 /\ Len(Newest(s)) <= Carried
         /\ ToSet(Newest(s)) \subseteq ToSet(s)
         /\ LastOf(Newest(s)) = LastOf(s)
         /\ \A n \in Nat : Below(s, n) => Below(Newest(s), n)
<1>. DEFINE past == Len(s) - Carried
            newest == SubSeq(s, past + 1, Len(s))
<1>1. Len(s) \in Nat /\ Len(s) >= 1 /\ DOMAIN s = 1..Len(s) /\ Carried \in Nat /\ Carried >= 1
  <2>1. Carried \in Nat /\ Carried >= 1
    BY CommandAssumption DEF CommandAssumption
  <2>2. Len(s) \in Nat /\ DOMAIN s = 1..Len(s) /\ Len(s) >= 1
    OBVIOUS
  <2>3. QED
    BY <2>1, <2>2
<1>2. CASE Len(s) > Carried
  <2>1. past \in Nat /\ past < Len(s)
    BY <1>1, <1>2
  <2>2. /\ newest \in Datagrams /\ Len(newest) = Len(s) - past /\ DOMAIN newest = 1..(Len(s) - past)
        /\ \A i \in 1..(Len(s) - past) : newest[i] = s[past + i]
    <3>. HIDE DEF past
    <3>1. past + 1 \in 1..Len(s)
      BY <1>1, <2>1
    <3>2. newest = [i \in 1..(Len(s) - past) |-> s[past + i]]
      <4>1. newest = [i \in 1..(Len(s) - (past + 1) + 1) |-> s[i + (past + 1) - 1]]
        BY <1>1, <3>1
      <4>2. Len(s) - (past + 1) + 1 = Len(s) - past
        BY <1>1, <2>1
      <4>3. \A i \in 1..(Len(s) - past) : i + (past + 1) - 1 = past + i
        BY <1>1, <2>1
      <4>4. QED
        BY <4>1, <4>2, <4>3
    <3>3. \A i \in 1..(Len(s) - past) : s[past + i] \in Sequence
      BY <1>1, <2>1
    <3>. HIDE DEF newest
    <3>4. Len(s) - past \in Nat
      BY <1>1, <2>1
    <3>5. QED
      BY <3>2, <3>3, <3>4
  <2>3. Newest(s) = newest
    BY <1>2 DEF Newest
  <2>4. Len(s) - past = Carried /\ past + Carried = Len(s)
    BY <1>1
  <2>. HIDE DEF newest, past
  <2>5. \A i \in DOMAIN newest : past + i \in DOMAIN s /\ newest[i] = s[past + i]
    <3>1. \A i \in 1..(Len(s) - past) : past + i \in 1..Len(s)
      BY <1>1, <2>1
    <3>2. QED
      BY <1>1, <2>2, <3>1
  <2>6. Increasing(newest)
    <3>1. ASSUME NEW i \in DOMAIN newest, NEW j \in DOMAIN newest, i < j PROVE newest[i] < newest[j]
      <4>1. past + i < past + j /\ past + i \in DOMAIN s /\ past + j \in DOMAIN s
        BY <2>1, <2>2, <2>5, <3>1
      <4>2. s[past + i] < s[past + j]
        BY <4>1 DEF Increasing
      <4>3. QED
        BY <2>5, <4>2
    <3>2. QED
      BY <3>1 DEF Increasing
  <2>7. ToSet(newest) \subseteq ToSet(s)
    BY <2>5, MemberOf
  <2>8. LastOf(newest) = LastOf(s)
    <3>1. Carried \in 1..(Len(s) - past)
      BY <1>1, <2>4
    <3>2. QED
      BY <2>2, <2>4, <2>5, <3>1 DEF LastOf
  <2>9. \A n \in Nat : Below(s, n) => Below(newest, n)
    BY <2>5 DEF Below
  <2>10. QED
    BY <1>1, <2>2, <2>3, <2>4, <2>6, <2>7, <2>8, <2>9
<1>3. CASE ~(Len(s) > Carried)
  <2>1. Newest(s) = s
    BY <1>3 DEF Newest
  <2>2. QED
    BY <1>1, <1>3, <2>1
<1>4. QED
  BY <1>2, <1>3

(* What the client still owes, with its next: a command it drops was       *)
(* acknowledged (CommandStream::Queue).                                    *)
LEMMA UnacknowledgedAreOwed ==
  ASSUME ClientTyped, Made(stream.unacknowledged), stream.next \in Sequence
  PROVE  /\ Unacknowledged \in Datagrams /\ Unacknowledged # <<>> /\ Increasing(Unacknowledged)
         /\ LastOf(Unacknowledged) = stream.next /\ Below(Unacknowledged, stream.next + 1)
         /\ stream.next \in ToSet(Unacknowledged)
         /\ stream.startedMatch = view.started =>
              \A s \in ToSet(stream.unacknowledged) :
                s <= view.acknowledged \/ s \in ToSet(Unacknowledged)
<1>. DEFINE started == IF stream.startedMatch = view.started THEN stream.unacknowledged ELSE <<>>
            unheard == {i \in DOMAIN started : started[i] > view.acknowledged}
            kept == Subsequence(started, unheard)
<1>1. /\ started \in Datagrams /\ Increasing(started) /\ Below(started, stream.next)
      /\ stream.unacknowledged \in Datagrams
      /\ stream.startedMatch = view.started => started = stream.unacknowledged
  <2>1. stream.unacknowledged \in Datagrams
    BY Zenon DEF ClientTyped, CommandStreams
  <2>2. <<>> \in Datagrams /\ Increasing(<<>>) /\ Below(<<>>, stream.next)
    BY DEF Increasing, Below
  <2>3. QED
    BY <2>1, <2>2 DEF Made
<1>2. view.acknowledged \in Nat
  BY SequencesCount, Zenon DEF ClientTyped, ServerViews
<1>. HIDE DEF started
<1>3. unheard \in SUBSET DOMAIN started
  OBVIOUS
<1>. DEFINE size == Cardinality(unheard)
<1>4. /\ kept \in Datagrams /\ Len(kept) = size /\ size \in Nat
      /\ \E from \in [1..size -> unheard] :
           /\ \A k \in 1..size : kept[k] = started[from[k]]
           /\ \A k, l \in 1..size : k < l => from[k] < from[l]
           /\ \A i \in unheard : \E k \in 1..size : from[k] = i
  <2>1. /\ kept \in Datagrams /\ Len(kept) = size /\ size \in 0..Len(started)
        /\ \E from \in [1..size -> unheard] :
             /\ \A k \in 1..size : kept[k] = started[from[k]]
             /\ \A k, l \in 1..size : k < l => from[k] < from[l]
             /\ \A i \in unheard : \E k \in 1..size : from[k] = i
    <3>1. started \in Seq(Sequence)
      BY <1>1, Zenon
    <3>. HIDE DEF unheard, Datagrams
    <3>2. /\ Subsequence(started, unheard) \in Seq(Sequence)
          /\ Len(Subsequence(started, unheard)) = Cardinality(unheard)
          /\ Cardinality(unheard) \in 0..Len(started)
          /\ \E from \in [1..Cardinality(unheard) -> unheard] :
               /\ \A k \in 1..Cardinality(unheard) : Subsequence(started, unheard)[k] = started[from[k]]
               /\ \A k, l \in 1..Cardinality(unheard) : k < l => from[k] < from[l]
               /\ \A i \in unheard : \E k \in 1..Cardinality(unheard) : from[k] = i
      BY <1>3, <3>1, SubsequenceIsOrdered
    <3>3. QED
      BY <3>2, Zenon DEF Datagrams
  <2>2. size \in Nat
    <3>. HIDE DEF unheard, size
    <3>1. Len(started) \in Nat
      BY <1>1
    <3>2. QED
      BY <2>1, <3>1
  <2>3. QED
    <3>. HIDE DEF unheard, size, kept
    <3>1. QED
      BY <2>1, <2>2
<1>5. PICK from \in [1..size -> unheard] :
        /\ \A k \in 1..size : kept[k] = started[from[k]]
        /\ \A k, l \in 1..size : k < l => from[k] < from[l]
        /\ \A i \in unheard : \E k \in 1..size : from[k] = i
  BY <1>4
<1>6. Unacknowledged = Append(kept, stream.next)
  BY DEF Unacknowledged, started
<1>7. \A i \in unheard : i \in DOMAIN started
  OBVIOUS
<1>8. \A i \in DOMAIN started : i \in unheard \/ started[i] <= view.acknowledged
  <2>1. \A i \in DOMAIN started : started[i] \in Nat
    <3>1. \A i \in DOMAIN started : started[i] \in Sequence
      BY <1>1
    <3>2. QED
      BY <3>1, SequencesCount
  <2>2. QED
    BY <1>2, <2>1
<1>. HIDE DEF unheard, kept
<1>9. DOMAIN kept = 1..size
  BY <1>4
<1>. HIDE DEF size
<1>10. Increasing(kept) /\ Below(kept, stream.next)
  <2>1. \A k \in 1..size : from[k] \in DOMAIN started
    BY <1>7
  <2>2. \A k, l \in 1..size : k < l => kept[k] < kept[l]
    BY <1>1, <1>5, <2>1 DEF Increasing
  <2>3. \A k \in 1..size : kept[k] < stream.next
    BY <1>1, <1>5, <2>1 DEF Below
  <2>4. QED
    BY <1>9, <2>2, <2>3 DEF Increasing, Below
<1>11. /\ Append(kept, stream.next) \in Datagrams /\ Increasing(Append(kept, stream.next))
       /\ Len(Append(kept, stream.next)) = Len(kept) + 1
       /\ ToSet(Append(kept, stream.next)) = ToSet(kept) \cup {stream.next}
       /\ LastOf(Append(kept, stream.next)) = stream.next
       /\ \A n \in Nat : stream.next < n => Below(Append(kept, stream.next), n)
  BY <1>4, <1>10, OneMore
<1>12. Append(kept, stream.next) # <<>>
  <2>1. Len(Append(kept, stream.next)) >= 1
    BY <1>4, <1>11
  <2>2. QED
    BY <2>1
<1>13. Below(Append(kept, stream.next), stream.next + 1)
  <2>0. stream.next \in Nat
    BY SequencesCount, Zenon
  <2>1. stream.next + 1 \in Nat /\ stream.next < stream.next + 1
    BY <2>0
  <2>2. QED
    BY <1>11, <2>1
<1>14. ASSUME stream.startedMatch = view.started, NEW s \in ToSet(stream.unacknowledged)
       PROVE  s <= view.acknowledged \/ s \in ToSet(kept)
  <2>1. PICK i \in DOMAIN started : started[i] = s
    BY <1>1, <1>14, MemberOf
  <2>2. CASE i \in unheard
    <3>1. PICK k \in 1..size : from[k] = i
      BY <1>5, <2>2
    <3>2. kept[k] = s /\ k \in DOMAIN kept
      BY <1>5, <1>9, <2>1, <3>1
    <3>3. QED
      BY <3>2, MemberOf
  <2>3. CASE i \notin unheard
    BY <1>8, <2>1, <2>3
  <2>4. QED
    BY <2>2, <2>3
<1>15. QED
  BY <1>6, <1>11, <1>12, <1>13, <1>14

-----------------------------------------------------------------------------
(***************************************************************************)
(* The first state.                                                        *)
(***************************************************************************)
LEMMA EmptyLists ==
  /\ <<>> \in Datagrams /\ Increasing(<<>>) /\ \A n : Below(<<>>, n)
  /\ \A e : e \notin ToSet(<<>>)
<1>1. <<>> \in Datagrams /\ Increasing(<<>>) /\ \A n : Below(<<>>, n)
  BY DEF Increasing, Below
<1>2. \A e : e \notin ToSet(<<>>)
  <2>1. DOMAIN <<>> = {}
    OBVIOUS
  <2>2. QED
    BY <2>1, MemberOf
<1>3. QED
  BY <1>1, <1>2

LEMMA FreshQueueIsInLine ==
  /\ FreshQueue \in Queues
  /\ FreshQueue.queued = <<>> /\ FreshQueue.last = 0 /\ FreshQueue.held = 0
  /\ FreshQueue.lastOffered = 0 /\ FreshQueue.acknowledged = 0
<1>1. 0 \in SequencesOrNone
  BY CommandAssumption DEF CommandAssumption
<1>. HIDE DEF Datagrams, SequencesOrNone
<1>2. QED
  BY <1>1, EmptyLists DEF FreshQueue, Queues

LEMMA FreshViewIsTyped ==
  ASSUME NEW n \in Nat
  PROVE  /\ FreshView(n) \in ServerViews /\ FreshView(n).inMatch
         /\ FreshView(n).started = n /\ FreshView(n).acknowledged = 0
         /\ [FreshView(n) EXCEPT !.inMatch = FALSE] \in ServerViews
         /\ ~[FreshView(n) EXCEPT !.inMatch = FALSE].inMatch
         /\ [FreshView(n) EXCEPT !.inMatch = FALSE].started = n
         /\ [FreshView(n) EXCEPT !.inMatch = FALSE].acknowledged = 0
<1>1. 0 \in SequencesOrNone /\ TRUE \in Flags /\ FALSE \in Flags
  BY CommandAssumption DEF CommandAssumption, Flags
<1>. HIDE DEF SequencesOrNone
<1>2. QED
  BY <1>1 DEF FreshView, ServerViews

LEMMA DeliveryStarts == Init => DeliveryIInv
<1>. SUFFICES ASSUME Init PROVE DeliveryIInv
  OBVIOUS
<1>1. /\ playedMatch = 0 /\ inMatch = FALSE /\ serverTick = 0 /\ queue = FreshQueue /\ taking = <<>>
      /\ toClient = <<>> /\ commands = {} /\ states = {}
      /\ view = [FreshView(0) EXCEPT !.inMatch = FALSE]
      /\ stream = [startedMatch |-> 0, unacknowledged |-> <<>>, next |-> 1]
      /\ sentIn = [s \in Sequence |-> 0] /\ simulated = <<>>
      /\ firedTicks = [s \in Sequence |-> 0] /\ coasted = 0 /\ dropped = {}
  BY Zenon DEF Init
<1>2. /\ MaxSequence \in Nat /\ MaxServerTicks \in Nat /\ MaxPlayedMatches \in Nat
      /\ Capacity \in Nat /\ MaxHeld \in Nat
  BY CommandAssumption DEF CommandAssumption
<1>3. ServerTyped
  <2>1. inMatch \in Flags
    BY <1>1, Zenon DEF Flags
  <2>2. Len(queue.queued) <= Capacity /\ queue.held <= MaxHeld
    BY <1>1, <1>2, FreshQueueIsInLine
  <2>3. queue \in Queues /\ taking \in Datagrams
    BY <1>1, FreshQueueIsInLine, EmptyLists, Zenon
  <2>4. playedMatch \in Nat /\ playedMatch <= MaxPlayedMatches /\ serverTick \in Nat /\ serverTick <= MaxServerTicks
    BY <1>1, <1>2
  <2>5. QED
    BY <2>1, <2>2, <2>3, <2>4, Zenon DEF ServerTyped
<1>4. ClientTyped /\ LinkTyped
  <2>1. view \in ServerViews
    BY <1>1, FreshViewIsTyped
  <2>2. stream \in CommandStreams
    <3>. HIDE DEF Datagrams
    <3>1. QED
      BY <1>1, EmptyLists DEF CommandStreams
  <2>3. stream.next >= 1 /\ stream.next <= MaxSequence + 1
    BY <1>1, <1>2
  <2>4. QED
    BY <1>1, <2>1, <2>2, <2>3 DEF ClientTyped, LinkTyped
<1>5. HistoryTyped
  BY <1>1, EmptyLists DEF HistoryTyped
<1>6. EverythingMade /\ QueueInLine /\ RunInLine
  <2>1. EverythingMade
    BY <1>1, EmptyLists DEF EverythingMade, Made
  <2>2. QueueInLine
    BY <1>1, EmptyLists, FreshQueueIsInLine DEF QueueInLine
  <2>3. RunInLine
    BY <1>1, EmptyLists, FreshQueueIsInLine, SequencesCount DEF RunInLine
  <2>4. QED
    BY <2>1, <2>2, <2>3
<1>7. MatchesInStep
  BY <1>1, FreshViewIsTyped DEF MatchesInStep, StartComes
<1>8. SentBeforeNow /\ AcknowledgedBehind
  BY <1>1, FreshViewIsTyped, FreshQueueIsInLine DEF SentBeforeNow, AcknowledgedBehind
<1>9. OfferedSettled /\ CarriedSettled /\ TakingSettled /\ SentSettled
  BY <1>1, FreshQueueIsInLine, SequencesCount
  DEF OfferedSettled, CarriedSettled, TakingSettled, SentSettled, OfNow
<1>10. QED
  BY <1>3, <1>4, <1>5, <1>6, <1>7, <1>8, <1>9 DEF DeliveryIInv

-----------------------------------------------------------------------------
(***************************************************************************)
(* The client's steps.                                                     *)
(***************************************************************************)
(* CommandStream::Tick: what it drops of this match's is settled.          *)
LEMMA ClientTickKeeps ==
  ASSUME DeliveryIInv, ClientTick
  PROVE  DeliveryIInv'
<1>. DEFINE n == stream.next
            unheard == Unacknowledged
            sent == Newest(unheard)
<1>1. /\ view.inMatch /\ n <= MaxSequence
      /\ stream' = [startedMatch |-> view.started, unacknowledged |-> sent, next |-> n + 1]
      /\ commands' = commands \cup {sent}
      /\ dropped' = dropped \cup (ToSet(unheard) \ ToSet(sent))
      /\ sentIn' = [sentIn EXCEPT ![n] = view.started]
      /\ UNCHANGED <<playedMatch, inMatch, serverTick, queue, taking, toClient, states, view, simulated,
                     firedTicks, coasted>>
  BY Zenon DEF ClientTick, serverVars
<1>2. /\ ServerTyped /\ ClientTyped /\ LinkTyped /\ HistoryTyped
      /\ EverythingMade /\ QueueInLine /\ RunInLine
      /\ MatchesInStep /\ SentBeforeNow /\ AcknowledgedBehind
      /\ OfferedSettled /\ CarriedSettled /\ TakingSettled /\ SentSettled
  BY Zenon DEF DeliveryIInv
<1>3. n \in Nat /\ n \in Sequence /\ MaxSequence \in Nat
  <2>1. n \in Nat /\ n >= 1
    BY <1>2, Zenon DEF ClientTyped, CommandStreams
  <2>2. QED
    BY <1>1, <2>1, CommandAssumption DEF Sequence, CommandAssumption
<1>4. Made(stream.unacknowledged)
  BY <1>2, Zenon DEF EverythingMade
<1>5. /\ unheard \in Datagrams /\ unheard # <<>> /\ Increasing(unheard)
      /\ LastOf(unheard) = n /\ Below(unheard, n + 1) /\ n \in ToSet(unheard)
      /\ stream.startedMatch = view.started =>
           \A s \in ToSet(stream.unacknowledged) : s <= view.acknowledged \/ s \in ToSet(unheard)
  BY <1>2, <1>3, <1>4, UnacknowledgedAreOwed
<1>. HIDE DEF unheard
<1>6. /\ sent \in Datagrams /\ Increasing(sent) /\ Len(sent) >= 1 /\ Len(sent) <= Carried
      /\ ToSet(sent) \subseteq ToSet(unheard) /\ LastOf(sent) = n /\ Below(sent, n + 1)
  <2>1. n + 1 \in Nat
    BY <1>3
  <2>2. QED
    BY <1>5, <2>1, NewestAreLast
<1>7. n \in ToSet(sent)
  <2>1. Len(sent) \in Nat /\ Len(sent) \in DOMAIN sent
    BY <1>6
  <2>2. QED
    BY <1>6, <2>1, MemberOf DEF LastOf
<1>. HIDE DEF sent
<1>8. stream'.startedMatch = view.started /\ stream'.unacknowledged = sent /\ stream'.next = n + 1
  BY <1>1
<1>9. view.started \in Nat /\ view.started = playedMatch
  <2>1. view.started \in Nat
    BY <1>2, Zenon DEF ClientTyped, ServerViews
  <2>2. QED
    BY <1>1, <1>2, <2>1 DEF MatchesInStep
<1>10. sentIn \in [Sequence -> Nat] /\ sentIn' \in [Sequence -> Nat]
       /\ \A s \in Sequence : sentIn'[s] = IF s = n THEN view.started ELSE sentIn[s]
  BY <1>1, <1>2, <1>3, <1>9 DEF HistoryTyped
<1>11. ServerTyped' /\ ClientTyped' /\ LinkTyped' /\ HistoryTyped'
  <2>1. ServerTyped'
    BY <1>1, <1>2 DEF ServerTyped
  <2>2. ClientTyped'
    <3>1. stream' \in CommandStreams
      <4>. HIDE DEF Datagrams, n
      <4>1. n + 1 \in Nat
        BY <1>3
      <4>2. QED
        BY <1>1, <1>6, <1>9, <4>1 DEF CommandStreams
    <3>2. n + 1 >= 1 /\ n + 1 <= MaxSequence + 1
      BY <1>1, <1>3
    <3>3. QED
      BY <1>1, <1>2, <1>8, <3>1, <3>2 DEF ClientTyped
  <2>3. LinkTyped'
    <3>. HIDE DEF Datagrams
    <3>1. QED
      BY <1>1, <1>2, <1>6 DEF LinkTyped
  <2>4. HistoryTyped'
    <3>1. ToSet(unheard) \subseteq Sequence
      BY <1>5, MemberOf
    <3>. HIDE DEF Datagrams
    <3>2. QED
      BY <1>1, <1>2, <1>10, <3>1 DEF HistoryTyped
  <2>5. QED
    BY <2>1, <2>2, <2>3, <2>4
<1>12. ASSUME NEW s \in Datagrams, Below(s, n) PROVE Below(s, n + 1)
  <2>1. ASSUME NEW i \in DOMAIN s PROVE s[i] < n + 1
    <3>1. s[i] \in Sequence /\ s[i] < n
      BY <1>12 DEF Below
    <3>2. s[i] \in Nat
      BY <3>1, SequencesCount
    <3>3. QED
      BY <1>3, <3>1, <3>2
  <2>2. QED
    BY <2>1 DEF Below
<1>13. EverythingMade'
  <2>1. taking \in Datagrams /\ commands \in SUBSET Datagrams
    BY <1>2, Zenon DEF ServerTyped, LinkTyped
  <2>2. /\ Increasing(taking) /\ Below(taking, n + 1)
        /\ \A datagram \in commands : Increasing(datagram) /\ Below(datagram, n + 1)
    BY <1>2, <1>12, <2>1 DEF EverythingMade, Made
  <2>3. \A datagram \in commands' : Increasing(datagram) /\ Below(datagram, stream'.next)
    BY <1>1, <1>6, <1>8, <2>2
  <2>4. Increasing(taking') /\ Below(taking', stream'.next)
    BY <1>1, <1>8, <2>2
  <2>5. Increasing(stream'.unacknowledged) /\ Below(stream'.unacknowledged, stream'.next)
    BY <1>6, <1>8
  <2>6. QED
    BY <2>3, <2>4, <2>5 DEF EverythingMade, Made
<1>14. QueueInLine' /\ RunInLine'
  <2>1. queue.lastOffered \in Nat
    BY <1>2, SequencesCount, Zenon DEF ServerTyped, Queues
  <2>2. queue.lastOffered < n + 1
    BY <1>2, <1>3, <2>1 DEF QueueInLine
  <2>3. QueueInLine'
    BY <1>1, <1>2, <1>8, <2>2 DEF QueueInLine
  <2>4. QED
    BY <1>1, <1>2, <2>3 DEF RunInLine
<1>15. MatchesInStep' /\ AcknowledgedBehind'
  BY <1>1, <1>2 DEF MatchesInStep, StartComes, AcknowledgedBehind
<1>16. SentBeforeNow'
  <2>1. stream.startedMatch \in Nat /\ stream.startedMatch <= view.started
        /\ \A s \in Sequence : sentIn[s] <= stream.startedMatch
    BY <1>2, Zenon DEF SentBeforeNow, ClientTyped, CommandStreams
  <2>2. \A s \in Sequence : sentIn'[s] <= view.started
    BY <1>9, <1>10, <2>1
  <2>3. QED
    BY <1>1, <1>8, <1>9, <2>2 DEF SentBeforeNow
<1>17. ASSUME NEW s PROVE Settled(s) => Settled(s)'
  BY <1>1 DEF Settled
<1>18. ASSUME NEW s \in Sequence, s # n PROVE OfNow(s)' => OfNow(s)
  BY <1>1, <1>10, <1>18 DEF OfNow
<1>19. OfferedSettled'
  <2>1. ASSUME NEW s \in Sequence, s <= queue.lastOffered PROVE s # n
    <3>1. s \in Nat /\ queue.lastOffered \in Nat /\ queue.lastOffered < n
      BY <1>2, SequencesCount, Zenon DEF ServerTyped, Queues, QueueInLine
    <3>2. QED
      BY <1>3, <2>1, <3>1
  <2>2. QED
    BY <1>1, <1>2, <1>17, <1>18, <2>1 DEF OfferedSettled
<1>20. ASSUME NEW s \in Datagrams, Made(s), Len(s) >= 1 PROVE LastOf(s) \in Nat /\ LastOf(s) < n
  <2>1. Len(s) \in Nat /\ Len(s) \in DOMAIN s
    BY <1>20
  <2>2. LastOf(s) \in Sequence
    BY <2>1 DEF LastOf
  <2>3. QED
    BY <1>20, <2>1, <2>2, SequencesCount DEF LastOf, Made, Below
<1>21. TakingSettled'
  <2>1. SUFFICES ASSUME taking # <<>>, NEW s \in Sequence, s < LastOf(taking), OfNow(s)'
                 PROVE  Settled(s)' \/ s \in ToSet(taking) \/ s \in ToSet(queue.queued)
    BY <1>1 DEF TakingSettled
  <2>2. taking \in Datagrams /\ Made(taking)
    BY <1>2, Zenon DEF ServerTyped, EverythingMade
  <2>3. Len(taking) >= 1
    BY <2>1, <2>2
  <2>4. s # n
    <3>1. LastOf(taking) \in Nat /\ LastOf(taking) < n /\ s \in Nat
      BY <1>20, <2>2, <2>3, SequencesCount
    <3>2. QED
      BY <1>3, <2>1, <3>1
  <2>5. QED
    BY <1>2, <1>17, <1>18, <2>1, <2>4 DEF TakingSettled
<1>22. ASSUME NEW s \in Sequence, OfNow(s), s < n
       PROVE  Settled(s)' \/ s \in ToSet(sent)
  <2>1. s \in Nat /\ sentIn[s] = playedMatch
    BY <1>22, SequencesCount DEF OfNow
  <2>2. stream.startedMatch = view.started
    <3>1. stream.startedMatch \in Nat /\ stream.startedMatch <= view.started
          /\ sentIn[s] <= stream.startedMatch
      BY <1>2, Zenon DEF SentBeforeNow, ClientTyped, CommandStreams
    <3>2. QED
      BY <1>9, <2>1, <3>1
  <2>3. Settled(s) \/ s \in ToSet(stream.unacknowledged)
    BY <1>2, <1>9, <1>22, <2>2 DEF SentSettled
  <2>4. CASE s \in ToSet(unheard)
    BY <1>1, <2>4 DEF Settled
  <2>5. CASE s <= view.acknowledged
    <3>1. /\ view.acknowledged \in Nat /\ queue.acknowledged \in Nat /\ queue.lastOffered \in Nat
          /\ queue.queued \in Datagrams
      BY <1>2, SequencesCount, Zenon DEF ServerTyped, ClientTyped, ServerViews, Queues
    <3>2. view.acknowledged <= queue.acknowledged /\ queue.acknowledged <= queue.lastOffered
      BY <1>2, <1>9 DEF AcknowledgedBehind, QueueInLine
    <3>3. s <= queue.acknowledged /\ s <= queue.lastOffered
      BY <2>1, <2>5, <3>1, <3>2
    <3>4. Settled(s) \/ s \in ToSet(queue.queued)
      BY <1>2, <1>22, <3>3 DEF OfferedSettled
    <3>5. s \notin ToSet(queue.queued)
      <4>1. ASSUME NEW i \in DOMAIN queue.queued, queue.queued[i] = s PROVE FALSE
        <5>1. queue.acknowledged < s
          BY <1>2, <4>1 DEF QueueInLine
        <5>2. QED
          BY <2>1, <3>1, <3>3, <5>1
      <4>2. QED
        BY <4>1, MemberOf
    <3>6. QED
      BY <1>17, <3>4, <3>5
  <2>6. QED
    BY <1>5, <1>17, <2>2, <2>3, <2>4, <2>5
<1>23. CarriedSettled'
  <2>1. SUFFICES ASSUME NEW datagram \in commands \cup {sent}, NEW s \in Sequence,
                        OfNow(s)', s < LastOf(datagram)
                 PROVE  Settled(s)' \/ s \in ToSet(datagram)
    BY <1>1 DEF CarriedSettled
  <2>2. CASE datagram \in commands
    <3>1. datagram \in Datagrams /\ Made(datagram) /\ Len(datagram) >= 1
      BY <1>2, <2>2 DEF LinkTyped, EverythingMade
    <3>2. s # n
      <4>1. LastOf(datagram) \in Nat /\ LastOf(datagram) < n /\ s \in Nat
        BY <1>20, <3>1, SequencesCount
      <4>2. QED
        BY <1>3, <2>1, <4>1
    <3>3. QED
      BY <1>2, <1>17, <1>18, <2>1, <2>2, <3>2 DEF CarriedSettled
  <2>3. CASE datagram = sent
    <3>1. s < n /\ s # n
      BY <1>3, <1>6, <2>1, <2>3, SequencesCount
    <3>2. QED
      BY <1>18, <1>22, <2>1, <2>3, <3>1
  <2>4. QED
    BY <2>1, <2>2, <2>3
<1>24. SentSettled'
  <2>1. SUFFICES ASSUME NEW s \in Sequence, OfNow(s)', s < n + 1
                 PROVE  Settled(s)' \/ s \in ToSet(sent)
    BY <1>8 DEF SentSettled
  <2>2. CASE s = n
    BY <1>7, <2>2
  <2>3. CASE s # n
    <3>1. s < n
      BY <1>3, <2>1, <2>3, SequencesCount
    <3>2. QED
      BY <1>18, <1>22, <2>1, <2>3, <3>1
  <2>4. QED
    BY <2>2, <2>3
<1>25. QED
  BY <1>11, <1>13, <1>14, <1>15, <1>16, <1>19, <1>21, <1>23, <1>24, Zenon DEF DeliveryIInv

(***************************************************************************)
(* What may be on its way, told apart.                                     *)
(***************************************************************************)
LEMMA ShortLists ==
  ASSUME NEW T, NEW a \in T, NEW b \in T
  PROVE  /\ Head(<<a>>) = a /\ Tail(<<a>>) = <<>> /\ <<a>> # <<>>
         /\ Head(<<a, b>>) = a /\ Tail(<<a, b>>) = <<b>> /\ <<a, b>> # <<>> /\ <<a, b>> # <<a>>
         /\ <<a, b>> # <<b>> /\ a # b => <<a>> # <<b>>
         /\ Append(<<>>, b) = <<b>> /\ Append(<<a>>, b) = <<a, b>>
<1>1. ASSUME NEW s \in Seq(T), NEW t \in Seq(T), Len(s) = Len(t)
      PROVE  /\ Len(s) = 0 => s = t
             /\ Len(s) = 1 /\ s[1] = t[1] => s = t
             /\ Len(s) = 2 /\ s[1] = t[1] /\ s[2] = t[2] => s = t
  <2>1. (\A i \in 1..Len(s) : s[i] = t[i]) => s = t
    BY <1>1
  <2>2. \A i \in 1..0 : FALSE
    OBVIOUS
  <2>3. \A i \in 1..1 : i = 1
    OBVIOUS
  <2>4. \A i \in 1..2 : i = 1 \/ i = 2
    OBVIOUS
  <2>5. QED
    BY <2>1, <2>2, <2>3, <2>4
<1>2. /\ <<a>> \in Seq(T) /\ Len(<<a>>) = 1 /\ <<a>>[1] = a
      /\ <<b>> \in Seq(T) /\ Len(<<b>>) = 1 /\ <<b>>[1] = b
      /\ <<a, b>> \in Seq(T) /\ Len(<<a, b>>) = 2 /\ <<a, b>>[1] = a /\ <<a, b>>[2] = b
      /\ <<>> \in Seq(T) /\ Len(<<>>) = 0
  OBVIOUS
<1>3. Head(<<a>>) = a /\ Head(<<a, b>>) = a
  OBVIOUS
<1>4. /\ <<a>> # <<>> /\ <<a, b>> # <<>> /\ <<a, b>> # <<a>> /\ <<a, b>> # <<b>>
      /\ a # b => <<a>> # <<b>>
  BY <1>2
<1>. DEFINE one == <<a>>
            other == <<b>>
            both == <<a, b>>
<1>5. /\ one \in Seq(T) /\ Len(one) = 1 /\ one[1] = a /\ one # <<>>
      /\ other \in Seq(T) /\ Len(other) = 1 /\ other[1] = b
      /\ both \in Seq(T) /\ Len(both) = 2 /\ both[1] = a /\ both[2] = b /\ both # <<>>
      /\ <<>> \in Seq(T) /\ Len(<<>>) = 0
  BY <1>2, <1>4
<1>. HIDE DEF one, other, both
<1>6. Tail(one) = <<>> /\ Tail(both) = other
  <2>1. /\ Tail(one) \in Seq(T) /\ Len(Tail(one)) = 0
        /\ Tail(both) \in Seq(T) /\ Len(Tail(both)) = 1 /\ Tail(both)[1] = b
    BY <1>5
  <2>2. QED
    BY <1>1, <1>5, <2>1, Zenon
<1>7. Append(<<>>, b) = other /\ Append(one, b) = both
  <2>1. /\ Append(<<>>, b) \in Seq(T) /\ Len(Append(<<>>, b)) = 1 /\ Append(<<>>, b)[1] = b
    BY <1>5
  <2>2. Append(one, b) \in Seq(T) /\ Len(Append(one, b)) = 2
    BY <1>5
  <2>3. Append(one, b)[1] = a
    BY <1>5
  <2>4. Append(one, b)[2] = b
    <3>1. \A s \in Seq(T) : Append(s, b)[Len(s) + 1] = b
      OBVIOUS
    <3>2. Append(one, b)[Len(one) + 1] = b
      BY <1>5, <3>1, Zenon
    <3>3. Len(one) + 1 = 2
      BY <1>5
    <3>4. QED
      BY <3>2, <3>3, Zenon
  <2>5. QED
    BY <1>1, <1>5, <2>1, <2>2, <2>3, <2>4, Zenon
<1>8. QED
  BY <1>3, <1>4, <1>6, <1>7 DEF one, other, both

LEMMA WordsOnTheirWay ==
  /\ Head(<<"MatchStart">>) = "MatchStart" /\ Tail(<<"MatchStart">>) = <<>>
  /\ Head(<<"MatchStart", "MatchEnd">>) = "MatchStart"
  /\ Tail(<<"MatchStart", "MatchEnd">>) = <<"MatchEnd">>
  /\ Head(<<"MatchEnd">>) = "MatchEnd" /\ Tail(<<"MatchEnd">>) = <<>>
  /\ Append(<<>>, "MatchEnd") = <<"MatchEnd">>
  /\ Append(<<"MatchStart">>, "MatchEnd") = <<"MatchStart", "MatchEnd">>
  /\ "MatchStart" # "MatchEnd"
  /\ <<"MatchEnd">> # <<>> /\ <<"MatchStart">> # <<>> /\ <<"MatchStart", "MatchEnd">> # <<>>
  /\ <<"MatchStart">> # <<"MatchEnd">> /\ <<"MatchStart", "MatchEnd">> # <<"MatchEnd">>
  /\ <<"MatchStart", "MatchEnd">> # <<"MatchStart">>
<1>1. "MatchStart" # "MatchEnd"
  OBVIOUS
<1>2. "MatchStart" \in {"MatchStart", "MatchEnd"} /\ "MatchEnd" \in {"MatchStart", "MatchEnd"}
  OBVIOUS
<1>3. QED
  BY <1>1, <1>2, ShortLists, ZenonT(60)

(***************************************************************************)
(* What only the view, the reliable stream or the match changes by keeps   *)
(* the lists and what is settled.                                          *)
(***************************************************************************)
ListsKept ==
  UNCHANGED <<playedMatch, serverTick, queue, taking, commands, states, stream, historyVars>>

LEMMA ListsAreKept ==
  ASSUME DeliveryIInv, ListsKept
  PROVE  /\ LinkTyped' /\ HistoryTyped' /\ EverythingMade' /\ QueueInLine' /\ RunInLine'
         /\ OfferedSettled' /\ CarriedSettled' /\ TakingSettled'
<1>1. /\ LinkTyped /\ HistoryTyped /\ EverythingMade /\ QueueInLine /\ RunInLine
      /\ OfferedSettled /\ CarriedSettled /\ TakingSettled
  BY Zenon DEF DeliveryIInv
<1>2. /\ LinkTyped' /\ HistoryTyped' /\ EverythingMade' /\ QueueInLine' /\ RunInLine'
  BY <1>1 DEF ListsKept, historyVars, LinkTyped, HistoryTyped, EverythingMade, Made, QueueInLine, RunInLine
<1>3. OfferedSettled' /\ CarriedSettled' /\ TakingSettled'
  BY <1>1 DEF ListsKept, historyVars, OfferedSettled, CarriedSettled, TakingSettled, Settled, OfNow
<1>4. QED
  BY <1>2, <1>3

(* What the client knows is of a match, whose commands are its own.        *)
LEMMA ViewIsTyped ==
  ASSUME DeliveryIInv
  PROVE  /\ view \in ServerViews /\ view.started \in Nat /\ view.inMatch \in Flags
         /\ view.acknowledged \in Nat /\ playedMatch \in Nat /\ inMatch \in Flags
         /\ stream.startedMatch \in Nat /\ stream.startedMatch <= view.started
         /\ queue.acknowledged \in Nat
<1>1. ServerTyped /\ ClientTyped /\ SentBeforeNow
  BY Zenon DEF DeliveryIInv
<1>2. /\ view \in ServerViews /\ view.started \in Nat /\ view.inMatch \in Flags
      /\ view.acknowledged \in Nat /\ playedMatch \in Nat /\ inMatch \in Flags
      /\ stream.startedMatch \in Nat /\ stream.startedMatch <= view.started
      /\ queue.acknowledged \in Nat
  BY <1>1, SequencesCount, Zenon
  DEF ServerTyped, ClientTyped, SentBeforeNow, ServerViews, Queues, CommandStreams
<1>3. QED
  BY <1>2

(* Inbox::OnMatchStart: nothing sent is of the match that starts.          *)
LEMMA HearMatchStartKeeps ==
  ASSUME DeliveryIInv, HearMatchStart
  PROVE  DeliveryIInv'
<1>1. /\ toClient # <<>> /\ Head(toClient) = "MatchStart"
      /\ view' = FreshView(view.started + 1) /\ toClient' = Tail(toClient)
      /\ UNCHANGED <<playedMatch, inMatch, serverTick, queue, taking, commands, states, stream, historyVars>>
  BY Zenon DEF HearMatchStart, serverVars
<1>2. /\ ServerTyped /\ ClientTyped /\ MatchesInStep /\ SentBeforeNow /\ AcknowledgedBehind
  BY Zenon DEF DeliveryIInv
<1>3. /\ LinkTyped' /\ HistoryTyped' /\ EverythingMade' /\ QueueInLine' /\ RunInLine'
      /\ OfferedSettled' /\ CarriedSettled' /\ TakingSettled'
  BY <1>1, ListsAreKept DEF ListsKept
<1>4. view.started \in Nat /\ view.started + 1 \in Nat /\ stream.startedMatch \in Nat
      /\ stream.startedMatch <= view.started
  BY ViewIsTyped
<1>5. view' \in ServerViews /\ view'.inMatch /\ view'.started = view.started + 1 /\ view'.acknowledged = 0
  BY <1>1, <1>4, FreshViewIsTyped
<1>6. StartComes /\ toClient' \in {<<>>, <<"MatchEnd">>} /\ (inMatch => toClient' = <<>>)
  BY <1>1, <1>2, WordsOnTheirWay, Zenon DEF MatchesInStep, StartComes
<1>7. ServerTyped' /\ ClientTyped'
  BY <1>1, <1>2, <1>5 DEF ServerTyped, ClientTyped
<1>8. MatchesInStep'
  <2>1. view'.started = playedMatch /\ ~StartComes'
    BY <1>2, <1>5, <1>6 DEF MatchesInStep, StartComes
  <2>2. QED
    BY <1>1, <1>2, <1>6, <2>1 DEF MatchesInStep
<1>9. SentBeforeNow'
  BY <1>1, <1>2, <1>4, <1>5 DEF SentBeforeNow, historyVars
<1>10. AcknowledgedBehind'
  <2>1. queue.acknowledged >= 0
    BY ViewIsTyped
  <2>2. QED
    BY <1>1, <1>2, <1>5, <2>1 DEF AcknowledgedBehind
<1>11. SentSettled'
  <2>1. stream.startedMatch # view.started + 1
    BY <1>4
  <2>2. QED
    BY <1>1, <1>5, <2>1 DEF SentSettled
<1>12. QED
  BY <1>3, <1>7, <1>8, <1>9, <1>10, <1>11, Zenon DEF DeliveryIInv

(* Inbox::OnMatchEnd.                                                      *)
LEMMA HearMatchEndKeeps ==
  ASSUME DeliveryIInv, HearMatchEnd
  PROVE  DeliveryIInv'
<1>1. /\ toClient # <<>> /\ Head(toClient) = "MatchEnd"
      /\ view' = [FreshView(view.started) EXCEPT !.inMatch = FALSE] /\ toClient' = Tail(toClient)
      /\ UNCHANGED <<playedMatch, inMatch, serverTick, queue, taking, commands, states, stream, historyVars>>
  BY Zenon DEF HearMatchEnd, serverVars
<1>2. /\ ServerTyped /\ ClientTyped /\ MatchesInStep /\ SentBeforeNow /\ AcknowledgedBehind /\ SentSettled
  BY Zenon DEF DeliveryIInv
<1>3. /\ LinkTyped' /\ HistoryTyped' /\ EverythingMade' /\ QueueInLine' /\ RunInLine'
      /\ OfferedSettled' /\ CarriedSettled' /\ TakingSettled'
  BY <1>1, ListsAreKept DEF ListsKept
<1>4. view.started \in Nat
  BY ViewIsTyped
<1>5. view' \in ServerViews /\ ~view'.inMatch /\ view'.started = view.started /\ view'.acknowledged = 0
  BY <1>1, <1>4, FreshViewIsTyped
<1>6. ~StartComes /\ toClient' = <<>> /\ ~inMatch
  BY <1>1, <1>2, WordsOnTheirWay, Zenon DEF MatchesInStep, StartComes
<1>7. ServerTyped' /\ ClientTyped'
  BY <1>1, <1>2, <1>5 DEF ServerTyped, ClientTyped
<1>8. MatchesInStep'
  <2>1. view'.started = playedMatch /\ ~StartComes'
    BY <1>2, <1>5, <1>6 DEF MatchesInStep, StartComes
  <2>2. QED
    BY <1>1, <1>2, <1>6, <2>1 DEF MatchesInStep
<1>9. SentBeforeNow'
  BY <1>1, <1>2, <1>5 DEF SentBeforeNow, historyVars
<1>10. AcknowledgedBehind'
  <2>1. queue.acknowledged >= 0
    BY ViewIsTyped
  <2>2. QED
    BY <1>1, <1>2, <1>5, <2>1 DEF AcknowledgedBehind
<1>11. SentSettled'
  BY <1>1, <1>2, <1>5 DEF SentSettled, OfNow, Settled, historyVars
<1>12. QED
  BY <1>3, <1>7, <1>8, <1>9, <1>10, <1>11, Zenon DEF DeliveryIInv

(* Inbox::OnAuthoritativeState: a state of this match is behind the queue. *)
LEMMA HearStateKeeps ==
  ASSUME DeliveryIInv, HearState
  PROVE  DeliveryIInv'
<1>1. /\ view.inMatch
      /\ UNCHANGED <<playedMatch, inMatch, serverTick, queue, taking, toClient, commands, states, stream, historyVars>>
  BY Zenon DEF HearState, serverVars, linkVars
<1>2. PICK state \in states :
        /\ IsNews(state)
        /\ view' = [view EXCEPT !.tick = state.tick, !.acknowledged = state.acknowledged]
  BY Zenon DEF HearState
<1>3. /\ ServerTyped /\ ClientTyped /\ LinkTyped /\ MatchesInStep /\ SentBeforeNow /\ AcknowledgedBehind
      /\ SentSettled
  BY Zenon DEF DeliveryIInv
<1>4. /\ LinkTyped' /\ HistoryTyped' /\ EverythingMade' /\ QueueInLine' /\ RunInLine'
      /\ OfferedSettled' /\ CarriedSettled' /\ TakingSettled'
  BY <1>1, ListsAreKept DEF ListsKept
<1>5. view \in ServerViews /\ state \in States
  BY <1>3, ViewIsTyped DEF LinkTyped
<1>6. /\ view' \in ServerViews /\ view'.inMatch = view.inMatch /\ view'.started = view.started
      /\ view'.acknowledged = state.acknowledged
  <2>. HIDE DEF SequencesOrNone
  <2>1. QED
    BY <1>2, <1>5 DEF ServerViews, States
<1>7. view.started = playedMatch /\ state.match = playedMatch
  BY <1>1, <1>2, <1>3 DEF MatchesInStep, IsNews
<1>8. ServerTyped' /\ ClientTyped'
  BY <1>1, <1>3, <1>6 DEF ServerTyped, ClientTyped
<1>9. MatchesInStep' /\ SentBeforeNow'
  BY <1>1, <1>3, <1>6 DEF MatchesInStep, StartComes, SentBeforeNow, historyVars
<1>10. AcknowledgedBehind'
  BY <1>1, <1>3, <1>6, <1>7 DEF AcknowledgedBehind
<1>11. SentSettled'
  BY <1>1, <1>3, <1>6 DEF SentSettled, OfNow, Settled, historyVars
<1>12. QED
  BY <1>4, <1>8, <1>9, <1>10, <1>11, Zenon DEF DeliveryIInv

(* Match start: no command made so far is of it.                           *)
LEMMA StartMatchKeeps ==
  ASSUME DeliveryIInv, ServerStartsMatch
  PROVE  DeliveryIInv'
<1>1. /\ ~inMatch /\ playedMatch < MaxPlayedMatches /\ toClient = <<>> /\ ~view.inMatch
      /\ inMatch' = TRUE /\ playedMatch' = playedMatch + 1 /\ queue' = FreshQueue
      /\ toClient' = <<"MatchStart">>
      /\ simulated' = <<>> /\ firedTicks' = [s \in Sequence |-> 0] /\ coasted' = 0
      /\ UNCHANGED <<serverTick, taking, commands, states, view, stream, sentIn, dropped>>
  BY Zenon DEF ServerStartsMatch, clientVars
<1>2. /\ ServerTyped /\ ClientTyped /\ LinkTyped /\ HistoryTyped /\ EverythingMade
      /\ MatchesInStep /\ SentBeforeNow /\ AcknowledgedBehind
  BY Zenon DEF DeliveryIInv
<1>3. /\ playedMatch \in Nat /\ playedMatch + 1 \in Nat /\ view.started = playedMatch /\ taking = <<>>
      /\ MaxPlayedMatches \in Nat /\ Capacity \in Nat /\ MaxHeld \in Nat /\ playedMatch + 1 <= MaxPlayedMatches
  <2>1. playedMatch \in Nat /\ MaxPlayedMatches \in Nat /\ Capacity \in Nat /\ MaxHeld \in Nat
    BY ViewIsTyped, CommandAssumption DEF CommandAssumption
  <2>2. view.started = playedMatch /\ taking = <<>>
    BY <1>1, <1>2 DEF MatchesInStep, StartComes
  <2>3. QED
    BY <1>1, <2>1, <2>2
<1>4. ServerTyped'
  <2>1. inMatch' \in Flags
    BY <1>1, Zenon DEF Flags
  <2>2. queue' \in Queues /\ Len(queue'.queued) <= Capacity /\ queue'.held <= MaxHeld
    BY <1>1, <1>3, FreshQueueIsInLine
  <2>3. QED
    BY <1>1, <1>2, <1>3, <2>1, <2>2 DEF ServerTyped
<1>5. ClientTyped' /\ LinkTyped' /\ HistoryTyped'
  BY <1>1, <1>2, EmptyLists DEF ClientTyped, LinkTyped, HistoryTyped
<1>6. EverythingMade'
  BY <1>1, <1>2 DEF EverythingMade, Made
<1>7. QueueInLine' /\ RunInLine'
  <2>1. 0 < stream.next
    BY <1>2 DEF ClientTyped, CommandStreams
  <2>2. QueueInLine'
    BY <1>1, <2>1, EmptyLists, FreshQueueIsInLine DEF QueueInLine
  <2>3. RunInLine'
    BY <1>1, EmptyLists, FreshQueueIsInLine, SequencesCount DEF RunInLine
  <2>4. QED
    BY <2>2, <2>3
<1>8. MatchesInStep'
  BY <1>1, <1>3 DEF MatchesInStep, StartComes
<1>9. SentBeforeNow'
  BY <1>1, <1>2 DEF SentBeforeNow
<1>10. AcknowledgedBehind'
  <2>1. ASSUME NEW state \in states PROVE state.match <= playedMatch + 1 /\ state.match # playedMatch + 1
    <3>1. state.match \in Nat /\ state.match <= playedMatch
      BY <1>2 DEF AcknowledgedBehind, LinkTyped, States
    <3>2. QED
      BY <1>3, <3>1
  <2>2. view.started # playedMatch + 1
    BY <1>3
  <2>3. QED
    BY <1>1, <2>1, <2>2 DEF AcknowledgedBehind
<1>11. ASSUME NEW s \in Sequence PROVE ~OfNow(s)'
  <2>1. sentIn[s] \in Nat /\ sentIn[s] <= stream.startedMatch
    BY <1>2 DEF HistoryTyped, SentBeforeNow
  <2>2. stream.startedMatch \in Nat /\ stream.startedMatch <= playedMatch
    BY <1>3, ViewIsTyped
  <2>3. sentIn[s] # playedMatch + 1
    BY <1>3, <2>1, <2>2
  <2>4. QED
    BY <1>1, <2>3 DEF OfNow
<1>12. OfferedSettled' /\ CarriedSettled' /\ TakingSettled' /\ SentSettled'
  BY <1>11 DEF OfferedSettled, CarriedSettled, TakingSettled, SentSettled
<1>13. QED
  BY <1>4, <1>5, <1>6, <1>7, <1>8, <1>9, <1>10, <1>12, Zenon DEF DeliveryIInv

(* Match end: the word goes to the client behind what it has not heard.    *)
LEMMA EndMatchKeeps ==
  ASSUME DeliveryIInv, ServerEndsMatch
  PROVE  DeliveryIInv'
<1>1. /\ inMatch /\ taking = <<>> /\ inMatch' = FALSE /\ toClient' = Append(toClient, "MatchEnd")
      /\ UNCHANGED <<playedMatch, serverTick, queue, taking, commands, states, view, stream, historyVars>>
  BY Zenon DEF ServerEndsMatch, clientVars
<1>2. /\ ServerTyped /\ ClientTyped /\ MatchesInStep /\ SentBeforeNow /\ AcknowledgedBehind /\ SentSettled
  BY Zenon DEF DeliveryIInv
<1>3. /\ LinkTyped' /\ HistoryTyped' /\ EverythingMade' /\ QueueInLine' /\ RunInLine'
      /\ OfferedSettled' /\ CarriedSettled' /\ TakingSettled'
  BY <1>1, ListsAreKept DEF ListsKept
<1>4. inMatch' \in Flags
  BY <1>1, Zenon DEF Flags
<1>5. ServerTyped' /\ ClientTyped'
  BY <1>1, <1>2, <1>4 DEF ServerTyped, ClientTyped
<1>6. MatchesInStep'
  <2>1. toClient \in {<<>>, <<"MatchStart">>}
    BY <1>1, <1>2 DEF MatchesInStep
  <2>2. /\ toClient = <<>> => toClient' = <<"MatchEnd">>
        /\ toClient = <<"MatchStart">> => toClient' = <<"MatchStart", "MatchEnd">>
    BY <1>1, WordsOnTheirWay
  <2>3. StartComes' <=> StartComes
    BY <2>1, <2>2, WordsOnTheirWay, Zenon DEF StartComes
  <2>. HIDE DEF StartComes
  <2>4. toClient' \in {<<>>, <<"MatchStart">>, <<"MatchStart", "MatchEnd">>, <<"MatchEnd">>}
    BY <2>1, <2>2
  <2>5. QED
    BY <1>1, <1>2, <2>3, <2>4 DEF MatchesInStep
<1>7. SentBeforeNow' /\ AcknowledgedBehind' /\ SentSettled'
  BY <1>1, <1>2 DEF SentBeforeNow, AcknowledgedBehind, SentSettled, OfNow, Settled, historyVars
<1>8. QED
  BY <1>3, <1>5, <1>6, <1>7, Zenon DEF DeliveryIInv

-----------------------------------------------------------------------------
(***************************************************************************)
(* The server's steps.                                                     *)
(***************************************************************************)
(* The queue as it stands: its fields, apart.                              *)
LEMMA QueueIsTyped ==
  ASSUME DeliveryIInv
  PROVE  /\ queue \in Queues /\ queue.queued \in Datagrams /\ Len(queue.queued) <= Capacity
         /\ queue.last \in Nat /\ queue.held \in Nat /\ queue.held <= MaxHeld
         /\ queue.lastOffered \in Nat /\ queue.acknowledged \in Nat
         /\ queue.acknowledged <= queue.lastOffered
         /\ \A s \in ToSet(queue.queued) :
              s \in Sequence /\ s \in Nat /\ queue.acknowledged < s /\ s <= queue.lastOffered
         /\ Capacity \in Nat /\ Capacity >= 1 /\ MaxHeld \in Nat
<1>1. ServerTyped /\ QueueInLine
  BY Zenon DEF DeliveryIInv
<1>2. /\ queue \in Queues /\ queue.queued \in Datagrams /\ Len(queue.queued) <= Capacity
      /\ queue.last \in Nat /\ queue.held \in Nat /\ queue.held <= MaxHeld
      /\ queue.lastOffered \in Nat /\ queue.acknowledged \in Nat
      /\ queue.acknowledged <= queue.lastOffered
  BY <1>1, SequencesCount, Zenon DEF ServerTyped, Queues, QueueInLine
<1>3. ASSUME NEW s \in ToSet(queue.queued)
      PROVE  s \in Sequence /\ s \in Nat /\ queue.acknowledged < s /\ s <= queue.lastOffered
  <2>1. PICK i \in DOMAIN queue.queued : queue.queued[i] = s
    BY MemberOf
  <2>2. s \in Sequence
    BY <1>2, <2>1
  <2>3. QED
    BY <1>1, <2>1, <2>2, SequencesCount DEF QueueInLine
<1>4. Capacity \in Nat /\ Capacity >= 1 /\ MaxHeld \in Nat
  BY CommandAssumption DEF CommandAssumption
<1>5. QED
  BY <1>2, <1>3, <1>4

(* What a tick leaves of the queue and of what was run.                    *)
QueueMovedOn ==
  /\ queue' \in Queues /\ Len(queue'.queued) <= Capacity /\ queue'.held <= MaxHeld
  /\ HistoryTyped' /\ QueueInLine' /\ RunInLine'
  /\ queue.acknowledged <= queue'.acknowledged /\ queue'.lastOffered = queue.lastOffered
  /\ \A s : s \in ToSet(simulated) => s \in ToSet(simulated')
  /\ \A s : s \in ToSet(queue.queued) => s \in ToSet(queue'.queued) \/ s \in ToSet(simulated')

(* CommandQueue::Next, a command queued: it has not run nor fired.         *)
LEMMA NextQueuedMovesOn ==
  ASSUME DeliveryIInv, NextQueued, UNCHANGED <<stream, sentIn, dropped>>
  PROVE  QueueMovedOn
<1>. DEFINE s == Head(queue.queued)
            rest == Tail(queue.queued)
<1>1. /\ queue.queued # <<>>
      /\ queue' = [queue EXCEPT !.queued = rest, !.last = s, !.held = 0, !.acknowledged = s]
      /\ simulated' = Append(simulated, s)
      /\ firedTicks' = [firedTicks EXCEPT ![s] = @ + 1]
      /\ coasted' = 0
      /\ stream' = stream /\ sentIn' = sentIn /\ dropped' = dropped
  <2>1. queue' = [queue EXCEPT !.queued = Tail(@), !.last = s, !.held = 0, !.acknowledged = s]
    BY Zenon DEF NextQueued
  <2>2. QED
    BY <2>1, Zenon DEF NextQueued
<1>2. HistoryTyped /\ QueueInLine /\ RunInLine /\ Increasing(queue.queued)
  BY Zenon DEF DeliveryIInv, QueueInLine
<1>3. /\ queue \in Queues /\ queue.queued \in Datagrams /\ Len(queue.queued) <= Capacity
      /\ queue.lastOffered \in Nat /\ queue.acknowledged \in Nat
      /\ \A e \in ToSet(queue.queued) :
           e \in Sequence /\ e \in Nat /\ queue.acknowledged < e /\ e <= queue.lastOffered
      /\ Capacity \in Nat /\ MaxHeld \in Nat
  BY QueueIsTyped
<1>4. /\ rest \in Datagrams /\ Increasing(rest) /\ Len(rest) = Len(queue.queued) - 1
      /\ s \in Sequence /\ s \in ToSet(queue.queued)
      /\ ToSet(queue.queued) = {s} \cup ToSet(rest)
      /\ \A i \in DOMAIN rest : s < rest[i] /\ rest[i] \in ToSet(queue.queued)
  BY <1>1, <1>2, <1>3, OneLess
<1>. HIDE DEF s, rest
<1>5. s \in Nat /\ queue.acknowledged < s /\ s <= queue.lastOffered /\ s \in SequencesOrNone
  BY <1>3, <1>4, SequencesCount
<1>6. /\ queue' \in Queues /\ queue'.queued = rest /\ queue'.last = s /\ queue'.held = 0
      /\ queue'.acknowledged = s /\ queue'.lastOffered = queue.lastOffered
  <2>. HIDE DEF Datagrams, SequencesOrNone
  <2>1. QED
    BY <1>1, <1>3, <1>4, <1>5 DEF Queues
<1>7. Len(queue'.queued) <= Capacity /\ queue'.held <= MaxHeld
  <2>1. Len(queue.queued) \in Nat /\ Len(rest) \in Nat
    BY <1>3, <1>4
  <2>2. QED
    BY <1>3, <1>4, <1>6, <2>1
<1>8. simulated \in Datagrams /\ Increasing(simulated) /\ Below(simulated, s)
      /\ \A i \in DOMAIN simulated : simulated[i] \in Nat /\ simulated[i] < s
  <2>1. simulated \in Datagrams /\ Increasing(simulated)
    BY <1>2, Zenon DEF HistoryTyped, RunInLine
  <2>2. ASSUME NEW i \in DOMAIN simulated PROVE simulated[i] \in Nat /\ simulated[i] < s
    <3>1. simulated[i] \in Sequence
      BY <2>1
    <3>2. simulated[i] <= queue.acknowledged
      BY <1>2 DEF RunInLine
    <3>3. simulated[i] \in Nat
      BY <3>1, SequencesCount, Zenon
    <3>4. QED
      BY <1>3, <1>5, <3>2, <3>3
  <2>3. QED
    BY <2>1, <2>2 DEF Below
<1>9. /\ simulated' \in Datagrams /\ Increasing(simulated')
      /\ ToSet(simulated') = ToSet(simulated) \cup {s}
  BY <1>1, <1>4, <1>8, OneMore
<1>10. /\ firedTicks \in [Sequence -> Nat] /\ firedTicks' \in [Sequence -> Nat]
       /\ \A e \in Sequence : firedTicks'[e] = IF e = s THEN firedTicks[s] + 1 ELSE firedTicks[e]
  BY SMTT(30), <1>1, <1>2, <1>4 DEF HistoryTyped
<1>11. HistoryTyped'
  BY <1>1, <1>2, <1>9, <1>10, Zenon DEF HistoryTyped
<1>12. QueueInLine'
  <2>1. \A i \in DOMAIN rest : s < rest[i] /\ rest[i] <= queue.lastOffered
    BY <1>3, <1>4
  <2>2. queue.lastOffered < stream.next
    BY <1>2 DEF QueueInLine
  <2>3. QED
    BY <1>1, <1>4, <1>5, <1>6, <2>1, <2>2 DEF QueueInLine
<1>13. RunInLine'
  <2>1. ASSUME NEW i \in DOMAIN simulated' PROVE simulated'[i] <= s
    <3>1. simulated'[i] \in ToSet(simulated) \cup {s}
      BY <1>9, MemberOf
    <3>2. \A e \in ToSet(simulated) : e \in Nat /\ e < s
      BY <1>8, MemberOf
    <3>3. QED
      BY <1>5, <3>1, <3>2
  <2>2. ASSUME NEW e \in Sequence PROVE firedTicks'[e] <= 1 /\ (e > s => firedTicks'[e] = 0)
    <3>1. firedTicks[e] \in Nat /\ firedTicks[e] <= 1 /\ (e > queue.acknowledged => firedTicks[e] = 0)
          /\ firedTicks[s] = 0
      BY <1>2, <1>4, <1>5, <1>10 DEF RunInLine
    <3>2. e \in Nat
      BY SequencesCount
    <3>3. CASE e = s
      BY <1>5, <1>10, <3>1, <3>3
    <3>4. CASE e # s
      <4>1. firedTicks'[e] = firedTicks[e]
        BY <1>10, <3>4
      <4>2. e > s => e > queue.acknowledged
        BY <1>3, <1>5, <3>2
      <4>3. QED
        BY <3>1, <4>1, <4>2
    <3>5. QED
      BY <3>3, <3>4
  <2>3. QED
    BY <1>1, <1>6, <1>9, <2>1, <2>2 DEF RunInLine
<1>14. queue.acknowledged <= queue'.acknowledged
  BY <1>3, <1>5, <1>6
<1>15. \A e : e \in ToSet(queue.queued) => e \in ToSet(queue'.queued) \/ e \in ToSet(simulated')
  BY <1>4, <1>6, <1>9
<1>16. \A e : e \in ToSet(simulated) => e \in ToSet(simulated')
  BY <1>9
<1>17. QED
  BY <1>6, <1>7, <1>11, <1>12, <1>13, <1>14, <1>15, <1>16, Zenon DEF QueueMovedOn

(* Nothing queued: the last command held for at most MaxHeld ticks.        *)
LEMMA NextHeldMovesOn ==
  ASSUME DeliveryIInv, NextHeld, UNCHANGED <<stream, sentIn, dropped>>
  PROVE  QueueMovedOn
<1>1. /\ stream' = stream /\ sentIn' = sentIn /\ dropped' = dropped
      /\ simulated' = simulated /\ firedTicks' = firedTicks
      /\ \/ queue.held < MaxHeld /\ queue' = [queue EXCEPT !.held = queue.held + 1]
            /\ coasted' = coasted + 1
         \/ queue' = queue /\ coasted' = 0
  BY Zenon DEF NextHeld, WithoutActions, TicksHeld
<1>2. HistoryTyped /\ QueueInLine /\ RunInLine
  BY Zenon DEF DeliveryIInv
<1>3. /\ queue \in Queues /\ Len(queue.queued) <= Capacity /\ queue.held \in Nat
      /\ queue.held <= MaxHeld /\ MaxHeld \in Nat /\ coasted \in Nat
      /\ queue.acknowledged \in Nat
  BY <1>2, QueueIsTyped DEF HistoryTyped
<1>4. /\ queue' \in Queues /\ queue'.queued = queue.queued /\ queue'.last = queue.last
      /\ queue'.lastOffered = queue.lastOffered /\ queue'.acknowledged = queue.acknowledged
      /\ queue'.held \in Nat /\ queue'.held <= MaxHeld /\ coasted' \in Nat /\ coasted' <= queue'.held
  <2>. HIDE DEF Datagrams, SequencesOrNone
  <2>1. coasted <= queue.held
    BY <1>2 DEF RunInLine
  <2>2. CASE queue' = queue /\ coasted' = 0
    BY <1>3, <2>2
  <2>3. CASE queue.held < MaxHeld /\ queue' = [queue EXCEPT !.held = queue.held + 1]
             /\ coasted' = coasted + 1
    <3>1. /\ queue' \in Queues /\ queue'.queued = queue.queued /\ queue'.last = queue.last
          /\ queue'.lastOffered = queue.lastOffered /\ queue'.acknowledged = queue.acknowledged
          /\ queue'.held = queue.held + 1
      BY SMTT(30), <1>3, <2>3 DEF Queues
    <3>2. QED
      BY SMTT(30), <1>3, <2>1, <2>3, <3>1
  <2>4. QED
    BY <1>1, <2>2, <2>3
<1>5. HistoryTyped'
  BY <1>1, <1>2, <1>4, Zenon DEF HistoryTyped
<1>6. QueueInLine' /\ RunInLine'
  BY <1>1, <1>2, <1>4 DEF QueueInLine, RunInLine
<1>7. queue.acknowledged <= queue'.acknowledged
  BY <1>3, <1>4
<1>8. QED
  BY <1>1, <1>3, <1>4, <1>5, <1>6, <1>7 DEF QueueMovedOn

LEMMA NextIdleMovesOn ==
  ASSUME DeliveryIInv, NextIdle, UNCHANGED <<stream, sentIn, dropped>>
  PROVE  QueueMovedOn
<1>1. UNCHANGED <<queue, simulated, firedTicks, coasted, stream, sentIn, dropped>>
  BY Zenon DEF NextIdle
<1>2. HistoryTyped /\ QueueInLine /\ RunInLine
  BY Zenon DEF DeliveryIInv
<1>3. HistoryTyped' /\ QueueInLine' /\ RunInLine'
  BY <1>1, <1>2 DEF HistoryTyped, QueueInLine, RunInLine
<1>4. /\ queue \in Queues /\ Len(queue.queued) <= Capacity /\ queue.held <= MaxHeld
      /\ queue.acknowledged <= queue.acknowledged
  BY QueueIsTyped
<1>5. QED
  BY <1>1, <1>3, <1>4 DEF QueueMovedOn

(* A tick: what it tells of the queue is what the queue has come to.       *)
LEMMA ServerTickKeeps ==
  ASSUME DeliveryIInv, ServerTick
  PROVE  DeliveryIInv'
<1>1. /\ inMatch /\ taking = <<>> /\ serverTick < MaxServerTicks /\ serverTick' = serverTick + 1
      /\ NextQueued \/ NextHeld \/ NextIdle
      /\ states' = states \cup {[match |-> playedMatch, tick |-> serverTick', acknowledged |-> queue'.acknowledged]}
      /\ UNCHANGED <<playedMatch, inMatch, taking, toClient, commands, view, stream, sentIn, dropped>>
  BY Zenon DEF ServerTick, Acknowledgement, clientVars
<1>2. /\ ServerTyped /\ ClientTyped /\ LinkTyped /\ EverythingMade
      /\ MatchesInStep /\ SentBeforeNow /\ AcknowledgedBehind
      /\ OfferedSettled /\ CarriedSettled /\ SentSettled
  BY Zenon DEF DeliveryIInv
<1>3. QueueMovedOn
  BY <1>1, NextQueuedMovesOn, NextHeldMovesOn, NextIdleMovesOn
<1>4. /\ queue' \in Queues /\ Len(queue'.queued) <= Capacity /\ queue'.held <= MaxHeld
      /\ HistoryTyped' /\ QueueInLine' /\ RunInLine'
      /\ queue.acknowledged <= queue'.acknowledged /\ queue'.lastOffered = queue.lastOffered
      /\ \A s : s \in ToSet(simulated) => s \in ToSet(simulated')
      /\ \A s : s \in ToSet(queue.queued) => s \in ToSet(queue'.queued) \/ s \in ToSet(simulated')
  BY <1>3, Zenon DEF QueueMovedOn
<1>5. playedMatch \in Nat /\ serverTick \in Nat /\ serverTick' \in Nat /\ serverTick' <= MaxServerTicks
  <2>1. playedMatch \in Nat /\ serverTick \in Nat /\ MaxServerTicks \in Nat
    BY <1>2, CommandAssumption, Zenon DEF ServerTyped, CommandAssumption
  <2>2. QED
    BY <1>1, <2>1
<1>6. ServerTyped' /\ ClientTyped'
  BY <1>1, <1>2, <1>4, <1>5, Zenon DEF ServerTyped, ClientTyped
<1>7. LinkTyped'
  <2>1. queue'.acknowledged \in SequencesOrNone
    BY <1>4, Zenon DEF Queues
  <2>2. [match |-> playedMatch, tick |-> serverTick', acknowledged |-> queue'.acknowledged] \in States
    <3>. HIDE DEF SequencesOrNone
    <3>1. QED
      BY <1>5, <2>1 DEF States
  <2>3. QED
    BY <1>1, <1>2, <2>2 DEF LinkTyped
<1>8. EverythingMade' /\ MatchesInStep' /\ SentBeforeNow'
  BY <1>1, <1>2 DEF EverythingMade, Made, MatchesInStep, StartComes, SentBeforeNow
<1>9. queue.acknowledged \in Nat /\ queue'.acknowledged \in Nat /\ view.acknowledged \in Nat
  BY <1>4, QueueIsTyped, ViewIsTyped, SequencesCount, Zenon DEF Queues
<1>10. AcknowledgedBehind'
  <2>1. ASSUME NEW state \in states, state.match = playedMatch
        PROVE  state.acknowledged <= queue'.acknowledged
    <3>1. state.acknowledged \in Nat
      BY <1>2, SequencesCount DEF LinkTyped, States
    <3>2. state.acknowledged <= queue.acknowledged
      BY <1>2, <2>1 DEF AcknowledgedBehind
    <3>3. QED
      BY <1>4, <1>9, <3>1, <3>2
  <2>2. view.started = playedMatch => view.acknowledged <= queue'.acknowledged
    BY <1>2, <1>4, <1>9 DEF AcknowledgedBehind
  <2>3. \A state \in states : state.match <= playedMatch
    BY <1>2 DEF AcknowledgedBehind
  <2>4. playedMatch <= playedMatch /\ queue'.acknowledged <= queue'.acknowledged
    BY <1>5, <1>9
  <2>5. \A state \in states' :
          state.match <= playedMatch /\ (state.match = playedMatch => state.acknowledged <= queue'.acknowledged)
    BY <1>1, <2>1, <2>3, <2>4
  <2>6. QED
    BY <1>1, <2>2, <2>5 DEF AcknowledgedBehind
<1>11. ASSUME NEW s PROVE Settled(s) => Settled(s)'
  BY <1>1, <1>4 DEF Settled
<1>12. OfferedSettled'
  <2>1. ASSUME NEW s PROVE s \in ToSet(queue.queued) => Settled(s)' \/ s \in ToSet(queue'.queued)
    BY <1>4 DEF Settled
  <2>2. QED
    BY <1>1, <1>2, <1>4, <1>11, <2>1 DEF OfferedSettled, OfNow
<1>13. CarriedSettled' /\ SentSettled'
  BY <1>1, <1>2, <1>11 DEF CarriedSettled, SentSettled, OfNow
<1>14. TakingSettled'
  BY <1>1 DEF TakingSettled
<1>15. QED
  BY <1>4, <1>6, <1>7, <1>8, <1>10, <1>12, <1>13, <1>14, Zenon DEF DeliveryIInv

(* CommandQueue::TryEnqueue of a command that is newer and well formed.    *)
LEMMA NewerIsTakenIn ==
  ASSUME DeliveryIInv, NEW s \in Sequence, Valid(queue, s)
  PROVE  LET after == TryEnqueue(queue, s) IN
         /\ after \in Queues /\ Len(after.queued) <= Capacity /\ Increasing(after.queued)
         /\ after.last = queue.last /\ after.held = queue.held
         /\ after.acknowledged = queue.acknowledged /\ after.lastOffered = s
         /\ s \in ToSet(after.queued) /\ ToSet(after.queued) \subseteq ToSet(queue.queued) \cup {s}
<1>. DEFINE taken == Append(queue.queued, s)
            after == TryEnqueue(queue, s)
<1>1. Increasing(queue.queued)
  BY Zenon DEF DeliveryIInv, QueueInLine
<1>2. /\ queue \in Queues /\ queue.queued \in Datagrams /\ Len(queue.queued) <= Capacity
      /\ queue.lastOffered \in Nat
      /\ \A e \in ToSet(queue.queued) : e \in Nat /\ e <= queue.lastOffered
      /\ Capacity \in Nat /\ Capacity >= 1
  BY QueueIsTyped
<1>3. s \in Nat /\ s > queue.lastOffered /\ s \in SequencesOrNone
  BY SequencesCount DEF Valid
<1>4. Below(queue.queued, s)
  <2>1. ASSUME NEW i \in DOMAIN queue.queued PROVE queue.queued[i] < s
    <3>1. queue.queued[i] \in ToSet(queue.queued)
      BY MemberOf
    <3>2. QED
      BY <1>2, <1>3, <3>1
  <2>2. QED
    BY <2>1 DEF Below
<1>5. /\ taken \in Datagrams /\ Increasing(taken) /\ Len(taken) = Len(queue.queued) + 1
      /\ ToSet(taken) = ToSet(queue.queued) \cup {s} /\ LastOf(taken) = s
  BY <1>1, <1>2, <1>4, OneMore
<1>6. after = [queue EXCEPT !.lastOffered = s, !.queued = Kept(taken)]
  BY DEF TryEnqueue
<1>. HIDE DEF taken, after
<1>7. Len(queue.queued) \in Nat /\ Len(taken) \in Nat
  BY <1>2, <1>5
<1>8. /\ Kept(taken) \in Datagrams /\ Increasing(Kept(taken)) /\ Len(Kept(taken)) <= Capacity
      /\ s \in ToSet(Kept(taken)) /\ ToSet(Kept(taken)) \subseteq ToSet(taken)
  <2>1. CASE Len(taken) > Capacity
    <3>1. Kept(taken) = Tail(taken)
      BY <2>1 DEF Kept
    <3>2. taken # <<>>
      <4>1. Len(taken) # 0
        BY <1>5, <1>7
      <4>2. QED
        BY <4>1
    <3>3. /\ Tail(taken) \in Datagrams /\ Increasing(Tail(taken)) /\ Len(Tail(taken)) = Len(taken) - 1
          /\ ToSet(taken) = {Head(taken)} \cup ToSet(Tail(taken))
          /\ Tail(taken) # <<>> => LastOf(Tail(taken)) = LastOf(taken)
      BY <1>5, <3>2, OneLess
    <3>4. Len(Tail(taken)) <= Capacity /\ Len(Tail(taken)) >= 1
      BY <1>2, <1>5, <1>7, <2>1, <3>3
    <3>5. Tail(taken) # <<>>
      <4>1. \A q \in Datagrams : Len(q) >= 1 => q # <<>>
        OBVIOUS
      <4>2. QED
        BY <3>3, <3>4, <4>1, Zenon
    <3>6. LastOf(Tail(taken)) \in ToSet(Tail(taken))
      BY <3>3, <3>5, OneLess
    <3>7. QED
      BY <1>5, <3>1, <3>3, <3>4, <3>5, <3>6
  <2>2. CASE ~(Len(taken) > Capacity)
    <3>1. Kept(taken) = taken
      BY <2>2 DEF Kept
    <3>2. QED
      BY <1>2, <1>5, <1>7, <2>2, <3>1
  <2>3. QED
    BY <2>1, <2>2
<1>9. /\ after \in Queues /\ after.queued = Kept(taken) /\ after.lastOffered = s
      /\ after.last = queue.last /\ after.held = queue.held /\ after.acknowledged = queue.acknowledged
  <2>. HIDE DEF Datagrams, SequencesOrNone
  <2>1. QED
    BY <1>2, <1>3, <1>6, <1>8 DEF Queues
<1>10. QED
  BY <1>5, <1>8, <1>9 DEF after

(* Host::Impl::HandleCommands, one command: what its queue gives up is     *)
(* settled, and so is what a datagram passes over.                         *)
LEMMA HandleCommandsKeeps ==
  ASSUME DeliveryIInv, HandleCommands
  PROVE  DeliveryIInv'
<1>1. PICK datagram \in IF taking = <<>> THEN commands ELSE {taking} :
        /\ inMatch
        /\ queue' = TryEnqueue(queue, Head(datagram)) /\ taking' = Tail(datagram)
        /\ dropped' = dropped \cup (ToSet(queue.queued) \ ToSet(queue'.queued))
        /\ UNCHANGED <<playedMatch, inMatch, serverTick, toClient, commands, states, view, stream, sentIn,
                       simulated, firedTicks, coasted>>
  BY Zenon DEF HandleCommands, linkVars, clientVars
<1>. DEFINE s == Head(datagram)
<1>2. /\ ServerTyped /\ ClientTyped /\ LinkTyped /\ HistoryTyped
      /\ EverythingMade /\ QueueInLine /\ RunInLine
      /\ MatchesInStep /\ SentBeforeNow /\ AcknowledgedBehind
      /\ OfferedSettled /\ CarriedSettled /\ TakingSettled /\ SentSettled
  BY Zenon DEF DeliveryIInv
<1>3. datagram \in Datagrams /\ datagram # <<>> /\ Made(datagram)
  <2>1. CASE taking = <<>>
    <3>1. datagram \in commands
      BY <1>1, <2>1
    <3>2. datagram \in Datagrams /\ Len(datagram) >= 1 /\ Made(datagram)
      BY <1>2, <3>1 DEF LinkTyped, EverythingMade
    <3>3. QED
      BY <3>2
  <2>2. CASE taking # <<>>
    BY <1>1, <1>2, <2>2 DEF ServerTyped, EverythingMade
  <2>3. QED
    BY <2>1, <2>2
<1>4. ASSUME NEW t \in Sequence, OfNow(t), t < LastOf(datagram)
      PROVE  Settled(t) \/ t \in ToSet(datagram) \/ t \in ToSet(queue.queued)
  <2>1. CASE taking = <<>>
    <3>1. datagram \in commands
      BY <1>1, <2>1
    <3>2. QED
      BY <1>2, <1>4, <3>1 DEF CarriedSettled
  <2>2. CASE taking # <<>>
    BY <1>1, <1>2, <1>4, <2>2 DEF TakingSettled
  <2>3. QED
    BY <2>1, <2>2
<1>5. /\ taking' \in Datagrams /\ Increasing(taking') /\ Made(datagram)
      /\ s \in Sequence
      /\ ToSet(datagram) = {s} \cup ToSet(taking')
      /\ \A t \in ToSet(datagram) : s <= t
      /\ taking' # <<>> => LastOf(taking') = LastOf(datagram)
      /\ Below(taking', stream.next)
      /\ s <= LastOf(datagram) /\ LastOf(datagram) \in ToSet(datagram)
  <2>1. stream.next \in Nat /\ Increasing(datagram) /\ Below(datagram, stream.next)
    BY <1>2, <1>3, Zenon DEF ClientTyped, CommandStreams, Made
  <2>2. /\ Tail(datagram) \in Datagrams /\ Increasing(Tail(datagram))
        /\ s \in Sequence /\ s \in ToSet(datagram)
        /\ ToSet(datagram) = {s} \cup ToSet(Tail(datagram))
        /\ \A i \in DOMAIN datagram : s <= datagram[i]
        /\ Tail(datagram) # <<>> => LastOf(Tail(datagram)) = LastOf(datagram)
        /\ \A n \in Nat : Below(datagram, n) => Below(Tail(datagram), n)
        /\ s <= LastOf(datagram) /\ LastOf(datagram) \in ToSet(datagram)
    BY <1>3, <2>1, OneLess
  <2>3. \A t \in ToSet(datagram) : s <= t
    BY <2>2, MemberOf
  <2>4. QED
    BY <1>1, <1>3, <2>1, <2>2, <2>3
<1>6. s \in Nat /\ s < stream.next
  <2>1. s \in ToSet(datagram)
    BY <1>5
  <2>2. PICK i \in DOMAIN datagram : datagram[i] = s
    BY <2>1, MemberOf
  <2>3. QED
    BY <1>3, <1>5, <2>2, SequencesCount DEF Made, Below
<1>7. queue' = TryEnqueue(queue, s)
  BY <1>1
<1>. HIDE DEF s
<1>8. /\ queue.queued \in Datagrams /\ queue.lastOffered \in Nat /\ queue.acknowledged \in Nat
      /\ queue.acknowledged <= queue.lastOffered /\ Len(queue.queued) <= Capacity
      /\ queue.held <= MaxHeld /\ queue \in Queues
      /\ \A e \in ToSet(queue.queued) :
           e \in Sequence /\ e \in Nat /\ queue.acknowledged < e /\ e <= queue.lastOffered
  BY QueueIsTyped
<1>9. ASSUME ~Valid(queue, s) PROVE queue' = queue /\ (s \in Malformed \/ s <= queue.lastOffered)
  BY <1>6, <1>7, <1>8, <1>9 DEF TryEnqueue, Valid
<1>10. ASSUME Valid(queue, s)
       PROVE  /\ queue' \in Queues /\ Len(queue'.queued) <= Capacity /\ Increasing(queue'.queued)
              /\ queue'.last = queue.last /\ queue'.held = queue.held
              /\ queue'.acknowledged = queue.acknowledged /\ queue'.lastOffered = s
              /\ s \in ToSet(queue'.queued)
              /\ ToSet(queue'.queued) \subseteq ToSet(queue.queued) \cup {s}
              /\ s > queue.lastOffered
  <2>1. s > queue.lastOffered
    BY <1>10 DEF Valid
  <2>2. QED
    BY <1>5, <1>7, <1>10, <2>1, NewerIsTakenIn
<1>11. /\ queue' \in Queues /\ Len(queue'.queued) <= Capacity /\ queue'.held <= MaxHeld
       /\ queue'.held = queue.held /\ queue'.last = queue.last
       /\ queue'.acknowledged = queue.acknowledged
  BY <1>8, <1>9, <1>10
<1>12. ServerTyped' /\ ClientTyped' /\ LinkTyped' /\ HistoryTyped'
  <2>1. ServerTyped'
    BY <1>1, <1>2, <1>5, <1>11 DEF ServerTyped
  <2>2. ClientTyped' /\ LinkTyped'
    BY <1>1, <1>2 DEF ClientTyped, LinkTyped
  <2>3. dropped' \in SUBSET Sequence
    BY <1>1, <1>2, <1>8 DEF HistoryTyped
  <2>4. HistoryTyped'
    BY <1>1, <1>2, <2>3 DEF HistoryTyped
  <2>5. QED
    BY <2>1, <2>2, <2>4
<1>13. EverythingMade'
  BY <1>1, <1>2, <1>5 DEF EverythingMade, Made
<1>14. QueueInLine' /\ RunInLine'
  <2>1. CASE ~Valid(queue, s)
    BY <1>1, <1>2, <1>9, <2>1 DEF QueueInLine, RunInLine
  <2>2. CASE Valid(queue, s)
    <3>1. ASSUME NEW i \in DOMAIN queue'.queued
          PROVE  queue'.acknowledged < queue'.queued[i] /\ queue'.queued[i] <= queue'.lastOffered
      <4>1. queue'.queued[i] \in ToSet(queue.queued) \cup {s}
        BY <1>10, <2>2, MemberOf
      <4>2. CASE queue'.queued[i] = s
        BY <1>6, <1>8, <1>10, <2>2, <4>2
      <4>3. CASE queue'.queued[i] \in ToSet(queue.queued)
        BY <1>6, <1>8, <1>10, <2>2, <4>3
      <4>4. QED
        BY <4>1, <4>2, <4>3
    <3>2. queue'.last = queue'.acknowledged /\ queue'.acknowledged <= queue'.lastOffered
      BY <1>2, <1>6, <1>8, <1>10, <2>2 DEF QueueInLine
    <3>3. queue'.lastOffered < stream'.next /\ Increasing(queue'.queued)
      BY <1>1, <1>6, <1>10, <2>2
    <3>4. QueueInLine'
      BY <3>1, <3>2, <3>3 DEF QueueInLine
    <3>5. RunInLine'
      BY <1>1, <1>2, <1>11 DEF RunInLine
    <3>6. QED
      BY <3>4, <3>5
  <2>3. QED
    BY <2>1, <2>2
<1>15. MatchesInStep' /\ SentBeforeNow' /\ AcknowledgedBehind'
  BY <1>1, <1>2, <1>11 DEF MatchesInStep, StartComes, SentBeforeNow, AcknowledgedBehind
<1>16. ASSUME NEW t PROVE /\ Settled(t) => Settled(t)'
                          /\ t \in ToSet(queue.queued) => Settled(t)' \/ t \in ToSet(queue'.queued)
  BY <1>1 DEF Settled
<1>17. ASSUME NEW t \in Sequence PROVE OfNow(t)' <=> OfNow(t)
  BY <1>1 DEF OfNow
<1>18. ASSUME OfNow(s) PROVE Settled(s)' \/ s \in ToSet(queue'.queued)
  <2>1. CASE Valid(queue, s)
    BY <1>10, <2>1
  <2>2. CASE s \in Malformed
    BY <2>2 DEF Settled
  <2>3. CASE s <= queue.lastOffered
    <3>1. Settled(s) \/ s \in ToSet(queue.queued)
      BY <1>2, <1>5, <1>18, <2>3 DEF OfferedSettled
    <3>2. QED
      BY <1>16, <3>1
  <2>4. QED
    BY <1>9, <2>1, <2>2, <2>3
<1>19. OfferedSettled'
  <2>1. SUFFICES ASSUME NEW t \in Sequence, OfNow(t), t <= queue'.lastOffered
                 PROVE  Settled(t)' \/ t \in ToSet(queue'.queued)
    BY <1>17 DEF OfferedSettled
  <2>2. CASE t <= queue.lastOffered
    <3>1. Settled(t) \/ t \in ToSet(queue.queued)
      BY <1>2, <2>1, <2>2 DEF OfferedSettled
    <3>2. QED
      BY <1>16, <3>1
  <2>3. CASE t = s
    BY <1>18, <2>1, <2>3
  <2>4. CASE ~(t <= queue.lastOffered) /\ t # s
    <3>1. t < s /\ t \in Nat
      <4>1. t \in Nat /\ Valid(queue, s)
        BY <1>9, <2>1, <2>4, SequencesCount
      <4>2. QED
        BY <1>6, <1>10, <2>1, <2>4, <4>1
    <3>2. t < LastOf(datagram)
      <4>1. LastOf(datagram) \in Nat
        <5>1. LastOf(datagram) \in Sequence
          BY <1>3, <1>5, MemberOf
        <5>2. QED
          BY <5>1, SequencesCount
      <4>2. QED
        BY <1>5, <1>6, <3>1, <4>1
    <3>3. t \notin ToSet(datagram)
      <4>1. ~(s <= t)
        BY <1>6, <3>1
      <4>2. QED
        BY <1>5, <4>1
    <3>4. QED
      BY <1>4, <1>16, <2>1, <3>2, <3>3
  <2>5. QED
    BY <2>2, <2>3, <2>4
<1>20. CarriedSettled' /\ SentSettled'
  BY <1>1, <1>2, <1>16, <1>17 DEF CarriedSettled, SentSettled
<1>21. TakingSettled'
  <2>1. SUFFICES ASSUME taking' # <<>>, NEW t \in Sequence, OfNow(t), t < LastOf(taking')
                 PROVE  Settled(t)' \/ t \in ToSet(taking') \/ t \in ToSet(queue'.queued)
    BY <1>17 DEF TakingSettled
  <2>2. Settled(t) \/ t \in ToSet(datagram) \/ t \in ToSet(queue.queued)
    BY <1>4, <1>5, <2>1
  <2>3. CASE t = s
    BY <1>18, <2>1, <2>3
  <2>4. CASE t # s
    BY <1>5, <1>16, <2>2, <2>4
  <2>5. QED
    BY <2>3, <2>4
<1>22. QED
  BY <1>12, <1>13, <1>14, <1>15, <1>19, <1>20, <1>21, Zenon DEF DeliveryIInv

-----------------------------------------------------------------------------
LEMMA DeliveryKeeps ==
  ASSUME DeliveryIInv, [Next]_vars
  PROVE  DeliveryIInv'
<1>1. CASE Next
  BY <1>1, ClientTickKeeps, HearMatchStartKeeps, HearMatchEndKeeps, HearStateKeeps,
     HandleCommandsKeeps, ServerTickKeeps, StartMatchKeeps, EndMatchKeeps, Zenon DEF Next
<1>2. CASE UNCHANGED vars
  <2>1. UNCHANGED <<playedMatch, inMatch, serverTick, queue, taking, toClient, commands, states, view, stream,
                    sentIn, simulated, firedTicks, coasted, dropped>>
    BY <1>2, Zenon DEF vars, serverVars, linkVars, clientVars, historyVars
  <2>2. /\ LinkTyped' /\ HistoryTyped' /\ EverythingMade' /\ QueueInLine' /\ RunInLine'
        /\ OfferedSettled' /\ CarriedSettled' /\ TakingSettled'
    BY <2>1, ListsAreKept DEF ListsKept, historyVars
  <2>3. ServerTyped /\ ClientTyped /\ MatchesInStep /\ SentBeforeNow /\ AcknowledgedBehind /\ SentSettled
    BY Zenon DEF DeliveryIInv
  <2>4. ServerTyped' /\ ClientTyped' /\ MatchesInStep'
    BY <2>1, <2>3 DEF ServerTyped, ClientTyped, MatchesInStep, StartComes
  <2>5. SentBeforeNow' /\ AcknowledgedBehind' /\ SentSettled'
    BY <2>1, <2>3 DEF SentBeforeNow, AcknowledgedBehind, SentSettled, OfNow, Settled
  <2>6. QED
    BY <2>2, <2>4, <2>5, Zenon DEF DeliveryIInv
<1>3. QED
  BY <1>1, <1>2

LEMMA DeliveryIsAsWanted == DeliveryIInv => DeliveryInv
<1>. SUFFICES ASSUME DeliveryIInv PROVE DeliveryInv
  OBVIOUS
<1>1. /\ ServerTyped /\ ClientTyped /\ LinkTyped /\ HistoryTyped
      /\ EverythingMade /\ RunInLine /\ SentSettled
  BY Zenon DEF DeliveryIInv
<1>2. MaxPlayedMatches \in Nat /\ MaxServerTicks \in Nat /\ MaxHeld \in Nat /\ Carried \in Nat
  BY CommandAssumption DEF CommandAssumption
<1>3. TypeOK
  <2>1. playedMatch \in 0..MaxPlayedMatches /\ serverTick \in 0..MaxServerTicks
    BY <1>1, <1>2 DEF ServerTyped
  <2>2. inMatch \in BOOLEAN /\ view.acknowledged \in 0..MaxSequence
    BY <1>1, Zenon DEF ServerTyped, ClientTyped, ServerViews, Flags
  <2>3. /\ queue.queued \in Seq(Sequence) /\ Len(queue.queued) <= Capacity
        /\ queue.held \in Nat /\ queue.held <= MaxHeld
    BY QueueIsTyped
  <2>4. queue.held \in 0..MaxHeld
    BY <1>2, <2>3
  <2>5. ASSUME NEW datagram \in commands PROVE Len(datagram) \in 1..Carried
    <3>1. datagram \in Datagrams /\ Len(datagram) >= 1 /\ Len(datagram) <= Carried
      BY <1>1 DEF LinkTyped
    <3>2. Len(datagram) \in Nat
      BY <3>1
    <3>3. QED
      BY <1>2, <3>1, <3>2
  <2>6. QED
    BY <2>1, <2>2, <2>3, <2>4, <2>5, Zenon DEF TypeOK
<1>4. SimulatedInOrder
  BY <1>1 DEF RunInLine, Increasing, SimulatedInOrder
<1>5. FiredOnce
  BY <1>1 DEF RunInLine, FiredOnce
<1>6. CoastsBriefly
  <2>1. coasted \in Nat /\ coasted <= queue.held /\ queue.held \in Nat /\ queue.held <= MaxHeld
    BY <1>1, QueueIsTyped DEF HistoryTyped, RunInLine
  <2>2. QED
    BY <1>2, <2>1 DEF CoastsBriefly
<1>7. ForgottenMeansRun
  <2>1. SUFFICES ASSUME playedMatch = view.started, stream.startedMatch = view.started,
                        NEW s \in 1..(stream.next - 1), sentIn[s] = playedMatch,
                        s \notin ToSet(stream.unacknowledged)
                 PROVE  s \in ToSet(simulated) \cup dropped \cup Malformed
    BY DEF ForgottenMeansRun
  <2>2. stream.next \in Nat /\ stream.next <= MaxSequence + 1 /\ MaxSequence \in Nat
    BY <1>1, CommandAssumption, Zenon DEF ClientTyped, CommandStreams, CommandAssumption
  <2>3. s \in Sequence /\ s < stream.next
    BY <2>2 DEF Sequence
  <2>4. QED
    BY <1>1, <2>1, <2>3 DEF SentSettled, OfNow, Settled
<1>8. QED
  BY <1>3, <1>4, <1>5, <1>6, <1>7, Zenon DEF DeliveryInv

(***************************************************************************)
(* Whatever datagrams are lost, repeated or overtaken, and however matches *)
(* start and end between them: a player's queue runs each command at most  *)
(* once and in order, fires it once, coasts briefly, holds no more than    *)
(* its capacity, and its client forgets no command that is still owed      *)
(* (command_stream.cpp, command_queue.cpp).                                *)
(***************************************************************************)
THEOREM DeliveryInvariant == Spec => []DeliveryInv
<1>1. Init => DeliveryIInv
  BY DeliveryStarts
<1>2. DeliveryIInv /\ [Next]_vars => DeliveryIInv'
  BY DeliveryKeeps
<1>3. DeliveryIInv => DeliveryInv
  BY DeliveryIsAsWanted
<1>4. QED
  BY <1>1, <1>2, <1>3, PTL DEF Spec
=============================================================================
